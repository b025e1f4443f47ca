------------------------------ MODULE Alerting ------------------------------
(***************************************************************************)
(* The engine's alerting, services/alerting.ts: every check result, from   *)
(* whatever source, goes through recordCheckResult, which softens          *)
(* timeouts, detects flapping, recovers the checks that recover with this  *)
(* one, and opens or closes the incidents of the check's alert rules.      *)
(* processOpenAlerts, on a one-minute timer, reminds and escalates.        *)
(*                                                                         *)
(* A handler is one action here: results are handled one after another.    *)
(* AlertRace.tla splits recordCheckResult at its awaits.                   *)
(*                                                                         *)
(* The results table is kept as the three projections the code reads:      *)
(* the last FlapWindow statuses (flap detection), the statuses recorded    *)
(* outside maintenance as far back as a rule looks, and the length of the  *)
(* unbroken run of timeouts.                                               *)
(***************************************************************************)
EXTENDS Integers, Sequences, FiniteSets

CONSTANTS
  Checks,               \* the checks
  Rules,                \* the alert rules
  NoCheck,              \* "recovers together with" nothing
  CheckOf,              \* CheckOf[r]: the check rule r belongs to
  TriggerOn,            \* TriggerOn[r]: "down", or "warn" for warn or down
  ConsecutiveFailures,  \* ConsecutiveFailures[r]: failing results in a row before r fires
  MaxFailures,          \* how far back any rule looks (1000 in the routes)
  Reminding,            \* the rules with renotifyMinutes
  Escalating,           \* the rules with escalateAfterMinutes
  Switchable,           \* the rules somebody may disable and enable
  DependsOn,            \* DependsOn[c]: the parents of check c
  RecoverWith,          \* RecoverWith[c]: config.recoverWithCheckId, or NoCheck
  TimeoutsBeforeDown,   \* TimeoutsBeforeDown[c]: 1..20; 1 for a type that is exempt
  Reports,              \* Reports[c]: what the probe of check c can report
  Maintained,           \* the checks some maintenance window covers
  FlapWindow, FlapStart, FlapStop

Status == {"up", "warn", "down", "unknown"}

\* A "timeout" is a down result whose message reads like no answer in time.
Report == Status \cup {"timeout"}

ASSUME RulesAssumption ==
  /\ CheckOf \in [Rules -> Checks]
  /\ TriggerOn \in [Rules -> {"down", "warn"}]
  /\ MaxFailures \in Nat \ {0}
  /\ ConsecutiveFailures \in [Rules -> 1 .. MaxFailures]
  /\ Reminding \subseteq Rules
  /\ Escalating \subseteq Rules
  /\ Switchable \subseteq Rules

ASSUME ChecksAssumption ==
  /\ NoCheck \notin Checks
  /\ DependsOn \in [Checks -> SUBSET Checks]
  /\ \A c \in Checks : c \notin DependsOn[c]
  /\ RecoverWith \in [Checks -> Checks \cup {NoCheck}]
  /\ TimeoutsBeforeDown \in [Checks -> Nat \ {0}]
  /\ Reports \in [Checks -> SUBSET Report]
  /\ Maintained \subseteq Checks

ASSUME FlapAssumption ==
  /\ FlapWindow \in Nat \ {0}
  /\ FlapStart \in Nat
  /\ FlapStop \in Nat
  /\ FlapStop < FlapStart

VARIABLES
  recent,       \* recent[c]: the last FlapWindow statuses of c, newest first
  counted,      \* counted[c]: its last MaxFailures statuses outside maintenance
  timeoutRun,   \* timeoutRun[c]: timeouts in a row, as far back as the limit looks
  flapping,     \* checks.flapping
  maintenance,  \* the checks inside an active maintenance window
  enabled,      \* the rules with alert_rules.enabled
  openEvents,   \* openEvents[r]: r's rows of alert_events with no resolvedAt, newest
                \* first; each is TRUE once it has escalated
  sent          \* sent[r]: the last message notify() sent through r

vars == <<recent, counted, timeoutRun, flapping, maintenance, enabled, openEvents, sent>>

Note(kind, to) == [kind |-> kind, to |-> to]

-----------------------------------------------------------------------------
\* x in front of s, keeping n elements: the newest rows of a query with LIMIT n.
Push(s, x, n) == IF Len(s) < n THEN <<x>> \o s ELSE SubSeq(<<x>> \o s, 1, n)

\* checks.lastStatus, null before the first result.
LastStatus(c) == IF recent[c] = <<>> THEN "none" ELSE Head(recent[c])

Failing(r, status) == status = "down" \/ (TriggerOn[r] = "warn" /\ status = "warn")

\* judgeTimeout: a timeout is a warning until the run of timeouts is long enough.
JudgeTimeout(c, report) ==
  IF report # "timeout" THEN report
  ELSE IF timeoutRun[c] + 1 >= TimeoutsBeforeDown[c] THEN "down" ELSE "warn"

NextTimeoutRun(c, report) ==
  IF report # "timeout" THEN 0
  ELSE IF timeoutRun[c] + 1 < TimeoutsBeforeDown[c] THEN timeoutRun[c] + 1 ELSE timeoutRun[c]

Changes(s) == Cardinality({i \in 2 .. Len(s) : s[i] # s[i-1]})

\* Mutated form of Flaps: off by one where it stops.
FlapsTooLong(c, window) ==
  IF flapping[c] THEN Changes(window) >= FlapStop ELSE Changes(window) >= FlapStart

\* Flap detection with hysteresis, over the window that includes the new result.
Flaps(c, window) ==
  IF flapping[c] THEN Changes(window) > FlapStop ELSE Changes(window) >= FlapStart

ParentDown(c) == \E p \in DependsOn[c] : LastStatus(p) = "down"

\* resolveFollowers, with its recursion through resolveCheck: the failing checks
\* that recover with c, those that recover with one of these, and so on (the least
\* set that holds c and every failing check that recovers with a member).
RecoversWith(c, S) ==
  /\ c \in S
  /\ \A g \in Checks : LastStatus(g) \in {"down", "warn"} /\ RecoverWith[g] \in S => g \in S

\* Mutated form of RecoveredWith: no recursion.
RecoveredDirectly(c) ==
  { f \in Checks \ {c} : RecoverWith[f] = c /\ LastStatus(f) \in {"down", "warn"} }

RecoveredWith(c) ==
  { f \in Checks \ {c} : \A S \in SUBSET Checks : RecoversWith(c, S) => f \in S }

Followers(c, status) ==
  IF status = "up" /\ LastStatus(c) \notin {"none", "up"} THEN RecoveredWith(c) ELSE {}

-----------------------------------------------------------------------------
Init ==
  /\ recent = [c \in Checks |-> <<>>]
  /\ counted = [c \in Checks |-> <<>>]
  /\ timeoutRun = [c \in Checks |-> 0]
  /\ flapping = [c \in Checks |-> FALSE]
  /\ maintenance = {}
  /\ enabled = Rules
  /\ openEvents = [r \in Rules |-> <<>>]
  /\ sent = [r \in Rules |-> Note("none", {})]

AllFailing(r, statuses) ==
  /\ Len(statuses) >= ConsecutiveFailures[r]
  /\ \A i \in 1 .. ConsecutiveFailures[r] : Failing(r, statuses[i])

\* Mutated forms of the two conditions below, for the mutants of PROJECT.json: the
\* flag from before this result is used; flapping holds back the recovery too; only a change of status closes.
OpensOnOldFlag(r, statuses, flaps) ==
  AllFailing(r, statuses) /\ openEvents[r] = <<>> /\ ~ ParentDown(CheckOf[r]) /\ ~ flapping[CheckOf[r]]

ClosesWhenSettled(r, status) ==
  openEvents[r] # <<>> /\ status # "unknown" /\ ~ Failing(r, status) /\ ~ flapping[CheckOf[r]]

ClosesOnChange(r, status) ==
  openEvents[r] # <<>> /\ status # "unknown" /\ ~ Failing(r, status) /\ LastStatus(CheckOf[r]) # status

\* The body of evaluateAlertRules for one rule, after its check has recorded a
\* result: statuses are the check's counted results and flaps its flapping flag,
\* both with the new result.
Opens(r, statuses, flaps) ==
  /\ AllFailing(r, statuses)
  /\ openEvents[r] = <<>>
  /\ ~ ParentDown(CheckOf[r])
  /\ ~ flaps

Closes(r, status) ==
  /\ openEvents[r] # <<>>
  /\ status # "unknown"
  /\ ~ Failing(r, status)

\* notify's includeEscalation: an escalated incident is heard by everybody.
Audience(escalated) == IF escalated THEN {"primary", "escalation"} ELSE {"primary"}

\* recordCheckResult for every check in DOMAIN new, with status new[x]: one check,
\* and on its recovery the checks that recover with it (whose rules can only
\* close, so their order does not matter).
Record(new) ==
  LET window(x) == Push(recent[x], new[x], FlapWindow)
      graded == (DOMAIN new) \ maintenance
      statuses(x) == Push(counted[x], new[x], MaxFailures)
      judged == { r \in enabled : CheckOf[r] \in graded }
      opened == { r \in judged : Opens(r, statuses(CheckOf[r]), Flaps(CheckOf[r], window(CheckOf[r]))) }
      closed == { r \in judged : Closes(r, new[CheckOf[r]]) }
  IN
    /\ recent' = [x \in Checks |-> IF x \in DOMAIN new THEN window(x) ELSE recent[x]]
    /\ flapping' = [x \in Checks |-> IF x \in DOMAIN new THEN Flaps(x, window(x)) ELSE flapping[x]]
    /\ counted' = [x \in Checks |-> IF x \in graded THEN statuses(x) ELSE counted[x]]
    /\ openEvents' = [r \in Rules |->
         IF r \in opened THEN <<FALSE>> \o openEvents[r]
         ELSE IF r \in closed THEN Tail(openEvents[r])
         ELSE openEvents[r]]
    /\ sent' = [r \in Rules |->
         IF r \in opened THEN Note("triggered", {"primary"})
         ELSE IF r \in closed THEN Note("resolved", Audience(Head(openEvents[r])))
         ELSE sent[r]]

\* recordCheckResult(c, report), called by the scheduler, the agent and collector
\* routes and the push URL.
RecordCheckResult(c, report) ==
  LET status == JudgeTimeout(c, report)
      followers == Followers(c, status)
  IN
    /\ Record([x \in {c} \cup followers |-> IF x = c THEN status ELSE "up"])
    /\ timeoutRun' = [x \in Checks |->
         IF x = c THEN NextTimeoutRun(c, report)
         ELSE IF x \in followers THEN 0 ELSE timeoutRun[x]]
    /\ UNCHANGED <<maintenance, enabled>>

\* resolveCheck: by hand, by the recovery URL, or after the auto-recovery delay.
ResolveCheck(c) == RecordCheckResult(c, "up")

-----------------------------------------------------------------------------
\* Mutated forms of Escalates: an escalated incident escalates again; a check that
\* stopped reporting is passed over.
EscalatesAgain(r) == r \in Escalating

EscalatesKnown(r) ==
  r \in Escalating /\ LastStatus(CheckOf[r]) # "unknown" /\ \E i \in DOMAIN openEvents[r] : ~ openEvents[r][i]

\* processOpenAlerts: over every open incident of an enabled rule whose check is
\* not in maintenance, escalate it once if that is due, else remind if that is
\* due.  Which incidents have been open long enough is up to the clock.
Escalates(r) == r \in Escalating /\ \E i \in DOMAIN openEvents[r] : ~ openEvents[r][i]

ProcessOpenAlerts(escalationDue, reminderDue) ==
  LET live == { r \in enabled : openEvents[r] # <<>> /\ CheckOf[r] \notin maintenance }
      escalated == { r \in live \cap escalationDue : Escalates(r) }
      reminded == (live \cap reminderDue \cap Reminding) \ escalated
  IN
    /\ escalated \cup reminded # {}
    /\ openEvents' = [r \in Rules |->
         IF r \in escalated THEN [i \in DOMAIN openEvents[r] |-> TRUE] ELSE openEvents[r]]
    /\ sent' = [r \in Rules |->
         IF r \in escalated THEN Note("escalated", {"escalation"})
         ELSE IF r \in reminded THEN Note("reminder", Audience(Head(openEvents[r])))
         ELSE sent[r]]
    /\ UNCHANGED <<recent, counted, timeoutRun, flapping, maintenance, enabled>>

-----------------------------------------------------------------------------
\* A maintenance window over c starts or ends (isInMaintenance).
StartMaintenance(c) ==
  /\ c \in Maintained \ maintenance
  /\ maintenance' = maintenance \cup {c}
  /\ UNCHANGED <<recent, counted, timeoutRun, flapping, enabled, openEvents, sent>>

EndMaintenance(c) ==
  /\ c \in maintenance
  /\ maintenance' = maintenance \ {c}
  /\ UNCHANGED <<recent, counted, timeoutRun, flapping, enabled, openEvents, sent>>

\* PATCH /api/alert-rules/:id with enabled: the open incident is left as it is.
SetEnabled(r) ==
  /\ r \in Switchable
  /\ enabled' = IF r \in enabled THEN enabled \ {r} ELSE enabled \cup {r}
  /\ UNCHANGED <<recent, counted, timeoutRun, flapping, maintenance, openEvents, sent>>

Next ==
  \/ \E c \in Checks : \E report \in Reports[c] : RecordCheckResult(c, report)
  \/ \E c \in Checks : ResolveCheck(c)
  \/ \E escalationDue, reminderDue \in SUBSET Rules : ProcessOpenAlerts(escalationDue, reminderDue)
  \/ \E c \in Checks : StartMaintenance(c)
  \/ \E c \in Checks : EndMaintenance(c)
  \/ \E r \in Rules : SetEnabled(r)

Spec == Init /\ [][Next]_vars

\* The scheduler and the agents run every check again and again, so a check that
\* stays in one status records it again (an action of its own for each status: a
\* check may also change its status forever).  The one-minute timer runs whether or
\* not results arrive, and an incident that stays open is due for escalation sooner
\* or later.
RecordsAgain(c, status) ==
  /\ LastStatus(c) = status
  /\ \E report \in Reports[c] : JudgeTimeout(c, report) = status /\ RecordCheckResult(c, report)

TimerFairness(r) ==
  WF_vars(\E escalationDue, reminderDue \in SUBSET Rules :
            r \in escalationDue /\ ProcessOpenAlerts(escalationDue, reminderDue))

FairSpec ==
  /\ Spec
  /\ \A r \in Rules, status \in {"up", "down"} : WF_vars(RecordsAgain(CheckOf[r], status))
  /\ \A r \in Escalating : TimerFairness(r)

-----------------------------------------------------------------------------
TypeOK ==
  /\ recent \in [Checks -> Seq(Status)]
  /\ counted \in [Checks -> Seq(Status)]
  /\ \A c \in Checks : Len(recent[c]) <= FlapWindow /\ Len(counted[c]) <= MaxFailures
  /\ timeoutRun \in [Checks -> Nat]
  /\ \A c \in Checks : timeoutRun[c] < TimeoutsBeforeDown[c]
  /\ flapping \in [Checks -> BOOLEAN]
  /\ maintenance \subseteq Maintained
  /\ enabled \subseteq Rules
  /\ openEvents \in [Rules -> Seq(BOOLEAN)]
  /\ sent \in [Rules -> [kind : {"none", "triggered", "resolved", "reminder", "escalated"},
                         to : SUBSET {"primary", "escalation"}]]

\* A rule never has two open incidents: the new-incident branch of
\* evaluateAlertRules opens one only when the query for an open one found none.
AtMostOneIncident == \A r \in Rules : Len(openEvents[r]) <= 1

\* While a rule that is never disabled has an open incident, the last result its
\* check recorded outside maintenance is failing for the rule, or unknown: no
\* recovery is missed, whichever way it came (a result, a resolve, a check it
\* recovers with), and whatever the reminders and escalations did meanwhile.
OpenIsFailing ==
  \A r \in Rules \ Switchable : openEvents[r] # <<>> =>
    /\ counted[CheckOf[r]] # <<>>
    /\ \/ Failing(r, Head(counted[CheckOf[r]]))
       \/ Head(counted[CheckOf[r]]) = "unknown"

\* A check that is flapping shows it, and one that has settled does not: the flag
\* and the window of results never disagree by more than the hysteresis allows.
FlapHysteresis ==
  \A c \in Checks :
    /\ flapping[c] => Changes(recent[c]) > FlapStop
    /\ ~ flapping[c] => Changes(recent[c]) < FlapStart

\* The subscribers of every rule see what Incident.tla promises.
Incidents == INSTANCE Incident WITH
  phase <- [r \in Rules |->
              IF openEvents[r] = <<>> THEN "closed"
              ELSE IF Head(openEvents[r]) THEN "escalated" ELSE "open"],
  note <- sent

IncidentSpec == Incidents!Spec

\* One outage, one alert: a first message about a check is never sent while one of
\* its parents is down, while the check is flapping or in maintenance, or before
\* the rule's number of results in a row, maintenance left out, were failing.
HeldBack ==
  [][\A r \in Rules : openEvents[r] = <<>> /\ openEvents'[r] # <<>> =>
       /\ \A p \in DependsOn[CheckOf[r]] : LastStatus(p)' # "down"
       /\ ~ flapping'[CheckOf[r]]
       /\ CheckOf[r] \notin maintenance
       /\ AllFailing(r, counted'[CheckOf[r]])]_vars

\* When a check recovers, every check that was failing and recovers with it
\* recovers in the same handler, through chains of any length and round cycles.
FollowersRecover ==
  [][\A c \in Checks, f \in Checks :
       /\ RecoverWith[f] = c
       /\ LastStatus(c) \in {"down", "warn"} /\ LastStatus(c)' = "up"
       => LastStatus(f)' \notin {"down", "warn"}]_vars

Steady(c, status) == Len(recent[c]) = FlapWindow /\ \A i \in 1 .. FlapWindow : recent[c][i] = status

\* Incidents follow their checks, of a rule that is enabled and a check that is out of
\* maintenance: once the check stays up, its incident is closed for good; once it stays
\* down with its parents up, nothing holds the alert back and an incident is open.
IncidentsFollow ==
  \A r \in Rules :
    LET settled(status) == Steady(CheckOf[r], status) /\ CheckOf[r] \notin maintenance /\ r \in enabled
    IN /\ <>[]settled("up") => <>[](openEvents[r] = <<>>)
       /\ <>[](settled("down") /\ \A p \in DependsOn[CheckOf[r]] : LastStatus(p) # "down")
            => <>[](openEvents[r] # <<>>)

\* An incident that stays open is escalated, even if its check stops reporting
\* (a check that stays unknown reports nothing that is fair), unless it is silenced.
EscalatesInTheEnd ==
  \A r \in Escalating :
    openEvents[r] # <<>> ~>
      \/ openEvents[r] = <<>> \/ Head(openEvents[r])
      \/ r \notin enabled \/ CheckOf[r] \in maintenance
=============================================================================
