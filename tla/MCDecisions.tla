---------------------------- MODULE MCDecisions ----------------------------
(* How a status is found: by a probe's questions, by comparison with the    *)
(* run before, and from what a log has got since.  Each part alone.         *)
EXTENDS ProbeRun, Changes, LogTail, Suggestions, Maintenance, Security, Exclusions, TLC

NoLimits == [warnBelow |-> {}, criticalBelow |-> {}, warnAbove |-> {}, criticalAbove |-> {}, latencyWarnMs |-> {}, latencyCriticalMs |-> {}]
Limits == [NoLimits EXCEPT !.criticalBelow = {2}, !.warnAbove = {5}, !.criticalAbove = {7}, !.latencyWarnMs = {2}, !.latencyCriticalMs = {4}]
SomeReadings == {[value |-> {}, latency |-> {}, limits |-> NoLimits], [value |-> {}, latency |-> {3}, limits |-> Limits],
  [value |-> {1}, latency |-> {3}, limits |-> Limits], [value |-> {6}, latency |-> {5}, limits |-> Limits]}


Plain == [os |-> "linux", agent |-> TRUE, server |-> TRUE, printer |-> FALSE, office |-> TRUE, address |-> TRUE, snapshot |-> {}, services |-> {}, found |-> {}, ports |-> {}]
SomeHosts == {Plain,
  [Plain EXCEPT !.services = {"nginx"}, !.found = {"mysqld"}, !.ports = {"80", "443", "3306"}, !.snapshot = {"cpu", "load", "disk", "updates"}],
  [Plain EXCEPT !.services = {"nginx", "apache2", "docker"}, !.ports = {"80", "8006"}, !.snapshot = {"containers", "software"}],
  [Plain EXCEPT !.os = "windows", !.services = {"NTDS", "DNS", "Spooler", "MSSQLSERVER", "vmms"}, !.ports = {"53", "445", "1433"}, !.snapshot = {"offset", "defender", "nic"}],
  [Plain EXCEPT !.os = "other", !.agent = FALSE, !.printer = TRUE, !.office = FALSE, !.ports = {"443"}],
  [Plain EXCEPT !.os = "mac", !.address = FALSE, !.found = {"VeeamBackupSvc", "postfix", "smbd"}, !.ports = {"22", "25"}]}

Row(site, endpoint) == [site |-> site, endpoint |-> endpoint, probe |-> None, tags |-> {}, status |-> "up", enabled |-> TRUE]
TwoSites == [locations |-> {"l"}, sites |-> ("s" :> [location |-> "l", collector |-> FALSE] @@ "t" :> [location |-> None, collector |-> TRUE]), endpoints |-> ("e" :> [site |-> "s", tags |-> {}]), checks |-> ("c" :> Row("s", "e") @@ "d" :> Row("s", None))]
SomeUniverses == {TwoSites}
Nowhere == [locations |-> {}, sites |-> <<>>, endpoints |-> <<>>, checks |-> <<>>]
Saturday == [scope |-> "all", targets |-> {}, enabled |-> TRUE, startsAt |-> None, endsAt |-> None, daysOfWeek |-> {6}, startMinute |-> 1380, durationMinutes |-> 180, offset |-> 0]
SomeTimings == {Saturday, [Saturday EXCEPT !.scope = "group", !.targets = {"g1"}]}
SomeInstants == {10, 9000}
SomeGroupings == {[kind |-> "manual", members |-> {<<"site", "s">>}, target |-> None, rules |-> None],
  [kind |-> "filter", members |-> {}, target |-> "check", rules |-> [match |-> "all", conditions |-> {[field |-> "status", op |-> "is_not", value |-> "up"]}]]}

SomeRules == {[kinds |-> {"login_failed", "bad_agent_key"}, enabled |-> TRUE, threshold |-> 2, perIp |-> TRUE, blocks |-> TRUE]}
AllowlistOff == [enabled |-> FALSE, list |-> {"h"}, agents |-> FALSE]
SomeSettings == {AllowlistOff}
SomeRequests ==
  {[enabled |-> TRUE, list |-> None], [enabled |-> FALSE, list |-> {"h", "w"}]} \cup {[enabled |-> None, list |-> {a}] : a \in Addresses}
\* Changes of the settings and of rules, and events, apart; "w" is nobody's.
NoEvents == Total = 0 /\ rules \in [Rules -> SomeRules] /\ blocks = {} /\ agents = {} /\ challenges = {} /\ evaluating = {}
Settled ==
  /\ sessions = trusted /\ settings = AllowlistOff /\ changing = None
  /\ \A r \in Rules : rules[r].blocks /\ (rules[r].perIp \/ agents \cup challenges = {})
  /\ challenges = {} \/ evaluating = {}
  /\ settingsCache # None => settingsCache.fresh /\ ~settingsCache.behind
Apart ==
  /\ NoEvents \/ Settled
  /\ trusted \cup sessions \cup agents \subseteq {"h"} /\ Cardinality(blocks) <= 1 /\ Cardinality(challenges) <= 1
  /\ Cardinality(evaluating) <= 2 /\ Cardinality(fired) <= 1
  /\ Total = Times({"login_failed", "bad_agent_key"}, Addresses) \/ Total = 1

\* A check of every way to compare and to run; of the metrics, one about a kind of thing.
Subject(type, instance, own) == [type |-> type, instance |-> instance, own |-> own]
SomeSubjects == [trap |-> Subject("trap_match", None, {}), ports |-> Subject("snmp_interfaces", None, {<<"a", "*">>}),
  log |-> Subject("agent_log", None, {<<"a", ",">>}), events |-> Subject("agent_eventlog", None, {<<"1">>}), docker |-> Subject("agent_docker", None, {<<"a", ",", "b">>}),
  disk |-> Subject("host_metric", "mount", {}), cpu |-> Subject("host_metric", None, {<<"a">>})]
List(k, items, all) == [kind |-> k, items |-> items, applyToAll |-> all, groupIds |-> IF all THEN {} ELSE {"g1"}, enabled |-> TRUE]
SomeLists == {List("messages", {<<"a">>, <<",">>}, FALSE), List("event_ids", {<<"1">>, <<"1", "1">>}, TRUE), List("interfaces", {<<"b", "?", "a">>}, TRUE),
  List("mounts", {<<"*", "a", "*", "b">>}, FALSE), List("containers", {<<"b", "*">>, <<"a", ",", "b">>}, TRUE), [List("mounts", {<<"a">>}, TRUE) EXCEPT !.enabled = FALSE]}
SomeMemberships == {<<>>} \cup {[g \in {"g1"} |-> M] : M \in {{"trap", "disk"}, {"log", "docker"}}}
SomeNames == {<<"a">>, <<"b">>, <<"b", "a">>, <<"a", "b">>, <<"b", "a", "b">>, <<"a", "a", "b", "b">>, <<"*">>}
SomeThings == {[name |-> n, text |-> n, id |-> <<>>] : n \in SomeNames} \cup {[name |-> <<>>, text |-> x, id |-> i] : x \in {<<"1">>, <<"b", ",", "b">>}, i \in {<<"1">>, <<"1", "1">>}}
\* The engine's loop and the agent's regular expression: the same answer for every short
\* pattern and name.
Texts(alphabet) == UNION {[1..k -> alphabet] : k \in 0..4}
ASSUME GlobsAgree == \A p \in Texts({"a", "b", "*", "?"}), n \in Texts({"a", "b"}) : globMatch(p, n) <=> namePattern(p, n)

-----------------------------------------------------------------------------
VARIABLE part
vars == <<part, pvars, chvars, tvars, gvars, mvars, secvars, exvars>>

ProbeAtRest == probe = Named("host_cpu", A!EvaluateHost) /\ facts = {} /\ reading = CHOOSE r \in Readings : TRUE
ChangesAtRest == ChangesInit /\ kind = "zone" /\ severity = "warn" /\ hold = Hold
TailAtRest == TailInit /\ ~glob /\ ~fromStart /\ watched = newest /\ newest = CHOOSE p \in Paths : TRUE

SuggestionsAtRest == SuggestionsInit /\ host = Plain
MaintenanceAtRest == /\ u = Nowhere /\ groups = <<>> /\ windows = <<>> /\ now \in Instants /\ (\A t \in Instants : now <= t)
                     /\ cache = None /\ refreshing = {} /\ page = None /\ writes = 0
SecurityAtRest == SecurityInit /\ trusted = {}
ExclusionsAtRest == ExclusionsInit /\ exGroups = <<>>

Init ==
  /\ part \in {"probe", "changes", "log", "suggestions", "maintenance", "security", "exclusions"}
  /\ IF part = "probe" THEN ProbeInit ELSE ProbeAtRest
  /\ IF part = "changes" THEN ChangesInit ELSE ChangesAtRest
  /\ IF part = "log" THEN TailInit ELSE TailAtRest
  /\ IF part = "suggestions" THEN SuggestionsInit ELSE SuggestionsAtRest
  /\ IF part = "maintenance" THEN MaintenanceInit ELSE MaintenanceAtRest
  /\ IF part = "security" THEN SecurityInit ELSE SecurityAtRest
  /\ IF part = "exclusions" THEN ExclusionsInit ELSE ExclusionsAtRest
Next ==
  \/ part = "probe" /\ ProbeNext /\ UNCHANGED <<part, chvars, tvars, gvars, mvars, secvars, exvars>>
  \/ part = "changes" /\ ChangesNext /\ UNCHANGED <<part, pvars, tvars, gvars, mvars, secvars, exvars>>
  \/ part = "log" /\ TailNext /\ UNCHANGED <<part, pvars, chvars, gvars, mvars, secvars, exvars>>
  \/ part = "suggestions" /\ SuggestionsNext /\ UNCHANGED <<part, pvars, chvars, tvars, mvars, secvars, exvars>>
  \/ part = "maintenance" /\ MaintenanceNext /\ UNCHANGED <<part, pvars, chvars, tvars, gvars, secvars, exvars>>
  \/ part = "security" /\ SecurityNext /\ UNCHANGED <<part, pvars, chvars, tvars, gvars, mvars, exvars>>
  \/ part = "exclusions" /\ ExclusionsNext /\ UNCHANGED <<part, pvars, chvars, tvars, gvars, mvars, secvars>>
Spec == Init /\ [][Next]_vars
=============================================================================
