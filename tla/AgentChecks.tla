---------------------------- MODULE AgentChecks ----------------------------
\* How the agent's checks come to their status: src/agent/internal/checks.  The agent
\* reports a value with its status, and the engine applies the thresholds.
EXTENDS Verdicts

-----------------------------------------------------------------------------
\* checks.go
\* A setting `severity' other than warn and down counts as the default.
Severity(set, default) == IF set \in {"warn", "down"} THEN set ELSE default

\* With warn or critical levels set, what was counted is left for the engine to judge.
CountOrFail(f, severity, judged) == IF judged THEN Passed(f) ELSE Fault(f, severity)

\* Run: a type the agent does not know, and a check that panics.
RunUnknown == InOrder(<<Unset("unknownType")>>)
Run(check) == [check EXCEPT !.order = <<Blind("panics", "unknown")>> \o @]

-----------------------------------------------------------------------------
\* services.go
RunService(severity) == InOrder(<<Unset("noName"), Down("unreadable"), Fault("otherState", severity)>>)

RunProcess == InOrder(<<Unset("noName"), Down("listFails"), Down("tooFew"), Warn("tooMany"), Passed("noCpuBaseline")>>)

RunServicesOverview(severity, judged) == InOrder(<<Unset("otherSystem"), Down("listFails"), CountOrFail("failedUnits", severity, judged)>>)

\* files.go: by mode; "absent" and "unreadable" are what os.Stat says of the path.
RunFile(severity) == [
  exists |-> InOrder(<<Unset("noPath"), Down("absent"), Down("unreadable")>>),
  not_exists |-> InOrder(<<Unset("noPath"), Down("unreadable"), Fault("exists", severity)>>),
  age |-> InOrder(<<Unset("noPath"), Down("absent"), Down("unreadable"), Down("noMatchingFiles"), Down("tooOld")>>),
  size |-> InOrder(<<Unset("noPath"), Down("absent"), Down("unreadable"), Unset("isFolder")>>),
  folder |-> InOrder(<<Unset("noPath"), Down("absent"), Unset("isFile"), Down("unreadable"), Passed("truncated")>>),
  checksum |-> InOrder(<<Unset("noPath"), Down("absent"), Unset("isFolder"), Down("unreadable")>>),
  watchdog |-> InOrder(<<Unset("noPath"), Down("absent"), Unset("isFile"), Down("unreadable"), Blind("noBaseline", "up"), Fault("changed", severity)>>),
  unknownMode |-> InOrder(<<Unset("noPath"), Down("absent"), Unset("unknownMode")>>)]

\* logs.go
MatchResult(severity, judged) == <<CountOrFail("matches", severity, judged)>>

RunLog(severity, judged) == InOrder(<<Down("noFileMatches"), Unset("noPath"), Unset("badPattern"), Down("unreadable")>> \o MatchResult(severity, judged))

RunJournal(severity, judged) == InOrder(<<Unset("otherSystem"), Unset("badPattern"), Blind("noBaseline", "up"), Down("readFails")>>
  \o MatchResult(severity, judged))

RunEventLog(severity, judged) == InOrder(<<Unset("otherSystem"), Unset("badPattern"), Blind("noBaseline", "up"), Down("readFails")>>
  \o MatchResult(severity, judged))

\* script.go
ExitStatus == [exit0 |-> "up", exit1 |-> "warn", exit2 |-> "down", otherExit |-> "unknown"]

RunScript(exit) == InOrder(<<Unset("noScriptDir"), Unset("badName"), Down("notFound"), Down("doesNotRun"), Fault("ends", ExitStatus[exit])>>)

RunScheduledTask == InOrder(<<Unset("noName"), Unset("otherSystem"), Down("notFound"), Blind("neverRan", "warn"), Down("failed"), Down("tooOld")>>)

\* docker.go: a container that can't be inspected, restarted, is unhealthy, loops or
\* stands still is a problem.
RunDocker(severity) == InOrder(<<Down("apiFails"), Down("noneMatches"), Fault("problems", severity)>>)

\* tree.go: of several disks one that can't be read is left out.
RunDiskTree(disks) == InOrder(IF disks = 1 THEN <<Down("unreadable"), Passed("partial")>> ELSE <<Passed("unreadable"), Passed("partial")>>)

\* users.go: the list is judged by the engine.
RunUsers == InOrder(<<Unset("otherSystem"), Blind("unreadable", "unknown")>>)

-----------------------------------------------------------------------------
\* platform.go
RunHyperV(all, severity, judged) == InOrder(<<Unset("otherSystem"), Down("listFails"), Down("unparsable"), Down("noneMatches"),
  IF all THEN CountOrFail("stopped", severity, judged) ELSE Down("otherState")>>)

RunPerfCounter == InOrder(<<Unset("otherSystem"), Unset("noCounter"), Down("readFails"), Down("noSamples")>>)

RunVPN == [
  wireguard |-> InOrder(<<Unset("notInstalled"), Unset("noInterface"), Down("readFails"), Down("noHandshake"), Down("tooOld")>>),
  interface |-> InOrder(<<Unset("noInterface"), Down("missing"), Down("interfaceDown")>>)]

\* apcaccess is believed whatever it exits with: no output reads as mains power.
RunUPS == [
  nut |-> InOrder(<<Down("doesNotRun"), Down("exitCode"), Down("lowBattery"), Warn("onBattery")>>),
  apcupsd |-> InOrder(<<Down("doesNotRun"), Blind("exitCode", "up"), Down("lowBattery"), Warn("onBattery")>>)]

RunBackup == [
  borg |-> InOrder(<<Down("listFails"), Down("none"), Down("tooOld")>>),  \* and restic
  veeam |-> InOrder(<<Unset("otherSystem"), Down("none"), Down("unparsable"), Down("failed"), Warn("warning"), Down("tooOld")>>),
  unknownTool |-> InOrder(<<Unset("unknownTool")>>)]

-----------------------------------------------------------------------------
\* probes.go: the engine's checks an agent can run in its network.
ProbePing == InOrder(<<Unset("noHost"), Down("noReply"), Down("lossOrJitterCritical"), Warn("lossOrJitterHigh")>>)

ProbeTCP == InOrder(<<Unset("noHost"), Down("noConnection")>>)

ProbeHTTP == InOrder(<<Unset("noUrl"), Down("requestFails"), Down("redirectsWithoutEnd"), Down("otherStatus"), Down("textMissing"),
  Down("forbiddenText"), Setup("badPattern"), Down("patternUnmatched"), Down("otherFinalUrl"), Down("notJson"), Down("otherJson"),
  Passed("jsonNotNumeric")>>)

ProbeDNS == InOrder(<<Unset("noHostname"), Down("doesNotResolve"), Down("otherValue")>>)

ProbeSSL == InOrder(<<Unset("noHost"), Down("noConnection"), Blind("noCertificate", "warn"), Down("expired"), Down("chainUntrusted"),
  Down("otherName"), Down("expiresCritically"), Warn("expiresSoon")>>)

-----------------------------------------------------------------------------
\* The checks the engine judges from an agent's report: those of the report's metrics
\* (evaluateReportChecks, evaluateEndpointMetric, evaluatePackages) and what it adds to an
\* agent check's own result (evaluateScriptOutput).

\* host_cpu, host_memory, host_disk: a metric that is missing records nothing.
EvaluateHost == InOrder(<<Silent("metricMissing"), Down("critical"), Warn("warning")>>)

\* The metrics, by how they are judged: a number, perhaps of a named item; a yes or no of
\* all items; or whether a named item is there, which one that is not reported isn't.
ENDPOINT_METRICS ==
  [number |-> [boolean |-> FALSE, instanceRequired |-> FALSE], ofItem |-> [boolean |-> FALSE, instanceRequired |-> TRUE],
   flag |-> [boolean |-> TRUE, instanceRequired |-> FALSE], presence |-> [boolean |-> TRUE, instanceRequired |-> TRUE]]

\* host_metric; a number is left to the thresholds.
EvaluateEndpointMetric(m, severity) ==
  InOrder(<<Setup("unknownMetric")>> \o (IF m.instanceRequired THEN <<Setup("instanceMissing")>> ELSE <<>>) \o
          <<IF m.boolean /\ m.instanceRequired THEN Fault("notReported", severity) ELSE Blind("notReported", "unknown")>> \o
          (IF m.boolean THEN <<Fault("otherThanExpected", severity)>> ELSE <<>>))

\* host_packages, by its failOn; with thresholds the count is left to them.
EvaluatePackages(failOn, severity) ==
  InOrder(<<Blind("noPackageList", "unknown")>> \o
          (CASE failOn = "security" -> <<Fault("securityUpdate", severity), Passed("otherUpdate")>>
             [] failOn = "any" -> <<Fault("securityUpdate", severity), Fault("otherUpdate", severity)>>
             [] OTHER -> <<Passed("securityUpdate"), Passed("otherUpdate")>>))

\* agent_script with an expected output and alert patterns: the worse of the two, but a
\* pattern that can't be compiled comes before what was found until then.
EvaluateScriptOutput(severity) ==
  [order |-> <<Setup("outputNotSent"), Setup("expectationInvalid"), Setup("downPatternInvalid"), Down("downPattern"), Setup("warnPatternInvalid")>>,
   parts |-> {Fault("exitCode", severity), Fault("outputMismatch", severity), Warn("warnPattern")}]
=============================================================================
