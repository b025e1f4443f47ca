------------------------------ MODULE ProbeRun ------------------------------
\* A check's probe through runs in which more and more goes wrong: the engine's probes
\* (src/engine/src/services/probes/index.ts) and the agent's (checks.go), and the
\* thresholds that are applied to what they return.
EXTENDS Verdicts

E == INSTANCE Probes
A == INSTANCE AgentChecks

CONSTANT Readings  \* what is measured, next to the thresholds: a value, a latency, the limits

ASSUME ReadingsAssumption == \A r \in Readings : \A m \in {r.value, r.latency} : m \subseteq Int /\ \A x, y \in m : x = y

VARIABLES
  probe,     \* the check's type and questions
  facts,     \* what is the case when it runs
  reading
pvars == <<probe, facts, reading>>

Named(n, p) == [name |-> n, of |-> p]
Each(n, table) == {Named(n, table[k]) : k \in DOMAIN table}
Severities == {"warn", "down"}

\* PROBES, NETWORK_PROBES
EngineProbes ==
  {Named("ping", E!ProbePing), Named("tcp", E!ProbeTcp), Named("dns", E!ProbeDns), Named("ssl_cert", E!ProbeSslCert),
   Named("http", E!ProbeHttp), Named("udp", E!ProbeUdp), Named("ntp", E!ProbeNtp), Named("dhcp", E!ProbeDhcp),
   Named("mqtt", E!ProbeMqtt), Named("websocket", E!ProbeWebsocket), Named("grpc", E!ProbeGrpc),
   Named("docker_registry", E!ProbeDockerRegistry), Named("arp_presence", E!ProbeArp),
   Named("email_roundtrip", E!ProbeEmailRoundtrip), Named("browser", E!ProbeBrowser), Named("domain_expiry", E!ProbeDomainExpiry),
   Named("prometheus", E!ProbePrometheus), Named("webserver_status", E!ProbeWebserverStatus),
   Named("redfish", E!ProbeRedfish), Named("ipmi", E!ProbeIpmi), Named("anomaly", E!ProbeAnomaly),
   Named("push_value", E!ProbePushStaleness), Named("disk_forecast", E!ProbeDiskForecast), Named("calculated", E!ProbeCalculated)}
  \union {Named(p, E!ProbeProtocol(p)) : p \in DOMAIN E!Greeting}
  \union {Named("database", E!ProbeDatabase(e, m)) : e \in DOMAIN E!DbMetrics, m \in {"connect"} \union UNION {E!DbMetrics[e] : e \in DOMAIN E!DbMetrics}}
  \union Each("app_integration", E!ProbeAppIntegration) \union Each("proxmox", E!ProbeProxmox) \union Each("vmware", E!ProbeVmware)
  \union {Named(IF c THEN "snmp_calculated" ELSE "snmp", E!ProbeSnmp(k, c)) : k \in {"get", "walk"} \union DOMAIN E!SNMP_PRESETS, c \in BOOLEAN}
  \union UNION {{Named("traceroute", E!ProbeTraceroute(s)), Named("public_ip", E!ProbePublicIp(s)), Named("event_match", E!ProbeEventMatch(s)),
                 Named("agent_heartbeat", E!ProbeAgentHeartbeat(s)), Named("ip_change", E!ProbeIpChange(s)),
                 Named("host_vulnerable", E!ProbeVulnerable(s)), Named("dns_zone", E!ProbeDnsZone(s)),
                 Named("snmp_interfaces", E!ProbeSnmpInterfaces(s))} : s \in Severities}

\* The switch of Run: checks without a severity, and those with one, with and without
\* levels of the user's.
RunAlone ==
  {Named("agent_process", A!RunProcess), Named("agent_scheduled_task", A!RunScheduledTask), Named("agent_users", A!RunUsers),
   Named("agent_perfcounter", A!RunPerfCounter), Named("ping", A!ProbePing), Named("tcp", A!ProbeTCP),
   Named("http", A!ProbeHTTP), Named("dns", A!ProbeDNS), Named("ssl_cert", A!ProbeSSL)}
  \union {Named("agent_script", A!RunScript(x)) : x \in {"exit1", "exit2", "otherExit"}}
  \union {Named("agent_disk_tree", A!RunDiskTree(n)) : n \in {1, 2}}
  \union Each("agent_vpn", A!RunVPN) \union Each("agent_ups", A!RunUPS) \union Each("agent_backup", A!RunBackup)

RunWith(severity, judged) ==
  {Named("agent_services_overview", A!RunServicesOverview(severity, judged)), Named("agent_log", A!RunLog(severity, judged)),
   Named("agent_journal", A!RunJournal(severity, judged)), Named("agent_eventlog", A!RunEventLog(severity, judged)),
   Named("agent_hyperv", A!RunHyperV(TRUE, severity, judged)), Named("agent_hyperv", A!RunHyperV(FALSE, severity, judged)),
   Named("agent_service", A!RunService(severity)), Named("agent_docker", A!RunDocker(severity))}
  \union Each("agent_file", A!RunFile(severity))

AgentProbes ==
  {Named(p.name, A!Run(p.of)) : p \in RunAlone \union UNION {RunWith(A!Severity(s, "down"), j) : s \in {"warn", "unset"}, j \in BOOLEAN}}
  \union {Named("unknown", A!RunUnknown)}

\* What the engine judges from a report, by its settings.
ReportProbes ==
  {Named("host_cpu", A!EvaluateHost)} \union
  UNION {{Named("host_metric", A!EvaluateEndpointMetric(A!ENDPOINT_METRICS[m], s)) : m \in DOMAIN A!ENDPOINT_METRICS}
         \union {Named("host_packages", A!EvaluatePackages(f, s)) : f \in {"security", "any", "none"}}
         \union {Named("script_output", A!EvaluateScriptOutput(s))} : s \in Severities}

-----------------------------------------------------------------------------
\* Settings are right, or one of them is not; nothing else has gone wrong yet.
ProbeInit ==
  /\ probe \in EngineProbes \union AgentProbes \union ReportProbes
  /\ facts \in {{}} \union {{f} : f \in FactsOf(probe.of, {"setup"})}
  /\ reading \in Readings

\* What can be the case: what the probe asks, and for the types both can run what either asks.
Remote == {"ping", "tcp", "http", "dns", "ssl_cert"}
World == Questions(probe.of) \union
  IF probe.name \in Remote THEN UNION {Questions(p.of) : p \in {p \in EngineProbes : p.name = probe.name}} ELSE {}

GoesWrong(f) == f \notin facts /\ facts' = facts \union {f} /\ UNCHANGED <<probe, reading>>
Measures(r) == reading' = r /\ UNCHANGED <<probe, facts>>

\* What is not a setting: a fact that one side asks as a setting stays as it is.
Happens == {q.fact : q \in World} \ {q.fact : q \in {q \in World : q.kind = "setup"}}

ProbeNext ==
  \/ \E f \in Happens : GoesWrong(f)
  \/ \E r \in Readings : Measures(r)

-----------------------------------------------------------------------------
Said == Outcome(probe.of, facts)

\* runProbe and storeReport: some judge by limits of their own, or judge what the
\* thresholds have left, and a skipped result is not judged at all.
Unlimited == {"anomaly", "host_cpu", "host_packages", "script_output"}
Recorded == IF probe.name \in Unlimited \/ Said = "none" THEN Said ELSE ApplyThresholds(Said, reading.value, reading.latency, reading.limits)

\* The early returns known to hide something worse that the probe would have found.
Hides == {<<"http", "tooManyRedirects">>, <<"ntp", "stratumTooHigh">>, <<"imap", "noStartTls">>,
          <<"snmp_calculated", "calculationFails">>, <<"agent_backup", "warning">>}

\* When one more thing goes wrong, what is recorded is never better than before, whatever
\* the order in which a probe looks: except where it can't look any further, and where an
\* early return is known to hide the rest.
WorseIsNotBetter ==
  [][\A f \in facts' \ facts :
       f \in FactsOf(probe.of, {"blind", "silent"}) \/ <<probe.name, f>> \in Hides
       \/ "none" \in {Said, Said'} \/ RANK[Recorded'] >= RANK[Recorded]]_pvars

\* A fault is never recorded as up while the probe can see at all: what a probe lets pass
\* (a sensor page it could not read, a value left for the thresholds) does not cover it.
EveryFaultShows ==
  facts \intersect FactsOf(probe.of, {"fault"}) # {} /\ facts \intersect FactsOf(probe.of, {"blind", "silent"}) = {}
    => Recorded # "up"

=============================================================================
