------------------------------- MODULE Probes -------------------------------
\* How the engine's probes come to their status: src/engine/src/services/probes,
\* and the probes of addresses.ts, software.ts and calculated.ts.
\*
\* What a fact is made of (banners, certificates, tables, JSON) is left out; what is
\* kept is the order of the questions, and the status each of them leads to.
EXTENDS Verdicts

-----------------------------------------------------------------------------
\* probes/basic.ts
ProbePing == InOrder(<<Setup("noHost"), Down("noReply"), Down("lossOrJitterCritical"), Warn("lossOrJitterHigh")>>)

ProbeTcp == InOrder(<<Setup("noHost"), Down("noConnection"), Down("endsOrTimesOutWithoutText")>>)

ProbeDns == InOrder(<<Setup("noHostname"), Down("doesNotResolve"), Down("otherValue"), Blind("dnssecUnreachable", "warn"),
  Down("dnssecFails"), Down("notAuthenticated")>>)

\* Mutated form of ProbeSslCert: old protocols are looked for before the days are judged.
ProbeSslCertProtocolFirst == InOrder(<<Setup("noHost"), Down("noConnection"), Blind("noCertificate", "warn"), Down("expired"),
  Down("chainUntrusted"), Down("otherName"), Warn("legacyTls"), Down("expiresCritically"), Warn("expiresSoon")>>)

ProbeSslCert == InOrder(<<Setup("noHost"), Down("noConnection"), Blind("noCertificate", "warn"), Down("expired"),
  Down("chainUntrusted"), Down("otherName"), Down("expiresCritically"), Warn("legacyTls"), Warn("expiresSoon")>>)

\* probes/http.ts
HttpRequest == <<Down("requestFails"), Down("redirectsWithoutEnd")>>

ProbeHttp == InOrder(<<Setup("noUrl")>> \o HttpRequest \o <<Down("otherStatus"), Down("textMissing"),
  Down("forbiddenText"), Setup("badPattern"), Down("patternUnmatched"), Down("otherFinalUrl"),
  Warn("tooManyRedirects"), Down("notJson"), Down("otherJson"), Passed("jsonNotNumeric")>>)

-----------------------------------------------------------------------------
\* probes/protocols.ts
ProbeUdp == InOrder(<<Setup("noHost"), Down("noReply"), Down("otherReply")>>)

\* What each protocol asks after the exchange, before the reply is matched.
Greeting == [
  smtp |-> <<Down("otherGreeting"), Down("noStartTls")>>,
  imap |-> <<Down("otherGreeting"), Warn("noStartTls")>>,
  pop3 |-> <<Down("otherGreeting")>>,
  ldap |-> <<Down("noBindResponse"), Down("bindFails")>>,
  unknownProtocol |-> <<Setup("unknownProtocol")>>]  \* ftp, ssh and rdp ask what pop3 asks

ProbeProtocol(p) == InOrder(<<Setup("noHost"), Down("exchangeFails")>> \o Greeting[p]
  \o <<Setup("badPattern"), Down("replyUnmatched")>>)

ProbeNtp == InOrder(<<Setup("noHost"), Down("noReply"), Down("shortReply"), Down("unsynchronized"),
  Warn("stratumTooHigh"), Down("offsetCritical"), Warn("offsetHigh")>>)

ProbeDhcp == InOrder(<<Down("noOffer"), Down("otherServer")>>)

ProbeMqtt == InOrder(<<Setup("noHost"), Down("exchangeFails"), Down("notConnack"), Down("refused")>>)

ProbeWebsocket == InOrder(<<Setup("noUrl"), Down("noConnection"), Down("noMessageInTime")>>)

ProbeGrpc == InOrder(<<Setup("noHost"), Down("callFails"), Down("notServing")>>)

ProbeDockerRegistry == InOrder(<<Setup("noUrl"), Down("requestFails"), Down("notARegistry"), Down("manifestMissing")>>)

ProbeArp == InOrder(<<Setup("noAddress"), Blind("tableUnreadable", "warn"), Down("absent"), Down("otherMac")>>)

-----------------------------------------------------------------------------
\* probes/services.ts
ProbeEmailRoundtrip == InOrder(<<Setup("noSettings"), Down("sendingFails"), Down("imapFails"), Down("notDeliveredInTime")>>)

\* The metrics each database reports a value for (DB_ENGINES); "connect" needs none.
SqlMetrics == {"query_value", "connections_percent", "replication_lag_seconds", "database_size_mb", "long_queries"}
RedisMetrics == {"connections_percent", "memory_mb", "replication_lag_seconds"}
MongoMetrics == {"connections_percent", "memory_mb", "database_size_mb", "replication_lag_seconds"}
DbMetrics == [sql |-> SqlMetrics, redis |-> RedisMetrics, mongodb |-> MongoMetrics]

ProbeDatabase(engine, metric) == InOrder(<<Setup("unknownEngine"), Down("connectionFails")>>
  \o IF metric = "connect" THEN <<>>
     ELSE IF metric \in DbMetrics[engine] THEN <<Blind("noValue", "warn")>> ELSE <<Setup("notSupported")>>)

\* changed: the path differs from the previous run's.
ProbeTraceroute(severity) == InOrder(<<Setup("noHost"), Blind("notInstalled", "warn"), Down("fails"), Down("noHops"),
  Down("hopMissing"), Down("notReached"), Fault("changed", severity)>>)

\* Chrome is started outside the try block.
ProbeBrowser == InOrder(<<Setup("noUrl"), Blind("noChrome", "warn"), Silent("chromeDoesNotStart"), Down("doesNotLoad"), Down("errorStatus"),
  Down("elementMissing"), Down("textMissing"), Warn("jsErrors")>>)

ProbeDomainExpiry == InOrder(<<Setup("noDomain"), Down("requestFails"), Blind("noRdapServer", "warn"), Down("notRegistered"),
  Blind("otherStatus", "warn"), Blind("noDate", "warn"), Down("expired"), Down("expiresCritically"), Warn("expiresSoon")>>)

\* changedLately: within the hold time.
ProbePublicIp(severity) == InOrder(<<Down("requestFails"), Down("noAddress"), Down("otherAddress"), Fault("changedLately", severity)>>)

-----------------------------------------------------------------------------
\* probes/apps.ts
ProbePrometheus == InOrder(<<Setup("noUrl"), Down("scrapeFails"), Down("noSamples"), Silent("noRateYet")>>)

ProbeWebserverStatus == InOrder(<<Setup("noUrl"), Down("requestFails"), Down("notAStatusPage"), Silent("noRateYet"),
  Passed("metricMissing")>>)

ProbeAppIntegration == [
  nextcloud |-> InOrder(<<Setup("noUrl"), Down("requestFails"), Warn("maintenance"), Warn("needsUpgrade"), Warn("metricMissing")>>),
  home_assistant |-> InOrder(<<Setup("noUrl"), Down("requestFails"), Down("otherState"), Down("unavailable")>>),
  streams |-> InOrder(<<Setup("noUrl"), Down("requestFails")>>),  \* plex and jellyfin
  pihole |-> InOrder(<<Setup("noUrl"), Down("requestFails"), Down("blockingOff"), Passed("metricMissing")>>),
  custom_json |-> InOrder(<<Setup("noUrl"), Down("requestFails"), Passed("notNumeric")>>),
  unknownApp |-> InOrder(<<Setup("unknownApp")>>)]

-----------------------------------------------------------------------------
\* probes/infra.ts
\* Mutated form of ProbeRedfish: a problem of the last component replaces the others'.
ProbeRedfishLast == [order |-> <<Setup("noUrl"), Down("requestFails"), Passed("sensorsUnreadable"), Warn("componentWarning")>>,
  parts |-> {Down("poweredOff"), Down("componentCritical")}]

\* Sensors are only looked at if they could be read.
ProbeRedfish == [order |-> <<Setup("noUrl"), Down("requestFails")>>,
  parts |-> {Down("poweredOff"), Down("componentCritical"), Warn("componentWarning"), Passed("sensorsUnreadable")}]

ProbeIpmi == InOrder(<<Setup("noHost"), Blind("notInstalled", "warn"), Down("fails"), Blind("noSensors", "warn"), Down("sensorCritical"), Warn("sensorNotOk")>>)

ProbeProxmox == [
  cluster |-> InOrder(<<Setup("noUrl"), Down("requestFails"), Down("noQuorum"), Down("nodeOffline")>>),
  node |-> InOrder(<<Setup("noUrl"), Down("requestFails"), Down("notFound"), Down("notOnline")>>),
  all_vms |-> InOrder(<<Setup("noUrl"), Down("requestFails"), Passed("someStopped")>>),  \* counted: for the thresholds
  vm |-> InOrder(<<Setup("noUrl"), Down("requestFails"), Down("notFound"), Down("otherStatus")>>),
  storage |-> InOrder(<<Setup("noUrl"), Down("requestFails"), Down("notFound"), Down("unavailable")>>),
  backups |-> InOrder(<<Setup("noUrl"), Down("requestFails"), Down("noBackup"), Down("lastFailed"), Down("tooOld")>>),
  unknownTarget |-> InOrder(<<Setup("noUrl"), Setup("unknownTarget")>>)]

ProbeVmware == [
  all_vms |-> InOrder(<<Setup("noUrl"), Down("requestFails"), Down("nothingFound"), Passed("someOff")>>),
  vm |-> InOrder(<<Setup("noUrl"), Down("requestFails"), Down("nothingFound"), Down("off")>>),
  datastore |-> InOrder(<<Setup("noUrl"), Down("requestFails"), Down("nothingFound"), Down("inaccessible")>>),
  host |-> [order |-> <<Setup("noUrl"), Down("requestFails"), Down("nothingFound")>>,
            parts |-> {Down("disconnected"), Down("red"), Warn("yellow")}]]

-----------------------------------------------------------------------------
\* probes/internal.ts: these read what the engine itself has stored.
ProbeEventMatch(severity) == InOrder(<<Setup("badFilter"), Fault("matchLately", severity)>>)

ProbeAnomaly == InOrder(<<Setup("noSource"), Blind("noResults", "warn"), Blind("learning", "up"), Down("farFromUsual"), Warn("unusual")>>)

ProbePushStaleness == InOrder(<<Down("overdue")>>)  \* and nothing is recorded when it is not

ProbeAgentHeartbeat(severity) == InOrder(<<Setup("noHost"), Down("neverReported"), Fault("silent", severity)>>)

ProbeDiskForecast == InOrder(<<Setup("noHost"), Blind("historyTooShort", "up"), Blind("mountWithoutHistory", "warn"), Down("fullCritically"), Warn("fullSoon")>>)

\* calculated.ts
ProbeCalculated == InOrder(<<Setup("noExpression"), Setup("noCheckChosen"), Blind("checkGone", "warn"), Blind("noValueYet", "unknown"),
  Blind("inputTooOld", "unknown"), Warn("calculationFails")>>)

\* addresses.ts
ProbeIpChange(severity) == InOrder(<<Setup("noMac"), Blind("neverSeen", "warn"), Fault("changedLately", severity)>>)

\* software.ts: what could not be looked up matters only if nothing else was found.
ProbeVulnerable(eolStatus) == [order |-> <<Setup("noEndpoint"), Blind("noReport", "unknown")>>,
  parts |-> {Down("vulnerableDown"), Warn("vulnerableWarn"), Fault("unsupported", eolStatus), Warn("supportEndsSoon"), Unknown("lookupFails")}]

-----------------------------------------------------------------------------
\* probes/dnsZone.ts; changedLately: in this run, or within the hold time.
ProbeDnsZone(severity) == InOrder(<<Setup("noZone"), Setup("badTsigKey"), Setup("noNamesOrServer"), Down("zoneUnreadable"),
  Fault("changedLately", severity)>>)

\* probes/snmp.ts: what a reading asks before it has a value, and what it says of it.
SnmpGet == [unread |-> <<Down("noResponse"), Down("varbindError"), Down("otherText"), Blind("notNumeric", "warn"), Silent("noRateYet")>>,
            judged |-> <<>>]

WalkCheck == [unread |-> <<Down("noResponse"), Down("nothingUnder"), Setup("badRowFilter"), Silent("noRateYet"), Blind("noNumbers", "warn")>>,
              judged |-> <<>>]

\* The presets; "tables" are those with thresholds only (CPU, memory, disks, supplies,
\* temperatures), "ups" the battery and its runtime.  These and the other single values
\* are not a number, and not missing, on a device that does not have them.
SNMP_PRESETS == [
  tables |-> [unread |-> <<Down("noResponse"), Blind("notExposed", "warn")>>, judged |-> <<>>],
  printer_status |-> [unread |-> <<Blind("notExposed", "warn")>>, judged |-> <<Down("criticalCondition"), Warn("warningCondition")>>],
  printer_jobs |-> [unread |-> <<Blind("notExposed", "warn")>>, judged |-> <<Warn("jobFailedLately")>>],
  ups |-> [unread |-> <<Down("noResponse")>>, judged |-> <<Blind("notExposed", "up")>>],
  ups_on_battery |-> [unread |-> <<Down("noResponse")>>, judged |-> <<Blind("notExposed", "up"), Down("noOutput"), Warn("onBattery")>>],
  uptime_reboot |-> [unread |-> <<Down("noResponse")>>, judged |-> <<Blind("notExposed", "up"), Warn("rebootedLately")>>],
  unknownPreset |-> [unread |-> <<Setup("unknownPreset")>>, judged |-> <<>>]]

ReadSnmp(kind) ==
  LET reading == CASE kind = "get" -> SnmpGet [] kind = "walk" -> WalkCheck [] OTHER -> SNMP_PRESETS[kind]
  IN [reading EXCEPT !.unread = <<Setup("noHost"), Down("noSession")>> \o @]

\* A calculated check needs a value; when the calculation fails it says so in place of
\* what the reading itself said.
ProbeSnmp(kind, calculated) ==
  InOrder(IF calculated
    THEN <<Setup("badExtraOids")>> \o ReadSnmp(kind).unread
         \o <<Blind("referenceMissing", "unknown"), Down("extraOidFails"), Silent("noExtraRateYet"), Warn("calculationFails")>>
         \o ReadSnmp(kind).judged
    ELSE ReadSnmp(kind).unread \o ReadSnmp(kind).judged)

ProbeSnmpInterfaces(operDownSeverity) == [
  order |-> <<Setup("noHost"), Down("noSession"), Down("noResponse"), Setup("badFilter"), Blind("noInterfaces", "warn")>>,
  parts |-> {Fault("portDown", operDownSeverity), Down("utilizationCritical"), Warn("utilizationHigh"), Warn("errors")}]
=============================================================================
