------------------------------ MODULE CheckForm -----------------------------
(* The form that makes and changes a check (dashboard lib/checkTypes.ts,      *)
(* components/CheckForm.tsx) and how the engine keeps what it must not show   *)
(* (lib/secrets.ts, routes/checks.ts).  A setting is cleared, given, hidden   *)
(* behind the mask, or one of the options other fields depend on; of the      *)
(* options nothing depends on, one stands for all.                            *)
EXTENDS Nothing, Naturals, FiniteSets
CONSTANT MaxChanges  \* a bound on the settings changed
VARIABLES fmType,    \* the check's type
          fmStored,  \* checks.config, or None: not made yet
          fmForm,    \* the form's settings, or None: not open
          fmChanges  \* settings changed so far
fmvars == <<fmType, fmStored, fmForm, fmChanges>>

SECRET_KEYS == {"password", "authKey", "privKey", "tokenSecret", "token", "bearerToken", "smtpPassword", "imapPassword",
                "bindPassword", "passphrase", "extraEnv", "uri", "tsigSecret"}
MASK == "mask"

-----------------------------------------------------------------------------
(* The fields of each type: those that must be filled in; texts that start   *)
(* empty and that start filled; choices, which are never empty, and boxes,   *)
(* which are ticked or not.  A field is shown if all conditions of one of    *)
(* its alternatives hold.                                                    *)
Is(key, options) == [key |-> key, options |-> options, holds |-> TRUE]
Not(key, options) == [key |-> key, options |-> options, holds |-> FALSE]
Given(key) == Not(key, {""})
Field(filled, mayBeEmpty) == [required |-> FALSE, secret |-> FALSE, mayBeEmpty |-> mayBeEmpty, default |-> IF filled THEN "given" ELSE "",
                              options |-> {"given"}, showIf |-> {{}}]
Form(required, texts, filled, choices, boxes) ==
  [k \in required \cup texts \cup filled \cup choices \cup boxes |->
     [Field(k \in filled \cup choices, k \notin choices \cup boxes) EXCEPT !.required = k \in required, !.secret = k \in SECRET_KEYS]]
Options(form, key, default, others) == [form EXCEPT ![key].default = default, ![key].options = ({default} \cup others) \ {""}]
ShowIf(form, keys, alternatives) == [k \in DOMAIN form |-> IF k \in keys THEN [form[k] EXCEPT !.showIf = alternatives] ELSE form[k]]
OnlyIf(form, keys, condition) == ShowIf(form, keys, {{condition}})

insecure == "insecureSkipVerify"
Simple == Form({}, {"warnPercent", "criticalPercent"}, {}, {}, {})
snmpAuthKeys == {"username", "authKey", "privKey"}
snmpAuth(form) ==
  OnlyIf(OnlyIf(Options(form, "version", "2c", {"3"}), {"community"}, Not("version", {"3"})),
         snmpAuthKeys \cup {"securityLevel", "authProtocol", "privProtocol"}, Is("version", {"3"}))

HttpForm ==
  LET all == Form({"url"}, {"expectedStatus", "bodyContains", "bodyNotContains", "bodyRegex", "jsonPath", "jsonExpected", "headers", "body", "expectedFinalUrl",
                           "maxRedirectsAllowed"}, {"timeoutSeconds"}, {"method", "jsonOperator", "followRedirects"}, {insecure})
  IN OnlyIf(OnlyIf(Options(all, "method", "GET", {"POST", "PUT"}), {"body"}, Is("method", {"POST", "PUT"})),
            {"jsonOperator", "jsonExpected"}, Given("jsonPath"))
DnsZoneForm ==
  LET all == Form({"zone", "names"}, {"server", "tsigName", "tsigSecret", "ignoreNames"}, {"holdMinutes", "maxRecords", "timeoutSeconds"},
                  {"mode", "tsigAlgorithm", "severity"}, {"watchTtl", "watchSoa"})
  IN OnlyIf(OnlyIf(Options(all, "mode", "axfr", {"names"}), {"names"}, Is("mode", {"names"})),
            {"tsigName", "tsigSecret", "tsigAlgorithm"}, Not("mode", {"names"}))
Reachability ==
  [ping |-> Form({"host"}, {"lossWarnPercent", "lossCriticalPercent", "jitterWarnMs", "jitterCriticalMs"}, {"count"}, {}, {}),
   tcp |-> Form({"host", "port"}, {"sendText", "expectText"}, {"timeoutSeconds"}, {}, {}),
   udp |-> Form({"host", "port"}, {"expectContains"}, {"payload", "timeoutSeconds"}, {}, {"payloadHex"}),
   http |-> HttpForm,
   browser |-> Form({"url"}, {"waitForSelector", "expectText"}, {"timeoutSeconds"}, {"failOnJsErrors"}, {insecure}),
   dns |-> Form({"hostname"}, {"server", "expectedValue"}, {"timeoutSeconds", "tries"}, {"recordType"}, {"dnssec"}),
   dns_zone |-> DnsZoneForm]
Web ==
  [ssl_cert |-> Form({"host"}, {"port", "serverName"}, {"warnDays", "criticalDays", "timeoutSeconds"}, {"checkChain", "checkHostname", "checkWeakProtocols"}, {}),
   domain_expiry |-> Form({"domain"}, {"rdapServer"}, {"warnDays", "criticalDays"}, {}, {}),
   websocket |-> Form({"url"}, {"send", "expectContains"}, {"timeoutSeconds"}, {}, {insecure})]
ProtocolForm ==
  LET all == Form({"host"}, {"port", "bindDn", "bindPassword", "expect"}, {"timeoutSeconds"}, {"protocol"}, {"requireStartTls", insecure})
  IN OnlyIf(OnlyIf(Options(all, "protocol", "smtp", {"imap", "ldap", "ssh"}), {"requireStartTls"}, Is("protocol", {"smtp", "imap"})),
            {"bindDn", "bindPassword"}, Is("protocol", {"ldap"}))
NetworkServices ==
  [protocol |-> ProtocolForm,
   email_roundtrip |-> Form({"smtpHost", "to", "imapHost"}, {"smtpUser", "smtpPassword", "from", "imapUser", "imapPassword"},
                            {"smtpPort", "imapPort", "mailbox", "timeoutSeconds"}, {"deleteAfter"}, {insecure}),
   ntp |-> Form({"host"}, {"port", "offsetWarnMs", "offsetCriticalMs", "maxStratum"}, {}, {}, {}),
   dhcp |-> Form({}, {"server", "expectedServer"}, {"timeoutSeconds"}, {}, {}),
   grpc |-> Form({"host", "port"}, {"service"}, {"timeoutSeconds"}, {}, {"tls", insecure}),
   mqtt |-> Form({"host"}, {"port", "username", "password"}, {}, {}, {"tls", insecure}),
   docker_registry |-> Form({"url"}, {"image", "username", "password"}, {"tag"}, {}, {insecure}),
   traceroute |-> Form({"host"}, {"expectedHop"}, {"maxHops"}, {"requireReach", "changeSeverity"}, {}),
   public_ip |-> Form({}, {"expectedIp"}, {"url", "holdMinutes"}, {"changeSeverity"}, {}),
   arp_presence |-> Form({}, {"ip", "mac"}, {}, {}, {}),
   ip_change |-> Form({}, {"mac"}, {"holdMinutes"}, {"severity"}, {"includeIpv6"})]
DatabaseForm ==
  LET all == Form({"host"}, {"port", "username", "password", "database", "query", "uri"}, {"longQuerySeconds"}, {"engine", "metric"}, {"tls", insecure})
      engines == OnlyIf(OnlyIf(Options(all, "engine", "postgres", {"redis", "mongodb"}), {"database"}, Not("engine", {"redis"})), {"uri"}, Is("engine", {"mongodb"}))
  IN OnlyIf(OnlyIf(Options(engines, "metric", "connect", {"query_value", "long_queries", "memory_mb"}), {"query"}, Is("metric", {"connect", "query_value"})),
            {"longQuerySeconds"}, Is("metric", {"long_queries"}))
AppForm ==
  LET all == Form({"url"}, {"token", "entityId", "expectedState", "path", "jsonPath"}, {}, {"app", "metric"}, {insecure})
      home == OnlyIf(Options(all, "app", "nextcloud", {"home_assistant", "custom_json"}), {"entityId", "expectedState"}, Is("app", {"home_assistant"}))
  IN OnlyIf(OnlyIf(home, {"path", "jsonPath"}, Is("app", {"custom_json"})), {"metric"}, Not("app", {"home_assistant", "custom_json"}))
Applications ==
  [database |-> DatabaseForm,
   prometheus |-> Form({"url", "metric"}, {"labels", "bearerToken", "headers"}, {}, {"aggregation"}, {"rate", insecure}),
   webserver_status |-> Form({"url"}, {}, {}, {"kind", "metric"}, {insecure}),
   app_integration |-> AppForm]
SnmpForm ==
  LET all == Form({"host"}, {"port", "preset", "oid", "indexFilter", "scale", "unit", "expectString", "expression", "extraOids", "refCheckId", "instance", "exclude"}
                  \cup snmpAuthKeys, {"community", "maxRows", "holdMinutes"},
                  {"version", "securityLevel", "authProtocol", "privProtocol", "mode", "aggregate", "severity"}, {"asRate", "countCanceled"})
      preset == Options(Options(Options(snmpAuth(all), "preset", "", {"hr_storage", "printer_jobs", "uptime_reboot", "ups_battery"}),
                        "mode", "get", {"walk_avg", "walk_all"}), "expression", "", {"value", "ref"})
      custom == ShowIf(OnlyIf(preset, {"oid", "mode", "asRate", "scale", "unit", "expectString"}, Is("preset", {""})),
                       {"aggregate", "maxRows"}, {{Is("preset", {""}), Is("mode", {"walk_all"})}})
      walked == ShowIf(ShowIf(custom, {"indexFilter"}, {{Is("preset", {""}), Not("mode", {"", "get"})}}), {"exclude"}, {{Given("preset")}, {Not("mode", {"", "get"})}})
  IN OnlyIf(OnlyIf(OnlyIf(OnlyIf(walked, {"refCheckId"}, Is("expression", {"ref"})), {"instance"}, Is("preset", {"hr_storage"})),
                   {"countCanceled", "severity"}, Is("preset", {"printer_jobs"})), {"holdMinutes"}, Is("preset", {"uptime_reboot", "printer_jobs"}))
SnmpInterfacesForm ==
  snmpAuth(Form({"host"}, {"port", "interfaceFilter", "utilWarnPercent", "utilCriticalPercent", "errorsWarnPerSec", "exclude"} \cup snmpAuthKeys,
                {"community"}, {"version", "securityLevel", "authProtocol", "privProtocol", "alertOnOperDown", "operDownSeverity"}, {}))
BmcForm ==
  LET all == Form({"url", "host"}, {"username", "password"}, {}, {"protocol", "requirePoweredOn", insecure}, {})
  IN OnlyIf(OnlyIf(Options(all, "protocol", "redfish", {"ipmi"}), {"url", "requirePoweredOn"}, Not("protocol", {"ipmi"})), {"host"}, Is("protocol", {"ipmi"}))
Hardware ==
  [snmp |-> SnmpForm,
   snmp_interfaces |-> SnmpInterfacesForm,
   trap_match |-> Form({}, {"sourceIp", "pattern", "clearPattern", "autoRecoverMinutes", "exclude"}, {"windowMinutes"}, {"severity"}, {}),
   syslog_match |-> Form({}, {"sourceIp", "pattern", "clearPattern", "autoRecoverMinutes", "exclude"}, {"maxSeverity", "windowMinutes"}, {"severity"}, {}),
   bmc |-> BmcForm]
ProxmoxForm ==
  LET all == Form({"url", "tokenId", "tokenSecret"}, {"name"}, {"expectedStatus", "maxAgeHours"}, {"target", "metric", insecure}, {})
      named == OnlyIf(Options(all, "target", "node", {"cluster", "vm", "storage", "backups"}), {"name"}, Not("target", {"cluster"}))
  IN OnlyIf(OnlyIf(OnlyIf(named, {"metric"}, Is("target", {"node"})), {"expectedStatus"}, Is("target", {"vm"})), {"maxAgeHours"}, Is("target", {"backups"}))
Virtualization ==
  [proxmox |-> ProxmoxForm,
   vmware |-> Form({"url"}, {"username", "password", "name"}, {}, {"target", insecure}, {}),
   agent_hyperv |-> Form({}, {"ignore"}, {"vmName", "expectedState"}, {"severity"}, {}),
   agent_docker |-> Form({}, {"exclude"}, {"container", "holdMinutes"}, {"measure", "severity"}, {"ignoreStopped"})]
EndpointMetrics ==
  [host_metric |-> Form({"metric"}, {"exclude"}, {}, {}, {}), host_cpu |-> Simple, host_memory |-> Simple, host_disk |-> Simple,
   disk_forecast |-> Form({}, {"mount"}, {"lookbackDays", "warnDays", "criticalDays"}, {}, {}),
   host_reboot |-> Form({}, {}, {"holdMinutes"}, {"severity"}, {}), host_change |-> Form({}, {}, {"holdMinutes"}, {"what", "severity"}, {}),
   agent_heartbeat |-> Form({}, {}, {"maxSilenceSeconds"}, {"severity"}, {})]
ScriptForm ==
  LET all == Form({"script", "expectText"}, {"args", "expectMode", "expectExitCode", "warnIfMatches", "downIfMatches"}, {"timeoutSeconds"},
                  {"expectSeverity", "alertMatchMode", "parseValue"}, {"expectIgnoreCase", "alertIgnoreCase"})
  IN ShowIf(ShowIf(OnlyIf(all, {"expectText", "expectIgnoreCase"}, Given("expectMode")), {"expectSeverity"}, {{Given("expectMode")}, {Given("expectExitCode")}}),
            {"alertMatchMode", "alertIgnoreCase"}, {{Given("warnIfMatches")}, {Given("downIfMatches")}})
ServicesAndProcesses ==
  [agent_service |-> Form({"serviceName"}, {"maxRestarts"}, {}, {"expectState", "severity"}, {}),
   agent_process |-> Form({"serviceName"}, {"maxCount"}, {"minCount"}, {"measure"}, {}),
   agent_services_overview |-> Form({}, {"exclude"}, {}, {"severity"}, {"includeCleanStops"}),
   agent_scheduled_task |-> Form({"taskName"}, {"maxAgeHours"}, {}, {}, {}),
   agent_script |-> ScriptForm,
   agent_users |-> Form({}, {"exclude"}, {"watch", "holdMinutes"}, {"severity", "adminSeverity"}, {"includeSystem"})]
FileForm ==
  LET all == Form({"path"}, {"pattern", "maxAgeMinutes", "expectedChecksum"}, {"events", "holdMinutes"}, {"mode", "severity"}, {"recursive"})
      many == OnlyIf(Options(all, "mode", "exists", {"not_exists", "age", "count", "checksum", "watchdog"}), {"pattern", "recursive"}, Is("mode", {"age", "count", "watchdog"}))
      one == OnlyIf(OnlyIf(OnlyIf(many, {"maxAgeMinutes"}, Is("mode", {"age"})), {"events"}, Is("mode", {"watchdog"})), {"expectedChecksum"}, Is("mode", {"checksum"}))
  IN OnlyIf(OnlyIf(one, {"severity"}, Is("mode", {"watchdog", "checksum", "not_exists"})), {"holdMinutes"}, Is("mode", {"watchdog", "checksum"}))
FilesAndLogs ==
  [agent_file |-> FileForm,
   agent_disk_tree |-> Form({}, {"path", "skip"}, {"top", "depth", "maxSeconds"}, {}, {}),
   agent_log |-> Form({"path"}, {"pattern", "exclude"}, {}, {"ignoreCase", "severity"}, {"invert"}),
   agent_journal |-> Form({}, {"unit", "pattern", "exclude"}, {"priority"}, {"severity"}, {}),
   agent_eventlog |-> Form({}, {"eventIds", "provider", "pattern", "exclude"}, {"logName", "levels"}, {"severity"}, {})]
VpnForm ==
  OnlyIf(Options(Form({"interface"}, {"peer"}, {"maxHandshakeAgeSeconds"}, {"kind"}, {}), "kind", "wireguard", {"interface"}),
         {"peer", "maxHandshakeAgeSeconds"}, Is("kind", {"wireguard"}))
UpsForm ==
  OnlyIf(Options(Form({}, {}, {"upsName"}, {"driver"}, {}), "driver", "nut", {"apcupsd"}), {"upsName"}, Is("driver", {"nut"}))
BackupForm ==
  OnlyIf(Options(Form({}, {"repo", "passphrase", "extraEnv"}, {"maxAgeHours"}, {"tool"}, {}), "tool", "borg", {"veeam"}),
         {"repo", "passphrase", "extraEnv"}, Not("tool", {"veeam"}))
SystemAndHardware ==
  [agent_perfcounter |-> Form({"counter"}, {}, {}, {"aggregation"}, {}),
   agent_vpn |-> VpnForm,
   agent_ups |-> UpsForm,
   agent_backup |-> BackupForm]
PushSoftwareAndSmart ==
  [heartbeat |-> Form({}, {}, {"graceSeconds"}, {}, {}), push_value |-> Form({}, {"autoRecoverMinutes"}, {"graceSeconds"}, {}, {}),
   host_packages |-> Form({}, {"exclude"}, {}, {"failOn", "severity"}, {"securityOnly", "includePhased"}),
   host_software |-> Form({}, {"sources", "exclude", "lockfiles"}, {"holdMinutes"}, {"severity"}, {}),
   host_vulnerable |-> Form({}, {"exclude", "lockfiles"}, {"eolWarnDays"}, {"warnAt", "downAt", "eolStatus", "useOsv", "useEol"}, {}),
   calculated |-> Form({"expression"}, {"varA", "varB", "varC", "varD", "unit"}, {"maxAgeMinutes"}, {}, {}),
   anomaly |-> Form({"sourceCheckId"}, {}, {"sensitivity", "lookbackDays", "minSamples"}, {"field", "direction", "seasonality"}, {})]
CheckTypes == {Reachability, Web, NetworkServices, Applications, Hardware, Virtualization, EndpointMetrics, ServicesAndProcesses, FilesAndLogs,
               SystemAndHardware, PushSoftwareAndSmart}
CHECK_TYPES == [type \in UNION {DOMAIN group : group \in CheckTypes} |-> (CHOOSE group \in CheckTypes : type \in DOMAIN group)[type]]

(* No longer offered for a new check, but found in old and restored ones.    *)
Legacy == {"host_cpu", "host_memory", "host_disk"}
(* Settings of every check, and of a metric's, with inputs of their own.     *)
Extras(type) == {"timeoutsBeforeDown", "recoverWithCheckId"} \cup IF type = "host_metric" THEN {"instance", "expect", "severity"} ELSE {}
ADDRESS_KEYS == {"host", "ip", "url", "hostname"}

-----------------------------------------------------------------------------
Value(config, key) == IF key \in DOMAIN config THEN config[key] ELSE ""
Visible(type, key, config) == \E conditions \in CHECK_TYPES[type][key].showIf : \A c \in conditions : (Value(config, c.key) \in c.options) = c.holds
Shown(type, config) == {k \in DOMAIN CHECK_TYPES[type] : Visible(type, k, config)}
defaultConfigFor(type) == LET f == CHECK_TYPES[type] IN [k \in {k \in DOMAIN f : f[k].default # ""} |-> f[k].default]
\* Mutated form of normalizeConfig: a field that is not shown is kept.
KeepHidden(type, config) == [k \in {k \in DOMAIN config : config[k] # ""} |-> config[k]]
normalizeConfig(type, config) ==
  [k \in {k \in DOMAIN config : config[k] # "" /\ (k \in DOMAIN CHECK_TYPES[type] => Visible(type, k, config))} |-> config[k]]
validateConfig(type, config) == \A k \in Shown(type, config) : CHECK_TYPES[type][k].required => Value(config, k) # ""

maskConfig(config) == [k \in DOMAIN config |-> IF k \in SECRET_KEYS /\ config[k] # "" THEN MASK ELSE config[k]]
mergeSecrets(incoming, existing) ==
  LET kept == {k \in SECRET_KEYS \cap DOMAIN existing : k \notin DOMAIN incoming \/ incoming[k] = MASK}
      unknown == {k \in DOMAIN incoming \ DOMAIN existing : k \in SECRET_KEYS /\ incoming[k] = MASK}
  IN [k \in (DOMAIN incoming \cup kept) \ unknown |-> IF k \in kept THEN existing[k] ELSE incoming[k]]
(* What a save of these settings stores.                                     *)
Saved(type, form, stored) == LET config == normalizeConfig(type, form) IN IF stored = None THEN config ELSE mergeSecrets(config, stored)

-----------------------------------------------------------------------------
OpenForm == /\ fmForm = None
            /\ fmForm' = IF fmStored = None THEN defaultConfigFor(fmType) ELSE maskConfig(fmStored)
            /\ UNCHANGED <<fmType, fmStored, fmChanges>>
Cancel == fmForm # None /\ fmForm' = None /\ UNCHANGED <<fmType, fmStored, fmChanges>>

(* Of the fields that are not required and that no other depends on, those   *)
(* that differ in nothing are changed one for all.                           *)
Controls(type) == UNION {UNION {{c.key : c \in conditions} : conditions \in CHECK_TYPES[type][k].showIf} : k \in DOMAIN CHECK_TYPES[type]}
Changed(type) ==
  LET f == CHECK_TYPES[type]
      own == Controls(type) \cup {k \in DOMAIN f : f[k].required}
  IN own \cup {CHOOSE x \in DOMAIN f \ own : f[x] = f[k] : k \in DOMAIN f \ own}
ChangedOf == [t \in DOMAIN CHECK_TYPES |-> Changed(t)]
Changing == fmForm # None /\ fmChanges < MaxChanges /\ fmChanges' = fmChanges + 1 /\ UNCHANGED <<fmType, fmStored>>
Set(key, value) == Changing /\ fmForm' = With(fmForm, key, value) /\ fmForm' # fmForm
Inputs(field) == field.options \cup IF field.mayBeEmpty THEN {""} ELSE {}
Edit == fmForm # None /\ \E k \in ChangedOf[fmType] \cap Shown(fmType, fmForm) : \E v \in Inputs(CHECK_TYPES[fmType][k]) : Set(k, v)
EditExtra == \E k \in Extras(fmType), v \in {"", "given"} : Set(k, v)
(* Made for several endpoints, each its own address: in every such field.    *)
TargetEach == /\ fmStored = None /\ ADDRESS_KEYS \cap DOMAIN CHECK_TYPES[fmType] # {} /\ Changing
              /\ fmForm' = [k \in DOMAIN fmForm \cup (ADDRESS_KEYS \cap DOMAIN CHECK_TYPES[fmType]) |-> IF k \in ADDRESS_KEYS THEN "given" ELSE fmForm[k]]
(* A row of the device's values is picked, or added to the others; a walk    *)
(* that fails shows none.                                                    *)
Walked == fmForm # None /\ fmType = "snmp" /\ Value(fmForm, "host") # ""
PickOid == /\ Walked /\ Changing
           /\ \E hints \in {{}, {"asRate"}, {"unit", "scale"}} :
                fmForm' = [k \in DOMAIN fmForm \cup {"preset", "oid"} \cup hints |-> IF k = "preset" THEN "" ELSE IF k \in {"oid"} \cup hints THEN "given" ELSE fmForm[k]]
AddExtra == Walked /\ Set("extraOids", "given")
(* A request that fails leaves the form as it is.                            *)
Save == /\ fmForm # None /\ validateConfig(fmType, normalizeConfig(fmType, fmForm))
        /\ fmStored' = Saved(fmType, fmForm, fmStored) /\ fmForm' = None
        /\ UNCHANGED <<fmType, fmChanges>>

(* A type is picked for a new check, or it is an old one's, with defaults.    *)
FormInit == /\ fmType \in DOMAIN CHECK_TYPES
            /\ fmStored = IF fmType \in Legacy THEN [k \in {} |-> ""] ELSE None
            /\ fmForm = None /\ fmChanges = 0
FormNext == OpenForm \/ Cancel \/ Edit \/ EditExtra \/ TargetEach \/ PickOid \/ AddExtra \/ Save

-----------------------------------------------------------------------------
(* normalizeConfig asks the settings as they were typed which fields are     *)
(* shown; whoever opens the check next asks those that were stored.  The two *)
(* agree: what is stored, but for secrets, is shown to whoever opens it,     *)
(* nothing required is missing, no mask is stored as a secret, and to save   *)
(* it as it is changes nothing (checkTypes.ts:997-1016, secrets.ts:32-44).   *)
SavedConfigFits == fmStored # None =>
  LET opened == maskConfig(fmStored)
  IN /\ \A k \in DOMAIN fmStored \ SECRET_KEYS : k \in Shown(fmType, opened) \cup Extras(fmType)
     /\ \A k \in DOMAIN fmStored : fmStored[k] \notin {"", MASK}
     /\ validateConfig(fmType, fmStored)
     /\ Saved(fmType, opened, fmStored) = fmStored
=============================================================================
