----------------------------- MODULE Suggestions -----------------------------
(* Which checks Looksee suggests for an endpoint and its site from what the  *)
(* agent reports (suggestions.ts, roleTemplates.ts, siteSuggestions.ts), and *)
(* what they are once added.  A check is its type and the settings that say  *)
(* what it watches; address "a" is the endpoint's, and a web page is told by *)
(* its port.                                                                 *)
EXTENDS CheckTypes, Naturals, Sequences
CONSTANTS Hosts,     \* the endpoints considered: see Host
          MaxAdded   \* bound on the times checks are added

(* What is known of an endpoint: its system, what of the snapshot is there,  *)
(* the names that run as services, the other processes and packages found,   *)
(* and the ports it listens on.                                              *)
Host == [os : {"windows", "linux", "mac", "other"}, agent : BOOLEAN, server : BOOLEAN, printer : BOOLEAN, office : BOOLEAN, address : BOOLEAN,
         snapshot : SUBSET STRING, services : SUBSET STRING, found : SUBSET STRING, ports : SUBSET STRING]
ASSUME HostsAssumption == Hosts \subseteq Host

VARIABLES host,
          existing,    \* the checks on the endpoint
          siteChecks,  \* those of its site that are on no endpoint
          added        \* how often checks have been added
gvars == <<host, existing, siteChecks, added>>

On(cond, S) == IF cond THEN S ELSE {}
Check(t, c) == [type |-> t, config |-> c]
Watch(metric) == Check("host_metric", [metric |-> metric])
EachOf(metric, items) == {Check("host_metric", [metric |-> metric, instance |-> i]) : i \in items}
Event(log, ids) == Check("agent_eventlog", [logName |-> log, eventIds |-> ids])
Url(p) == Check("http", [url |-> p])
Port(t, p) == Check(t, [host |-> "a", port |-> p])

(* suggestionKey: the first of each group of settings that is there. *)
FirstOf(c, fields) == LET I == {i \in DOMAIN fields : fields[i] \in DOMAIN c} IN
  IF I = {} THEN "" ELSE c[fields[CHOOSE i \in I : \A j \in I : i <= j]]
SuggestionKey(s) == LET c == s.config IN
  <<s.type, FirstOf(c, <<"metric">>),
    FirstOf(c, <<"instance", "mount", "serviceName", "container", "what", "url", "logName", "unit">>),
    FirstOf(c, <<"host", "hostname", "server">>),
    FirstOf(c, <<"port">>), FirstOf(c, <<"eventIds", "preset", "oid">>),
    IF "measure" \in DOMAIN c /\ c.measure \notin {"count", "status"} THEN c.measure ELSE "">>

-----------------------------------------------------------------------------
PORT_CHECKS(p) ==
  CASE p = "22" -> {Port("protocol", p)}
    [] p = "25" -> {Port("protocol", p)}
    [] p \in {"80", "3000", "8006", "8080", "8443", "9200", "32400"} -> {Url(p)}
    [] p = "443" -> {Url(p), Port("ssl_cert", p)}
    [] p = "1883" -> {Port("mqtt", p)}
    [] p \in {"53", "389", "445", "587", "993", "1433", "3306", "3389", "5432", "5900", "6379", "9090", "27017"} -> {Port("tcp", p)}
    [] OTHER -> {}
TLS == {"443", "8006", "8443"}

Finds(h, names) == names \cap (h.services \cup h.found) # {}
Services(h, names) == {Check("agent_service", [serviceName |-> n]) : n \in names \cap h.services}
NetPorts(h, t, ps) == On(h.address, {Port(t, p) : p \in ps \cap h.ports})
Log(path) == Check("agent_log", [path |-> path])
(* Names worth a check whenever they run. *)
NOTABLE == {"nginx", "caddy", "apache2", "httpd", "traefik", "haproxy", "postgres", "postgresql", "mysql", "mysqld", "mariadb", "mariadbd", "mongod", "redis-server",
  "MSSQLSERVER", "SQLSERVERAGENT", "W3SVC", "Spooler", "DNS", "NTDS", "vmms", "VeeamBackupSvc", "docker", "dockerd", "containerd", "smbd", "nmbd", "nfs-server",
  "postfix", "exim4", "dovecot", "named", "bind9", "unbound", "pihole-FTL", "AdGuardHome", "pveproxy", "pvedaemon"}
DATABASE_PROCESS == {"postgres", "mysqld", "mariadbd", "mongod", "redis-server"}
WebServers == {"nginx", "apache2", "httpd", "caddy", "W3SVC", "traefik", "haproxy", "lighttpd"}
DbServers == {"postgresql", "mysql", "mariadb", "mongod", "redis-server", "MSSQLSERVER"}
DnsServers == {"named", "bind9", "unbound", "pihole-FTL", "AdGuardHome", "dnsmasq", "DNS"}
MailServers == {"postfix", "exim4", "dovecot", "MSExchangeTransport", "MSExchangeIS"}

WebChecks(h) == Services(h, WebServers)
  \cup On(h.address /\ ("80" \in h.ports \/ "443" \notin h.ports), {Url("80")})
  \cup On(h.address /\ "443" \in h.ports, {Url("443"), Port("ssl_cert", "443")})
  \cup On(h.os = "linux" /\ Finds(h, {"nginx"}), {Log("nginx")})
  \cup On(h.os = "linux" /\ Finds(h, {"apache2", "httpd"}), {Log("apache")})
DatabaseChecks(h) == Services(h, DbServers \cup {"SQLSERVERAGENT"}) \cup NetPorts(h, "tcp", {"5432", "3306", "1433", "27017", "6379"})
  \cup On(h.os = "windows" /\ Finds(h, {"MSSQLSERVER"}), {Check("agent_eventlog", [logName |-> "Application"])})
DnsChecks(h) == Services(h, DnsServers) \cup On(h.address, {Check("dns", [hostname |-> "example.com", server |-> "a"])})
MailChecks(h) == Services(h, MailServers \cup {"MSExchangeFrontEndTransport"}) \cup NetPorts(h, "protocol", {"25", "993", "587"})
FileChecks(h) == Services(h, {"smbd", "nmbd", "nfs-server", "LanmanServer"}) \cup NetPorts(h, "tcp", {"445", "2049"})
DcChecks(h) == Services(h, {"NTDS", "DNS", "Netlogon", "Kdc", "W32Time", "DFSR", "ADWS"})
  \cup On(h.address, {Port("tcp", "389"), Port("tcp", "88")})
  \cup {Check("agent_eventlog", [logName |-> l]) : l \in {"Directory Service", "DFS Replication"}} \cup {Watch("time.offset_ms")}
HypervisorChecks(h) == Services(h, {"vmms", "pveproxy", "pvedaemon", "pve-cluster", "libvirtd"})
  \cup On(Finds(h, {"vmms"}), {Check("agent_hyperv", [vmName |-> "*"])}) \cup On(h.address /\ Finds(h, {"pveproxy"}), {Url("8006")})
Containers == {Check("agent_docker", [container |-> "*", measure |-> m]) : m \in {"status", "restart_count"}}
DockerChecks(h) == Services(h, {"docker", "containerd"}) \cup Containers
BackupChecks(h) == Services(h, {"VeeamBackupSvc", "urbackupsrv", "bareos-dir", "bacula-dir"})
  \cup On(Finds(h, {"VeeamBackupSvc", "Veeam.Backup.Service"}), {Check("agent_backup", [tool |-> "veeam"])})
PrintChecks(h) == Services(h, {"Spooler", "LPDSVC"}) \cup {Check("agent_eventlog", [logName |-> "PrintService"])}
Updates == {Check("host_packages", <<>>), Check("host_vulnerable", <<>>)}
Seen(what) == Check("host_change", [what |-> what])
Baseline == Updates \cup {Watch("firewall.enabled"), Seen("sessions"), Check("host_software", <<>>)}
WindowsBaseline == Baseline \cup {Watch(m) : m \in {"defender.realtime", "defender.signature_age_days", "encryption.enabled", "logins.failed"}}
  \cup {Event("Security", ids) : ids \in {"1102", "4732,4728,4756", "4720"}}
LinuxBaseline == Baseline \cup {Watch(m) : m \in {"logins.failed", "time.synced", "reboot.pending"}} \cup {Seen("listening_ports")}
MacBaseline == Baseline \cup {Watch("encryption.enabled")}

Roles == {"web", "database", "dns", "mail", "file", "dc", "hypervisor", "docker", "backup", "print"}
Templates == Roles \cup {"security-windows", "security-linux", "security-macos"}
Detect(h, id) ==
  CASE id = "web" -> Finds(h, WebServers) \/ h.ports \cap {"80", "443"} # {}
    [] id = "database" -> Finds(h, DbServers \cup {"postgres", "mysqld", "mariadbd", "sqlservr"}) \/ h.ports \cap {"5432", "3306", "1433", "27017", "6379"} # {}
    [] id = "dns" -> Finds(h, DnsServers \cup {"coredns"}) \/ "53" \in h.ports
    [] id = "mail" -> Finds(h, MailServers \cup {"exim", "sendmail"}) \/ "25" \in h.ports
    [] id = "file" -> Finds(h, {"smbd", "nfs-server", "nfsd"}) \/ (h.os = "windows" /\ h.server /\ "LanmanServer" \in h.services /\ "445" \in h.ports)
    [] id = "dc" -> h.os = "windows" /\ Finds(h, {"NTDS"})
    [] id = "hypervisor" -> Finds(h, {"vmms", "pveproxy", "pvedaemon", "libvirtd"})
    [] id = "docker" -> Finds(h, {"docker", "dockerd", "containerd"}) \/ "containers" \in h.snapshot
    [] id = "backup" -> Finds(h, {"VeeamBackupSvc", "Veeam.Backup.Service", "borg", "borgbackup", "restic", "urbackupsrv", "bareos-dir", "bacula-dir"})
    [] id = "print" -> h.os = "windows" /\ h.server /\ "Spooler" \in h.services
TemplateChecks(h, id) ==
  CASE id = "web" -> WebChecks(h) [] id = "database" -> DatabaseChecks(h) [] id = "dns" -> DnsChecks(h) [] id = "mail" -> MailChecks(h)
    [] id = "file" -> FileChecks(h) [] id = "dc" -> DcChecks(h) [] id = "hypervisor" -> HypervisorChecks(h) [] id = "docker" -> DockerChecks(h)
    [] id = "backup" -> BackupChecks(h) [] id = "print" -> PrintChecks(h)
    [] id = "security-windows" -> WindowsBaseline [] id = "security-linux" -> LinuxBaseline [] id = "security-macos" -> MacBaseline

(* The metrics of a snapshot that are worth a check, by the part they need. *)
SnapshotMetrics == {<<"cpu", "cpu.percent">>, <<"mem", "mem.percent">>, <<"swap", "swap.percent">>, <<"steal", "cpu.steal">>, <<"updates", "updates.security">>,
  <<"pendingReboot", "reboot.pending">>, <<"synced", "time.synced">>, <<"offset", "time.offset_ms">>, <<"firewall", "firewall.enabled">>,
  <<"encryption", "encryption.enabled">>, <<"defender", "defender.realtime">>, <<"defender", "defender.signature_age_days">>,
  <<"failedLogins", "logins.failed">>, <<"battery", "battery.percent">>, <<"temps", "temp.max">>}
ItemMetrics == {<<"disk", "disk.used_percent">>, <<"inodes", "disk.inodes_percent">>, <<"disk", "disk.read_only">>, <<"nic", "net.up">>, <<"nic", "net.errors_per_sec">>,
  <<"smart", "smart.healthy">>, <<"wear", "smart.wear_percent">>, <<"raid", "raid.healthy">>}
CertOf(c) == Check("ssl_cert", [host |-> "a", port |-> c.config.url])
MissingCerts(checks) == {CertOf(c) : c \in {c \in checks : c.type = "http" /\ c.config.url \in TLS /\ \A d \in checks : d.type # "ssl_cert"}}
SuggestChecks(h) ==
  {Check("agent_heartbeat", <<>>), Check("host_reboot", <<>>), Check("agent_services_overview", <<>>)}
  \cup {Watch(x[2]) : x \in {x \in SnapshotMetrics : x[1] \in h.snapshot}}
  \cup On("load" \in h.snapshot /\ h.os # "windows", {Watch("load.5")})
  \cup (UNION {EachOf(x[2], {x[1]}) : x \in {x \in ItemMetrics : x[1] \in h.snapshot}})
  \cup On("disk" \in h.snapshot, {Check("disk_forecast", [mount |-> "disk"])})
  \cup Services(h, NOTABLE)
  \cup {Check("agent_process", [serviceName |-> n, measure |-> "count"]) : n \in h.found \cap NOTABLE}
  \cup {Check("agent_process", [serviceName |-> n, measure |-> "memory_mb"]) : n \in h.found \cap DATABASE_PROCESS}
  \cup On("containers" \in h.snapshot, Containers \cup {Check("agent_docker", [container |-> "c", measure |-> "status"])})
  \cup (IF h.os = "windows" THEN {Event("System", ids) : ids \in {"41,6008", "7031,7034", "7,11,51,153"}}
        ELSE On(h.os = "linux" \/ "load" \in h.snapshot, {Check("agent_journal", [unit |-> ""])}))
  \cup On(h.address, {Check("ping", [host |-> "a"])} \cup UNION {PORT_CHECKS(p) : p \in h.ports})
  \cup On("software" \in h.snapshot, Updates)
  \cup MissingCerts(existing)
  \cup UNION {TemplateChecks(h, id) : id \in {id \in Roles : Detect(h, id)}}

-----------------------------------------------------------------------------
(* One of each key, and none that is there already; which of several with    *)
(* one key is kept is left open.                                             *)
\* A mutant: of two with one key, both are kept.
NotThere(S) == {s \in S : \A t \in existing : SuggestionKey(t) # SuggestionKey(s)}
Unique(S) == {CHOOSE s \in S : SuggestionKey(s) = k : k \in {SuggestionKey(s) : s \in S} \ {SuggestionKey(s) : s \in existing}}
SuggestionsFor(h) == Unique(SuggestChecks(h))
TemplatesFor(h, id) == Unique(TemplateChecks(h, id))
(* A site's, for the site and for the endpoint: what is there already is     *)
(* asked for by its type.                                                    *)
NoneOf(t, S) == \A c \in S : c.type # t
ForSite(h) == On(h.office,
  On(\A c \in existing \cup siteChecks : c # Check("ping", [host |-> "1.1.1.1"]), {Check("ping", [host |-> "1.1.1.1"])})
  \cup On(NoneOf("dns", existing \cup siteChecks), {Check("dns", [hostname |-> "example.com"])})
  \cup On(NoneOf("public_ip", existing \cup siteChecks), {Check("public_ip", [url |-> "ipify"])}))
ForEndpoint(h) ==
  On(h.address /\ existing = {}, {Check("ping", [host |-> "a"])})
  \cup On(h.agent /\ NoneOf("agent_heartbeat", existing), {Check("agent_heartbeat", <<>>)})
  \cup On(h.printer /\ h.address /\ NoneOf("snmp", existing), {Check("snmp", [host |-> "a", preset |-> p]) : p \in {"printer_supplies", "printer_status"}})
  \cup MissingCerts(existing)

SuggestionsInit == host \in Hosts /\ existing = {} /\ siteChecks = {} /\ added = 0
Add(S, T) ==
  /\ added < MaxAdded /\ S \cup T # {} /\ added' = added + 1 /\ UNCHANGED host
  /\ existing' = existing \cup S /\ siteChecks' = siteChecks \cup T
ApplyAll == Add(SuggestionsFor(host), {})
ApplyTemplate == \E id \in Templates : Add(TemplatesFor(host, id), {})
ApplySite == Add(ForEndpoint(host), ForSite(host))
AddOne == \E s \in SuggestionsFor(host) : Add({s}, {})
SuggestionsNext == ApplyAll \/ ApplyTemplate \/ ApplySite \/ AddOne

-----------------------------------------------------------------------------
(* These checks are added without validate (checks.ts:54): each would have   *)
(* passed it, wherever it is added, so that it has a place to run and, being *)
(* pushed to by nobody, needs no URL.  And whatever was applied in whatever  *)
(* order, no two checks of the endpoint are the same to suggestionKey.       *)
FitTheirPlace == /\ \A s \in existing : s.type \in CheckType \ PushTypes
                 /\ \A s \in siteChecks : s.type \in CheckType \ (PushTypes \cup EndpointScoped)
NoneTwice == \A s, t \in existing : SuggestionKey(s) = SuggestionKey(t) => s = t
SuggestionsFit == FitTheirPlace /\ NoneTwice
=============================================================================
