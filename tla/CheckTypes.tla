----------------------------- MODULE CheckTypes -----------------------------
(* The check types and who executes each (db/checkTypes.ts), and the types   *)
(* that the ways of adding checks in one go make.                            *)
RemoteProbeTypes == {"ping", "tcp", "http", "dns", "ssl_cert"}
LocalTypes == {"trap_match", "syslog_match", "anomaly", "heartbeat", "push_value", "agent_heartbeat", "disk_forecast", "ip_change", "calculated", "host_vulnerable"}
EngineTypes == RemoteProbeTypes \cup LocalTypes \cup {"snmp", "udp", "protocol", "email_roundtrip", "database", "traceroute", "browser", "ntp", "dhcp",
  "grpc", "mqtt", "websocket", "docker_registry", "arp_presence", "domain_expiry", "public_ip", "snmp_interfaces", "dns_zone", "bmc", "proxmox", "vmware",
  "prometheus", "webserver_status", "app_integration"}
OtherAgentTypes == {"agent_script"}
AgentTypes == OtherAgentTypes \cup {"agent_service", "agent_process", "agent_file", "agent_log", "agent_eventlog", "agent_journal", "agent_scheduled_task",
  "agent_services_overview", "agent_docker", "agent_hyperv", "agent_perfcounter", "agent_vpn", "agent_ups", "agent_backup", "agent_users", "agent_disk_tree"}
ReportTypes == {"host_cpu", "host_memory", "host_disk", "host_metric", "host_reboot", "host_change", "host_packages", "host_software"}
CheckType == EngineTypes \cup AgentTypes \cup ReportTypes
EndpointScoped == AgentTypes \cup ReportTypes \cup {"agent_heartbeat", "disk_forecast", "host_vulnerable"}
(* checks.probeEndpointId may name the agent that runs these. *)
Pinnable == RemoteProbeTypes \cup OtherAgentTypes
CollectorTypes == EngineTypes \ LocalTypes
PushTypes == {"heartbeat", "push_value"}

Suggested == ReportTypes \cup {"agent_heartbeat", "disk_forecast", "host_vulnerable", "agent_service", "agent_process", "agent_services_overview", "agent_docker",
  "agent_eventlog", "agent_journal", "agent_backup", "agent_hyperv", "agent_log", "ping", "http", "tcp", "dns", "protocol", "ssl_cert", "mqtt"}
SiteSuggested == {"ping", "dns", "public_ip", "agent_heartbeat", "snmp", "ssl_cert"}
TemplateTypes == {"snmp", "snmp_interfaces"}
DeviceTypes == {"ping", "arp_presence", "http", "ssl_cert", "protocol", "dns", "tcp", "proxmox", "snmp", "snmp_interfaces"}
=============================================================================
