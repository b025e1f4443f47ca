---------------------------- MODULE HostReadings ----------------------------
\* What each job of the agent's slow collector reads of its host:
\* src/agent/internal/metrics/slow.go, and its package lists in software.go.
\*
\* A host is its system, the facts that are true of it, and the tools that do not
\* answer: not installed, timed out, not readable or of no sense.  What a job reads is
\* a set of readings; the empty set is a field left out of the report.
EXTENDS Naturals, Sequences

Answers(h, tool) == tool \notin h.mute
True(h, f) == f \in h.facts
YesNo(h, f) == IF True(h, f) THEN {"yes"} ELSE {"no"}

If(b, readings) == IF b THEN readings ELSE {}

Linux(h) == h.os \in {"linux", "android"}  \* Android runs the Linux build

\* What a tool that answers says of a fact.
Told(h, tool, f) == IF Answers(h, tool) THEN YesNo(h, f) ELSE {}

\* The fact f, read where the tool answers.
Seen(h, tool, f) == IF Answers(h, tool) THEN {f} \cap h.facts ELSE {}

-----------------------------------------------------------------------------
\* Sessions: a list that can't be read counts nobody.
CollectSessions(h) == IF Seen(h, "users", "loggedIn") # {} THEN {"somebody"} ELSE {"nobody"}

Temperatures(h) == Seen(h, "thermal", "temperature")  \* those above 150 degrees left out
LinuxFans(h) == Seen(h, "hwmon", "fan")

\* On power: as the adapter says if there is one, else as the battery's status does.
OnPower(h) == IF True(h, "charging") THEN {"onPower"} ELSE {"draining"}

\* A phone whose kernel hides the battery asks Termux:API.
LinuxBattery(h) ==
  If(True(h, "battery") /\ (Answers(h, "capacity") \/ (h.os = "android" /\ Answers(h, "termux"))), OnPower(h))

Battery(h) ==
  IF Linux(h) THEN LinuxBattery(h) ELSE If(True(h, "battery") /\ Answers(h, "batteryQuery"), OnPower(h))

CollectSensors(h) == [temps |-> Temperatures(h), fans |-> If(Linux(h), LinuxFans(h)), battery |-> Battery(h)]

CollectFailedLogins(h) == IF h.os = "darwin" THEN {} ELSE Told(h, "loginLog", "failedLogin")

-----------------------------------------------------------------------------
\* Only Windows answers these; what can't be read leaves the last reading in place.
CollectWinSystem(h) == If(h.os = "windows", Told(h, "perfCounters", "manyThreads"))
CollectLinkSpeeds(h) == If(h.os = "windows", Told(h, "netAdapters", "gigabit"))

-----------------------------------------------------------------------------
\* The three registry keys of Windows, and what Linux has for them: a key that can't be
\* read, or a tool that fails, says that no reboot is pending.
PendingReboot(h) ==
  CASE Linux(h) ->
         IF True(h, "rebootRequired") \/ Seen(h, "needsRestarting", "coreUpdated") # {} THEN {"yes"} ELSE {"no"}
    [] h.os = "windows" ->
         IF \E k \in {"servicing", "windowsUpdate", "renames"} : Seen(h, "registry", k) # {} THEN {"yes"} ELSE {"no"}
    [] OTHER -> {}

\* The firewalls in the order they are asked; the first that answers decides.
Firewalls(h) ==
  CASE Linux(h) -> <<"ufw", "firewalld", "nftables">>
    [] h.os = "windows" -> <<"allProfiles">>
    [] OTHER -> <<"applicationFirewall">>

\* Mutated form of FirewallState: whatever the first one says, also when it is not
\* installed or may not be asked.
FirewallStateFirst(h) == YesNo(h, Firewalls(h)[1])

FirewallState(h) ==
  LET answering == {i \in DOMAIN Firewalls(h) : Answers(h, Firewalls(h)[i])}
  IN IF answering = {} THEN {} ELSE YesNo(h, Firewalls(h)[CHOOSE i \in answering : \A j \in answering : i <= j])

EncryptionState(h) ==
  IF Linux(h) /\ ~Answers(h, "rootDevice") THEN {} ELSE Told(h, "blockDevices", "encrypted")

Defender(h) == IF h.os = "windows" THEN Told(h, "defenderStatus", "protected") ELSE {}

-----------------------------------------------------------------------------
\* The server asked is told in any case.
CollectTime(h) ==
  {"server"} \union If(Answers(h, "ntp"), {"offset"})
    \union IF h.os = "darwin" THEN {} ELSE Told(h, "timeService", "synced")

\* An array is healthy when it is active and no member has failed or is missing.
ParseMdstat(h) ==
  IF ~True(h, "md") THEN {}
  ELSE IF \E bad \in {"mdFailed", "mdMissing", "mdInactive"} : True(h, bad) THEN {"mdFaulty"} ELSE {"mdHealthy"}

ParseZpoolList(h) == IF ~True(h, "zpool") THEN {} ELSE IF True(h, "zpoolDegraded") THEN {"zpoolFaulty"} ELSE {"zpoolHealthy"}
ParseStorcli(h) == IF ~True(h, "hwRaid") THEN {} ELSE IF True(h, "hwRaidDegraded") THEN {"hwRaidFaulty"} ELSE {"hwRaidHealthy"}
StorageSpaces(h) == IF ~True(h, "space") THEN {} ELSE IF True(h, "spaceDegraded") THEN {"spaceFaulty"} ELSE {"spaceHealthy"}

CollectRaid(h) ==
  If(Linux(h) /\ Answers(h, "mdstat"), ParseMdstat(h))
    \union If(Linux(h) /\ Answers(h, "zpoolList"), ParseZpoolList(h))
    \union If(Linux(h) /\ Answers(h, "storcli"), ParseStorcli(h))
    \union If(h.os = "windows" /\ Answers(h, "virtualDisks"), StorageSpaces(h))

-----------------------------------------------------------------------------
\* Wear is what the vendor counts down from 100, of an NVMe disk what it has used.
ParseSmartctl(h) ==
  LET wear == If(True(h, "worn"), {"worn"}) \union If(True(h, "reallocated"), {"reallocated"})
  IN wear \union If(True(h, "smartStatus"), IF True(h, "smartFails") THEN {"failing"} ELSE {"passed"})

\* A disk that tells neither its status nor its temperature is left out.
SmartctlDisks(h) ==
  If(Answers(h, "scan") /\ Answers(h, "disk") /\ (True(h, "smartStatus") \/ True(h, "diskTemperature")),
     {"disk"} \union ParseSmartctl(h))

WindowsStorageReliability(h) ==
  If(Answers(h, "physicalDisks"),
     {"disk"} \union If(True(h, "worn"), {"worn"}) \union IF True(h, "smartFails") THEN {"failing"} ELSE {"passed"})

CollectSmart(h) ==
  IF True(h, "smartctl") THEN SmartctlDisks(h) ELSE If(h.os = "windows", WindowsStorageReliability(h))

-----------------------------------------------------------------------------
\* The package managers in the order they are looked for: the first that is installed.
ManagerOf(h) ==
  CASE h.os = "windows" -> "windowsUpdate" [] h.os = "darwin" -> "softwareupdate"
    [] True(h, "apt") -> "apt" [] True(h, "dnf") -> "dnf" [] True(h, "pacman") -> "pacman" [] OTHER -> "none"

\* The updates of a host: a plain one, a security update, one held back by phasing.
\* Where the command that tells a kind apart fails, that kind counts as plain.
Untold(found, kind) == (found \ {kind}) \union If(kind \in found, {"plain"})

ParseApt(h) ==
  LET found == {"plain", "security", "phased"} \intersect h.facts
  IN IF Answers(h, "simulation") THEN found ELSE Untold(found, "phased")

ParseDnf(h) ==
  LET found == {"plain", "security"} \intersect h.facts
  IN IF Answers(h, "advisories") THEN found ELSE Untold(found, "security")

\* The exit code is not asked for: a list that could not be brought up to date is empty.
ParseCheckupdates(h) == Seen(h, "sync", "plain")

UpgradablePackages(h) ==
  CASE ManagerOf(h) = "apt" -> ParseApt(h) [] ManagerOf(h) = "dnf" -> ParseDnf(h)
    [] ManagerOf(h) = "windowsUpdate" -> {"plain", "security"} \intersect h.facts
    [] ManagerOf(h) \in {"pacman", "softwareupdate"} -> ParseCheckupdates(h)

UpgradableKnown(h) ==
  /\ ManagerOf(h) # "none" /\ Answers(h, "upgradable")
  /\ ManagerOf(h) \in {"apt", "dnf", "windowsUpdate"} => Answers(h, "sync")

CollectUpdates(h) ==
  If(UpgradableKnown(h), IF UpgradablePackages(h) = {} THEN {"upToDate"} ELSE UpgradablePackages(h))

-----------------------------------------------------------------------------
\* What the machine is: each part that could be read, the cores always.
CollectInventory(h) ==
  {"cores"} \union Seen(h, "hostInfo", "virtual") \union Seen(h, "cpuInfo", "cpuModel")
    \union (IF h.os = "android" THEN {"androidName"} ELSE If(Answers(h, "hostInfo"), {"osName"}))
    \union Seen(h, "maker", "model")
    \union If(h.os \in {"linux", "windows"}, Seen(h, "maker", "serial"))

-----------------------------------------------------------------------------
\* The lists of one system's own packages, asked in this order until one is not empty.
PackageLists(h) ==
  IF Linux(h) THEN <<"dpkg", "rpm", "apk", "pacman">> ELSE <<IF h.os = "windows" THEN "uninstallKeys" ELSE "applications">>

SystemPackages(h) ==
  LET full == {i \in DOMAIN PackageLists(h) : LET l == PackageLists(h)[i] IN Answers(h, l) /\ True(h, l)}
  IN IF full = {} THEN {} ELSE {PackageLists(h)[CHOOSE i \in full : \A j \in full : i <= j]}

\* A lock file that is not allowed, too large or not readable is an error in the report.
ReadLockfile(h, path) == If(Answers(h, path), {path})

CollectPackages(h, lockfiles) ==
  SystemPackages(h) \union Seen(h, "npmList", "npm") \union Seen(h, "pipList", "pip")
    \union Seen(h, "versions", "runtime") \union UNION {ReadLockfile(h, path) : path \in lockfiles}
=============================================================================
