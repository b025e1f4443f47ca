---------------------------- MODULE SlowCollector ---------------------------
(***************************************************************************)
(* The agent's slow collector, src/agent/internal/metrics/slow.go: what is *)
(* expensive to read is read by jobs of their own, each in its goroutine,  *)
(* and a report copies what they have stored.  HostReadings.tla says what  *)
(* a job reads of a host.                                                  *)
(*                                                                         *)
(* The jobs share nothing but a mutex, so one field of the report is looked*)
(* at a time.  A job other than the software's has no state but what it    *)
(* stores at its end: one step.  The software's copies the lock files the  *)
(* engine asked for, reads for minutes and then stores; a list that        *)
(* changed starts another collection at once, next to the one under way.   *)
(***************************************************************************)
EXTENDS HostReadings

CONSTANTS Paths,      \* the lock files there are
          MaxLists    \* how often the engine changes the list

ASSUME SlowAssumption == MaxLists \in Nat

VARIABLES field,      \* the field looked at
          host,
          shown,      \* what the collector has stored for it: the readings
          lockfiles,  \* the lock files asked for
          runs        \* the collections of software: 0 is the job's, the others one a change

slowvars == <<field, host, shown, lockfiles, runs>>

-----------------------------------------------------------------------------
\* The fields, with the job each comes from.
CollectSecurity(h) == [reboot |-> PendingReboot(h), firewall |-> FirewallState(h),
                       encryption |-> EncryptionState(h), defender |-> Defender(h)]

Collected(f, h) ==
  CASE f = "users" -> CollectSessions(h) [] f \in {"temps", "fans", "battery"} -> CollectSensors(h)[f]
    [] f = "failedLogins" -> CollectFailedLogins(h) [] f = "winSystem" -> CollectWinSystem(h)
    [] f \in {"reboot", "firewall", "encryption", "defender"} -> CollectSecurity(h)[f]
    [] f = "time" -> CollectTime(h) [] f \in {"raid", "spaces"} -> CollectRaid(h)
    [] f = "linkSpeeds" -> CollectLinkSpeeds(h) [] f = "smart" -> CollectSmart(h)
    [] f = "updates" -> CollectUpdates(h) [] f = "inventory" -> CollectInventory(h)

\* The jobs that store nothing when they could read nothing.
KeepsOld == {"winSystem", "linkSpeeds", "updates"}

\* What can be true of a host, and not answer, for a field.
Input(systems, facts, tools) == [systems |-> systems, facts |-> facts, tools |-> tools]
Desktops == {"linux", "windows", "darwin"}
Inputs == [
  users |-> Input({"linux", "windows"}, {"loggedIn"}, {"users"}),
  temps |-> Input({"linux"}, {"temperature"}, {"thermal"}),
  fans |-> Input({"linux", "windows"}, {"fan"}, {"hwmon"}),
  battery |-> Input({"linux", "android", "windows"}, {"battery", "charging"}, {"capacity", "termux", "batteryQuery"}),
  failedLogins |-> Input({"linux", "darwin"}, {"failedLogin"}, {"loginLog"}),
  winSystem |-> Input({"linux", "windows"}, {"manyThreads"}, {"perfCounters"}),
  reboot |-> Input(Desktops, {"rebootRequired", "coreUpdated", "servicing"}, {"needsRestarting", "registry"}),
  firewall |-> Input({"linux", "windows"}, {"ufw", "firewalld", "nftables", "allProfiles"},
                     {"ufw", "firewalld", "nftables", "allProfiles"}),
  encryption |-> Input(Desktops, {"encrypted"}, {"rootDevice", "blockDevices"}),
  defender |-> Input({"linux", "windows"}, {"protected"}, {"defenderStatus"}),
  time |-> Input({"linux", "darwin"}, {"synced"}, {"ntp", "timeService"}),
  raid |-> Input({"linux"}, {"md", "mdFailed", "hwRaid"}, {"mdstat", "storcli"}),
  spaces |-> Input({"windows"}, {"space", "spaceDegraded"}, {"virtualDisks"}),
  linkSpeeds |-> Input({"linux", "windows"}, {"gigabit"}, {"netAdapters"}),
  smart |-> Input({"linux", "windows"}, {"smartctl", "smartStatus", "smartFails", "worn"}, {"scan", "disk", "physicalDisks"}),
  updates |-> Input({"linux", "darwin"}, {"apt", "dnf", "security", "phased"}, {"upgradable", "sync", "advisories", "simulation"}),
  inventory |-> Input(Desktops \union {"android"}, {"cpuModel", "model", "serial"}, {"hostInfo", "maker"}),
  software |-> Input({"linux"}, {"dpkg", "rpm"}, Paths)]

Fields == DOMAIN Inputs
Hosts(f) == [os : Inputs[f].systems, facts : SUBSET Inputs[f].facts, mute : SUBSET Inputs[f].tools]

-----------------------------------------------------------------------------
SlowInit ==
  /\ field \in Fields /\ host \in Hosts(field)
  /\ shown = {} /\ lockfiles = {}
  /\ runs = [j \in 0 .. MaxLists |-> [at |-> IF j = 0 THEN "due" ELSE "unused", lockfiles |-> {}]]

\* A tool stops answering or answers again; a fact comes or goes.
Flip(set, x) == IF x \in set THEN set \ {x} ELSE set \union {x}
HostChanges ==
  /\ field # "software"
  /\ \/ \E t \in Inputs[field].tools : host' = [host EXCEPT !.mute = Flip(@, t)]
     \/ \E x \in Inputs[field].facts : host' = [host EXCEPT !.facts = Flip(@, x)]
  /\ UNCHANGED <<field, shown, lockfiles, runs>>

\* A job runs: at the start, and then at its interval.
RunJob ==
  /\ field # "software"
  /\ shown' = IF field \in KeepsOld /\ Collected(field, host) = {} THEN shown ELSE Collected(field, host)
  /\ UNCHANGED <<field, host, lockfiles, runs>>

-----------------------------------------------------------------------------
Goes(j, at, files) == runs' = [runs EXCEPT ![j] = [at |-> at, lockfiles |-> files]]

\* The engine's config names the lock files; nothing happens if they are the same.
SetLockfiles(files) ==
  /\ field = "software" /\ files # lockfiles
  /\ lockfiles' = files
  /\ \E j \in 1 .. MaxLists :
       /\ runs[j].at = "unused" /\ \A i \in 1 .. j - 1 : runs[i].at # "unused"
       /\ Goes(j, "due", {})
  /\ UNCHANGED <<field, host, shown>>

\* Mutated form of BeginSoftware: the job runs once.
BeginSoftwareOnce(j) ==
  /\ field = "software" /\ runs[j].at = "due" /\ (j = 0 => shown = {})
  /\ Goes(j, "reading", lockfiles)
  /\ UNCHANGED <<field, host, shown, lockfiles>>

BeginSoftware(j) ==
  /\ field = "software" /\ runs[j].at = "due"
  /\ Goes(j, "reading", lockfiles)
  /\ UNCHANGED <<field, host, shown, lockfiles>>

EndSoftware(j) ==
  /\ field = "software" /\ runs[j].at = "reading"
  /\ shown' = CollectPackages(host, runs[j].lockfiles)
  /\ Goes(j, IF j = 0 THEN "due" ELSE "done", {})
  /\ UNCHANGED <<field, host, lockfiles>>

SlowNext ==
  \/ HostChanges \/ RunJob
  \/ \E files \in SUBSET Paths : SetLockfiles(files)
  \/ \E j \in DOMAIN runs : BeginSoftware(j) \/ EndSoftware(j)

\* Each goroutine goes on: the job's, and that of every change.
SlowFairness == \A j \in 0 .. MaxLists : WF_slowvars(BeginSoftware(j)) /\ WF_slowvars(EndSoftware(j))

-----------------------------------------------------------------------------
\* What is so: what would be read if every tool answered, and a firewall is on if any is.
Really(f, h) ==
  IF f = "firewall" THEN IF \E i \in DOMAIN Firewalls(h) : True(h, Firewalls(h)[i]) THEN {"yes"} ELSE {"no"}
  ELSE Collected(f, [h EXCEPT !.mute = {}])

\* The readings slow.go does get wrong: a failure it takes for "none", a kind of update it
\* then can't tell, and a firewall that is off in front of one that is on.
Misread(f, h) ==
  \/ f = "users" /\ ~Answers(h, "users")
  \/ f = "reboot" /\ h.mute # {}
  \/ f = "firewall" /\ \E i \in DOMAIN Firewalls(h) : Answers(h, Firewalls(h)[i]) /\ ~True(h, Firewalls(h)[i])
  \/ f = "updates" /\ h.mute \intersect {"sync", "advisories", "simulation"} # {}

\* What a job reads is so, or left out, or, where the code keeps it, what was read
\* before: a tool that fails, is missing or answers with an error is never a reading
\* (slow.go), but for the cases named.
OnlyWhatIsRead ==
  [][RunJob => \/ shown' \subseteq Really(field, host)
               \/ field \in KeepsOld /\ shown' = shown
               \/ Misread(field, host)]_slowvars

\* An older collection may end after a newer one and put the old lock files back
\* (SetLockfiles starts one at once, slow.go:977); in the end the report has the packages of
\* the lock files asked for.
SoftwareCatchesUp ==
  field = "software" => <>[](shown = CollectPackages(host, lockfiles))
=============================================================================
