------------------------- MODULE CollectorSupervisor -------------------------
(***************************************************************************)
(* The part of the agent that installs and runs the site collector         *)
(* (agent/internal/collector).  Apply is called by the agent's loop; an    *)
(* installation, the wait for the process and the timer that restarts it   *)
(* are goroutines of their own.  Every critical section of the mutex is a  *)
(* step.  A version stands for the Node runtime and the bundle together.   *)
(***************************************************************************)
EXTENDS Naturals

CONSTANTS MaxReleases \* bound on the versions the engine serves

ASSUME SupervisorAssumption == MaxReleases \in Nat \ {0}

VARIABLES site,      \* this host is a site's collector
          released,  \* version the engine serves
          want,      \* s.want (0: nil)
          cmd,       \* version of the process s.cmd (0: nil)
          asked,     \* its stdin is closed: it finishes
          installing, \* the installation (s.busy): its step, and the version it fetched
          held,      \* the callers of stop: the want each holds, the process it waits for
          timers,    \* a restart is scheduled
          disk, installed, \* version of the files, version in installed.json
          sturdy,    \* the process does not exit unless it is stopped, and files are replaced
                     \* sooner than the shortest delay of a restart (5 seconds)
          settled    \* from now on nothing changes and nothing fails

supervisor == <<want, cmd, asked, installing, held, timers>>
svars == <<site, released, supervisor, disk, installed, sturdy, settled>>

Versions == 1..MaxReleases
Callers == {"loop", "install"}
NotStopping == [on |-> FALSE, had |-> FALSE, want |-> 0]
NoInstall == [at |-> "none", version |-> 0]

SupervisorInit ==
  /\ site = TRUE /\ released = 1 /\ want = 0 /\ cmd = 0 /\ asked = FALSE
  /\ installing = NoInstall /\ held = [c \in Callers |-> NotStopping]
  /\ timers = FALSE /\ disk = 0 /\ installed = 0
  /\ sturdy \in BOOLEAN /\ settled = FALSE
-----------------------------------------------------------------------------
(* --- the engine's instruction --------------------------------------------- *)
Reassign ==
  /\ ~settled /\ site' = ~site
  /\ UNCHANGED <<released, supervisor, disk, installed, sturdy, settled>>
Release ==
  /\ ~settled /\ released < MaxReleases /\ released' = released + 1
  /\ UNCHANGED <<site, supervisor, disk, installed, sturdy, settled>>
Settle ==
  /\ ~settled /\ settled' = TRUE
  /\ UNCHANGED <<site, released, supervisor, disk, installed, sturdy>>

(* --- start and stop -------------------------------------------------------- *)
\* start: the process runs the files that are there now.
Start(wanted) ==
  IF cmd = 0 /\ wanted # 0 THEN cmd' = disk /\ asked' = FALSE ELSE UNCHANGED <<cmd, asked>>
StartFails == ~settled /\ UNCHANGED <<cmd, asked>>

\* stop, first half: nothing is wanted for now, and the process is asked to finish.
StopBegins(c, wanted) ==
  /\ held' = [held EXCEPT ![c] = [on |-> TRUE, had |-> cmd # 0, want |-> wanted]]
  /\ want' = 0
  /\ asked' = (asked \/ (cmd # 0))

Gone(c) == ~held[c].had

\* Second half, when the process is gone: what was wanted then is wanted again.
StopEnds(c) ==
  /\ held[c].on /\ Gone(c)
  /\ want' = held[c].want
  /\ held' = [held EXCEPT ![c] = NotStopping]
  /\ installing' = IF c = "install" THEN [installing EXCEPT !.at = "replace"] ELSE installing
  /\ UNCHANGED <<site, released, cmd, asked, timers, disk, installed, sturdy, settled>>

\* wait: the process has exited, and is started again after a while if it is wanted.
Exits ==
  /\ cmd # 0 /\ (asked \/ (~sturdy /\ ~settled))
  /\ cmd' = 0 /\ asked' = FALSE
  /\ timers' = (timers \/ (want # 0))
  /\ held' = [c \in Callers |-> [held[c] EXCEPT !.had = FALSE]]
  /\ UNCHANGED <<site, released, want, installing, disk, installed, sturdy, settled>>
TimerFires ==
  /\ timers /\ timers' = FALSE
  /\ sturdy => installing.at \in {"none", "fetch", "start"}
  /\ Start(want) \/ StartFails
  /\ UNCHANGED <<site, released, want, installing, held, disk, installed, sturdy, settled>>

(* --- Apply, called every cycle after a poll that worked --------------------- *)
LoopFree == ~held["loop"].on

\* Mutated form of ApplyNone: a process that is already asked to finish is left alone.
ApplyNoneOnce ==
  /\ LoopFree /\ ~site /\ want' = 0
  /\ UNCHANGED <<site, released, cmd, asked, installing, held, timers,
                 disk, installed, sturdy, settled>>
\* The host is no collector, or no longer.
ApplyNone ==
  /\ LoopFree /\ ~site
  /\ IF cmd # 0 THEN StopBegins("loop", 0) ELSE want' = 0 /\ UNCHANGED <<held, asked>>
  /\ UNCHANGED <<site, released, cmd, installing, timers, disk, installed, sturdy, settled>>

UpToDate == installed = released /\ disk # 0
Busy == installing.at # "none"

ApplyBusy ==
  /\ LoopFree /\ site /\ Busy
  /\ want' = released
  /\ UNCHANGED <<site, released, cmd, asked, installing, held, timers,
                 disk, installed, sturdy, settled>>
\* A process that is not running is started at once, whatever the delay.
ApplyInstalled ==
  /\ LoopFree /\ site /\ ~Busy /\ UpToDate
  /\ want' = released
  /\ IF cmd = 0 THEN Start(released) \/ StartFails ELSE UNCHANGED <<cmd, asked>>
  /\ UNCHANGED <<site, released, installing, held, timers, disk, installed, sturdy, settled>>
ApplyNew ==
  /\ LoopFree /\ site /\ ~Busy /\ ~UpToDate
  /\ want' = released
  /\ installing' = [at |-> "fetch", version |-> released]
  /\ UNCHANGED <<site, released, cmd, asked, held, timers, disk, installed, sturdy, settled>>

(* --- install ---------------------------------------------------------------- *)
\* The manifest and the files of one version; or an error.
Fetched ==
  /\ installing.at = "fetch"
  /\ installing' = [at |-> "stop", version |-> released]
  /\ UNCHANGED <<site, released, want, cmd, asked, held, timers, disk, installed, sturdy, settled>>
InstallFails ==
  /\ installing.at \in {"fetch", "replace", "record"} /\ ~settled
  /\ installing' = NoInstall
  /\ UNCHANGED <<site, released, want, cmd, asked, held, timers, disk, installed, sturdy, settled>>
InstallStops ==
  /\ installing.at = "stop"
  /\ installing' = [installing EXCEPT !.at = "stopping"]
  /\ StopBegins("install", want)
  /\ UNCHANGED <<site, released, cmd, timers, disk, installed, sturdy, settled>>
Replace ==
  /\ installing.at = "replace"
  /\ disk' = installing.version
  /\ installing' = [installing EXCEPT !.at = "record"]
  /\ UNCHANGED <<site, released, want, cmd, asked, held, timers, installed, sturdy, settled>>
\* installed.json is written, and the new process started if it is still wanted.
WriteInstalled ==
  /\ installing.at = "record"
  /\ installed' = installing.version
  /\ installing' = [installing EXCEPT !.at = "start"]
  /\ UNCHANGED <<site, released, want, cmd, asked, held, timers, disk, sturdy, settled>>
InstallStarts ==
  /\ installing.at = "start"
  /\ installing' = NoInstall
  /\ Start(want) \/ StartFails
  /\ UNCHANGED <<site, released, want, held, timers, disk, installed, sturdy, settled>>

(* --- the end of the agent ---------------------------------------------------- *)
\* It is killed or updated: its child sees stdin closed and ends by itself.
AgentRestarts ==
  /\ ~settled
  /\ want' = 0 /\ cmd' = 0 /\ asked' = FALSE /\ installing' = NoInstall
  /\ held' = [c \in Callers |-> NotStopping] /\ timers' = FALSE
  /\ UNCHANGED <<site, released, disk, installed, sturdy, settled>>
-----------------------------------------------------------------------------
Apply == ApplyNone \/ ApplyBusy \/ ApplyInstalled \/ ApplyNew
Install == Fetched \/ InstallFails \/ InstallStops \/ Replace \/ WriteInstalled \/ InstallStarts

SupervisorNext ==
  \/ Reassign \/ Release \/ Settle \/ AgentRestarts
  \/ Apply \/ Install
  \/ \E c \in Callers : StopEnds(c)
  \/ Exits \/ TimerFires

-----------------------------------------------------------------------------
SupervisorTypeOK ==
  /\ released \in Versions
  /\ {want, cmd, disk, installed, installing.version} \subseteq 0..MaxReleases
  /\ {site, asked, timers, sturdy, settled} \subseteq BOOLEAN
  /\ \A c \in Callers : held[c].want \in 0..MaxReleases

\* When the engine's instruction no longer changes, a host that is no collector ends up
\* without one, although stop puts back an instruction that is out of date; and a
\* collector ends up running the version the engine serves (Apply, install, stop, wait).
FollowsInTheEnd ==
  /\ <>[](settled /\ ~site) => <>[](cmd = 0)
  /\ <>[](settled /\ site /\ sturdy) => <>[](cmd = released)
=============================================================================
