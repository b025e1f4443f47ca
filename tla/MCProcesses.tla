---------------------------- MODULE MCProcesses ----------------------------
(* What goes on by itself beside the checks: the agent's watchdog, collector *)
(* supervisor, slow collector and queries of its mounts, the engine's        *)
(* backups, and the remembered state of a check.  They share nothing, so     *)
(* each runs with the others at rest.                                        *)
EXTENDS AgentWatchdog, CollectorSupervisor, Backups, CheckState, SlowCollector, Mounts

CONSTANTS o1, o2, o3, h1, h2, q1, q2

VARIABLE part
procvars == <<wvars, svars, vars, statevars, slowvars, mvars>>
allvars == <<part, procvars>>

AllInit ==
  /\ part \in {"watchdog", "supervisor", "backups", "state", "slow", "mounts"}
  /\ WatchdogInit /\ (part # "watchdog" => steady)
  /\ SupervisorInit /\ (part # "supervisor" => sturdy)
  /\ Init
  /\ StateInit /\ (part # "state" => type = "event" /\ overlapping)
  /\ MountsInit /\ mine = q1
  /\ SlowInit /\ (part # "slow" => field = "defender" /\ host.os = "linux" /\ host.facts \union host.mute = {})

Others(part1, vars1) == part = part1 /\ UNCHANGED <<part, vars1>>
AllNext ==
  \/ WatchdogNext /\ Others("watchdog", <<svars, vars, statevars, slowvars, mvars>>)
  \/ SupervisorNext /\ Others("supervisor", <<wvars, vars, statevars, slowvars, mvars>>)
  \/ Next /\ Others("backups", <<wvars, svars, statevars, slowvars, mvars>>)
  \/ StateNext /\ Others("state", <<wvars, svars, vars, slowvars, mvars>>)
  \/ SlowNext /\ Others("slow", <<wvars, svars, vars, statevars, mvars>>)
  \/ MountsNext /\ Others("mounts", <<wvars, svars, vars, statevars, slowvars>>)

\* The agent's cycle goes on, and comes to its end and to a delivery that succeeds again
\* and again.  The supervisor polls, its goroutines go on, its timers fire, and a process
\* asked to finish does, or is killed after 10 seconds.  Time passes for a check, its
\* handlers finish, and it is run again and again.
OnFairness ==
  /\ WF_wvars(part = "watchdog" /\ WatchdogSteps) /\ SF_wvars(part = "watchdog" /\ CycleEnds)
  /\ SF_wvars(part = "watchdog" /\ SayAgain(TRUE)) /\ SF_wvars(part = "watchdog" /\ SayAlert(TRUE))
  /\ WF_svars(part = "supervisor" /\ Apply) /\ WF_svars(part = "supervisor" /\ Install)
  /\ WF_svars(part = "supervisor" /\ TimerFires) /\ WF_svars(part = "supervisor" /\ asked /\ Exits)
  /\ \A c \in Callers : WF_svars(part = "supervisor" /\ StopEnds(c))
  /\ WF_statevars(part = "state" /\ Pass)
  /\ WF_statevars(part = "state" /\ \E h \in Handlers : Read(h, "judge"))
  /\ \A h \in Handlers :
       /\ WF_statevars(Judge(h)) /\ WF_statevars(Resolve(h))
       /\ WF_statevars(\E s \in StateStatuses : Ping(h, s))
       /\ WF_statevars(\E by \in Recorders : Record(h, by))

AllFairSpec ==
  AllInit /\ [][AllNext]_allvars /\ OnFairness /\ BackupFairness /\ SlowFairness
=============================================================================
