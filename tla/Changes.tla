------------------------------- MODULE Changes -------------------------------
\* Checks that watch something for changes: a run compares what it reads with what the
\* run before read, and a change keeps the check failing for a while, so that a rule
\* that waits for two failures in a row still sees it.
\* src/engine/src/services: endpointMetrics.ts, software.ts, userAccounts.ts and
\* probes/ (dnsZone.ts, services.ts, snmp.ts); src/engine/src/routes/agent.ts.
\*
\* The state a run stores and the result it returns are two awaits: a run can end between
\* them, and what it had found is then known to the next one only through the state.
EXTENDS Integers

CONSTANTS
  Items,   \* what is listed: accounts, packages, records, sessions, hops, jobs
  Hold     \* holdMinutes, in units of a run's interval

ASSUME ChangesAssumption == Hold \in Nat \ {0}

VARIABLES
  kind,      \* which check it is
  hold,      \* its holdMinutes
  severity,  \* status for a change
  world,     \* what there is: for each item its value, "none" when it is not there
  known,     \* state.items and the like: what the last reading found, NoReading at first
  age,       \* time since state.changedAt, Hold when that is long ago or never
  held,      \* state.heldStatus
  judged,    \* the result of a run that has stored its state and not recorded its result
  recorded,  \* the last result
  truth,     \* history: the world at the last reading
  whole,     \* history: every reading was complete
  news       \* history: time since a reading found something its predecessor could not
chvars == <<kind, hold, severity, world, known, age, held, judged, recorded, truth, whole, news>>

NoReading == [i \in {} |-> "none"]
Values == {"none", "plain", "admin"}
Kinds == {"reboot", "inventory", "sessions", "software", "users", "zone", "public_ip", "traceroute", "printer_jobs", "event"}

\* Status without a reading: the list is missing, the server does not answer.
Blindly(k) == IF k \in {"zone", "public_ip", "traceroute"} THEN "down"
              ELSE IF k = "printer_jobs" THEN "warn" ELSE "unknown"

\* What a reading finds.  An account's flag, or a router's address, may be missing from it.
Reading(hidden) ==
  [i \in Items |-> IF i \notin hidden \/ world[i] = "none" THEN world[i] ELSE IF kind = "users" THEN "unread" ELSE "none"]
MayHide == IF kind \in {"users", "traceroute"} THEN SUBSET Items ELSE {{}}

\* diffUsers: only fields that were read both times are compared.
DiffUsers(prev, now) ==
  {i \in Items : prev[i] # now[i] /\ ("none" \in {prev[i], now[i]} \/ "unread" \notin {prev[i], now[i]})}
GainsAdmin(prev, now) == {i \in DiffUsers(prev, now) : now[i] = "admin"}

\* Sessions and failed jobs only count when they are new: evaluateChange, printer_jobs.
Added(prev, now) == {i \in Items : now[i] # "none" /\ now[i] # prev[i]}

\* evaluateReboot, evaluateChange, evaluateSoftwareChange, diffZone, and the agent's own
\* comparison of what it marks as an event: any difference.
Differs(prev, now) == {i \in Items : prev[i] # now[i]}

Noticed(prev, now) ==
  IF prev = NoReading THEN {}
  ELSE CASE kind \in {"sessions", "printer_jobs"} -> Added(prev, now)
         [] kind = "users" -> DiffUsers(prev, now)
         [] OTHER -> Differs(prev, now)

-----------------------------------------------------------------------------
\* Mutated form of ChangedAt: a run without a change forgets the last one.
ChangedAtNow(noticed) == IF noticed # {} THEN 0 ELSE Hold

ChangedAt(noticed) == IF noticed # {} THEN 0 ELSE age

\* evaluateUserAccounts: the status of this report's changes, or of the last ones.
UsersStatus(prev, now) == IF prev # NoReading /\ GainsAdmin(prev, now) # {} THEN "down" ELSE severity

\* Some return the change itself and look at the hold afterwards, the rest only at the hold.
AtOnce == {"users", "zone", "traceroute", "event"}
Recent(noticed) == ChangedAt(noticed) < hold

Status(noticed, prev, now) ==
  IF noticed # {} /\ kind \in AtOnce
    THEN CASE kind = "users" -> UsersStatus(prev, now) [] kind = "event" -> "down" [] OTHER -> severity
  ELSE IF Recent(noticed) /\ kind # "traceroute"
    THEN CASE kind = "users" -> held [] OTHER -> severity
  ELSE "up"

\* A run that reads something: the state is stored, the result is not recorded yet.
Judge(hidden) ==
  LET now == Reading(hidden)
      noticed == Noticed(known, now)
      changed == truth # NoReading /\ (IF kind \in {"sessions", "printer_jobs"} THEN Added(truth, world) ELSE Differs(truth, world)) # {}
  IN /\ judged = "none"
     /\ known' = now
     /\ age' = ChangedAt(noticed)
     /\ held' = IF kind = "users" /\ noticed # {} THEN UsersStatus(known, now) ELSE held
     /\ judged' = Status(noticed, known, now)
     /\ truth' = world
     /\ whole' = (whole /\ now = world)
     /\ news' = IF changed THEN 0 ELSE news
     /\ UNCHANGED <<kind, hold, severity, world, recorded>>

\* A run that reads nothing: its result says so, and the state stays as it is.
RunBlindly ==
  /\ judged = "none" /\ recorded' = Blindly(kind)
  /\ UNCHANGED <<kind, hold, severity, world, known, age, held, judged, truth, whole, news>>

RecordJudged ==
  /\ judged # "none" /\ recorded' = judged /\ judged' = "none"
  /\ UNCHANGED <<kind, hold, severity, world, known, age, held, truth, whole, news>>

\* A restart, or a query that throws, between the state and the result.
LoseJudged ==
  /\ judged # "none" /\ judged' = "none"
  /\ UNCHANGED <<kind, hold, severity, world, known, age, held, recorded, truth, whole, news>>

\* Time passes between runs.
Wait ==
  /\ judged = "none"
  /\ age' = IF age < Hold THEN age + 1 ELSE age
  /\ news' = IF news < Hold THEN news + 1 ELSE news
  /\ UNCHANGED <<kind, hold, severity, world, known, held, judged, recorded, truth, whole>>

Alter(i, v) ==
  /\ world[i] # v /\ world' = [world EXCEPT ![i] = v]
  /\ kind = "traceroute" => v # "none"
  /\ UNCHANGED <<kind, hold, severity, known, age, held, judged, recorded, truth, whole, news>>

ChangesInit ==
  /\ kind \in Kinds /\ hold \in {0, Hold} /\ severity \in {"warn", "down"}
  /\ world = [i \in Items |-> "plain"]
  /\ known = NoReading /\ truth = NoReading /\ whole = TRUE /\ age = Hold /\ news = Hold
  /\ held = severity /\ judged = "none" /\ recorded = "none"

ChangesNext ==
  \/ \E hidden \in MayHide : Judge(hidden)
  \/ \E i \in Items, v \in Values : Alter(i, v)
  \/ RunBlindly \/ RecordJudged \/ LoseJudged \/ Wait
ChangesSpec == ChangesInit /\ [][ChangesNext]_chvars

-----------------------------------------------------------------------------
\* As long as everything can be read, the result of a run is failing if a change of what is
\* watched was found less than holdMinutes ago, also when the run that found it had stored
\* its state and ended before its result was recorded; and it fails for no other reason
\* than such a change, or one it has found itself.
\* (traceroute stores changedAt and never looks at it.)
ShowsWhileRecent ==
  [][RecordJudged /\ whole =>
       /\ news < hold /\ kind # "traceroute" => judged # "up"
       /\ judged # "up" => news < hold \/ (kind \in AtOnce /\ news = 0)]_chvars

\* "a router that sometimes rate-limits its ICMP replies isn't a path change" (services.ts).
SilenceIsNoChange == [][RecordJudged /\ kind = "traceroute" /\ news # 0 => judged = "up"]_chvars
=============================================================================
