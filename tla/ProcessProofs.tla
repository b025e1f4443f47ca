---------------------------- MODULE ProcessProofs ----------------------------
(***************************************************************************)
(* What the processes that run beside the checks never do: the watchdog    *)
(* tells nothing twice, a mount is not asked again while it hangs, the     *)
(* state of a check loses no stamp, a backup called a success is one, and  *)
(* the slow collector stores nothing it has not read.                      *)
(***************************************************************************)
EXTENDS AgentWatchdog, Backups, CheckState, Mounts, SlowCollector, FiniteSetTheorems, SequenceTheorems, TLAPS

-----------------------------------------------------------------------------
\* A mount is asked once at a time, for any number of mounts, cycles and goroutines.

MountsTypeOK ==
  /\ todo \subseteq Filesystems /\ mine \in Queries
  /\ query \in [Queries -> [mount : Filesystems, at : {"unused", "asking", "answered", "sent"}]]

AskingAt(q) == query[q].at = "asking"
Waited(q) == wait \in {"waiting", "gaveUp"} /\ mine = q

\* One query asks a mount; and it is the one the collector waits for, unless it was given
\* up: then its mount is marked.  (Not the other way round: see StaleMeansStuck.)
OneAsks == \A q, r \in Queries : AskingAt(q) /\ AskingAt(r) /\ query[q].mount = query[r].mount => q = r
MarkedOrWaited == \A q \in Queries : AskingAt(q) => query[q].mount \in hung \/ Waited(q)

MountsInv == MountsTypeOK /\ OneAsks /\ MarkedOrWaited

LEMMA MountsStart == MountsInit => MountsInv
BY MountsAssumption DEF MountsInit, MountsInv, MountsTypeOK, OneAsks, MarkedOrWaited, AskingAt, Unused

\* What the collector does between its questions, and the network, asks nobody.
LEMMA NobodyAsked ==
  ASSUME MountsInv, UNCHANGED <<mine, query, hung>>, wait' = wait \/ ~(wait \in {"waiting", "gaveUp"}) \/ wait' = "gaveUp",
         todo' \subseteq Filesystems
  PROVE  MountsInv'
BY DEF MountsInv, MountsTypeOK, OneAsks, MarkedOrWaited, AskingAt, Waited

\* A question is asked of a mount that is not marked, so that nobody else asks it.
LEMMA AskOnce ==
  ASSUME MountsInv, NEW m \in Filesystems, Ask(m)
  PROVE  MountsInv'
<1>1. PICK q \in Queries : query' = [query EXCEPT ![q] = [mount |-> m, at |-> "asking"]] /\ mine' = q
  BY DEF Ask
<1>2. \A r \in Queries : AskingAt(r) => query[r].mount # m
  BY DEF Ask, MountsInv, MarkedOrWaited, Waited
<1>3. MountsTypeOK'
  BY <1>1 DEF Ask, MountsInv, MountsTypeOK
<1>4. OneAsks'
  BY <1>1, <1>2 DEF MountsInv, MountsTypeOK, OneAsks, AskingAt
<1>5. MarkedOrWaited'
  BY <1>1 DEF Ask, MountsInv, MountsTypeOK, MarkedOrWaited, AskingAt, Waited
<1> QED BY <1>3, <1>4, <1>5 DEF MountsInv

\* An answer takes the mark of its mount away, which nobody else asks.
LEMMA AnswerUnmarks ==
  ASSUME MountsInv, NEW q \in Queries, Answered(q)
  PROVE  MountsInv'
<1>1. MountsTypeOK' /\ OneAsks'
  BY DEF Answered, MountsInv, MountsTypeOK, OneAsks, AskingAt
<1>2. ASSUME NEW r \in Queries, AskingAt(r)' PROVE (query[r].mount \in hung \/ Waited(r))'
  <2>1. r # q /\ AskingAt(r) /\ query'[r] = query[r]
    BY <1>2 DEF Answered, MountsInv, MountsTypeOK, AskingAt
  <2>2. query[r].mount # query[q].mount
    BY <2>1 DEF Answered, MountsInv, OneAsks, AskingAt
  <2> QED BY <2>1, <2>2 DEF Answered, MountsInv, MarkedOrWaited, Waited
<1> QED BY <1>1, <1>2 DEF MountsInv, MarkedOrWaited

\* A question that ends asks nobody any more.
LEMMA EndsOne ==
  ASSUME MountsInv, NEW q \in Queries, ~AskingAt(q), UNCHANGED <<mine, hung>>, todo' \subseteq Filesystems,
         wait' = wait \/ q = mine,
         NEW x \in [mount : Filesystems, at : {"unused", "sent"}], query' = [query EXCEPT ![q] = x]
  PROVE  MountsInv'
BY DEF MountsInv, MountsTypeOK, OneAsks, MarkedOrWaited, AskingAt, Waited

LEMMA MountsStep == MountsInv /\ [MountsNext]_mvars => MountsInv'
<1> SUFFICES ASSUME MountsInv, [MountsNext]_mvars PROVE MountsInv'
  OBVIOUS
<1>1. CASE CollectDisks \/ AskDiskPath \/ CycleDone \/ TimesOut
  BY <1>1, NobodyAsked, MountsAssumption DEF CollectDisks, AskDiskPath, CycleDone, TimesOut, MountsInv, MountsTypeOK
<1>2. CASE \E m \in Filesystems : Dies(m) \/ Revives(m) \/ LeaveAlone(m)
  BY <1>2, NobodyAsked DEF Dies, Revives, LeaveAlone, MountsInv, MountsTypeOK
<1>3. ASSUME NEW m \in Filesystems, Ask(m) PROVE MountsInv'
  BY <1>3, AskOnce
<1>4. CASE Receive
  <2>1. ~AskingAt(mine) /\ mine \in Queries /\ Unused \in [mount : Filesystems, at : {"unused", "sent"}]
    BY <1>4, MountsAssumption DEF Receive, AskingAt, Unused, MountsInv, MountsTypeOK
  <2> QED BY <1>4, <2>1, EndsOne DEF Receive, MountsInv, MountsTypeOK
<1>5. CASE MarkHung
  <2>1. MountsTypeOK' /\ OneAsks'
    BY <1>5 DEF MarkHung, MountsInv, MountsTypeOK, OneAsks, AskingAt
  <2>2. MarkedOrWaited'
    BY <1>5 DEF MarkHung, MountsInv, MarkedOrWaited, AskingAt, Waited
  <2> QED BY <2>1, <2>2 DEF MountsInv
<1>6. ASSUME NEW q \in Queries, Answered(q) PROVE MountsInv'
  BY <1>6, AnswerUnmarks
<1>7. ASSUME NEW q \in Queries, Sent(q) PROVE MountsInv'
  <2>1. ~AskingAt(q) /\ [query[q] EXCEPT !.at = "sent"] \in [mount : Filesystems, at : {"unused", "sent"}]
    BY <1>7 DEF Sent, AskingAt, MountsInv, MountsTypeOK
  <2>2. query' = [query EXCEPT ![q] = [query[q] EXCEPT !.at = "sent"]]
    BY <1>7 DEF Sent, MountsInv, MountsTypeOK
  <2> QED BY <1>7, <2>1, <2>2, EndsOne DEF Sent, MountsInv, MountsTypeOK
<1>8. ASSUME NEW q \in Queries, Forgotten(q) PROVE MountsInv'
  <2>1. ~AskingAt(q) /\ Unused \in [mount : Filesystems, at : {"unused", "sent"}]
    BY <1>8, MountsAssumption DEF Forgotten, AskingAt, Unused
  <2> QED BY <1>8, <2>1, EndsOne DEF Forgotten, MountsInv, MountsTypeOK
<1>9. CASE UNCHANGED mvars
  BY <1>9, NobodyAsked DEF mvars, MountsInv, MountsTypeOK
<1> QED BY <1>1, <1>2, <1>3, <1>4, <1>5, <1>6, <1>7, <1>8, <1>9 DEF MountsNext

\* metrics.go:166-168, for every set of mounts: no mount has two goroutines blocked in it.
THEOREM MountsAreAskedOnce == MountsSpec => []NoPileUp
<1>1. MountsInv => NoPileUp
  <2> SUFFICES ASSUME MountsInv, NEW m \in Filesystems PROVE Cardinality(Asking(m)) <= 1
    BY DEF NoPileUp
  <2>1. CASE Asking(m) = {}
    BY <2>1, FS_EmptySet
  <2>2. CASE Asking(m) # {}
    <3>1. PICK q \in Asking(m) : TRUE
      BY <2>2
    <3>2. Asking(m) = {q}
      BY <3>1 DEF Asking, MountsInv, OneAsks, AskingAt
    <3> QED BY <3>2, FS_Singleton
  <2> QED BY <2>1, <2>2
<1> QED BY <1>1, MountsStart, MountsStep, PTL DEF MountsSpec

-----------------------------------------------------------------------------
\* What the watchdog tells is told once, for any times, tests and restarts.

Settings == [on : BOOLEAN, test : 0..MaxTests]
States == [alerting : BOOLEAN, test : 0..MaxTests]
Reached == {"poll", "again", "test", "alert", "save"}

ToldTypeOK ==
  /\ steady \in BOOLEAN /\ pressed \in 0..MaxTests /\ step \in Reached
  /\ ordered \in Settings /\ spec \in Settings /\ status \in States
  /\ file \in [spec : Settings, status : States]
  /\ tests \in [1..MaxTests -> Nat]

\* The agent knows what it told last, and says only what it has not.
KnowsTold ==
  /\ status.alerting <=> told = "unreachable"
  /\ step = "again" => status.alerting
  /\ step = "alert" => ~status.alerting
  /\ ~repeated

\* Between two cycles the file holds the status.
FileIsStatus == step = "poll" => file.status = status

\* A test is delivered once, and the one that was is the last the agent tried, as long
\* as it is the one asked for: a later press has a number of its own.
Tried(t) == tests[t] # 0 => status.test = t
TestsOnce ==
  /\ \A t \in 1..MaxTests : tests[t] <= 1 /\ (tests[t] # 0 => t <= pressed)
  /\ spec.test <= pressed /\ file.spec.test <= pressed
  /\ ordered.test <= pressed /\ (~ordered.on => ordered.test = 0)
  /\ ordered.test # 0 => Tried(ordered.test)
  /\ step \in {"again", "test"} /\ spec.test # 0 => Tried(spec.test)
  /\ step = "test" => NewTest(spec, status)
  /\ step \in {"again", "test"} /\ ordered.test \notin {0, spec.test} => tests[ordered.test] = 0

ToldInv == ToldTypeOK /\ (steady => KnowsTold /\ FileIsStatus /\ TestsOnce)

LEMMA WatchdogStart == WatchdogInit => ToldInv
BY WatchdogAssumption DEF WatchdogInit, NoSpec, NoStatus, Fresh, ToldInv, ToldTypeOK, Settings, States, Reached,
   KnowsTold, FileIsStatus, TestsOnce, Tried

LEMMA ToldTypes == ToldInv /\ [WatchdogNext]_wvars => ToldTypeOK'
<1> SUFFICES ASSUME ToldTypeOK, [WatchdogNext]_wvars PROVE ToldTypeOK'
  BY DEF ToldInv
<1> USE WatchdogAssumption DEF ToldTypeOK, Settings, States, Reached, NoSpec, NoStatus, Fresh
<1>1. CASE Outage \/ Configure \/ CycleEnds \/ UNCHANGED wvars
  BY <1>1 DEF Outage, Configure, CycleEnds, wvars, watchdog, news, parseWatchdog
<1>2. CASE PressTest
  BY <1>2, SMTT(30) DEF PressTest, watchdog, news
<1>3. CASE Reachable
  <2>1. ordered \in Settings /\ NoSpec \in Settings /\ Fresh \in [spec : Settings, status : States] /\ NoStatus \in States
    OBVIOUS
  <2> HIDE DEF Settings, States, NoSpec, NoStatus, Fresh
  <2> QED BY <1>3, <2>1 DEF Reachable, watchdogSpecFor
<1>4. CASE Unreachable
  BY <1>4 DEF Unreachable, watchdog, news
<1>5. CASE Save \/ SaveFails \/ RestartAgent
  BY <1>5 DEF Save, SaveFails, RestartAgent, Loaded, watchdog, news
<1>6. ASSUME NEW ok \in BOOLEAN, SayAgain(ok) \/ SayAlert(ok) PROVE ToldTypeOK'
  BY <1>6 DEF SayAgain, SayAlert, Alerted, Say, news
<1>7. ASSUME NEW ok \in BOOLEAN, SayTest(ok) PROVE ToldTypeOK'
  <2>1. status' \in States /\ UNCHANGED <<steady, pressed, ordered, spec, file>> /\ step' = "save"
    BY <1>7 DEF SayTest
  <2>2. tests' = tests \/ tests' = [tests EXCEPT ![spec.test] = tests[spec.test] + 1]
    BY <1>7 DEF SayTest
  <2>3. tests' \in [1..MaxTests -> Nat]
    BY <2>2
  <2> QED BY <2>1, <2>3
<1> QED BY <1>1, <1>2, <1>3, <1>5, <1>6, <1>7, <1>4 DEF WatchdogNext, WatchdogSteps

LEMMA SteadyStays == [WatchdogNext]_wvars => steady' = steady
<1> SUFFICES ASSUME [WatchdogNext]_wvars PROVE steady' = steady
  OBVIOUS
<1>1. CASE Outage \/ CycleEnds \/ PressTest \/ UNCHANGED wvars
  BY <1>1 DEF Outage, CycleEnds, PressTest, wvars
<1>2. CASE Configure
  BY <1>2 DEF Configure, parseWatchdog
<1>3. CASE Reachable \/ Unreachable \/ Save \/ SaveFails \/ RestartAgent
  BY <1>3 DEF Reachable, Unreachable, Save, SaveFails, RestartAgent, watchdogSpecFor
<1>4. ASSUME NEW ok \in BOOLEAN, SayAgain(ok) \/ SayTest(ok) \/ SayAlert(ok) PROVE steady' = steady
  BY <1>4 DEF SayAgain, SayTest, SayAlert
<1> QED BY <1>1, <1>2, <1>3, <1>4 DEF WatchdogNext, WatchdogSteps

\* The alert and its end take turns, and a restart between two cycles finds the status of the last.
LEMMA TellsInTurn == ToldInv /\ [WatchdogNext]_wvars => (steady => KnowsTold /\ FileIsStatus)'
<1> SUFFICES ASSUME steady, ToldTypeOK, KnowsTold, FileIsStatus, [WatchdogNext]_wvars PROVE KnowsTold' /\ FileIsStatus'
  BY SteadyStays DEF ToldInv
<1> USE DEF KnowsTold, FileIsStatus
<1>1. CASE Outage \/ Configure \/ PressTest \/ CycleEnds \/ UNCHANGED wvars
  <2>1. UNCHANGED <<status, file, told, repeated>> /\ step' = step
    <3>1. CASE Outage \/ CycleEnds
      BY <3>1 DEF Outage, CycleEnds, watchdog, news
    <3>2. CASE Configure
      BY <3>2 DEF Configure, watchdog, news, parseWatchdog
    <3>3. CASE PressTest
      BY <3>3 DEF PressTest, watchdog, news
    <3>4. CASE UNCHANGED wvars
      BY <3>4 DEF wvars, watchdog, news
    <3> QED BY <1>1, <3>1, <3>2, <3>3, <3>4
  <2> QED BY <2>1
<1>2. CASE Reachable
  <2>1. CASE ordered.on
    BY <1>2, <2>1 DEF Reachable, watchdogSpecFor
  <2>2. CASE ~ordered.on
    <3>1. status' = NoStatus /\ file' = Fresh /\ told' = "reachable" /\ step' = "poll" /\ repeated' = repeated
      BY <1>2, <2>2 DEF Reachable, watchdogSpecFor
    <3>2. ~NoStatus.alerting /\ Fresh.status = NoStatus
      BY DEF NoStatus, Fresh
    <3> QED BY <3>1, <3>2
  <2> QED BY <2>1, <2>2
<1>3. CASE Unreachable
  BY <1>3 DEF Unreachable, Quiet, news
<1>4. CASE Save
  BY <1>4 DEF Save, news
<1>5. CASE SaveFails
  BY <1>5 DEF SaveFails
<1>6. CASE RestartAgent
  BY <1>6 DEF RestartAgent, Loaded, news
<1>7. ASSUME NEW ok \in BOOLEAN, SayAgain(ok) PROVE KnowsTold' /\ FileIsStatus'
  <2>1. CASE ok
    BY <1>7, <2>1 DEF SayAgain, Say, ToldTypeOK, States
  <2>2. CASE ~ok
    BY <1>7, <2>2 DEF SayAgain, news
  <2> QED BY <2>1, <2>2
<1>8. ASSUME NEW ok \in BOOLEAN, SayTest(ok) PROVE KnowsTold' /\ FileIsStatus'
  BY <1>8 DEF SayTest, ToldTypeOK, States
<1>9. ASSUME NEW ok \in BOOLEAN, SayAlert(ok) PROVE KnowsTold' /\ FileIsStatus'
  BY <1>9 DEF SayAlert, Alerted, Say, news, ToldTypeOK, States
<1> QED BY <1>1, <1>2, <1>3, <1>4, <1>5, <1>6, <1>7, <1>8, <1>9 DEF WatchdogNext, WatchdogSteps

\* A press of the button is delivered once: its number is new, and the agent remembers the
\* last number it tried.
LEMMA TestsInTurn == ToldInv /\ [WatchdogNext]_wvars => (steady => TestsOnce)'
<1> SUFFICES ASSUME steady, ToldTypeOK, FileIsStatus, TestsOnce, [WatchdogNext]_wvars PROVE TestsOnce'
  BY SteadyStays DEF ToldInv
<1> USE DEF TestsOnce, Tried, NewTest
<1>1. CASE Outage \/ CycleEnds \/ UNCHANGED wvars
  BY <1>1 DEF Outage, CycleEnds, wvars, watchdog, news
<1>2. CASE Configure
  BY <1>2 DEF Configure, NoSpec, watchdog, news, ToldTypeOK, parseWatchdog
<1>3. CASE PressTest
  <2>1. /\ ordered'.on /\ ordered'.test = pressed + 1 /\ pressed' = pressed + 1 /\ pressed + 1 \in 1..MaxTests
        /\ UNCHANGED <<spec, status, step, tests, file>>
    BY <1>3, WatchdogAssumption DEF PressTest, ToldTypeOK, Settings, watchdog, news
  <2>2. tests[pressed + 1] = 0
    BY <2>1 DEF ToldTypeOK
  <2>3. {pressed, spec.test, file.spec.test} \subseteq Nat
    BY WatchdogAssumption DEF ToldTypeOK, Settings
  <2> QED BY <2>1, <2>2, <2>3
<1>4. CASE Reachable
  <2>1. (ordered.test # 0 => ordered.test \in 1..MaxTests) /\ ordered.test \in Nat /\ pressed \in Nat
    BY WatchdogAssumption DEF ToldTypeOK, Settings
  <2>2. CASE ordered.on
    BY <1>4, <2>1, <2>2 DEF Reachable, watchdogSpecFor
  <2>3. CASE ~ordered.on
    <3>1. status' = NoStatus /\ file' = Fresh /\ spec' = NoSpec /\ step' = "poll" /\ UNCHANGED <<tests, ordered, pressed>>
      BY <1>4, <2>3 DEF Reachable, watchdogSpecFor
    <3>2. NoSpec.test = 0 /\ Fresh.spec = NoSpec
      BY DEF NoSpec, Fresh
    <3> QED BY <2>1, <2>3, <3>1, <3>2
  <2> QED BY <2>2, <2>3
<1>5. CASE Unreachable
  BY <1>5 DEF Unreachable, news
<1>6. CASE Save \/ SaveFails
  BY <1>6 DEF Save, SaveFails, news
<1>7. CASE RestartAgent
  BY <1>7 DEF RestartAgent, Loaded, news, FileIsStatus
<1>8. ASSUME NEW ok \in BOOLEAN, SayAgain(ok) PROVE TestsOnce'
  <2>1. status'.test = status.test /\ UNCHANGED <<tests, pressed, ordered, spec, file>>
    BY <1>8 DEF SayAgain, Say, news, ToldTypeOK, States
  <2>2. step' \in {"test", "save"} /\ (step' = "test" => NewTest(spec, status)) /\ step = "again"
    BY <1>8 DEF SayAgain
  <2> QED BY <2>1, <2>2
<1>9. ASSUME NEW ok \in BOOLEAN, SayTest(ok) PROVE TestsOnce'
  <2>1. /\ status'.test = spec.test /\ step' = "save" /\ UNCHANGED <<pressed, ordered, spec, file>>
        /\ spec.test \in 1..MaxTests
    BY <1>9 DEF SayTest, ToldTypeOK, States, Settings
  <2>2. tests[spec.test] = 0 /\ (ordered.test \notin {0, spec.test} => tests[ordered.test] = 0)
    BY <1>9, <2>1 DEF SayTest
  <2>3. tests' = tests \/ tests' = [tests EXCEPT ![spec.test] = tests[spec.test] + 1]
    BY <1>9 DEF SayTest
  <2>4. \A t \in 1..MaxTests : t # spec.test => tests'[t] = tests[t]
    BY <2>3 DEF ToldTypeOK
  <2>5. tests'[spec.test] <= 1 /\ spec.test <= pressed'
    BY <1>9, <2>1, <2>2, <2>3 DEF ToldTypeOK, SayTest
  <2> QED BY <2>1, <2>2, <2>4, <2>5, WatchdogAssumption DEF ToldTypeOK, Settings
<1>10. ASSUME NEW ok \in BOOLEAN, SayAlert(ok) PROVE TestsOnce'
  <2>1. status'.test = status.test /\ step' = "save" /\ UNCHANGED <<tests, pressed, ordered, spec, file>>
    BY <1>10 DEF SayAlert, Say, news, ToldTypeOK, States
  <2> QED BY <2>1
<1> QED BY <1>1, <1>2, <1>3, <1>4, <1>5, <1>6, <1>7, <1>8, <1>9, <1>10 DEF WatchdogNext, WatchdogSteps

\* The comments on `saved' and on testId (watchdog.go, watchdogAgents.ts), for every number of
\* cycles, tests and restarts: as long as the agent does not die between a message and its save,
\* no alert, recovery or test is delivered a second time.
THEOREM WatchdogTellsOnce == WatchdogInit /\ [][WatchdogNext]_wvars => []ToldOnce
<1>1. ToldInv => ToldOnce
  BY DEF ToldInv, ToldTypeOK, KnowsTold, TestsOnce, ToldOnce
<1>2. ToldInv /\ [WatchdogNext]_wvars => ToldInv'
  BY ToldTypes, TellsInTurn, TestsInTurn DEF ToldInv
<1> QED BY <1>1, <1>2, WatchdogStart, PTL

-----------------------------------------------------------------------------
\* The state of a check loses no stamp and is judged by it, for any number of handlers.

Keys == {"resolvedAt", "lastPingAt"}
Stamps == [Keys -> Ages]
Rests(h) == at[h] = "idle"
Holds(h) == at[h] \in {"judge", "ping", "resolve"}

StampTypeOK ==
  /\ type \in {"event", "heartbeat"} /\ overlapping \in BOOLEAN
  /\ stored \in Stamps /\ truth \in Stamps /\ seen \in [Handlers -> Stamps]
  /\ at \in [Handlers -> Steps] /\ outcome \in [Handlers -> StateStatuses]

\* One handler is under way at a time, so that what it has read is what is stored.
OneAtATime == \A g, h \in Handlers : ~Rests(g) /\ ~Rests(h) => g = h
ReadsTheStored == \A h \in Handlers : Holds(h) => seen[h] = stored

StampInv == StampTypeOK /\ (~overlapping => stored = truth /\ OneAtATime /\ ReadsTheStored)

LEMMA AgedStamps == ASSUME NEW s \in Stamps PROVE Aged(s) \in Stamps
BY StateAssumption DEF Aged, Stamps, Keys, Ages, Older

LEMMA StampStart == StateInit => StampInv
BY StateAssumption DEF StateInit, StateStatuses, StampInv, StampTypeOK, Stamps, Keys, Ages, Steps, OneAtATime, ReadsTheStored, Rests, Holds

\* Time passes for the stored state and for every copy of it.
LEMMA AllAge ==
  ASSUME StampInv, UNCHANGED <<settings, at, outcome>>, stored' = Aged(stored), truth' = Aged(truth),
         seen' = [h \in Handlers |-> Aged(seen[h])]
  PROVE  StampInv'
BY AgedStamps DEF StampInv, StampTypeOK, settings, OneAtATime, ReadsTheStored, Rests, Holds

\* A handler goes on without a write.
LEMMA GoesOn ==
  ASSUME StampInv, NEW h \in Handlers, ~Rests(h), NEW place \in Steps, place \notin {"judge", "ping", "resolve"},
         at' = [at EXCEPT ![h] = place], UNCHANGED <<settings, stored, truth, seen>>,
         outcome' \in [Handlers -> StateStatuses]
  PROVE  StampInv'
BY DEF StampInv, StampTypeOK, settings, OneAtATime, ReadsTheStored, Rests, Holds

LEMMA ReadsStored ==
  ASSUME StampInv, NEW h \in Handlers, NEW place \in {"judge", "ping", "resolve"}, Read(h, place)
  PROVE  StampInv'
<1>1. place \in Steps
  BY DEF Steps
<1> QED BY <1>1 DEF Read, Free, StampInv, StampTypeOK, settings, OneAtATime, ReadsTheStored, Rests, Holds

\* The state that was read is written back with the new stamp: nothing was stamped meanwhile.
LEMMA WritesOne ==
  ASSUME StampInv, NEW h \in Handlers, NEW place \in {"ping", "resolve"}, NEW key \in Keys, NEW found \in StateStatuses,
         Write(h, place, key, found)
  PROVE  StampInv'
<1>1. Aged(truth) \in Stamps /\ \A g \in Handlers : Aged(seen[g]) \in Stamps
  BY AgedStamps DEF StampInv, StampTypeOK
<1>2. /\ stored' = [Aged(seen[h]) EXCEPT ![key] = 0] /\ truth' = [Aged(truth) EXCEPT ![key] = 0]
      /\ seen' = [g \in Handlers |-> Aged(seen[g])] /\ UNCHANGED settings
      /\ \E to \in {"pinged", "resolved"} : at' = [at EXCEPT ![h] = to]
      /\ at[h] = place /\ outcome' = [outcome EXCEPT ![h] = found]
  BY DEF Write
<1>3. \A s \in Stamps : [s EXCEPT ![key] = 0] \in Stamps
  BY StateAssumption DEF Stamps, Ages
<1>4. StampTypeOK'
  BY <1>1, <1>2, <1>3 DEF StampInv, StampTypeOK, settings, Steps, Recorders
<1>5. ASSUME ~overlapping PROVE (stored = truth /\ OneAtATime /\ ReadsTheStored)'
  <2>1. seen[h] = truth
    BY <1>2, <1>5 DEF StampInv, ReadsTheStored, Holds
  <2> QED BY <1>2, <1>5, <2>1 DEF StampInv, StampTypeOK, OneAtATime, ReadsTheStored, Rests, Holds
<1> QED BY <1>2, <1>4, <1>5 DEF StampInv, settings

LEMMA StampStep == StampInv /\ [StateNext]_statevars => StampInv'
<1> SUFFICES ASSUME StampInv, [StateNext]_statevars PROVE StampInv'
  OBVIOUS
<1>1. CASE Pass
  BY <1>1, AllAge DEF Pass, handlers
<1>2. ASSUME NEW which, Event(which) PROVE StampInv'
  BY <1>2, AllAge DEF Event, handlers
<1>3. ASSUME NEW h \in Handlers, NEW place \in {"judge", "ping", "resolve"}, Read(h, place) PROVE StampInv'
  BY <1>3, ReadsStored
<1>4. ASSUME NEW h \in Handlers, Judge(h) PROVE StampInv'
  <2>1. PICK place \in {"run", "idle"} : at' = [at EXCEPT ![h] = place]
    BY <1>4 DEF Judge
  <2>2. place \in Steps
    BY DEF Steps, Recorders
  <2>3. outcome' \in [Handlers -> StateStatuses]
    BY <1>4 DEF Judge, StateStatuses, StampInv, StampTypeOK
  <2> QED BY <1>4, <2>1, <2>2, <2>3, GoesOn DEF Judge, Rests
<1>5. ASSUME NEW h \in Handlers, NEW found \in StateStatuses, Ping(h, found) PROVE StampInv'
  BY <1>5, WritesOne DEF Ping, Keys
<1>6. ASSUME NEW h \in Handlers, Resolve(h) PROVE StampInv'
  BY <1>6, WritesOne DEF Resolve, Keys, StateStatuses
<1>7. ASSUME NEW h \in Handlers, NEW by \in Recorders, Record(h, by) PROVE StampInv'
  BY <1>7, GoesOn DEF Record, Rests, Recorders, Steps, StampInv, StampTypeOK
<1>8. CASE UNCHANGED statevars
  BY <1>8 DEF statevars, settings, handlers, StampInv, StampTypeOK, OneAtATime, ReadsTheStored, Rests, Holds
<1> QED BY <1>1, <1>2, <1>3, <1>4, <1>5, <1>6, <1>7, <1>8 DEF StateNext, ResolveByHand, autoRecoverPushed

\* What a check is judged down for, in the state that was read.
LEMMA JudgedByTheStored ==
  ASSUME StampInv, ~overlapping, [StateNext]_statevars, NEW h \in Handlers, JudgedDown(h)
  PROVE  NewsIsBad
<1>1. at[h] = "judge" /\ at'[h] = "run"
  BY DEF JudgedDown
<1>2. Judge(h)
  <2>1. ASSUME NEW g \in Handlers, NEW place, place # "run", at' = [at EXCEPT ![g] = place] PROVE FALSE
    BY <1>1, <2>1 DEF StampInv, StampTypeOK
  <2>2. ASSUME at' = at PROVE FALSE
    BY <1>1, <2>2
  <2>3. ASSUME NEW g \in Handlers, Judge(g) PROVE g = h
    BY <1>1, <2>3 DEF Judge, StampInv, StampTypeOK
  <2>4. ASSUME NEW g \in Handlers, NEW place \in {"judge", "ping", "resolve"}, Read(g, place) PROVE FALSE
    BY <2>1, <2>4 DEF Read
  <2>5. ASSUME NEW g \in Handlers, NEW found, Ping(g, found) \/ Resolve(g) PROVE FALSE
    BY <2>1, <2>5 DEF Ping, Resolve, Write
  <2>6. ASSUME NEW g \in Handlers, NEW by, Record(g, by) PROVE FALSE
    BY <2>1, <2>6 DEF Record
  <2>7. ASSUME Pass \/ (\E which \in {"failing", "clearing"} : Event(which)) \/ UNCHANGED statevars PROVE FALSE
    BY <2>2, <2>7 DEF Pass, Event, handlers, statevars
  <2> QED BY <2>3, <2>4, <2>5, <2>6, <2>7 DEF StateNext, ResolveByHand, autoRecoverPushed
<1>3. Failing(seen[h])
  BY <1>2 DEF Judge, JudgedDown, StampInv, StampTypeOK
<1>4. seen[h] = truth
  BY <1>1 DEF StampInv, ReadsTheStored, Holds
<1> QED BY <1>3, <1>4 DEF Failing, NewsIsBad

\* Runs, pings and resolves that are handled one at a time lose no stamp (scheduler.ts, public.ts,
\* alerting.ts), for every number of handlers and every limit.
THEOREM NoStampIsLost == StateInit /\ [][StateNext]_statevars => []StampsAreKept
<1>1. StampInv => StampsAreKept
  BY DEF StampInv, StampsAreKept
<1> QED BY <1>1, StampStart, StampStep, PTL

\* And a check is judged down by an event or a silence that is still news when it is judged.
THEOREM DownIsTrue == StateInit /\ [][StateNext]_statevars => DownForAReason
<1>1. StampInv /\ [StateNext]_statevars => [\A h \in Handlers : ~overlapping /\ JudgedDown(h) => NewsIsBad]_statevars
  BY JudgedByTheStored
<1> QED BY <1>1, StampStart, StampStep, PTL DEF DownForAReason

-----------------------------------------------------------------------------
\* A run that backup_runs calls a success did what it says.

Stages == {"idle", "settings", "done"} \union Working
BackupTypeOK ==
  /\ currentOperation \in {"none", "backup", "restore"}
  /\ pc \in [Ops -> Stages] /\ kind \in [Ops -> {BackupKind} \union RestoreKinds]
  /\ made \in Seq(Ops) /\ pruned \subseteq ToSet(made) /\ dump = [o \in Ops |-> dump[o]]

\* What each stage says of the operation.
IsBackup(o) == kind[o].what = "backup"
Unmade(o) == pc[o] \in {"idle", "settings", "insert", "stage", "dump", "create"}
Listed(table, o) == o \in DOMAIN table /\ table[o] = "success"
StagesAgree == \A o \in Ops :
  /\ pc[o] \in {"dump", "create", "prune"} => IsBackup(o)
  /\ pc[o] \in {"extract", "restore"} => ~IsBackup(o)
  /\ pc[o] \in {"prune", "succeed"} /\ IsBackup(o) => o \in ToSet(made)
  /\ Unmade(o) => o \notin ToSet(made)
  /\ pc[o] = "idle" => ~Listed(rows, o) /\ \A p \in Ops : ~Listed(dump[p], o)
\* The tables, and those in the dumps, call no backup a success whose archive was not made.
Honest(table) == \A o \in Ops : IsBackup(o) /\ Listed(table, o) => o \in ToSet(made)
AllHonest == Honest(rows) /\ \A p \in Ops : Honest(dump[p])
MadeInv == BackupTypeOK /\ StagesAgree /\ AllHonest

LEMMA MadeStart == Init => MadeInv
BY EmptySeq DEF Init, MadeInv, BackupTypeOK, Stages, StagesAgree, Unmade, IsBackup, BackupKind, AllHonest, Honest, Listed, ToSet

LEMMA MadeOne ==
  ASSUME made \in Seq(Ops), NEW o \in Ops, made' = Append(made, o)
  PROVE  made' \in Seq(Ops) /\ ToSet(made') = ToSet(made) \union {o}
<1>1. /\ made' \in Seq(Ops) /\ Len(made') = Len(made) + 1 /\ Len(made) \in Nat
      /\ \A i \in 1 .. Len(made) : made'[i] = made[i]
      /\ made'[Len(made) + 1] = o
  BY AppendProperties, LenProperties
<1>2. DOMAIN made = 1 .. Len(made) /\ DOMAIN made' = 1 .. (Len(made) + 1)
  BY <1>1, LenProperties
<1> QED BY <1>1, <1>2 DEF ToSet

\* A step that moves one operation on and changes neither kinds nor archives.
LEMMA MovesOn ==
  ASSUME MadeInv, NEW o \in Ops, NEW to \in Stages \ {"idle"}, pc' = [pc EXCEPT ![o] = to],
         UNCHANGED <<kind, dump, made>>, currentOperation' \in {"none", "backup", "restore"}, pruned' \subseteq ToSet(made),
         to \in {"dump", "create", "prune"} => IsBackup(o), to \in {"extract", "restore"} => ~IsBackup(o),
         to \in {"prune", "succeed"} /\ IsBackup(o) => o \in ToSet(made),
         to \in {"settings", "insert", "stage", "dump", "create"} => Unmade(o), pc[o] # "idle",
         \A p \in Ops : Listed(rows', p) => pc[p] # "idle" /\ (IsBackup(p) => p \in ToSet(made))
  PROVE  MadeInv'
<1>1. BackupTypeOK'
  BY DEF MadeInv, BackupTypeOK
<1>2. \A p \in Ops : pc'[p] = IF p = o THEN to ELSE pc[p]
  BY DEF MadeInv, BackupTypeOK
<1>3. StagesAgree'
  BY <1>2 DEF MadeInv, StagesAgree, Unmade, IsBackup
<1>4. AllHonest'
  BY DEF MadeInv, AllHonest, Honest, IsBackup
<1> QED BY <1>1, <1>3, <1>4 DEF MadeInv

\* Only a request changes a kind: that of an operation no table lists.
LEMMA RequestKeeps ==
  ASSUME MadeInv, NEW o \in Ops, NEW k \in {BackupKind} \union RestoreKinds, Request(o, k)
  PROVE  MadeInv'
<1>1. /\ \A p \in Ops : /\ pc'[p] = (IF p = o THEN "settings" ELSE pc[p])
                        /\ kind'[p] = (IF p = o THEN k ELSE kind[p])
      /\ pc[o] = "idle" /\ UNCHANGED <<currentOperation, rows, dump, made, pruned>>
  BY DEF MadeInv, BackupTypeOK, Request, Goto
<1>2. BackupTypeOK'
  BY DEF MadeInv, BackupTypeOK, Request, Goto, Stages
<1>3. StagesAgree'
  BY <1>1 DEF MadeInv, StagesAgree, Unmade, IsBackup, Listed
<1>4. AllHonest'
  BY <1>1 DEF MadeInv, AllHonest, Honest, StagesAgree, IsBackup, Listed
<1> QED BY <1>2, <1>3, <1>4 DEF MadeInv

\* create makes the archive of the operation that runs it, and of no other.
LEMMA CreateKeeps ==
  ASSUME MadeInv, NEW o \in Ops, Create(o)
  PROVE  MadeInv' /\ ToSet(made') = ToSet(made) \union {o}
<1>1. made' \in Seq(Ops) /\ ToSet(made') = ToSet(made) \union {o}
  BY MadeOne DEF MadeInv, BackupTypeOK, Create
<1>2. /\ \A p \in Ops : pc'[p] = IF p = o THEN "prune" ELSE pc[p]
      /\ pc[o] = "create" /\ UNCHANGED <<currentOperation, kind, rows, dump, pruned>>
  BY DEF MadeInv, BackupTypeOK, Create, Goto
<1>3. BackupTypeOK'
  BY <1>1 DEF MadeInv, BackupTypeOK, Create, Goto, Stages, Working, Guarded
<1>4. StagesAgree'
  BY <1>1, <1>2 DEF MadeInv, StagesAgree, Unmade, IsBackup, Listed
<1>5. AllHonest'
  BY <1>1, <1>2 DEF MadeInv, AllHonest, Honest, IsBackup, Listed
<1> QED BY <1>1, <1>3, <1>4, <1>5 DEF MadeInv

\* A dump says of every operation what the table says.
LEMMA DumpKeeps ==
  ASSUME MadeInv, NEW o \in Ops, Dump(o)
  PROVE  MadeInv'
<1>1. /\ \A p \in Ops : /\ pc'[p] = (IF p = o THEN "create" ELSE pc[p])
                        /\ dump'[p] = (IF p = o THEN rows ELSE dump[p])
      /\ pc[o] = "dump" /\ UNCHANGED <<currentOperation, kind, rows, made, pruned>>
      /\ dump' = [p \in Ops |-> dump'[p]]
  BY DEF MadeInv, BackupTypeOK, Dump, Goto
<1>2. BackupTypeOK'
  BY <1>1 DEF MadeInv, BackupTypeOK, Dump, Goto, Stages, Working, Guarded
<1>3. StagesAgree'
  BY <1>1 DEF MadeInv, StagesAgree, Unmade, IsBackup, Listed
<1>4. AllHonest'
  BY <1>1 DEF MadeInv, AllHonest, Honest, IsBackup, Listed
<1> QED BY <1>2, <1>3, <1>4 DEF MadeInv

\* Everything listed was made, and is idle no more.
LEMMA ListedAreMade ==
  ASSUME MadeInv, NEW p \in Ops
  PROVE  /\ Listed(rows, p) => pc[p] # "idle" /\ (IsBackup(p) => p \in ToSet(made))
         /\ \A q \in Ops : Listed(dump[q], p) => pc[p] # "idle" /\ (IsBackup(p) => p \in ToSet(made))
BY DEF MadeInv, StagesAgree, AllHonest, Honest

\* The statuses an operation writes of itself.
LEMMA OwnRow ==
  ASSUME NEW o \in Ops, NEW said, NEW p \in Ops,
         \/ rows' = SetStatus(o, said)
         \/ rows' = [q \in DOMAIN rows \union {o} |-> IF q = o THEN said ELSE rows[q]]
  PROVE  Listed(rows', p) => Listed(rows, p) \/ (p = o /\ said = "success")
BY DEF SetStatus, Listed

LEMMA RunKeeps ==
  ASSUME MadeInv, NEW o \in Ops,
         StartOperation(o) \/ Decline(o) \/ Insert(o) \/ Stage(o) \/ SetupThrows(o) \/ Extract(o)
         \/ CommandFails(o) \/ Finally(o) \/ Fail(o)
  PROVE  MadeInv'
<1>1. IsBackup(o) \/ kind[o].what = "restore"
  BY DEF MadeInv, BackupTypeOK, IsBackup, BackupKind, RestoreKinds
<1>2. pruned \subseteq ToSet(made) /\ currentOperation \in {"none", "backup", "restore"}
  BY DEF MadeInv, BackupTypeOK
<1>3. \A p \in Ops : Listed(rows, p) => pc[p] # "idle" /\ (IsBackup(p) => p \in ToSet(made))
  BY ListedAreMade
<1>4. pc[o] = "succeed" /\ IsBackup(o) => o \in ToSet(made)
  BY DEF MadeInv, StagesAgree
<1>5. pc[o] = "extract" => ~IsBackup(o)
  BY DEF MadeInv, StagesAgree
<1>6. CASE StartOperation(o)
  <2>1. currentOperation' \in {"none", "backup", "restore"}
    BY <1>6, <1>1 DEF StartOperation, IsBackup
  <2> QED BY <2>1, <1>2, <1>3, <1>6, MovesOn DEF StartOperation, Goto, Stages, Working, SetUp, Unmade
<1>7. CASE Decline(o)
  BY <1>2, <1>3, <1>7, MovesOn DEF Decline, Goto, Stages, Working
<1>8. CASE Insert(o)
  <2>1. \A p \in Ops : Listed(rows', p) => Listed(rows, p)
    BY <1>8, OwnRow DEF Insert
  <2> QED BY <2>1, <1>2, <1>3, <1>8, MovesOn DEF Insert, Goto, Stages, Working, SetUp, Unmade
<1>9. CASE Stage(o)
  BY <1>2, <1>3, <1>9, MovesOn DEF Stage, Goto, Stages, Working, Guarded, Unmade, IsBackup
<1>10. CASE SetupThrows(o)
  BY <1>2, <1>3, <1>10, MovesOn DEF SetupThrows, Stages, SetUp
<1>11. CASE Extract(o)
  BY <1>2, <1>3, <1>5, <1>11, MovesOn DEF Extract, Goto, Stages, Working, Guarded
<1>12. CASE CommandFails(o)
  BY <1>2, <1>3, <1>12, MovesOn DEF CommandFails, Guarded, Stages, Working
<1>13. CASE Finally(o)
  BY <1>2, <1>3, <1>13, MovesOn DEF Finally, Goto, Stages
<1>14. CASE Fail(o)
  <2>1. \A p \in Ops : Listed(rows', p) => Listed(rows, p)
    BY <1>14, OwnRow DEF Fail
  <2> QED BY <2>1, <1>2, <1>3, <1>14, MovesOn DEF Fail, Goto, Stages, Working
<1> QED BY <1>6, <1>7, <1>8, <1>9, <1>10, <1>11, <1>12, <1>13, <1>14

LEMMA EndsKeep ==
  ASSUME MadeInv, NEW o \in Ops, Prune(o) \/ Restore(o) \/ Succeed(o)
  PROVE  MadeInv'
<1>1. pruned \subseteq ToSet(made) /\ currentOperation \in {"none", "backup", "restore"}
  BY DEF MadeInv, BackupTypeOK
<1>2. \A p \in Ops : Listed(rows, p) => pc[p] # "idle" /\ (IsBackup(p) => p \in ToSet(made))
  BY ListedAreMade
<1>3. /\ pc[o] \in {"prune", "succeed"} /\ IsBackup(o) => o \in ToSet(made)
      /\ pc[o] = "restore" => ~IsBackup(o)
  BY DEF MadeInv, StagesAgree
<1>4. CASE Prune(o)
  BY <1>1, <1>2, <1>3, <1>4, MovesOn DEF Prune, Goto, Stages, Working, Guarded
<1>5. CASE Restore(o)
  <2>1. kind[o].archive \in Ops
    BY <1>3, <1>5 DEF MadeInv, BackupTypeOK, IsBackup, BackupKind, RestoreKinds, Restore, Goto
  <2>2. \A p \in Ops : Listed(rows', p) => pc[p] # "idle" /\ (IsBackup(p) => p \in ToSet(made))
    BY <2>1, <1>5, ListedAreMade DEF Restore
  <2> QED BY <2>2, <1>1, <1>3, <1>5, MovesOn DEF Restore, Goto, Stages, Working, Guarded
<1>6. CASE Succeed(o)
  <2>1. \A p \in Ops : Listed(rows', p) => Listed(rows, p) \/ p = o
    BY <1>6, OwnRow DEF Succeed
  <2>2. pc[o] = "succeed"
    BY <1>6 DEF Succeed, Goto
  <2> QED BY <2>1, <2>2, <1>1, <1>2, <1>3, <1>6, MovesOn DEF Succeed, Goto, Stages, Working
<1> QED BY <1>4, <1>5, <1>6

LEMMA RestartKeeps ==
  ASSUME MadeInv, Restart \/ UNCHANGED vars
  PROVE  MadeInv'
<1>1. CASE Restart
  <2>1. \A p \in Ops : pc'[p] = (IF pc[p] = "idle" THEN "idle" ELSE "done")
    BY <1>1 DEF Restart
  <2>2. BackupTypeOK'
    BY <1>1 DEF MadeInv, BackupTypeOK, Restart, Stages
  <2>3. StagesAgree'
    BY <1>1, <2>1 DEF MadeInv, StagesAgree, Restart, Unmade, IsBackup, Listed
  <2>4. AllHonest'
    BY <1>1 DEF MadeInv, AllHonest, Honest, Restart, IsBackup, Listed
  <2> QED BY <2>2, <2>3, <2>4 DEF MadeInv
<1>2. CASE UNCHANGED vars
  BY <1>2 DEF vars, MadeInv, BackupTypeOK, StagesAgree, Unmade, AllHonest, Honest, IsBackup, Listed
<1> QED BY <1>1, <1>2

LEMMA MadeKept == MadeInv /\ [Next]_vars => MadeInv'
<1> SUFFICES ASSUME MadeInv, [Next]_vars PROVE MadeInv'
  OBVIOUS
<1> QED BY RequestKeeps, CreateKeeps, DumpKeeps, RunKeeps, EndsKeep, RestartKeeps DEF Next, Step

\* Even when two operations overlap and the table comes back from a dump, a run that
\* backup_runs calls a success had its archive made.
THEOREM SuccessWasMade ==
  Spec => [](\A o \in Ops : kind[o].what = "backup" /\ o \in DOMAIN rows /\ rows[o] = "success" => o \in ToSet(made))
<1>1. MadeInv => \A o \in Ops : kind[o].what = "backup" /\ o \in DOMAIN rows /\ rows[o] = "success" => o \in ToSet(made)
  BY DEF MadeInv, AllHonest, Honest, IsBackup, Listed
<1> QED BY <1>1, MadeStart, MadeKept, PTL DEF Spec
-----------------------------------------------------------------------------
(* When nobody asks while another operation reads the settings, the guard    *)
(* keeps every other operation out, and what it made is what prune leaves.   *)

Busy(o) == pc[o] \in {"settings"} \union Working
Alone == \A o, p \in Ops : Busy(o) /\ Busy(p) => o = p
GuardSet == \A o \in Ops : pc[o] \in Working => currentOperation # "none"
Kept == \A o \in Ops : IsBackup(o) =>
  /\ pc[o] = "prune" => made # <<>> /\ made[Len(made)] = o /\ o \notin pruned
  /\ pc[o] = "succeed" => o \in Repository
AloneInv == MadeInv /\ Alone /\ GuardSet /\ Kept

LEMMA AloneStart == Init => AloneInv
BY MadeStart DEF Init, AloneInv, Alone, GuardSet, Kept, Busy, Working, SetUp, Guarded

\* The newest archive is among the newest n, for any n.
LEMMA LastStays ==
  ASSUME made \in Seq(Ops), made # <<>>, made[Len(made)] \notin pruned, NEW n \in Nat \ {0}
  PROVE  made[Len(made)] \in Newest(n)
<1>1. Len(made) \in Nat \ {0} /\ DOMAIN made = 1 .. Len(made)
  BY LenProperties, EmptySeq
<1>2. Len(made) \in Left
  BY <1>1 DEF Left
<1>3. {j \in Left : j > Len(made)} = {}
  BY <1>1 DEF Left
<1>4. Cardinality({}) = 0
  BY FS_EmptySet
<1>5. Cardinality({j \in Left : j > Len(made)}) = 0
  BY <1>3, <1>4, Zenon
<1>6. Cardinality({j \in Left : j > Len(made)}) < n
  BY <1>5
<1> QED BY <1>2, <1>6 DEF Newest

LEMMA CreateKeepsAlone ==
  ASSUME AloneInv, NEW o \in Ops, Create(o)
  PROVE  AloneInv'
<1>1. MadeInv' /\ ToSet(made') = ToSet(made) \union {o}
  BY CreateKeeps DEF AloneInv
<1>2. /\ pc[o] = "create" /\ UNCHANGED <<currentOperation, kind, pruned>>
      /\ \A p \in Ops : pc'[p] = IF p = o THEN "prune" ELSE pc[p]
  BY DEF AloneInv, MadeInv, BackupTypeOK, Create, Goto
<1>3. Alone' /\ \A p \in Ops \ {o} : ~Busy(p)
  BY <1>2 DEF AloneInv, Alone, Busy, Working, Guarded
<1>4. GuardSet'
  BY <1>2 DEF AloneInv, GuardSet, Working, Guarded
<1>5. made' # <<>> /\ made'[Len(made')] = o
  <2>1. made \in Seq(Ops) /\ made' = Append(made, o)
    BY DEF AloneInv, MadeInv, BackupTypeOK, Create
  <2> QED BY <2>1, AppendProperties, LenProperties, EmptySeq
<1>6. o \notin pruned
  BY <1>2 DEF AloneInv, MadeInv, BackupTypeOK, StagesAgree, Unmade
<1>7. Kept'
  BY <1>2, <1>3, <1>5, <1>6 DEF Kept, IsBackup, Busy, Working, Guarded
<1> QED BY <1>1, <1>3, <1>4, <1>7 DEF AloneInv

LEMMA PruneKeepsAlone ==
  ASSUME AloneInv, NEW o \in Ops, Prune(o)
  PROVE  AloneInv'
<1>1. MadeInv'
  BY EndsKeep DEF AloneInv
<1>2. /\ pc[o] = "prune" /\ UNCHANGED <<currentOperation, kind, made>>
      /\ \A p \in Ops : pc'[p] = IF p = o THEN "succeed" ELSE pc[p]
  BY DEF AloneInv, MadeInv, BackupTypeOK, Prune, Goto
<1>3. Alone' /\ \A p \in Ops \ {o} : ~Busy(p)
  BY <1>2 DEF AloneInv, Alone, Busy, Working, Guarded
<1>4. GuardSet'
  BY <1>2 DEF AloneInv, GuardSet, Working, Guarded
<1>5. IsBackup(o) => made # <<>> /\ made[Len(made)] = o /\ o \notin pruned /\ o \in ToSet(made)
  BY <1>2 DEF AloneInv, Kept, MadeInv, StagesAgree
<1>6. IsBackup(o) => o \notin pruned'
  <2>1. CASE KeepLast = 0
    BY <2>1, <1>5 DEF Prune
  <2>2. CASE KeepLast # 0
    <3>1. made \in Seq(Ops) /\ KeepLast \in Nat \ {0}
      BY <2>2, KeepLastAssumption DEF AloneInv, MadeInv, BackupTypeOK
    <3>2. IsBackup(o) => o \in Newest(KeepLast)
      BY <3>1, <1>5, LastStays
    <3> QED BY <3>2, <2>2 DEF Prune
  <2> QED BY <2>1, <2>2
<1>7. Kept'
  BY <1>2, <1>3, <1>5, <1>6 DEF Kept, IsBackup, Busy, Working, Guarded, Repository
<1> QED BY <1>1, <1>3, <1>4, <1>7 DEF AloneInv

\* A step that makes and prunes nothing, and takes nobody to where prune is asked of them.
LEMMA StandsAlone ==
  ASSUME AloneInv, MadeInv', NEW o \in Ops, NEW to \in Stages \ {"prune"}, pc' = [pc EXCEPT ![o] = to],
         UNCHANGED <<kind, made, pruned>>, to = "succeed" => ~IsBackup(o) \/ pc[o] = "succeed",
         to \in Working => currentOperation' # "none", Busy(o),
         currentOperation' = currentOperation \/ to \in Working \/ (to = "done" /\ pc[o] = "finally")
  PROVE  AloneInv'
<1>1. \A p \in Ops : pc'[p] = IF p = o THEN to ELSE pc[p]
  BY DEF AloneInv, MadeInv, BackupTypeOK
<1>2. \A p \in Ops \ {o} : ~Busy(p)
  BY DEF AloneInv, Alone
<1>3. Alone'
  BY <1>1, <1>2 DEF Alone, Busy
<1>4. GuardSet'
  BY <1>1, <1>2 DEF AloneInv, GuardSet, Busy
<1>5. Kept'
  BY <1>1, <1>2 DEF AloneInv, Kept, IsBackup, Repository
<1> QED BY <1>3, <1>4, <1>5 DEF AloneInv

LEMMA RunKeepsAlone ==
  ASSUME AloneInv, NEW o \in Ops,
         StartOperation(o) \/ Decline(o) \/ SetupThrows(o) \/ (Step(o) /\ ~Create(o) /\ ~Prune(o))
  PROVE  AloneInv'
<1>1. MadeInv'
  BY MadeKept DEF AloneInv, Next
<1>2. IsBackup(o) \/ kind[o].what = "restore"
  BY DEF AloneInv, MadeInv, BackupTypeOK, IsBackup, BackupKind, RestoreKinds
<1>3. pc[o] \in {"extract", "restore"} => ~IsBackup(o)
  BY DEF AloneInv, MadeInv, StagesAgree
<1>4. pc[o] \in Working => currentOperation # "none"
  BY DEF AloneInv, GuardSet
<1>5. CASE StartOperation(o)
  <2>1. currentOperation' # "none"
    BY <1>5, <1>2 DEF StartOperation, IsBackup
  <2> QED BY <2>1, <1>1, <1>5, StandsAlone DEF StartOperation, Goto, Busy, Stages, Working, SetUp
<1>6. CASE Decline(o)
  BY <1>1, <1>6, StandsAlone DEF Decline, Goto, Busy, Stages, Working, SetUp, Guarded
<1>7. CASE SetupThrows(o)
  BY <1>1, <1>7, StandsAlone DEF SetupThrows, Busy, Stages, Working, SetUp, Guarded
<1>8. CASE Insert(o)
  BY <1>1, <1>4, <1>8, StandsAlone DEF Insert, Goto, Busy, Stages, Working, SetUp
<1>9. CASE Stage(o)
  BY <1>1, <1>4, <1>9, StandsAlone DEF Stage, Goto, Busy, Stages, Working, SetUp, Guarded
<1>10. CASE Dump(o)
  BY <1>1, <1>4, <1>10, StandsAlone DEF Dump, Goto, Busy, Stages, Working, Guarded
<1>11. CASE Extract(o)
  BY <1>1, <1>3, <1>4, <1>11, StandsAlone DEF Extract, Goto, Busy, Stages, Working, Guarded
<1>12. CASE Restore(o)
  BY <1>1, <1>3, <1>4, <1>12, StandsAlone DEF Restore, Goto, Busy, Stages, Working, Guarded
<1>13. CASE Succeed(o)
  BY <1>1, <1>4, <1>13, StandsAlone DEF Succeed, Goto, Busy, Stages, Working, Guarded
<1>14. CASE Fail(o)
  BY <1>1, <1>4, <1>14, StandsAlone DEF Fail, Goto, Busy, Stages, Working
<1>15. CASE Finally(o)
  BY <1>1, <1>15, StandsAlone DEF Finally, Goto, Busy, Stages, Working, SetUp, Guarded
<1>16. CASE CommandFails(o)
  BY <1>1, <1>4, <1>16, StandsAlone DEF CommandFails, Busy, Stages, Working, Guarded
<1> QED BY <1>5, <1>6, <1>7, <1>8, <1>9, <1>10, <1>11, <1>12, <1>13, <1>14, <1>15, <1>16 DEF Step

LEMMA AloneKept ==
  ASSUME Overlap = FALSE, AloneInv, [Next]_vars
  PROVE  AloneInv'
<1>1. MadeInv'
  BY MadeKept DEF AloneInv
<1>2. ASSUME NEW o \in Ops, NEW k \in {BackupKind} \union RestoreKinds, Request(o, k) PROVE AloneInv'
  <2>1. /\ \A p \in Ops : /\ pc'[p] = (IF p = o THEN "settings" ELSE pc[p])
                          /\ p # o => kind'[p] = kind[p]
        /\ UNCHANGED <<currentOperation, made, pruned>>
    BY <1>2 DEF AloneInv, MadeInv, BackupTypeOK, Request, Goto
  <2>2. \A p \in Ops : ~Busy(p)
    BY <1>2 DEF Request, AloneInv, GuardSet, Busy
  <2> "settings" \notin Working /\ {"prune", "succeed"} \subseteq Working
    BY DEF Working, SetUp, Guarded
  <2>3. Alone'
    BY <2>1, <2>2 DEF Alone, Busy
  <2>5. GuardSet'
    BY <2>1, <2>2 DEF GuardSet, Busy
  <2>4. Kept'
    BY <2>1, <2>2 DEF Kept, Busy
  <2> QED BY <1>1, <2>3, <2>5, <2>4 DEF AloneInv
<1>3. CASE Restart
  BY <1>1, <1>3 DEF Restart, AloneInv, Alone, GuardSet, Kept, Busy, Working, SetUp, Guarded
<1>4. CASE UNCHANGED vars
  BY <1>1, <1>4 DEF vars, AloneInv, Alone, GuardSet, Kept, Busy, IsBackup, Repository
<1>5. ASSUME NEW o \in Ops, StartOperation(o) \/ Decline(o) \/ SetupThrows(o) \/ Step(o) PROVE AloneInv'
  BY <1>5, RunKeepsAlone, CreateKeepsAlone, PruneKeepsAlone
<1> QED BY <1>2, <1>3, <1>4, <1>5 DEF Next

\* When nobody asks for an operation while another one reads the settings, a backup that
\* is about to be called a success is in the repository it has pruned, for every number of
\* archives to keep and every fault.
THEOREM BackupsSucceedTruly ==
  ASSUME Overlap = FALSE
  PROVE  Spec => []SuccessIsTrue
<1>1. AloneInv => SuccessIsTrue
  BY DEF AloneInv, MadeInv, AllHonest, Honest, Kept, IsBackup, Listed, SuccessIsTrue
<1>2. AloneInv /\ [Next]_vars => AloneInv'
  BY AloneKept
<1> QED BY <1>1, <1>2, AloneStart, PTL DEF Spec

-----------------------------------------------------------------------------
(* The slow collector's readings.  The same host with every tool answering.  *)
AllAnswer(h) == [h EXCEPT !.mute = {}]
IsHost(h) == h = [os |-> h.os, facts |-> h.facts, mute |-> h.mute]

\* Nothing else of it changes.
LEMMA AllAnswering ==
  ASSUME NEW h, IsHost(h)
  PROVE  /\ AllAnswer(h).os = h.os /\ AllAnswer(h).facts = h.facts /\ AllAnswer(h).mute = {}
         /\ \A tool : Answers(AllAnswer(h), tool)
         /\ \A f : True(AllAnswer(h), f) <=> True(h, f)
         /\ Linux(AllAnswer(h)) <=> Linux(h)
<1> DEFINE g == AllAnswer(h)
<1>1. g.os = h.os /\ g.facts = h.facts /\ g.mute = {}
  BY DEF AllAnswer, IsHost
<1> HIDE DEF g
<1>2. (\A tool : Answers(g, tool)) /\ (\A f : True(g, f) <=> True(h, f)) /\ (Linux(g) <=> Linux(h))
  BY <1>1 DEF Answers, True, Linux
<1> QED BY <1>1, <1>2 DEF g

\* What a tool says, it says also when every tool answers.
LEMMA SaysTheSame ==
  ASSUME NEW h, IsHost(h)
  PROVE  /\ \A tool, f : Told(h, tool, f) \subseteq Told(AllAnswer(h), tool, f)
         /\ \A tool, f : Seen(h, tool, f) \subseteq Seen(AllAnswer(h), tool, f)
         /\ \A tool, f : Answers(h, tool) => Seen(h, tool, f) = Seen(AllAnswer(h), tool, f)
<1>1. \A f : YesNo(h, f) = YesNo(AllAnswer(h), f)
  BY AllAnswering DEF YesNo
<1> QED BY <1>1, AllAnswering DEF Told, Seen

\* The first firewall that answers, if no answering one is off.
LEMMA FirewallIsSo ==
  ASSUME NEW h, IsHost(h), ~\E i \in DOMAIN Firewalls(h) : Answers(h, Firewalls(h)[i]) /\ ~True(h, Firewalls(h)[i])
  PROVE  FirewallState(h) \subseteq IF \E i \in DOMAIN Firewalls(h) : True(h, Firewalls(h)[i]) THEN {"yes"} ELSE {"no"}
<1> DEFINE F == Firewalls(h)  answering == {i \in DOMAIN F : Answers(h, F[i])}
           first == CHOOSE i \in answering : \A j \in answering : i <= j
<1>1. CASE answering = {}
  BY <1>1 DEF FirewallState
<1>2. CASE answering # {}
  <2>1. answering \subseteq {1, 2, 3}
    BY DEF Firewalls
  <2>2. \E i \in answering : \A j \in answering : i <= j
    <3> HIDE DEF answering
    <3>1. CASE 1 \in answering
      BY <2>1, <3>1
    <3>2. CASE 1 \notin answering /\ 2 \in answering
      BY <2>1, <3>2
    <3>3. CASE 1 \notin answering /\ 2 \notin answering
      <4>1. \E i : i \in answering
        BY <1>2
      <4>2. answering = {3}
        BY <2>1, <3>3, <4>1
      <4> QED BY <4>2
    <3> QED BY <3>1, <3>2, <3>3
  <2>3. first \in answering
    <3> HIDE DEF answering
    <3> QED BY <2>2
  <2>4. FirewallState(h) = YesNo(h, F[first])
    BY <1>2 DEF FirewallState
  <2> HIDE DEF first
  <2>5. first \in DOMAIN F /\ Answers(h, F[first])
    BY <2>3
  <2>6. True(h, F[first])
    BY <2>5
  <2> QED BY <2>4, <2>5, <2>6 DEF YesNo
<1> QED BY <1>1, <1>2

\* Each job: what it reads, it would read if every tool answered.
LEMMA SensorsAreSo ==
  ASSUME NEW h, IsHost(h)
  PROVE  /\ Temperatures(h) \subseteq Temperatures(AllAnswer(h))
         /\ If(Linux(h), LinuxFans(h)) \subseteq If(Linux(AllAnswer(h)), LinuxFans(AllAnswer(h)))
         /\ Battery(h) \subseteq Battery(AllAnswer(h))
<1> DEFINE g == AllAnswer(h)
<1>1. OnPower(g) = OnPower(h)
  BY AllAnswering DEF OnPower
<1>2. (\A tool : Answers(g, tool)) /\ (True(g, "battery") <=> True(h, "battery")) /\ (Linux(g) <=> Linux(h)) /\ g.os = h.os
  BY AllAnswering
<1>3. LinuxBattery(h) \subseteq LinuxBattery(g)
  BY <1>1, <1>2 DEF LinuxBattery, If
<1>4. Battery(h) \subseteq Battery(g)
  BY <1>1, <1>2, <1>3 DEF Battery, If
<1>5. Temperatures(h) \subseteq Temperatures(g) /\ LinuxFans(h) \subseteq LinuxFans(g)
  BY SaysTheSame DEF Temperatures, LinuxFans
<1> QED BY <1>2, <1>4, <1>5 DEF If

\* Arrays.
LEMMA RaidIsSo == ASSUME NEW h, IsHost(h) PROVE CollectRaid(h) \subseteq CollectRaid(AllAnswer(h))
<1> DEFINE g == AllAnswer(h)
<1>1. ParseMdstat(g) = ParseMdstat(h) /\ ParseZpoolList(g) = ParseZpoolList(h) /\ ParseStorcli(g) = ParseStorcli(h) /\ StorageSpaces(g) = StorageSpaces(h)
  BY AllAnswering DEF ParseMdstat, ParseZpoolList, ParseStorcli, StorageSpaces
<1>2. (\A tool : Answers(g, tool)) /\ (Linux(g) <=> Linux(h)) /\ g.os = h.os
  BY AllAnswering
<1> QED BY <1>1, <1>2 DEF CollectRaid, If

\* Disks.
LEMMA SmartIsSo == ASSUME NEW h, IsHost(h) PROVE CollectSmart(h) \subseteq CollectSmart(AllAnswer(h))
<1> DEFINE g == AllAnswer(h)
<1>1. ParseSmartctl(g) = ParseSmartctl(h)
  BY AllAnswering DEF ParseSmartctl, If
<1>2. (\A tool : Answers(g, tool)) /\ (\A f : True(g, f) <=> True(h, f)) /\ g.os = h.os
  BY AllAnswering
<1>3. SmartctlDisks(h) \subseteq SmartctlDisks(g)
  BY <1>1, <1>2 DEF SmartctlDisks, If
<1>4. WindowsStorageReliability(h) \subseteq WindowsStorageReliability(g)
  BY <1>2 DEF WindowsStorageReliability, If
<1> QED BY <1>2, <1>3, <1>4 DEF CollectSmart, If

\* Updates, if their kinds can be told.
LEMMA UpdatesAreSo ==
  ASSUME NEW h, IsHost(h), h.mute \intersect {"sync", "advisories", "simulation"} = {}
  PROVE  CollectUpdates(h) \subseteq CollectUpdates(AllAnswer(h))
<1> DEFINE g == AllAnswer(h)
<1>1. (\A tool : Answers(g, tool)) /\ (\A f : True(g, f) <=> True(h, f)) /\ g.os = h.os /\ g.facts = h.facts
  BY AllAnswering
<1>2. Answers(h, "sync") /\ Answers(h, "advisories") /\ Answers(h, "simulation")
  BY DEF Answers
<1>3. ManagerOf(g) = ManagerOf(h)
  BY <1>1 DEF ManagerOf
<1>4. UpgradableKnown(h) => UpgradableKnown(g)
  BY <1>1, <1>3 DEF UpgradableKnown
<1>5. ParseApt(g) = ParseApt(h) /\ ParseDnf(g) = ParseDnf(h) /\ ParseCheckupdates(g) = ParseCheckupdates(h)
  BY <1>1, <1>2 DEF ParseApt, ParseDnf, ParseCheckupdates, Seen
<1>6. UpgradablePackages(g) = UpgradablePackages(h)
  BY <1>1, <1>3, <1>5 DEF UpgradablePackages
<1> QED BY <1>4, <1>6 DEF CollectUpdates, If

\* What the machine is.
LEMMA InventoryIsSo == ASSUME NEW h, IsHost(h) PROVE CollectInventory(h) \subseteq CollectInventory(AllAnswer(h))
<1> DEFINE g == AllAnswer(h)
<1>1. (\A tool : Answers(g, tool)) /\ g.os = h.os
  BY AllAnswering
<1>2. \A tool, f : Seen(h, tool, f) \subseteq Seen(g, tool, f)
  BY SaysTheSame
<1> HIDE DEF g
<1>3. If(Answers(h, "hostInfo"), {"osName"}) \subseteq If(Answers(g, "hostInfo"), {"osName"})
  BY <1>1 DEF If
<1>4. If(h.os \in {"linux", "windows"}, Seen(h, "maker", "serial")) \subseteq If(g.os \in {"linux", "windows"}, Seen(g, "maker", "serial"))
  BY <1>1, <1>2 DEF If
<1> HIDE DEF If
<1> QED BY <1>1, <1>2, <1>3, <1>4 DEF CollectInventory, g

\* What a job reads of a host is so, but for the readings that are known to go wrong.
LEMMA CollectedIsSo ==
  ASSUME NEW h, IsHost(h), NEW f \in Fields \ {"software"}, ~Misread(f, h)
  PROVE  Collected(f, h) \subseteq Really(f, h)
<1> DEFINE g == AllAnswer(h)
<1>0. (\A tool : Answers(g, tool)) /\ (\A x : True(g, x) <=> True(h, x)) /\ (Linux(g) <=> Linux(h)) /\ g.os = h.os /\ g.facts = h.facts /\ g.mute = {}
  BY AllAnswering
<1>1. f # "firewall" => Really(f, h) = Collected(f, g)
  BY DEF Really, AllAnswer
<1>2. CASE f = "firewall"
  <2>1. ~\E i \in DOMAIN Firewalls(h) : Answers(h, Firewalls(h)[i]) /\ ~True(h, Firewalls(h)[i])
    BY <1>2 DEF Misread
  <2>2. Collected(f, h) = FirewallState(h)
    BY <1>2 DEF Collected, CollectSecurity
  <2> QED BY <1>2, <2>1, <2>2, FirewallIsSo DEF Really
<1>3. CASE f \in {"temps", "fans", "battery"}
  BY <1>1, <1>3, SensorsAreSo DEF Collected, CollectSensors
<1>4. CASE f = "users"
  <2>1. Answers(h, "users")
    BY <1>4 DEF Misread
  <2>2. CollectSessions(h) = CollectSessions(g)
    BY <2>1, SaysTheSame DEF CollectSessions
  <2> QED BY <1>1, <1>4, <2>2 DEF Collected
<1>5. CASE f = "failedLogins"
  BY <1>0, <1>1, <1>5, SaysTheSame DEF Collected, CollectFailedLogins
<1>6. CASE f \in {"winSystem", "linkSpeeds"}
  BY <1>0, <1>1, <1>6, SaysTheSame DEF Collected, CollectWinSystem, CollectLinkSpeeds, If
<1>7. CASE f = "reboot"
  <2>1. h.mute = {}
    BY <1>7 DEF Misread
  <2>2. g = h
    BY <1>0, <2>1 DEF AllAnswer, IsHost
  <2> QED BY <1>1, <1>7, <2>2
<1>8. CASE f = "encryption"
  <2>1. EncryptionState(h) \subseteq EncryptionState(g)
    BY <1>0, SaysTheSame DEF EncryptionState
  <2> QED BY <1>1, <1>8, <2>1 DEF Collected, CollectSecurity
<1>9. CASE f = "defender"
  <2>1. Defender(h) \subseteq Defender(g)
    BY <1>0, SaysTheSame DEF Defender
  <2> QED BY <1>1, <1>9, <2>1 DEF Collected, CollectSecurity
<1>10. CASE f = "time"
  <2>1. CollectTime(h) \subseteq CollectTime(g)
    BY <1>0, SaysTheSame DEF CollectTime, If
  <2> QED BY <1>1, <1>10, <2>1 DEF Collected
<1>11. CASE f \in {"raid", "spaces"}
  BY <1>1, <1>11, RaidIsSo DEF Collected
<1>12. CASE f = "smart"
  BY <1>1, <1>12, SmartIsSo DEF Collected
<1>13. CASE f = "updates"
  BY <1>1, <1>13, UpdatesAreSo DEF Collected, Misread
<1>14. CASE f = "inventory"
  BY <1>1, <1>14, InventoryIsSo DEF Collected
<1> QED BY <1>2, <1>3, <1>4, <1>5, <1>6, <1>7, <1>8, <1>9, <1>10, <1>11, <1>12, <1>13, <1>14 DEF Fields, Inputs

SlowInv == field \in Fields /\ IsHost(host)

\* The field looked at stays, and the host is one.
LEMMA SlowKept == SlowInv /\ [SlowNext]_slowvars => SlowInv'
<1> SUFFICES ASSUME SlowInv, [SlowNext]_slowvars PROVE SlowInv'
  OBVIOUS
<1>1. CASE UNCHANGED <<field, host>>
  BY <1>1 DEF SlowInv, IsHost
<1>2. CASE HostChanges
  BY <1>2 DEF HostChanges, SlowInv, IsHost
<1>3. CASE RunJob \/ (\E files \in SUBSET Paths : SetLockfiles(files)) \/ \E j \in DOMAIN runs : BeginSoftware(j) \/ EndSoftware(j)
  BY <1>1, <1>3 DEF RunJob, SetLockfiles, BeginSoftware, EndSoftware
<1> QED BY <1>1, <1>2, <1>3 DEF SlowNext, slowvars

(* Whatever is true of a host and whichever of its tools come and go: a job   *)
(* of the slow collector stores what is so, or keeps what it had, but for the *)
(* readings named (slow.go).                                                  *)
THEOREM OnlyWhatIsReadIsStored == SlowInit /\ [][SlowNext]_slowvars => OnlyWhatIsRead
<1>1. SlowInit => SlowInv
  BY DEF SlowInit, SlowInv, Hosts, IsHost
<1>2. SlowInv /\ [SlowNext]_slowvars =>
        [RunJob => \/ shown' \subseteq Really(field, host)
                   \/ field \in KeepsOld /\ shown' = shown
                   \/ Misread(field, host)]_slowvars
  <2> SUFFICES ASSUME SlowInv, RunJob, ~Misread(field, host)
               PROVE  shown' \subseteq Really(field, host) \/ (field \in KeepsOld /\ shown' = shown)
    OBVIOUS
  <2>1. Collected(field, host) \subseteq Really(field, host)
    BY CollectedIsSo DEF SlowInv, RunJob
  <2> QED BY <2>1 DEF RunJob
<1> QED BY <1>1, <1>2, SlowKept, PTL DEF OnlyWhatIsRead
=============================================================================
