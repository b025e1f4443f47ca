--------------------------- MODULE AgentWatchdog ---------------------------
(***************************************************************************)
(* The agent that alerts by itself when it cannot reach the engine         *)
(* (agent/internal/watchdog), with the settings it gets from the engine    *)
(* (services/watchdogAgents.ts).  Each message and the save that follows   *)
(* it are steps of their own, so that the agent may die between them.      *)
(*                                                                         *)
(* A message is delivered when one destination at least accepts it.  The   *)
(* times and errors in the status, which are only shown, are left out.     *)
(***************************************************************************)
EXTENDS Naturals

CONSTANTS After,      \* cycles without contact before the alert (afterSeconds)
          MaxTests,   \* bound on the tests asked for
          MaxRestarts \* bound on the restarts of the agent

ASSUME WatchdogAssumption == {After, MaxTests, MaxRestarts} \subseteq Nat

VARIABLES up,         \* the agent's polls reach the engine
          ordered,    \* endpoints.watchdog: enabled, and the test asked for last
          spec,       \* the agent's copy of it
          sinceOK,    \* cycles since lastOK, up to After
          status,     \* alerting, and the last test
          step,       \* what the cycle does next
          file,       \* what save has written
          pressed,    \* the number of the last test asked for (its time)
          restarts, steady, \* steady: no restart between a message and its save
          told,       \* history: the last message delivered
          repeated, tests   \* history: it was delivered twice in a row; tests delivered

watchdog == <<spec, sinceOK, status, step, file>>
news == <<told, repeated, tests>>
wvars == <<up, ordered, pressed, watchdog, restarts, steady, news>>

NoSpec == [on |-> FALSE, test |-> 0]
NoStatus == [alerting |-> FALSE, test |-> 0]
Fresh == [spec |-> NoSpec, status |-> NoStatus]

WatchdogInit ==
  /\ up = TRUE /\ ordered = NoSpec /\ pressed = 0
  /\ spec = NoSpec /\ sinceOK = 0 /\ status = NoStatus /\ step = "poll" /\ file = Fresh
  /\ restarts = 0 /\ steady \in BOOLEAN
  /\ told = "reachable" /\ repeated = FALSE /\ tests = [t \in 1..MaxTests |-> 0]
-----------------------------------------------------------------------------
(* --- the engine and the network ---------------------------------------- *)
Outage == up' = ~up /\ UNCHANGED <<pressed, ordered, watchdog, restarts, steady, news>>

\* PUT /api/endpoints/:id/watchdog: the whole setting is replaced, its test with it;
\* one that names no good address or channel is refused, and all is as it was.
parseWatchdog(on) == [NoSpec EXCEPT !.on = on]
Configure ==
  /\ \E on \in BOOLEAN : ordered' = parseWatchdog(on)
  /\ UNCHANGED <<pressed, up, watchdog, restarts, steady, news>>
\* POST /api/endpoints/:id/watchdog/test.
PressTest ==
  /\ ordered.on /\ pressed < MaxTests
  /\ pressed' = pressed + 1
  /\ ordered' = [ordered EXCEPT !.test = pressed']
  /\ UNCHANGED <<up, watchdog, restarts, steady, news>>
\* Time without contact.
CycleEnds ==
  /\ step = "poll" /\ sinceOK < After
  /\ sinceOK' = sinceOK + 1
  /\ UNCHANGED <<pressed, up, ordered, spec, status, step, file, restarts, steady, news>>

(* --- Reachable ----------------------------------------------------------- *)
NewTest(s, st) == s.test # 0 /\ s.test # st.test

\* What the agent is handed: nothing, for an endpoint that is no watchdog.
watchdogSpecFor(w) == IF w.on THEN w ELSE NoSpec
\* The poll works.  An endpoint that is no longer a watchdog forgets everything.
Reachable ==
  /\ step = "poll" /\ up
  /\ sinceOK' = 0
  /\ spec' = watchdogSpecFor(ordered)
  /\ IF ordered.on
       THEN /\ step' = IF status.alerting THEN "again"
                       ELSE IF NewTest(ordered, status) THEN "test" ELSE "save"
            /\ UNCHANGED <<status, file, told>>
       ELSE /\ status' = NoStatus /\ file' = Fresh
            /\ told' = "reachable"
            /\ UNCHANGED step
  /\ UNCHANGED <<pressed, up, ordered, restarts, steady, repeated, tests>>

Say(message) ==
  /\ told' = message
  /\ repeated' = (repeated \/ told = message)
  /\ UNCHANGED tests

SayAgain(ok) ==
  /\ step = "again"
  /\ IF ok THEN status' = [status EXCEPT !.alerting = FALSE] /\ Say("reachable")
           ELSE UNCHANGED <<status, news>>
  /\ step' = IF NewTest(spec, status) THEN "test" ELSE "save"
  /\ UNCHANGED <<pressed, up, ordered, spec, sinceOK, file, restarts, steady>>

\* A test is tried once, whether it is delivered or not.
SayTest(ok) ==
  /\ step = "test"
  /\ status' = [status EXCEPT !.test = spec.test]
  /\ tests' = IF ok THEN [tests EXCEPT ![spec.test] = @ + 1] ELSE tests
  /\ step' = "save"
  /\ UNCHANGED <<pressed, up, ordered, spec, sinceOK, file, restarts, steady, told, repeated>>

(* --- Unreachable --------------------------------------------------------- *)
\* The alert has been delivered already, or it is too early.
Quiet == status.alerting \/ sinceOK < After

Unreachable ==
  /\ step = "poll" /\ ~up /\ spec.on
  /\ step' = IF Quiet THEN "save" ELSE "alert"
  /\ UNCHANGED <<pressed, up, ordered, spec, sinceOK, status, file, restarts, steady, news>>

\* Mutated form of Alerted: the alert counts as delivered when it was tried.
AlertedAnyway(ok) == TRUE
Alerted(ok) == ok
SayAlert(ok) ==
  /\ step = "alert"
  /\ status' = [status EXCEPT !.alerting = Alerted(ok)]
  /\ IF ok THEN Say("unreachable") ELSE UNCHANGED news
  /\ step' = "save"
  /\ UNCHANGED <<pressed, up, ordered, spec, sinceOK, file, restarts, steady>>

(* --- the file ------------------------------------------------------------ *)
\* save: to a temporary file, and renamed, so that it is written or left as it was.
Save ==
  /\ step = "save" /\ step' = "poll"
  /\ file' = [spec |-> spec, status |-> status]
  /\ UNCHANGED <<pressed, up, ordered, spec, sinceOK, status, restarts, steady, news>>
SaveFails ==
  /\ step = "save" /\ step' = "poll" /\ ~steady
  /\ UNCHANGED <<pressed, up, ordered, spec, sinceOK, status, file, restarts, steady, news>>

\* Mutated form of Loaded: only the settings are kept over a restart.
LoadedSpec == [file EXCEPT !.status = NoStatus]
\* New: what the file holds; the time without contact starts anew.
Loaded == file
RestartAgent ==
  /\ restarts < MaxRestarts /\ restarts' = restarts + 1
  /\ steady => step = "poll"
  /\ spec' = Loaded.spec /\ status' = Loaded.status
  /\ sinceOK' = 0 /\ step' = "poll"
  /\ UNCHANGED <<pressed, up, ordered, file, steady, news>>
-----------------------------------------------------------------------------
WatchdogSteps ==
  \/ Reachable \/ Unreachable \/ Save \/ SaveFails
  \/ \E ok \in BOOLEAN : SayAgain(ok) \/ SayTest(ok) \/ SayAlert(ok)

WatchdogNext ==
  \/ Outage \/ Configure \/ PressTest \/ CycleEnds \/ RestartAgent
  \/ WatchdogSteps

-----------------------------------------------------------------------------
WatchdogTypeOK ==
  /\ {ordered, spec, file.spec} \subseteq [on : BOOLEAN, test : 0..MaxTests]
  /\ {status, file.status} \subseteq [alerting : BOOLEAN, test : 0..MaxTests]
  /\ sinceOK \in 0..After /\ restarts \in 0..MaxRestarts
  /\ step \in {"poll", "again", "test", "alert", "save"}
  /\ told \in {"reachable", "unreachable"}

\* Restarts in the middle of an outage neither repeat the alert nor forget that it was
\* sent, and a test is sent once for every press of the button (the comments on `saved'
\* and on testId), as long as the agent does not die between a message and its save.
ToldOnce ==
  steady => ~repeated /\ \A t \in DOMAIN tests : tests[t] <= 1

\* An outage that lasts is told of, and if it ends, so is its end: whatever deliveries
\* failed, restarts came between, or tests were asked for (Reachable, Unreachable).  An
\* agent that dies between a message and its save owes its readers one or has them wait.
ToldInTheEnd ==
  /\ <>[](~up /\ spec.on /\ steady) => <>[](told = "unreachable")
  /\ <>[](up /\ steady) => <>[](told = "reachable")
=============================================================================
