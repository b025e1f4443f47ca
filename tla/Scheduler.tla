------------------------------ MODULE Scheduler ------------------------------
(***************************************************************************)
(* The check scheduler of the engine, services/scheduler.ts.  Every ten    *)
(* seconds a tick reads the checks that are due, waits for                 *)
(* takeCollectorChecks, and starts the ones that are not running, within   *)
(* a limit for the engine and one per check type.  "Run now"               *)
(* (routes/checks.ts) starts a check through the same runOneCheck, past    *)
(* both the limits and the set of running checks.                          *)
(*                                                                         *)
(* A tick is split where it waits for the database: nothing stops the next *)
(* tick from starting meanwhile.  A run is split at the update of          *)
(* lastRunAt and at the probe; any of its awaits may throw.                *)
(***************************************************************************)
EXTENDS Integers, FiniteSets

CONSTANTS
  Checks,
  Types,
  TypeOf,           \* TypeOf[c]: the type of check c
  TypeLimit,        \* TYPE_LIMITS: the limits of the heavy types
  GlobalLimit,
  CollectorChecks,  \* the checks in a site with a collector
  Ticks,            \* ticks that can be under way at once
  Requests,         \* "Run now" requests under way at once
  RunIds            \* runs under way at once (a bound on the model, not on the code)

NoRun == [check |-> "none", by |-> "none", step |-> "none"]

ASSUME SchedulerAssumption ==
  /\ "none" \notin Checks /\ Requests \cap {"none", "tick"} = {}
  /\ TypeOf \in [Checks -> Types]
  /\ DOMAIN TypeLimit \subseteq Types /\ TypeLimit \in [DOMAIN TypeLimit -> Nat]
  /\ GlobalLimit \in Nat
  /\ CollectorChecks \subseteq Checks
  /\ IsFiniteSet(Checks) /\ IsFiniteSet(RunIds)

VARIABLES
  overdue,        \* the checks whose interval has passed since their lastRunAt
  silent,         \* has the site collector been silent beyond its grace?
  running,        \* the Set running
  runningByType,  \* the Map runningByType
  tickStep,       \* tickStep[t]: where tick t is: "idle", "taking" or "starting"
  tickDue,        \* tickDue[t]: the rows it read that it still has to deal with
  run             \* run[i]: a call of runOneCheck that has not returned, or NoRun

vars == <<overdue, silent, running, runningByType, tickStep, tickDue, run>>

Active == { i \in RunIds : run[i] # NoRun }
RunsOf(t) == { i \in Active : TypeOf[run[i].check] = t }

Init ==
  /\ overdue \in SUBSET Checks
  /\ silent \in BOOLEAN
  /\ running = {}
  /\ runningByType = [t \in Types |-> 0]
  /\ tickStep = [t \in Ticks |-> "idle"]
  /\ tickDue = [t \in Ticks |-> {}]
  /\ run = [i \in RunIds |-> NoRun]

-----------------------------------------------------------------------------
\* The clock: c's interval (or its retry interval) passes, the collector polls or
\* falls silent.
Elapse(c) ==
  /\ c \notin overdue
  /\ overdue' = overdue \cup {c}
  /\ UNCHANGED <<silent, running, runningByType, tickStep, tickDue, run>>

CollectorTurns ==
  /\ CollectorChecks # {}
  /\ silent' = ~ silent
  /\ UNCHANGED <<overdue, running, runningByType, tickStep, tickDue, run>>

\* runDueChecks: the query for due checks.
Tick(t) ==
  /\ tickStep[t] = "idle"
  /\ tickDue' = [tickDue EXCEPT ![t] = overdue]
  /\ tickStep' = [tickStep EXCEPT ![t] = "taking"]
  /\ UNCHANGED <<overdue, silent, running, runningByType, run>>

\* Mutated form of TakeCollectorCheck: a silent collector's checks are skipped too.
TakeCollectorCheckOnly(t, c) ==
  /\ tickStep[t] = "taking" /\ c \in tickDue[t] \cap CollectorChecks
  /\ tickDue' = [tickDue EXCEPT ![t] = @ \ {c}]
  /\ UNCHANGED <<overdue, silent, running, runningByType, tickStep, run>>

\* takeCollectorChecks: the collector's checks leave the list, one by one; while the
\* collector is silent each is stamped and recorded as unknown.
TakeCollectorCheck(t, c) ==
  /\ tickStep[t] = "taking" /\ c \in tickDue[t] \cap CollectorChecks
  /\ tickDue' = [tickDue EXCEPT ![t] = @ \ {c}]
  /\ overdue' = IF silent THEN overdue \ {c} ELSE overdue
  /\ UNCHANGED <<silent, running, runningByType, tickStep, run>>

TakenCollectorChecks(t) ==
  /\ tickStep[t] = "taking" /\ tickDue[t] \cap CollectorChecks = {}
  /\ tickStep' = [tickStep EXCEPT ![t] = "starting"]
  /\ UNCHANGED <<overdue, silent, running, runningByType, tickDue, run>>

-----------------------------------------------------------------------------
CountOf(t, S) == Cardinality({ c \in S : TypeOf[c] = t })

\* Is there no room for another check of type t, once the checks of S have started?
Full(t, S) ==
  \/ Cardinality(running \cup S) >= GlobalLimit
  \/ t \in DOMAIN TypeLimit /\ runningByType[t] + CountOf(t, S) >= TypeLimit[t]

\* Mutated form of Fits: running checks are not left out.
FitsRunning(S, ready) ==
  /\ S \subseteq ready
  /\ S # {} => Cardinality(running \cup S) <= GlobalLimit
  /\ \A t \in DOMAIN TypeLimit : runningByType[t] + CountOf(t, S) <= TypeLimit[t] \/ CountOf(t, S) = 0
  /\ \A c \in ready \ S : Full(TypeOf[c], S)

\* What the loop over the ready rows can start, for some order of the rows (the
\* query has none): as many as the limits allow.
Fits(S, ready) ==
  /\ S \subseteq ready \ running
  /\ S # {} => Cardinality(running \cup S) <= GlobalLimit
  /\ \A t \in DOMAIN TypeLimit : runningByType[t] + CountOf(t, S) <= TypeLimit[t] \/ CountOf(t, S) = 0
  /\ \A c \in (ready \ running) \ S : Full(TypeOf[c], S)

\* The runs of the checks in S are entered in free slots of run.
Enter(S, by) ==
  \E slot \in [S -> RunIds \ Active] :
    /\ \A c, d \in S : slot[c] = slot[d] => c = d
    /\ run' = [i \in RunIds |->
         IF \E c \in S : slot[c] = i
         THEN [check |-> CHOOSE c \in S : slot[c] = i, by |-> by, step |-> "stamp"]
         ELSE run[i]]

\* The rest of the tick has no await: every run is started, and counted, at once.
StartDue(t) ==
  /\ tickStep[t] = "starting"
  /\ \E S \in SUBSET tickDue[t] :
       /\ Fits(S, tickDue[t])
       /\ Enter(S, "tick")
       /\ running' = running \cup S
       /\ runningByType' = [u \in Types |-> runningByType[u] + CountOf(u, S)]
  /\ tickStep' = [tickStep EXCEPT ![t] = "idle"]
  /\ tickDue' = [tickDue EXCEPT ![t] = {}]
  /\ UNCHANGED <<overdue, silent>>

\* POST /api/checks/:id/run and the bulk action, which awaits each run.
RunNow(q, c) ==
  /\ c \notin CollectorChecks
  /\ \A i \in Active : run[i].by # q
  /\ Enter({c}, q)
  /\ running' = running \cup {c}
  /\ runningByType' = [runningByType EXCEPT ![TypeOf[c]] = @ + 1]
  /\ UNCHANGED <<overdue, silent, tickStep, tickDue>>

\* The same route, for a check on a collector: lastRunAt is cleared.
QueueNow(c) ==
  /\ Requests # {} /\ c \in CollectorChecks
  /\ overdue' = overdue \cup {c}
  /\ UNCHANGED <<silent, running, runningByType, tickStep, tickDue, run>>

-----------------------------------------------------------------------------
\* runOneCheck sets lastRunAt, then probes.
Stamp(i) ==
  /\ run[i].step = "stamp"
  /\ run' = [run EXCEPT ![i].step = "probe"]
  /\ overdue' = overdue \ {run[i].check}
  /\ UNCHANGED <<silent, running, runningByType, tickStep, tickDue>>

\* Mutated form of Return: the cleanup is skipped when the run throws early.
ReturnUnlessThrown(i) ==
  /\ i \in Active
  /\ run' = [run EXCEPT ![i] = NoRun]
  /\ running' = IF run[i].step = "stamp" THEN running ELSE running \ {run[i].check}
  /\ runningByType' = [runningByType EXCEPT ![TypeOf[run[i].check]] = @ - 1]
  /\ UNCHANGED <<overdue, silent, tickStep, tickDue>>

\* The finally block, after the result is recorded or once an await has thrown.
Return(i) ==
  /\ i \in Active
  /\ run' = [run EXCEPT ![i] = NoRun]
  /\ running' = running \ {run[i].check}
  /\ runningByType' = [runningByType EXCEPT ![TypeOf[run[i].check]] = @ - 1]
  /\ UNCHANGED <<overdue, silent, tickStep, tickDue>>

Next ==
  \/ \E c \in Checks : Elapse(c)
  \/ CollectorTurns
  \/ \E t \in Ticks : Tick(t) \/ TakenCollectorChecks(t) \/ StartDue(t)
  \/ \E t \in Ticks : \E c \in tickDue[t] : TakeCollectorCheck(t, c)
  \/ \E q \in Requests : \E c \in Checks : RunNow(q, c)
  \/ \E c \in Checks : QueueNow(c)
  \/ \E i \in RunIds : Stamp(i)
  \/ \E i \in RunIds : Return(i)

Spec == Init /\ [][Next]_vars

\* The timer keeps ticking, the database answers, every probe has a timeout, and a
\* check that is started again and again is stamped in the end (the update of
\* lastRunAt does not throw every time).
TickFairness(t) ==
  /\ WF_vars(Tick(t))
  /\ WF_vars(\E c \in tickDue[t] : TakeCollectorCheck(t, c))
  /\ WF_vars(TakenCollectorChecks(t))
  /\ WF_vars(StartDue(t))
RunFairness ==
  /\ \A i \in RunIds : WF_vars(Stamp(i)) /\ WF_vars(Return(i) /\ run[i].step = "probe")
  /\ \A c \in Checks : SF_vars(\E i \in RunIds : run[i].check = c /\ Stamp(i))
FairSpec == Spec /\ RunFairness /\ \A t \in Ticks : TickFairness(t)

-----------------------------------------------------------------------------
TypeOK ==
  /\ overdue \subseteq Checks
  /\ silent \in BOOLEAN
  /\ running \subseteq Checks
  /\ runningByType \in [Types -> Nat]
  /\ tickStep \in [Ticks -> {"idle", "taking", "starting"}]
  /\ tickDue \in [Ticks -> SUBSET Checks]
  /\ run \in [RunIds -> [check : Checks, by : {"tick"} \cup Requests, step : {"stamp", "probe"}]
                        \cup {NoRun}]

\* Left to itself, the scheduler never runs a check twice at once, however long its
\* probe takes and however ticks overlap, and keeps to the limit of the engine.
OneRunPerCheck ==
  /\ \A i, j \in Active : run[i].check = run[j].check => i = j
  /\ running = { run[i].check : i \in Active }
  /\ Cardinality(Active) <= GlobalLimit

\* No due check is left behind: it is run again, unless the limits are reached again
\* and again.
DueChecksRun ==
  \A c \in Checks \ CollectorChecks :
    []<>(c \notin overdue \/ Full(TypeOf[c], {}))

\* A check on a collector that stays silent is recorded as unknown again and again.
SilenceShows == <>[]silent => \A c \in CollectorChecks : []<>(c \notin overdue)
=============================================================================
