-------------------------- MODULE SchedulerProofs ---------------------------
\* Left to itself the scheduler never runs a check twice at once and keeps to its limit.
EXTENDS MCScheduler, FiniteSetTheorems, TLAPS

\* runningByType counts the runs of each type, and running stays finite.
Counted == \A t \in Types : runningByType[t] = Cardinality(RunsOf(t))
CountInv == TypeOK /\ Counted

\* With nobody pressing Run now: the limits hold too.
TypesLimited == \A t \in DOMAIN TypeLimit : runningByType[t] <= TypeLimit[t]
OneRunInv == CountInv /\ OneRunPerCheck /\ TypesLimited /\ IsFiniteSet(running) /\ Cardinality(running) <= GlobalLimit

\* Runs of different checks are no more than the checks.
LEMMA LimitHolds ==
  ASSUME NEW A, NEW r, NEW R, \A i, j \in A : r[i].check = r[j].check => i = j, R = { r[i].check : i \in A },
         IsFiniteSet(A), IsFiniteSet(R), Cardinality(R) <= GlobalLimit
  PROVE  Cardinality(A) <= GlobalLimit
<1> DEFINE f == [i \in A |-> r[i].check]
<1>1. f \in Injection(A, R)
  BY DEF Injection, IsInjective
<1>2. Cardinality(A) <= Cardinality(R)
  BY <1>1, FS_Injection
<1>3. Cardinality(A) \in Nat /\ Cardinality(R) \in Nat /\ GlobalLimit \in Nat
  BY FS_CardinalityType, SchedulerAssumption
<1> QED BY <1>2, <1>3

LEMMA ActiveIsFinite == IsFiniteSet(Active) /\ IsFiniteSet(Active')
BY FS_Subset, SchedulerAssumption DEF Active

-----------------------------------------------------------------------------
(* Entering runs. *)

RunRows == [check : Checks, by : {"tick"} \cup Requests, step : {"stamp", "probe"}]

\* The checks of S are entered in slots that were free, each in its own.
LEMMA Entered ==
  ASSUME TypeOK, NEW S \in SUBSET Checks, NEW by \in {"tick"} \cup Requests, Enter(S, by)
  PROVE  /\ run' \in [RunIds -> RunRows \cup {NoRun}]
         /\ Active \subseteq Active'
         /\ \A i \in Active : run'[i] = run[i]
         /\ \A i \in Active' \ Active : run'[i].check \in S
         /\ \A c \in S : \E i \in Active' \ Active : run'[i].check = c
         /\ \A i, j \in Active' \ Active : run'[i].check = run'[j].check => i = j
<1>1. PICK slot \in [S -> RunIds \ Active] :
        /\ \A c, d \in S : slot[c] = slot[d] => c = d
        /\ run' = [i \in RunIds |->
             IF \E c \in S : slot[c] = i
             THEN [check |-> CHOOSE c \in S : slot[c] = i, by |-> by, step |-> "stamp"]
             ELSE run[i]]
  BY DEF Enter
<1>2. \A c \in S : (CHOOSE d \in S : slot[d] = slot[c]) = c
  BY <1>1
<1>3. \A c \in S : slot[c] \in RunIds \ Active /\ run'[slot[c]] = [check |-> c, by |-> by, step |-> "stamp"]
  BY <1>1, <1>2
<1>4. \A i \in RunIds : (\E c \in S : slot[c] = i) \/ run'[i] = run[i]
  BY <1>1
<1>5. \A c \in S : run'[slot[c]] \in RunRows /\ run'[slot[c]] # NoRun /\ run'[slot[c]].check = c
  <2> SUFFICES ASSUME NEW c \in S
               PROVE  LET r == [check |-> c, by |-> by, step |-> "stamp"]
                      IN  r \in RunRows /\ r # NoRun /\ r.check = c
    BY <1>3
  <2>1. c # "none"
    BY SchedulerAssumption
  <2>2. NoRun.check = "none"
    BY DEF NoRun
  <2>3. [check |-> c, by |-> by, step |-> "stamp"].check = c
    OBVIOUS
  <2> QED BY <2>1, <2>2, <2>3 DEF RunRows
<1>6. run' \in [RunIds -> RunRows \cup {NoRun}]
  BY <1>1, <1>4, <1>5 DEF TypeOK, RunRows
<1>7. \A i \in Active : run'[i] = run[i]
  BY <1>3, <1>4 DEF Active
<1>8. \A i \in Active' \ Active : \E c \in S : slot[c] = i
  BY <1>4 DEF Active
<1>9. \A c \in S : slot[c] \in Active' \ Active /\ run'[slot[c]].check = c
  BY <1>3, <1>5 DEF Active
<1>10. Active \subseteq Active'
  BY <1>7 DEF Active
<1>11. \A i, j \in Active' \ Active : run'[i].check = run'[j].check => i = j
  BY <1>8, <1>9
<1>12. \A i \in Active' \ Active : run'[i].check \in S
  BY <1>8, <1>9
<1> QED BY <1>6, <1>7, <1>9, <1>10, <1>11, <1>12

\* What runs afterwards is what ran and the checks of S, each once.
LEMMA EnteredOnce ==
  ASSUME OneRunInv, NEW S \in SUBSET Checks, S \cap running = {}, Enter(S, "tick"), running' = running \cup S
  PROVE  /\ \A i, j \in Active' : run'[i].check = run'[j].check => i = j
         /\ running' = { run'[i].check : i \in Active' }
<1>1. running = { run[i].check : i \in Active } /\ \A i, j \in Active : run[i].check = run[j].check => i = j
  BY DEF OneRunInv, OneRunPerCheck
<1>2. /\ Active \subseteq Active'
      /\ \A i \in Active : run'[i] = run[i] /\ run'[i].check \in running
      /\ \A i \in Active' \ Active : run'[i].check \in S
      /\ \A c \in S : \E i \in Active' : run'[i].check = c
      /\ \A i, j \in Active' \ Active : run'[i].check = run'[j].check => i = j
  BY <1>1, Entered DEF OneRunInv, CountInv
<1>3. \A i, j \in Active' : run'[i].check = run'[j].check => i = j
  BY <1>1, <1>2
<1>4. \A c \in running : \E i \in Active' : run'[i].check = c
  BY <1>1, <1>2
<1>5. \A i \in Active' : run'[i].check \in running \cup S
  BY <1>2
<1> QED BY <1>2, <1>3, <1>4, <1>5

-----------------------------------------------------------------------------
(* Counting runs. *)

LEMMA RunsAreFinite == \A t : IsFiniteSet(RunsOf(t)) /\ Cardinality(RunsOf(t)) \in Nat
BY ActiveIsFinite, FS_Subset, FS_CardinalityType DEF RunsOf

LEMMA CountIsNat ==
  ASSUME NEW S \in SUBSET Checks, NEW t
  PROVE  IsFiniteSet({ c \in S : TypeOf[c] = t }) /\ CountOf(t, S) \in Nat
BY FS_Subset, FS_CardinalityType, SchedulerAssumption DEF CountOf

LEMMA EnteredCount ==
  ASSUME TypeOK, NEW S \in SUBSET Checks, NEW by \in {"tick"} \cup Requests, Enter(S, by), NEW t
  PROVE  Cardinality(RunsOf(t)') = Cardinality(RunsOf(t)) + CountOf(t, S)
<1> DEFINE new == { i \in Active' \ Active : TypeOf[run'[i].check] = t }
           mine == { c \in S : TypeOf[c] = t }
           f == [i \in new |-> run'[i].check]
<1>1. f \in Bijection(new, mine)
  BY Entered DEF Bijection, Injection, Surjection, IsInjective
<1>2. ExistsBijection(new, mine)
  BY <1>1 DEF ExistsBijection
<1>3. IsFiniteSet(new)
  BY ActiveIsFinite, FS_Subset
<1>4. Cardinality(new) = CountOf(t, S)
  BY <1>2, <1>3, FS_Bijection DEF CountOf
<1>5. RunsOf(t)' = RunsOf(t) \cup new
  <2>1. Active \subseteq Active' /\ \A i \in Active : run'[i] = run[i]
    BY Entered
  <2>2. RunsOf(t)' = {i \in Active' : TypeOf[run'[i].check] = t} /\ RunsOf(t) = {i \in Active : TypeOf[run[i].check] = t}
    BY DEF RunsOf
  <2>3. RunsOf(t) = {i \in Active : TypeOf[run'[i].check] = t}
    BY <2>1, <2>2
  <2> QED BY <2>1, <2>2, <2>3
<1>6. RunsOf(t) \cap new = {}
  BY DEF RunsOf
<1> HIDE DEF new
<1>7. Cardinality({}) = 0 /\ Cardinality(RunsOf(t)) \in Nat /\ Cardinality(new) \in Nat
  BY <1>3, RunsAreFinite, FS_EmptySet, FS_CardinalityType
<1>8. Cardinality(RunsOf(t)') = Cardinality(RunsOf(t)) + Cardinality(new) - Cardinality(RunsOf(t) \cap new)
  BY <1>3, <1>5, RunsAreFinite, FS_Union
<1> QED BY <1>4, <1>6, <1>7, <1>8

LEMMA StartCounts ==
  ASSUME CountInv, NEW t \in Ticks, StartDue(t)
  PROVE  CountInv'
<1>1. PICK S \in SUBSET tickDue[t] :
        Enter(S, "tick") /\ running' = running \cup S
        /\ runningByType' = [u \in Types |-> runningByType[u] + CountOf(u, S)]
  BY DEF StartDue
<1>2. S \in SUBSET Checks
  BY DEF CountInv, TypeOK
<1>3. run' \in [RunIds -> RunRows \cup {NoRun}]
  BY <1>1, <1>2, Entered DEF CountInv
<1>4. runningByType' \in [Types -> Nat]
  <2>1. \A u \in Types : runningByType[u] \in Nat /\ CountOf(u, S) \in Nat
    BY <1>2, CountIsNat DEF CountInv, TypeOK
  <2>2. \A u \in Types : runningByType[u] + CountOf(u, S) \in Nat
    BY <2>1
  <2> QED BY <1>1, <2>2
<1>5. TypeOK'
  BY <1>1, <1>2, <1>3, <1>4 DEF CountInv, TypeOK, RunRows, StartDue
<1>6. Counted'
  BY <1>1, <1>2, EnteredCount DEF CountInv, Counted
<1> QED BY <1>5, <1>6 DEF CountInv

LEMMA RequestCounts ==
  ASSUME CountInv, NEW q \in Requests, NEW c \in Checks, RunNow(q, c)
  PROVE  CountInv'
<1>1. Enter({c}, q) /\ running' = running \cup {c} /\ runningByType' = [runningByType EXCEPT ![TypeOf[c]] = @ + 1]
      /\ UNCHANGED <<overdue, silent, tickStep, tickDue>>
  BY DEF RunNow
<1>2. run' \in [RunIds -> RunRows \cup {NoRun}]
  BY <1>1, Entered DEF CountInv
<1>3. TypeOf[c] \in Types
  BY SchedulerAssumption
<1>4. TypeOK'
  BY <1>1, <1>2, <1>3 DEF CountInv, TypeOK, RunRows
<1>5. \A t \in Types : CountOf(t, {c}) = IF t = TypeOf[c] THEN 1 ELSE 0
  <2> SUFFICES ASSUME NEW t \in Types PROVE CountOf(t, {c}) = IF t = TypeOf[c] THEN 1 ELSE 0
    OBVIOUS
  <2>1. { d \in {c} : TypeOf[d] = t } = IF t = TypeOf[c] THEN {c} ELSE {}
    OBVIOUS
  <2> QED BY <2>1, FS_Singleton, FS_EmptySet DEF CountOf
<1>6. \A t \in Types : Cardinality(RunsOf(t)') = Cardinality(RunsOf(t)) + CountOf(t, {c})
  BY <1>1, EnteredCount DEF CountInv
<1>7. \A t \in Types : runningByType[t] \in Nat /\ runningByType'[t] = runningByType[t] + IF t = TypeOf[c] THEN 1 ELSE 0
  BY <1>1, <1>3 DEF CountInv, TypeOK
<1>8. Counted'
  BY <1>5, <1>6, <1>7 DEF CountInv, Counted
<1> QED BY <1>4, <1>8 DEF CountInv

LEMMA ActiveRow ==
  ASSUME TypeOK, NEW i \in Active
  PROVE  i \in RunIds /\ run[i] \in RunRows /\ run[i].check \in Checks /\ TypeOf[run[i].check] \in Types
         /\ i \in RunsOf(TypeOf[run[i].check])
BY SchedulerAssumption DEF TypeOK, Active, RunRows, RunsOf

LEMMA StampCounts ==
  ASSUME TypeOK, NEW i \in RunIds, Stamp(i)
  PROVE  /\ TypeOK' /\ Active' = Active /\ \A t : RunsOf(t)' = RunsOf(t)
         /\ \A j \in Active : run'[j].check = run[j].check /\ run'[j].by = run[j].by
<1>1. i \in Active
  BY DEF Stamp, Active, NoRun
<1>2. run[i] \in RunRows
  BY <1>1, ActiveRow
<1> DEFINE r == [run[i] EXCEPT !.step = "probe"]
<1>3. r \in RunRows /\ r.check = run[i].check /\ r.by = run[i].by
  BY <1>2 DEF RunRows
<1>4. r # NoRun
  BY <1>2, <1>3, SchedulerAssumption DEF RunRows, NoRun
<1>5. run' = [run EXCEPT ![i] = r]
  BY DEF Stamp
<1> HIDE DEF r
<1>6. run' \in [RunIds -> RunRows \cup {NoRun}] /\ Active' = Active
      /\ \A j \in Active : run'[j].check = run[j].check /\ run'[j].by = run[j].by
  BY <1>1, <1>3, <1>4, <1>5 DEF TypeOK, Active, RunRows
<1>7. \A t : RunsOf(t)' = RunsOf(t)
  BY <1>6 DEF RunsOf
<1> QED BY <1>6, <1>7 DEF TypeOK, RunRows, Stamp

LEMMA ReturnCounts ==
  ASSUME CountInv, NEW i \in RunIds, Return(i)
  PROVE  /\ CountInv' /\ Active' = Active \ {i} /\ \A j \in Active' : run'[j] = run[j]
         /\ \A t \in Types : runningByType'[t] <= runningByType[t]
<1> DEFINE u == TypeOf[run[i].check]
<1>1. i \in Active /\ run' = [run EXCEPT ![i] = NoRun] /\ runningByType' = [runningByType EXCEPT ![u] = @ - 1]
  BY DEF Return
<1>2. u \in Types /\ i \in RunsOf(u)
  BY <1>1, ActiveRow DEF CountInv
<1>3. Active' = Active \ {i} /\ \A j \in Active' : run'[j] = run[j]
  BY <1>1 DEF Active, CountInv, TypeOK
<1> HIDE DEF u
<1>4. \A t \in Types : RunsOf(t)' = IF t = u THEN RunsOf(t) \ {i} ELSE RunsOf(t)
  BY <1>3 DEF RunsOf, u
<1>5. Cardinality(RunsOf(u) \ {i}) = Cardinality(RunsOf(u)) - 1
  BY <1>2, RunsAreFinite, FS_RemoveElement
<1>6. runningByType[u] - 1 \in Nat
  <2>1. IsFiniteSet(RunsOf(u) \ {i}) 
    BY RunsAreFinite, FS_RemoveElement
  <2> QED BY <1>2, <1>5, <2>1, FS_CardinalityType DEF CountInv, Counted
<1>7. \A t \in Types : runningByType'[t] = IF t = u THEN runningByType[t] - 1 ELSE runningByType[t]
  BY <1>1 DEF CountInv, TypeOK
<1>8. Counted'
  BY <1>2, <1>4, <1>5, <1>7 DEF CountInv, Counted
<1>9. TypeOK'
  BY <1>1, <1>6 DEF CountInv, TypeOK, Return
<1>10. \A t \in Types : runningByType'[t] <= runningByType[t]
  BY <1>7 DEF CountInv, TypeOK
<1> QED BY <1>3, <1>8, <1>9, <1>10 DEF CountInv

\* What a step of the clock or of a tick that starts nothing leaves alone.
LEMMA RestCounts ==
  ASSUME CountInv,
         \/ \E c \in Checks : Elapse(c) \/ QueueNow(c)
         \/ CollectorTurns \/ UNCHANGED vars
         \/ \E t \in Ticks : Tick(t) \/ TakenCollectorChecks(t) \/ \E c \in tickDue[t] : TakeCollectorCheck(t, c)
  PROVE  CountInv' /\ UNCHANGED <<running, runningByType, run>>
<1>1. UNCHANGED <<running, runningByType, run>>
  BY DEF Elapse, QueueNow, CollectorTurns, vars, Tick, TakenCollectorChecks, TakeCollectorCheck
<1>2. TypeOK'
  BY DEF CountInv, TypeOK, Elapse, QueueNow, CollectorTurns, vars, Tick, TakenCollectorChecks, TakeCollectorCheck
<1>3. Active' = Active /\ \A t : RunsOf(t)' = RunsOf(t)
  BY <1>1 DEF Active, RunsOf
<1>4. Counted'
  BY <1>1, <1>3 DEF CountInv, Counted
<1> QED BY <1>1, <1>2, <1>4 DEF CountInv

LEMMA StampCounted ==
  ASSUME CountInv, NEW i \in RunIds, Stamp(i)
  PROVE  CountInv'
BY StampCounts DEF CountInv, Counted, Stamp

LEMMA CountStep == CountInv /\ [Next]_vars => CountInv'
BY RestCounts, StartCounts, RequestCounts, StampCounted, ReturnCounts DEF Next

LEMMA CountStart == Init => CountInv
<1> SUFFICES ASSUME Init PROVE CountInv
  OBVIOUS
<1>1. TypeOK
  BY DEF Init, TypeOK, NoRun
<1>2. \A t : RunsOf(t) = {}
  BY DEF Init, Active, RunsOf
<1> QED BY <1>1, <1>2, FS_EmptySet DEF Init, CountInv, Counted

\* runningByType is what it is called at every moment, also when people press Run now, a run throws
\* or ticks overlap (runOneCheck): no type's count is left too high, which would stop its checks, or
\* falls below zero.
THEOREM CountsAreRight == Spec => [](TypeOK /\ Counted)
BY CountStart, CountStep, PTL DEF Spec, CountInv

-----------------------------------------------------------------------------
(* Nobody presses Run now. *)

LEMMA StartAlone == Init => OneRunInv
<1> SUFFICES ASSUME Init PROVE OneRunInv
  OBVIOUS
<1>1. CountInv /\ TypesLimited
  BY CountStart, SchedulerAssumption DEF Init, TypesLimited
<1>2. Active = {} /\ running = {}
  BY DEF Init, Active
<1>3. Cardinality({}) = 0 /\ IsFiniteSet({}) /\ GlobalLimit \in Nat
  BY FS_EmptySet, SchedulerAssumption
<1>4. Cardinality(Active) <= GlobalLimit /\ Cardinality(running) <= GlobalLimit
  BY <1>2, <1>3
<1> QED BY <1>1, <1>2, <1>3, <1>4 DEF OneRunInv, OneRunPerCheck

LEMMA StartsAlone ==
  ASSUME OneRunInv, NEW t \in Ticks, StartDue(t)
  PROVE  OneRunInv'
<1>1. PICK S \in SUBSET tickDue[t] :
        /\ Fits(S, tickDue[t]) /\ Enter(S, "tick") /\ running' = running \cup S
        /\ runningByType' = [u \in Types |-> runningByType[u] + CountOf(u, S)]
  BY DEF StartDue
<1>2. S \in SUBSET Checks /\ S \cap running = {} /\ IsFiniteSet(S)
  BY <1>1, FS_Subset, SchedulerAssumption DEF OneRunInv, CountInv, TypeOK, Fits
<1>3. IsFiniteSet(running') /\ Cardinality(running') <= GlobalLimit
  <2>1. IsFiniteSet(running')
    BY <1>1, <1>2, FS_Union DEF OneRunInv
  <2>2. CASE S = {}
    BY <1>1, <2>1, <2>2 DEF OneRunInv
  <2>3. CASE S # {}
    BY <1>1, <2>1, <2>3 DEF Fits
  <2> QED BY <2>1, <2>2, <2>3
<1>4. /\ \A i, j \in Active' : run'[i].check = run'[j].check => i = j
      /\ running' = { run'[i].check : i \in Active' }
  BY <1>1, <1>2, EnteredOnce
<1>5. OneRunPerCheck'
  BY <1>3, <1>4, ActiveIsFinite, LimitHolds DEF OneRunPerCheck
<1>6. TypesLimited'
  <2>1. \A u \in DOMAIN TypeLimit : u \in Types /\ runningByType[u] \in Nat /\ CountOf(u, S) \in Nat
    BY <1>2, CountIsNat, SchedulerAssumption DEF OneRunInv, CountInv, TypeOK
  <2> QED BY <1>1, <2>1 DEF Fits, OneRunInv, TypesLimited
<1>7. CountInv'
  BY StartCounts DEF OneRunInv
<1> QED BY <1>3, <1>5, <1>6, <1>7 DEF OneRunInv

LEMMA ReturnsAlone ==
  ASSUME OneRunInv, NEW i \in RunIds, Return(i)
  PROVE  OneRunInv'
<1>1. /\ CountInv' /\ Active' = Active \ {i} /\ \A j \in Active' : run'[j] = run[j]
      /\ \A t \in Types : runningByType'[t] <= runningByType[t]
  BY ReturnCounts DEF OneRunInv
<1>2. i \in Active /\ running' = running \ {run[i].check}
  BY DEF Return
<1>3. running' = { run'[j].check : j \in Active' } /\ \A j, k \in Active' : run'[j].check = run'[k].check => j = k
  BY <1>1, <1>2 DEF OneRunInv, OneRunPerCheck
<1>4. IsFiniteSet(running') /\ Cardinality(running') <= GlobalLimit
  <2>1. running' \in SUBSET running
    BY <1>2
  <2>2. IsFiniteSet(running') /\ Cardinality(running') <= Cardinality(running)
    BY <2>1, FS_Subset DEF OneRunInv
  <2> QED BY <2>2, FS_CardinalityType, SchedulerAssumption DEF OneRunInv
<1>5. OneRunPerCheck'
  BY <1>3, <1>4, ActiveIsFinite, LimitHolds DEF OneRunPerCheck
<1>6. TypesLimited'
  BY <1>1, SchedulerAssumption DEF OneRunInv, CountInv, TypeOK, TypesLimited
<1> QED BY <1>1, <1>4, <1>5, <1>6 DEF OneRunInv

LEMMA StampsAlone ==
  ASSUME OneRunInv, NEW i \in RunIds, Stamp(i)
  PROVE  OneRunInv'
<1>1. CountInv' /\ Active' = Active /\ \A j \in Active : run'[j].check = run[j].check
  BY StampCounts, StampCounted DEF OneRunInv, CountInv
<1>2. UNCHANGED <<running, runningByType>>
  BY DEF Stamp
<1> QED BY <1>1, <1>2 DEF OneRunInv, OneRunPerCheck, TypesLimited

\* A step after which every run is a tick's keeps the checks apart.
LEMMA AloneStep ==
  ASSUME OneRunInv, [Next]_vars, \A i \in RunIds : run'[i].by \in {"none", "tick"}
  PROVE  OneRunInv'
<1>1. ASSUME NEW q \in Requests, NEW c \in Checks, RunNow(q, c) PROVE FALSE
  <2>1. PICK slot \in [{c} -> RunIds \ Active] : run'[slot[c]].by = q
    BY <1>1 DEF RunNow, Enter
  <2> QED BY <2>1, SchedulerAssumption
<1>2. CountInv' /\ UNCHANGED <<running, runningByType, run>> => OneRunInv'
  BY DEF OneRunInv, OneRunPerCheck, TypesLimited, Active
<1>3. CountInv
  BY DEF OneRunInv
<1> QED BY <1>1, <1>2, <1>3, RestCounts, StartsAlone, ReturnsAlone, StampsAlone DEF Next

LimitsHold ==
  OneRunPerCheck /\ \A t \in DOMAIN TypeLimit : Cardinality(RunsOf(t)) <= TypeLimit[t]

\* With nobody pressing Run now, for any checks, limits and overlapping ticks: no check runs twice at
\* once, and neither the engine nor a heavy type has more runs than its limit (runDueChecks).
THEOREM LeftToItself ==
  ASSUME Requests = {}
  PROVE  Spec => []LimitsHold
<1>1. OneRunInv /\ [Next]_vars => OneRunInv'
  <2> SUFFICES ASSUME OneRunInv, [Next]_vars PROVE OneRunInv'
    OBVIOUS
  <2>1. CountInv'
    BY CountStep DEF OneRunInv
  <2>2. \A i \in RunIds : run'[i].by \in {"none", "tick"}
    BY <2>1 DEF CountInv, TypeOK, NoRun
  <2> QED BY <2>2, AloneStep
<1>2. OneRunInv => LimitsHold
  BY SchedulerAssumption DEF OneRunInv, CountInv, Counted, TypesLimited, LimitsHold
<1> QED BY <1>1, <1>2, StartAlone, PTL DEF Spec

\* The same of the checked instance: where the setting has nobody press Run now.
THEOREM InstanceLeftToItself == MCFairSpec => []OneRunUnlessAsked
<1> DEFINE Inv == ~manual => OneRunInv
<1>1. MCInit => Inv
  BY StartAlone DEF MCInit
<1>2. Inv /\ [MCNext]_<<vars, manual>> => Inv'
  <2> SUFFICES ASSUME Inv, [MCNext]_<<vars, manual>>, ~manual' PROVE OneRunInv'
    OBVIOUS
  <2>1. OneRunInv
    BY DEF MCNext
  <2>2. CASE UNCHANGED vars
    BY <2>1, <2>2 DEF vars, OneRunInv, CountInv, TypeOK, Counted, RunsOf, Active, OneRunPerCheck, TypesLimited
  <2>3. CASE MCNext
    BY <2>1, <2>3, AloneStep DEF MCNext, Setting
  <2> QED BY <2>2, <2>3
<1>3. Inv => OneRunUnlessAsked
  BY DEF OneRunInv, OneRunUnlessAsked
<1> QED BY <1>1, <1>2, <1>3, PTL DEF MCFairSpec
=============================================================================
