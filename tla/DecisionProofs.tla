--------------------------- MODULE DecisionProofs ---------------------------
(***************************************************************************)
(* What is decided of a reading, a request or an address: the verdict of   *)
(* the thresholds and of the probes, the changes a check shows, the lines  *)
(* of a log it returns, who is blocked, which checks are in maintenance    *)
(* and which are suggested, for every value of the constants.              *)
(***************************************************************************)
EXTENDS ProbeRun, Changes, LogTail, Security, Maintenance, Suggestions, FiniteSetTheorems, WellFoundedInduction, TLAPS

-----------------------------------------------------------------------------
(* What applyThresholds does to a status.                                    *)
\* worst() picks the worse of its two arguments.
LEMMA WorstIsAnUpperBound ==
  ASSUME NEW a \in Statuses, NEW b \in Statuses
  PROVE /\ Worst(a, b) \in {a, b}
        /\ RANK[Worst(a, b)] >= RANK[a]
        /\ RANK[Worst(a, b)] >= RANK[b]
  BY DEF Worst, RANK, Statuses

LEMMA EvaluateValueType ==
  ASSUME NEW v, NEW t
  PROVE EvaluateValue(v, t) \in {"up", "warn", "down"}
  BY DEF EvaluateValue

\* The value's verdict is taken when it is worse, and only then.
LEMMA AfterValueNeverBetter ==
  ASSUME NEW s \in Statuses, NEW value, NEW t
  PROVE /\ AfterValue(s, value, t) \in Statuses
        /\ AfterValue(s, value, t) \in {s, "up", "warn", "down"}
        /\ value = {} \/ s = "down" => AfterValue(s, value, t) = s
        /\ s = "down" => AfterValue(s, value, t) = "down"
  BY EvaluateValueType, Zenon DEF AfterValue, Statuses

\* A check that measures at most one number: its verdict is the worse of the two.
LEMMA AfterValueIsTheWorst ==
  ASSUME NEW s \in Statuses, NEW v, NEW t
  PROVE AfterValue(s, {v}, t) = Worst(s, EvaluateValue(v, t))
  <1>1. (CHOOSE x \in {v} : TRUE) = v
    OBVIOUS
  <1>2. EvaluateValue(v, t) \in {"up", "warn", "down"}
    BY EvaluateValueType
  <1>3. (\E x \in {v} : RANK[EvaluateValue(x, t)] > RANK[s]) <=> RANK[EvaluateValue(v, t)] > RANK[s]
    OBVIOUS
  <1>4. AfterValue(s, {v}, t) = IF s # "down" /\ RANK[EvaluateValue(v, t)] > RANK[s] THEN EvaluateValue(v, t) ELSE s
    BY <1>1, <1>3, Zenon DEF AfterValue
  <1>5. QED
    BY <1>2, <1>4 DEF Worst, RANK, Statuses

LEMMA AfterLatencyRaises ==
  ASSUME NEW s \in Statuses, NEW latency, NEW t
  PROVE /\ AfterLatency(s, latency, t) \in Statuses
        /\ RANK[AfterLatency(s, latency, t)] >= RANK[s]
  <1>1. AfterLatency(s, latency, t) \in {s, "down"} \/ (AfterLatency(s, latency, t) = "warn" /\ RANK[s] < RANK["warn"])
    BY Zenon DEF AfterLatency
  <1>2. QED
    BY <1>1 DEF RANK, Statuses

\* applyThresholds never makes a result look better than the probe found it: for every
\* status, with no value or one, and any limits.
THEOREM ThresholdsNeverImprove ==
  ASSUME NEW s \in Statuses, NEW value, NEW latency, NEW t,
         value = {} \/ \E v : value = {v}
  PROVE /\ ApplyThresholds(s, value, latency, t) \in Statuses
        /\ RANK[ApplyThresholds(s, value, latency, t)] >= RANK[s]
  <1> DEFINE a == AfterValue(s, value, t)
  <1>1. a \in Statuses
    BY AfterValueNeverBetter
  <1>2. RANK[a] >= RANK[s]
    <2>1. CASE value = {}
      BY <2>1, AfterValueNeverBetter DEF RANK, Statuses
    <2>2. CASE \E v : value = {v}
      <3>1. PICK v : value = {v}
        BY <2>2
      <3>2. a = Worst(s, EvaluateValue(v, t)) /\ EvaluateValue(v, t) \in Statuses
        BY <3>1, AfterValueIsTheWorst, EvaluateValueType DEF Statuses
      <3>3. QED
        BY <3>2, WorstIsAnUpperBound
    <2>3. QED
      BY <2>1, <2>2
  <1>3. ApplyThresholds(s, value, latency, t) = AfterLatency(a, latency, t)
    BY DEF ApplyThresholds
  <1>4. RANK[AfterLatency(a, latency, t)] >= RANK[a] /\ AfterLatency(a, latency, t) \in Statuses
    BY <1>1, AfterLatencyRaises
  <1> HIDE DEF a
  <1>5. QED
    BY <1>1, <1>2, <1>3, <1>4 DEF RANK, Statuses

\* The verdict of a latency alone, as thresholds.ts applies it to a result that is up.
LatencyVerdict(latency, t) == AfterLatency("up", latency, t)

LEMMA AfterLatencyIsTheWorst ==
  ASSUME NEW s \in Statuses, NEW latency, NEW t
  PROVE /\ LatencyVerdict(latency, t) \in {"up", "warn", "down"}
        /\ AfterLatency(s, latency, t) = Worst(s, LatencyVerdict(latency, t))
  <1> DEFINE high == \E l \in latency : \E x \in t.latencyCriticalMs : l > x
             over == \E l \in latency : \E x \in t.latencyWarnMs : l > x
  <1>1. AfterLatency(s, latency, t) =
          IF s = "down" THEN s ELSE IF high THEN "down" ELSE IF RANK[s] < RANK["warn"] /\ over THEN "warn" ELSE s
    BY Zenon DEF AfterLatency
  <1>2. LatencyVerdict(latency, t) =
          IF high THEN "down" ELSE IF RANK["up"] < RANK["warn"] /\ over THEN "warn" ELSE "up"
    BY Zenon DEF AfterLatency, LatencyVerdict
  <1> HIDE DEF high, over
  <1>3. QED
    BY <1>1, <1>2 DEF Worst, RANK, Statuses

\* What applyThresholds returns is the worst of three verdicts: the probe's, the value's
\* by its thresholds, and the latency's by its own.
THEOREM ThresholdsTakeTheWorst ==
  ASSUME NEW s \in Statuses, NEW v, NEW latency, NEW t
  PROVE ApplyThresholds(s, {v}, latency, t) = Worst(Worst(s, EvaluateValue(v, t)), LatencyVerdict(latency, t))
  <1>1. Worst(s, EvaluateValue(v, t)) \in Statuses
    BY EvaluateValueType, WorstIsAnUpperBound DEF Statuses
  <1>2. QED
    BY <1>1, AfterValueIsTheWorst, AfterLatencyIsTheWorst DEF ApplyThresholds

\* A worse finding of the probe is never recorded as a better result by the same value,
\* latency and limits.
THEOREM ThresholdsKeepTheOrder ==
  ASSUME NEW s \in Statuses, NEW r \in Statuses, RANK[s] <= RANK[r], NEW v, NEW latency, NEW t
  PROVE RANK[ApplyThresholds(s, {v}, latency, t)] <= RANK[ApplyThresholds(r, {v}, latency, t)]
  <1>1. EvaluateValue(v, t) \in Statuses /\ LatencyVerdict(latency, t) \in Statuses
    BY EvaluateValueType, AfterLatencyIsTheWorst DEF Statuses
  <1>2. \A a \in Statuses, b \in Statuses, c \in Statuses :
          RANK[a] <= RANK[b] => Worst(a, c) \in Statuses /\ RANK[Worst(a, c)] <= RANK[Worst(b, c)]
    BY DEF Worst, RANK, Statuses
  <1>3. \A a \in Statuses, c \in Statuses : Worst(a, c) \in Statuses
    BY WorstIsAnUpperBound
  <1> DEFINE e == EvaluateValue(v, t)  l == LatencyVerdict(latency, t)
  <1>4. ApplyThresholds(s, {v}, latency, t) = Worst(Worst(s, e), l) /\ ApplyThresholds(r, {v}, latency, t) = Worst(Worst(r, e), l)
    BY ThresholdsTakeTheWorst
  <1> HIDE DEF e, l
  <1>5. RANK[Worst(s, e)] <= RANK[Worst(r, e)] /\ Worst(s, e) \in Statuses /\ Worst(r, e) \in Statuses
    BY <1>1, <1>2, <1>3 DEF e
  <1>6. QED
    BY <1>1, <1>2, <1>4, <1>5 DEF l

-----------------------------------------------------------------------------
(* A change that was found is shown for as long as it was asked to.          *)
Contents == [Items -> Values]
\* As long as readings are complete, the state a run keeps is the world it has read, and its
\* clock is that of the news.
ReadsAll ==
  /\ kind \in Kinds /\ hold \in {0, Hold} /\ severity \in {"warn", "down"} /\ held \in {"warn", "down"}
  /\ world \in Contents /\ age \in 0..Hold /\ news \in 0..Hold
  /\ whole => known = truth /\ age = news /\ (truth = NoReading \/ truth \in Contents)
\* What is judged and not recorded is still what the news call for.
JudgedByNews ==
  whole /\ judged # "none" =>
    /\ news < hold /\ kind # "traceroute" => judged # "up"
    /\ judged # "up" => news < hold \/ (kind \in AtOnce /\ news = 0)
ShowsInv == ReadsAll /\ JudgedByNews

LEMMA ShowsStart == ChangesInit => ShowsInv
BY ChangesAssumption DEF ChangesInit, ShowsInv, ReadsAll, JudgedByNews, Contents, Values, Kinds

\* Between complete readings, what a run notices is what has changed.
LEMMA NoticesChanges ==
  ASSUME ReadsAll, NEW hidden, whole, known = truth, Reading(hidden) = world
  PROVE  Noticed(known, Reading(hidden)) # {} <=>
           truth # NoReading /\ (IF kind \in {"sessions", "printer_jobs"} THEN Added(truth, world) ELSE Differs(truth, world)) # {}
<1>1. CASE truth = NoReading
  BY <1>1 DEF Noticed
<1>2. CASE truth # NoReading /\ kind \in {"sessions", "printer_jobs"}
  BY <1>2 DEF Noticed
<1>3. CASE truth # NoReading /\ kind = "users"
  <2>1. truth \in Contents /\ world \in Contents
    BY <1>3 DEF ReadsAll
  <2>2. DiffUsers(truth, world) = Differs(truth, world)
    BY <2>1 DEF DiffUsers, Differs, Contents, Values
  <2> QED BY <1>3, <2>2 DEF Noticed
<1>4. CASE truth # NoReading /\ kind \notin {"sessions", "printer_jobs", "users"}
  BY <1>4 DEF Noticed
<1> QED BY <1>1, <1>2, <1>3, <1>4

\* A status goes by the time of the last change, or by the change itself.
LEMMA StatusByNews ==
  ASSUME ReadsAll, NEW noticed, NEW prev, NEW newer
  PROVE  /\ ChangedAt(noticed) < hold /\ kind # "traceroute" => Status(noticed, prev, newer) # "up"
         /\ Status(noticed, prev, newer) # "up" => ChangedAt(noticed) < hold \/ (kind \in AtOnce /\ noticed # {})
BY DEF ReadsAll, Status, Recent, UsersStatus

LEMMA JudgeShows == ASSUME ShowsInv, NEW hidden \in MayHide, Judge(hidden) PROVE ShowsInv'
<1> DEFINE newer == Reading(hidden)
           noticed == Noticed(known, newer)
<1>1. /\ UNCHANGED <<kind, hold, severity, world>> /\ known' = newer /\ truth' = world /\ whole' = (whole /\ newer = world)
      /\ age' = ChangedAt(noticed) /\ judged' = Status(noticed, known, newer)
      /\ held' = IF kind = "users" /\ noticed # {} THEN UsersStatus(known, newer) ELSE held
      /\ news' = IF truth # NoReading /\ (IF kind \in {"sessions", "printer_jobs"} THEN Added(truth, world) ELSE Differs(truth, world)) # {} THEN 0 ELSE news
  BY DEF Judge
<1>2. ReadsAll
  BY DEF ShowsInv
<1>3. age' \in 0..Hold /\ news' \in 0..Hold /\ held' \in {"warn", "down"}
  BY <1>1, <1>2, ChangesAssumption DEF ReadsAll, ChangedAt, UsersStatus
<1>4. ASSUME whole' PROVE known' = truth' /\ age' = news' /\ truth' \in Contents /\ news' = ChangedAt(noticed)
  <2>1. whole /\ newer = world
    BY <1>1, <1>4
  <2>2. known = truth /\ age = news
    BY <1>2, <2>1 DEF ReadsAll
  <2>3. news' = IF noticed # {} THEN 0 ELSE news
    BY <1>1, <1>2, <2>1, <2>2, NoticesChanges
  <2> QED BY <1>1, <1>2, <2>1, <2>2, <2>3 DEF ReadsAll, ChangedAt
<1>5. ReadsAll'
  BY <1>1, <1>2, <1>3, <1>4 DEF ReadsAll
<1>6. noticed # {} => ChangedAt(noticed) = 0
  BY DEF ChangedAt
<1>7. JudgedByNews'
  <2> HIDE DEF noticed, newer
  <2> QED BY <1>1, <1>2, <1>4, <1>6, StatusByNews DEF JudgedByNews, AtOnce
<1> QED BY <1>5, <1>7 DEF ShowsInv

LEMMA ShowsStep == ShowsInv /\ [ChangesNext]_chvars => ShowsInv'
<1> SUFFICES ASSUME ShowsInv, [ChangesNext]_chvars PROVE ShowsInv'
  OBVIOUS
<1>1. CASE RunBlindly \/ RecordJudged \/ LoseJudged \/ UNCHANGED chvars
  BY <1>1 DEF RunBlindly, RecordJudged, LoseJudged, chvars, ShowsInv, ReadsAll, JudgedByNews
<1>2. CASE Wait
  BY <1>2, ChangesAssumption DEF Wait, ShowsInv, ReadsAll, JudgedByNews
<1>3. ASSUME NEW i \in Items, NEW v \in Values, Alter(i, v) PROVE ShowsInv'
  BY <1>3 DEF Alter, ShowsInv, ReadsAll, JudgedByNews, Contents
<1> QED BY <1>1, <1>2, <1>3, JudgeShows DEF ChangesNext

\* While everything can be read, a change shows for holdMinutes and nothing else does, for any
\* items and hold, also when a run ends between its state and its result.
THEOREM ChangesShow == ChangesSpec => ShowsWhileRecent
<1>1. ShowsInv /\ [ChangesNext]_chvars => (RecordJudged /\ whole =>
       /\ news < hold /\ kind # "traceroute" => judged # "up"
       /\ judged # "up" => news < hold \/ (kind \in AtOnce /\ news = 0))
  BY DEF ShowsInv, JudgedByNews, RecordJudged
<1>2. ShowsInv /\ [ChangesNext]_chvars => [RecordJudged /\ whole =>
       /\ news < hold /\ kind # "traceroute" => judged # "up"
       /\ judged # "up" => news < hold \/ (kind \in AtOnce /\ news = 0)]_chvars
  BY <1>1
<1> QED BY <1>2, ShowsStart, ShowsStep, PTL DEF ChangesSpec, ShowsWhileRecent

-----------------------------------------------------------------------------
(* A line of a log is read when it has come, and once.                       *)
TailTypeOK ==
  /\ glob \in BOOLEAN /\ fromStart \in BOOLEAN /\ watched \in Paths /\ newest \in Paths /\ torn \subseteq Paths /\ written \in 0..MaxLines
  /\ file \in [Paths -> Seq(1..written)]
  /\ times \in [Lines -> 0..2] /\ fresh \subseteq 1..written
  /\ st = [path |-> st.path, offset |-> st.offset] /\ st.offset \in Nat
\* What has not been returned: lines that are fresh, and those not written yet.
Unread == \A l \in Lines : l \in fresh \/ l > written => times[l] = 0
\* The memory is of the watched file, ends inside what is whole or torn of it, and a fresh
\* line of it lies behind; but of a file that was rotated since nothing has been returned.
Remembers ==
  ~glob /\ st # NoMemory =>
    /\ st.path = watched
    /\ watched \notin regrown =>
         /\ st.offset <= Size(watched)
         /\ \A i \in 1..Len(file[watched]) : file[watched][i] \in fresh => 2 * i > st.offset
\* What lies behind the memory, or in a rotated file, has not been returned (unless a first
\* run reads everything).
ReadOnce ==
  ~glob /\ ~fromStart =>
    /\ \A l \in Lines : times[l] <= 1
    /\ st # NoMemory => \A i \in 1..Len(file[watched]) :
         watched \in regrown \/ 2 * i > st.offset => times[file[watched][i]] = 0
TailInv == TailTypeOK /\ Unread /\ Remembers /\ ReadOnce

\* Numbers of bytes.
LEMMA Sizes == ASSUME TailTypeOK PROVE \A p \in Paths : Size(p) \in Nat /\ 2 * Len(file[p]) <= Size(p) /\ Size(p) <= 2 * Len(file[p]) + 1 /\ Len(file[p]) \in Nat
BY DEF TailTypeOK, Size

\* What a sequence holds.
LEMMA InSeq == ASSUME NEW S, NEW s \in Seq(S) PROVE \A j \in 1..Len(s) : s[j] \in S
OBVIOUS

LEMMA TailStart == TailInit => TailInv
<1> SUFFICES ASSUME TailInit PROVE TailInv
  OBVIOUS
<1>1. TailTypeOK
  BY TailAssumption DEF TailInit, TailTypeOK, NoMemory, Lines
<1>2. Unread /\ Remembers /\ ReadOnce
  BY DEF TailInit, Unread, Remembers, ReadOnce, Lines
<1> QED BY <1>1, <1>2 DEF TailInv

\* A run, of whichever file the path stands for.
LEMMA TailReads == ASSUME TailInv, NEW p \in Paths, TailNew(p), ~glob => p = watched PROVE TailInv'
<1>1. TailTypeOK /\ Unread /\ UNCHANGED <<glob, watched, fromStart, file, torn, newest, written>>
      /\ regrown' = regrown \ {p} /\ fresh' = fresh \ LinesOf(p)
  BY DEF TailInv, TailNew
<1>2. Size(p) \in Nat /\ 2 * Len(file[p]) <= Size(p) /\ Size(p) <= 2 * Len(file[p]) + 1 /\ Len(file[p]) \in Nat /\ Size(p)' = Size(p)
  BY <1>1, Sizes DEF Size
<1>3. StartAt(p) \in Nat /\ StartAt(p) <= Size(p) /\ (st.path = p /\ st.offset <= Size(p) => StartAt(p) >= st.offset)
  BY <1>1, <1>2, TailAssumption DEF TailTypeOK, StartAt, LargerOf
<1>4. CASE st = NoMemory /\ ~fromStart
  <2>1. st' = [path |-> p, offset |-> Size(p)] /\ times' = times
    BY <1>4 DEF TailNew
  <2>2. TailTypeOK'
    BY <1>1, <1>2, <2>1 DEF TailTypeOK
  <2>3. Unread'
    BY <1>1, <2>1 DEF Unread
  <2>4. Remembers'
    <3>1. \A i \in 1..Len(file[p]) : file[p][i] \in LinesOf(p)
      BY DEF LinesOf
    <3> QED BY <1>1, <1>2, <2>1, <3>1 DEF Remembers
  <2>5. ReadOnce'
    BY <1>1, <1>2, <2>1 DEF TailInv, ReadOnce
  <2> QED BY <2>2, <2>3, <2>4, <2>5 DEF TailInv
<1>5. CASE ~(st = NoMemory /\ ~fromStart)
  <2> DEFINE read == LinesFrom(p, StartAt(p))
  <2>1. /\ st' = [path |-> p, offset |-> LargerOf(2 * Len(file[p]), StartAt(p))]
        /\ times' = [l \in Lines |-> IF l \in read THEN (IF times[l] < 2 THEN times[l] + 1 ELSE 2) ELSE times[l]]
    BY <1>5 DEF TailNew
  <2>2. st'.path = p /\ st'.offset \in Nat /\ st'.offset >= 2 * Len(file[p]) /\ st'.offset <= Size(p) /\ st' = [path |-> st'.path, offset |-> st'.offset]
    BY <2>1, <1>2, <1>3 DEF LargerOf
  <2>3. TailTypeOK'
    BY <1>1, <2>1, <2>2 DEF TailTypeOK
  <2>4. \A l \in read : l \in LinesOf(p) /\ l \in 1..written
    BY <1>1 DEF LinesFrom, LinesOf, TailTypeOK
  <2>5. Unread'
    <3> SUFFICES ASSUME NEW l \in Lines, l \in fresh' \/ l > written PROVE times'[l] = 0
      BY <1>1 DEF Unread
    <3>1. l \notin read
      BY <1>1, <2>4 DEF TailTypeOK, Lines
    <3>2. times[l] = 0
      BY <1>1 DEF Unread
    <3> HIDE DEF read
    <3> QED BY <2>1, <3>1, <3>2
  <2>6. \A i \in 1..Len(file[p]) : file[p][i] \in LinesOf(p)
    BY DEF LinesOf
  <2>7. Remembers'
    BY <1>1, <1>2, <2>2, <2>6 DEF Remembers
  <2>8. ASSUME ~glob, ~fromStart PROVE \A l \in read : times[l] = 0
    <3>1. p = watched /\ st # NoMemory
      BY <1>5, <2>8
    <3>2. \A i \in 1..Len(file[p]) : 2 * i > StartAt(p) => p \in regrown \/ 2 * i > st.offset
      BY <1>2, <1>3, <2>8, <3>1, <1>1 DEF TailInv, Remembers, TailTypeOK
    <3>3. \A i \in 1..Len(file[p]) : 2 * i > StartAt(p) => times[file[p][i]] = 0
      BY <2>8, <3>1, <3>2 DEF TailInv, ReadOnce
    <3> QED BY <3>3 DEF LinesFrom
  <2>9. ReadOnce'
    <3> SUFFICES ASSUME ~glob, ~fromStart PROVE /\ \A l \in Lines : times'[l] <= 1
                                                /\ \A i \in 1..Len(file[p]) : ~(2 * i > st'.offset)
      BY <1>1, <2>2 DEF ReadOnce
    <3>1. \A l \in Lines : times[l] <= 1
      BY DEF TailInv, ReadOnce
    <3> QED BY <1>2, <2>1, <2>2, <2>8, <3>1
  <2> QED BY <2>3, <2>5, <2>7, <2>9 DEF TailInv
<1> QED BY <1>4, <1>5

\* A line more, at the end.
LEMMA TailGrows ==
  ASSUME TailInv, NEW p \in Paths, written < MaxLines, written' = written + 1, file' = [file EXCEPT ![p] = Append(@, written + 1)],
         fresh' = fresh \union {written + 1}, newest' = p, (torn' = torn \/ (torn' = torn \ {p} /\ p \in torn)), UNCHANGED <<glob, watched, fromStart, st, times, regrown>>
  PROVE  TailInv'
<1>1. TailTypeOK /\ written \in Nat /\ written + 1 \in Lines
  BY TailAssumption DEF TailInv, TailTypeOK, Lines
<1>2. \A q \in Paths : file[q] \in Seq(1..written) /\ file[q] \in Seq(1..(written + 1))
  BY <1>1 DEF TailTypeOK
<1>3. /\ \A q \in Paths \ {p} : file'[q] = file[q]
      /\ file'[p] = Append(file[p], written + 1) /\ Len(file'[p]) = Len(file[p]) + 1
      /\ file'[p][Len(file[p]) + 1] = written + 1 /\ \A i \in 1..Len(file[p]) : file'[p][i] = file[p][i]
      /\ Len(file[p]) \in Nat
  BY <1>1, <1>2 DEF TailTypeOK
<1>4. file' \in [Paths -> Seq(1..(written + 1))]
  BY <1>1, <1>2, <1>3 DEF TailTypeOK
<1>5. TailTypeOK'
  BY <1>1, <1>4 DEF TailTypeOK, Lines
<1>6. Unread'
  BY <1>1 DEF TailInv, Unread, TailTypeOK, Lines
<1>7. \A q \in Paths : Size(q) \in Nat /\ Size(q)' \in Nat /\ Size(q) <= Size(q)' /\ (q = p => Size(q) <= 2 * Len(file[q]) + 1)
  <2> SUFFICES ASSUME NEW q \in Paths PROVE Size(q) \in Nat /\ Size(q)' \in Nat /\ Size(q) <= Size(q)' /\ (q = p => Size(q) <= 2 * Len(file[q]) + 1)
    OBVIOUS
  <2>1. Size(q) \in Nat /\ Size(q) <= 2 * Len(file[q]) + 1 /\ Len(file[q]) \in Nat
    BY <1>1, Sizes
  <2>2. CASE q = p
    <3>1. Size(p)' = 2 * (Len(file[p]) + 1) + IF p \in torn' THEN 1 ELSE 0
      BY <1>3 DEF Size
    <3>2. Size(p)' \in Nat /\ Size(p)' >= 2 * (Len(file[p]) + 1)
      <4>1. CASE p \in torn'
        BY <1>3, <3>1, <4>1
      <4>2. CASE p \notin torn'
        BY <1>3, <3>1, <4>2
      <4> QED BY <4>1, <4>2
    <3> QED BY <2>1, <2>2, <3>2
  <2>3. CASE q # p
    <3>1. file'[q] = file[q] /\ (q \in torn' <=> q \in torn)
      BY <1>3, <2>3
    <3>2. Size(q)' = Size(q)
      BY <3>1, Zenon DEF Size
    <3> QED BY <2>1, <2>3, <3>2
  <2> QED BY <2>2, <2>3
<1>8. \A q \in Paths : \A i \in 1..Len(file'[q]) : (i \in 1..Len(file[q]) /\ file'[q][i] = file[q][i] /\ file[q][i] \in 1..written)
                                          \/ (q = p /\ i = Len(file[p]) + 1 /\ file'[q][i] = written + 1)
  <2> SUFFICES ASSUME NEW q \in Paths, NEW i \in 1..Len(file'[q])
               PROVE  \/ i \in 1..Len(file[q]) /\ file'[q][i] = file[q][i] /\ file[q][i] \in 1..written
                      \/ q = p /\ i = Len(file[p]) + 1 /\ file'[q][i] = written + 1
    OBVIOUS
  <2>1. \A j \in 1..Len(file[q]) : file[q][j] \in 1..written
    <3>1. file[q] \in Seq(1..written)
      BY <1>2
    <3> QED BY <3>1, InSeq
  <2>2. CASE q = p
    BY <1>3, <2>1, <2>2
  <2>3. CASE q # p
    BY <1>3, <2>1, <2>3
  <2> QED BY <2>2, <2>3
<1>9. Remembers'
  <2> SUFFICES ASSUME ~glob, st # NoMemory
               PROVE  /\ st.path = watched
                      /\ watched \notin regrown =>
                           /\ st.offset <= Size(watched)'
                           /\ \A i \in 1..Len(file'[watched]) : file'[watched][i] \in fresh' => 2 * i > st.offset
    BY DEF Remembers
  <2>1. st.path = watched /\ (watched \notin regrown => st.offset <= Size(watched) /\ \A i \in 1..Len(file[watched]) : file[watched][i] \in fresh => 2 * i > st.offset)
    BY DEF TailInv, Remembers
  <2>2. watched \in Paths /\ st.offset \in Nat
    BY <1>1 DEF TailTypeOK
  <2>3. watched \notin regrown => st.offset <= Size(watched)'
    <3>1. Size(watched)' \in Nat
      BY <1>7, <2>2
    <3> QED BY <1>7, <2>1, <2>2, <3>1
  <2>4. ASSUME watched \notin regrown, NEW i \in 1..Len(file'[watched]), file'[watched][i] \in fresh' PROVE 2 * i > st.offset
    <3>1. CASE i \in 1..Len(file[watched]) /\ file'[watched][i] = file[watched][i] /\ file[watched][i] \in 1..written
      BY <2>1, <2>4, <3>1, <1>1
    <3>2. CASE watched = p /\ i = Len(file[p]) + 1
      BY <1>3, <1>7, <2>1, <2>2, <2>4, <3>2
    <3> QED BY <1>8, <2>2, <3>1, <3>2
  <2> QED BY <2>1, <2>3, <2>4
<1>10. ReadOnce'
  <2> SUFFICES ASSUME ~glob, ~fromStart
               PROVE  /\ \A l \in Lines : times[l] <= 1
                      /\ st # NoMemory => \A i \in 1..Len(file'[watched]) :
                           watched \in regrown \/ 2 * i > st.offset => times[file'[watched][i]] = 0
    BY DEF ReadOnce
  <2>1. times[written + 1] = 0
    BY <1>1 DEF TailInv, Unread
  <2>2. watched \in Paths
    BY <1>1 DEF TailTypeOK
  <2> QED BY <1>3, <1>8, <2>1, <2>2 DEF TailInv, ReadOnce
<1> QED BY <1>5, <1>6, <1>9, <1>10 DEF TailInv

LEMMA TailStep == TailInv /\ [TailNext]_tvars => TailInv'
<1> SUFFICES ASSUME TailInv, [TailNext]_tvars PROVE TailInv'
  OBVIOUS
<1>1. CASE RunLog
  <2>1. ResolveLogPath \in Paths /\ (~glob => ResolveLogPath = watched)
    BY DEF ResolveLogPath, TailInv, TailTypeOK
  <2> QED BY <1>1, <2>1, TailReads DEF RunLog
<1>2. CASE AgentRestarts
  BY <1>2 DEF AgentRestarts, NoMemory, TailInv, TailTypeOK, Unread, Remembers, ReadOnce, Size
<1>3. ASSUME NEW p \in Paths, WriteLine(p) \/ EndLine(p) PROVE TailInv'
  BY <1>3, TailGrows DEF WriteLine, EndLine
<1>4. ASSUME NEW p \in Paths, BeginLine(p) PROVE TailInv'
  <2>1. /\ UNCHANGED <<glob, watched, fromStart, file, written, st, times, fresh, regrown>> /\ torn' = torn \union {p} /\ newest' = p
    BY <1>4 DEF BeginLine
  <2>2. \A q \in Paths : Size(q) \in Nat /\ Size(q)' \in Nat /\ Size(q) <= Size(q)'
    <3> SUFFICES ASSUME NEW q \in Paths PROVE Size(q) \in Nat /\ Size(q)' \in Nat /\ Size(q) <= Size(q)'
      OBVIOUS
    <3>1. Size(q) \in Nat /\ Len(file[q]) \in Nat
      BY Sizes DEF TailInv
    <3>2. Size(q) = 2 * Len(file[q]) + (IF q \in torn THEN 1 ELSE 0) /\ Size(q)' = 2 * Len(file[q]) + (IF q \in torn' THEN 1 ELSE 0)
      BY <2>1, Zenon DEF Size
    <3>3. CASE q \in torn
      <4>1. q \in torn'
        BY <2>1, <3>3
      <4> QED BY <3>1, <3>2, <3>3, <4>1
    <3>4. CASE q \notin torn
      <4>1. Size(q) = 2 * Len(file[q])
        BY <3>1, <3>2, <3>4
      <4>2. CASE q \in torn'
        <5>1. Size(q)' = 2 * Len(file[q]) + 1
          BY <3>1, <3>2, <4>2
        <5> QED BY <3>1, <4>1, <5>1
      <4>3. CASE q \notin torn'
        <5>1. Size(q)' = 2 * Len(file[q])
          BY <3>1, <3>2, <4>3
        <5> QED BY <3>1, <4>1, <5>1
      <4> QED BY <4>2, <4>3
    <3> QED BY <3>3, <3>4
  <2>3. TailTypeOK' /\ Unread' /\ ReadOnce'
    BY <2>1 DEF TailInv, TailTypeOK, Unread, ReadOnce
  <2>4. Remembers'
    BY <2>1, <2>2 DEF TailInv, TailTypeOK, Remembers
  <2> QED BY <2>3, <2>4 DEF TailInv
<1>5. ASSUME NEW p \in Paths, Rotate(p) PROVE TailInv'
  <2>1. /\ UNCHANGED <<glob, watched, fromStart, written, st, times>> /\ torn' = torn \ {p} /\ regrown' = regrown \union {p}
        /\ file' = [file EXCEPT ![p] = <<>>] /\ fresh' \subseteq fresh /\ newest' = p
    BY <1>5 DEF Rotate
  <2>2. TailTypeOK'
    BY <2>1 DEF TailInv, TailTypeOK
  <2>3. Unread'
    BY <2>1 DEF TailInv, Unread
  <2>4. watched \in Paths /\ (watched # p => file'[watched] = file[watched] /\ Size(watched)' = Size(watched)) /\ (watched = p => file'[watched] = <<>>)
    BY <2>1 DEF TailInv, TailTypeOK, Size
  <2>5. Remembers' /\ ReadOnce'
    BY <2>1, <2>4 DEF TailInv, Remembers, ReadOnce
  <2> QED BY <2>2, <2>3, <2>5 DEF TailInv
<1>6. CASE UNCHANGED tvars
  BY <1>6 DEF tvars, TailInv, TailTypeOK, Unread, Remembers, ReadOnce, Size
<1> QED BY <1>1, <1>2, <1>3, <1>4, <1>5, <1>6 DEF TailNext

\* For any files, lines and size of a read, and whatever is written, torn or rotated between
\* two runs: a run returns each line that has come, and none twice.
THEOREM LinesAreReadOnce == TailInit /\ [][TailNext]_tvars => LinesReadOnce
<1> DEFINE p == ResolveLogPath
           Reads == RunLog /\ st # NoMemory /\ ~glob =>
             /\ Size(p) - st.offset <= MaxRead /\ Size(p) <= MaxRead /\ (p \in regrown => Size(p) < st.offset)
                  => \A l \in fresh \intersect LinesOf(p) : times'[l] = 1
             /\ ~fromStart => \A l \in Lines : times'[l] <= 1
<1>1. TailInv /\ TailInv' /\ [TailNext]_tvars => Reads
  <2> SUFFICES ASSUME TailInv, TailInv', RunLog, st # NoMemory, ~glob
               PROVE  /\ Size(p) - st.offset <= MaxRead /\ Size(p) <= MaxRead /\ (p \in regrown => Size(p) < st.offset)
                           => \A l \in fresh \intersect LinesOf(p) : times'[l] = 1
                      /\ ~fromStart => \A l \in Lines : times'[l] <= 1
    OBVIOUS
  <2>1. p = watched /\ p \in Paths /\ st.path = p /\ st.offset \in Nat
    BY DEF ResolveLogPath, TailInv, TailTypeOK, Remembers
  <2>2. ASSUME Size(p) - st.offset <= MaxRead, Size(p) <= MaxRead, p \in regrown => Size(p) < st.offset, NEW l \in fresh \intersect LinesOf(p)
        PROVE  times'[l] = 1
    <3> HIDE DEF p
    <3>1. Size(p) \in Nat
      BY <2>1, Sizes DEF TailInv
    <3>2. PICK i \in 1..Len(file[p]) : l = file[p][i]
      BY DEF LinesOf
    <3>3. 2 * i > StartAt(p)
      <4>1. StartAt(p) = IF Size(p) < st.offset THEN 0 ELSE st.offset
        BY <2>1, <2>2, <3>1, TailAssumption DEF StartAt, LargerOf
      <4>2. i \in Nat \ {0}
        BY <2>1, Sizes DEF TailInv
      <4>3. Size(p) >= st.offset => 2 * i > st.offset
        BY <2>1, <2>2, <3>1, <3>2 DEF TailInv, Remembers
      <4> QED BY <2>1, <3>1, <4>1, <4>2, <4>3
    <3>4. l \in LinesFrom(p, StartAt(p)) /\ l \in Lines /\ times[l] = 0
      <4>1. l \in LinesFrom(p, StartAt(p))
        BY <3>2, <3>3 DEF LinesFrom
      <4>2. l \in Lines
        BY TailAssumption DEF TailInv, TailTypeOK, Lines
      <4> QED BY <4>1, <4>2 DEF TailInv, Unread
    <3>5. times' = [k \in Lines |-> IF k \in LinesFrom(p, StartAt(p)) THEN (IF times[k] < 2 THEN times[k] + 1 ELSE 2) ELSE times[k]]
      BY DEF RunLog, TailNew, p
    <3> QED BY <3>4, <3>5
  <2>3. ~fromStart => \A l \in Lines : times'[l] <= 1
    <3>1. ~glob' /\ fromStart' = fromStart
      BY DEF RunLog, TailNew
    <3> QED BY <3>1 DEF TailInv, ReadOnce
  <2> QED BY <2>2, <2>3
<1>2. TailInv /\ TailInv' /\ [TailNext]_tvars => [Reads]_tvars
  BY <1>1
<1>3. [][Reads]_tvars => LinesReadOnce
  BY DEF LinesReadOnce
<1> HIDE DEF Reads
<1> QED BY <1>2, <1>3, TailStart, TailStep, PTL

-----------------------------------------------------------------------------
(* Whom a rule blocks, and whom a change of the settings shuts out.          *)
\* A row of the settings is seen for what it is: who is not on it has been a stranger to it.
Known(row) == row \in SettingsRow /\ Off("list", row.list) \subseteq strangers
Copies == [row : SettingsRow, behind : BOOLEAN, fresh : BOOLEAN]
SettingsKnown ==
  /\ Known(settings) /\ Off("trusted", trusted) \subseteq strangers
  /\ settingsCache # None => settingsCache \in Copies /\ Known(settingsCache.row)
  /\ \A x \in beingRead : x \in [row : SettingsRow, behind : BOOLEAN] /\ Known(x.row)
\* What is not behind is what the table says.
UpToDate ==
  /\ settingsCache # None /\ ~settingsCache.behind => settingsCache.row = settings
  /\ \A x \in beingRead : ~x.behind => x.row = settings
\* settings with what a request asks for.
Changed(row, to) == [row EXCEPT !.enabled = IF to.enabled = None THEN @ ELSE to.enabled, !.list = IF to.list = None THEN @ ELSE to.list]
\* A change that has passed its check leaves its author in, unless the settings were changed since.
ChangeChecked ==
  /\ changing # None => /\ changing = [by |-> changing.by, to |-> changing.to, behind |-> changing.behind]
                        /\ changing.to \in Requests /\ changing.behind \in BOOLEAN
                        /\ ~changing.behind => Listed(Changed(settings, changing.to), changing.by)
  /\ shut = {}
\* What is about to be blocked is a stranger, and what was blocked is.
Strange(ip) == {"list", "trusted"} \X {ip} \subseteq strangers
StrangersBlocked ==
  /\ \A x \in evaluating : /\ x = [rule |-> x.rule, ip |-> x.ip, kind |-> x.kind, step |-> x.step]
                           /\ x.rule \in Rules /\ x.ip \in Addresses /\ (x.step = "block" => Strange(x.ip))
  /\ \A b \in blocks : b.auto => Strange(b.ip)
\* A rule that was told is cooling down.
CoolsDown == told \in [Keys -> Nat] /\ \A k \in Keys : told[k] = 0 \/ (told[k] = 1 /\ k \in fired)
GateInv == SettingsKnown /\ UpToDate /\ ChangeChecked /\ StrangersBlocked /\ CoolsDown

-----------------------------------------------------------------------------
SecurityMoves == [SecurityNext]_secvars

\* Whoever is off the list, or no longer trusted, is written down.
LEMMA Watched ==
  ASSUME SecurityMoves, Off("list", settings.list) \subseteq strangers, Off("trusted", trusted) \subseteq strangers
  PROVE  strangers \subseteq strangers' /\ Off("list", settings'.list) \subseteq strangers' /\ Off("trusted", trusted') \subseteq strangers'
<1>1. CASE SecurityNext
  BY <1>1 DEF SecurityNext
<1>2. CASE UNCHANGED secvars
  BY <1>2 DEF secvars
<1> QED BY <1>1, <1>2 DEF SecurityMoves

\* What may happen to the settings and to what is kept of them.
SettingsRest == UNCHANGED <<settings, settingsCache, beingRead, changing, shut>>
LEMMA SettingsMoves ==
  ASSUME SecurityMoves
  PROVE  \/ SettingsRest \/ ReadSettings \/ (\E x \in beingRead : SettingsRead(x)) \/ CacheExpires
         \/ WriteChange \/ securityReset \/ SecurityRestarts
         \/ \E a \in Addresses : CheckChange(a)
         \/ invalidateSecurityCache /\ UNCHANGED <<settings, changing, shut>>
<1>1. ASSUME NEW x \in evaluating, Fires(x) \/ Decides(x) \/ blockIp(x) PROVE SettingsRest
  BY <1>1 DEF Fires, Decides, blockIp, SettingsRest
<1>2. CASE WindowPasses \/ (\E key \in Keys : CooldownEnds(key)) \/ (\E b \in blocks : BlockEnds(b))
  BY <1>2 DEF WindowPasses, CooldownEnds, BlockEnds, SettingsRest
<1>3. ASSUME NEW a \in Addresses, Denied(a) \/ notFoundHandler(a) \/ EndSessions(a) PROVE SettingsRest
  BY <1>3 DEF Denied, notFoundHandler, EndSessions, SettingsRest
<1>4. ASSUME NEW a \in Addresses, NEW right \in BOOLEAN, Login(a, right) \/ Verify(a, right) \/ requireAgentAuth(a, right) PROVE SettingsRest
  BY <1>4 DEF Login, Verify, requireAgentAuth, SettingsRest
<1>5. ASSUME NEW a \in Addresses, NEW ip \in Addresses, BlockByHand(a, ip) \/ ForgetIp(a, ip) PROVE SettingsRest
  BY <1>5 DEF BlockByHand, ForgetIp, SettingsRest
<1>6. ASSUME NEW a \in Addresses, NEW b \in blocks, Unblock(a, b) PROVE invalidateSecurityCache /\ UNCHANGED <<settings, changing, shut>>
  BY <1>6 DEF Unblock
<1>7. ASSUME NEW a \in Addresses, NEW r \in Rules, PatchRule(a, r) PROVE SettingsRest
  BY <1>7 DEF PatchRule, SettingsRest
<1>8. CASE UNCHANGED secvars
  BY <1>8 DEF secvars, SettingsRest
<1> QED BY <1>1, <1>2, <1>3, <1>4, <1>5, <1>6, <1>7, <1>8 DEF SecurityMoves, SecurityNext

\* What a request makes of a row is a row.
LEMMA ChangedFits == ASSUME NEW row \in SettingsRow, NEW to \in Requests PROVE Changed(row, to) \in SettingsRow
BY SettingsAssumption DEF SettingsRow, Changed

LEMMA SettingsStep ==
  ASSUME GateInv, SecurityMoves
  PROVE  SettingsKnown' /\ UpToDate' /\ ChangeChecked'
<1>1. /\ strangers \subseteq strangers' /\ Off("list", settings'.list) \subseteq strangers' /\ Off("trusted", trusted') \subseteq strangers'
      /\ \A row : Known(row) => Known(row)'
  BY Watched DEF GateInv, SettingsKnown, Known
<1>2. settings' \in SettingsRow => Known(settings)'
  BY <1>1 DEF Known
<1>3. CASE SettingsRest
  <2>1. SettingsKnown'
    BY <1>1, <1>3 DEF GateInv, SettingsRest, SettingsKnown
  <2>2. UpToDate' /\ ChangeChecked'
    BY <1>3 DEF GateInv, SettingsRest, UpToDate, ChangeChecked
  <2> QED BY <2>1, <2>2
<1>4. CASE ReadSettings
  <2>1. /\ UNCHANGED <<settings, settingsCache, trusted, changing, shut>>
        /\ beingRead' = {[row |-> settings, behind |-> FALSE]}
    BY <1>4 DEF ReadSettings
  <2>2. SettingsKnown'
    BY <1>1, <2>1 DEF GateInv, SettingsKnown, Known
  <2>3. UpToDate' /\ ChangeChecked'
    BY <2>1 DEF GateInv, UpToDate, ChangeChecked
  <2> QED BY <2>2, <2>3
<1>5. ASSUME NEW x \in beingRead, SettingsRead(x) PROVE SettingsKnown' /\ UpToDate' /\ ChangeChecked'
  BY <1>1, <1>5 DEF GateInv, SettingsRead, SettingsKnown, Copies, UpToDate, ChangeChecked
<1>6. CASE CacheExpires
  BY <1>1, <1>6 DEF GateInv, CacheExpires, Fresh, SettingsKnown, Copies, UpToDate, ChangeChecked
<1>7. CASE invalidateSecurityCache /\ UNCHANGED <<settings, changing, shut>>
  BY <1>1, <1>7 DEF GateInv, invalidateSecurityCache, SettingsKnown, UpToDate, ChangeChecked
<1>8. CASE SecurityRestarts
  BY <1>1, <1>8 DEF GateInv, SecurityRestarts, SettingsKnown, UpToDate, ChangeChecked
<1>9. CASE WriteChange
  <2>1. settings' = Changed(settings, changing.to) /\ changing # None /\ changing' = None /\ invalidateSecurityCache
    BY <1>9 DEF WriteChange, Changed
  <2>2. changing.to \in Requests /\ settings \in SettingsRow
    BY <2>1 DEF GateInv, ChangeChecked, SettingsKnown, Known
  <2>3. Known(settings)'
    BY <2>1, <2>2, <1>2, ChangedFits
  <2>4. SettingsKnown' /\ UpToDate'
    BY <1>1, <2>1, <2>3 DEF GateInv, invalidateSecurityCache, SettingsKnown, UpToDate
  <2>5. ~changing.behind => Listed(settings', changing.by)
    BY <2>1 DEF GateInv, ChangeChecked
  <2>6. shut' = {}
    BY <1>9, <2>5 DEF WriteChange, GateInv, ChangeChecked
  <2> QED BY <2>1, <2>4, <2>6 DEF ChangeChecked
<1>10. CASE securityReset
  <2>1. settings' \in SettingsRow
    BY <1>10 DEF securityReset, GateInv, SettingsKnown, Known, SettingsRow
  <2>2. SettingsKnown' /\ UpToDate'
    BY <1>1, <1>2, <1>10, <2>1 DEF securityReset, GateInv, SettingsKnown, Copies, UpToDate
  <2>3. ChangeChecked'
    BY <1>10 DEF securityReset, GateInv, ChangeChecked
  <2> QED BY <2>2, <2>3
<1>11. ASSUME NEW a \in Addresses, CheckChange(a) PROVE SettingsKnown' /\ UpToDate' /\ ChangeChecked'
  <2>1. SettingsKnown' /\ UpToDate'
    BY <1>1, <1>11 DEF CheckChange, GateInv, SettingsKnown, UpToDate
  <2>2. PICK to \in Requests : /\ Changed(Current, to).enabled => Changed(Current, to).list # {} /\ a \in Changed(Current, to).list
                               /\ changing' = [by |-> a, to |-> to, behind |-> settingsCache.behind]
    BY <1>11 DEF CheckChange, Changed
  <2>3. settingsCache # None /\ settingsCache.behind \in BOOLEAN /\ (~settingsCache.behind => Current = settings)
    BY <1>11 DEF CheckChange, securityGate, Fresh, Current, GateInv, SettingsKnown, Copies, UpToDate, isBlocked
  <2>4. ~settingsCache.behind => Listed(Changed(settings, to), a)
    BY <2>2, <2>3 DEF Listed
  <2>5. UNCHANGED <<settings, shut>>
    BY <1>11 DEF CheckChange
  <2>6. ChangeChecked'
    BY <2>2, <2>3, <2>4, <2>5 DEF GateInv, ChangeChecked
  <2> QED BY <2>1, <2>6
<1> QED BY <1>3, <1>4, <1>5, <1>6, <1>7, <1>8, <1>9, <1>10, <1>11, SettingsMoves

-----------------------------------------------------------------------------
\* A copy of the list, or the list itself: who is blocked is on none, and not trusted.
LEMMA StrangersStep ==
  ASSUME GateInv, SecurityMoves
  PROVE  StrangersBlocked'
<1>1. strangers \subseteq strangers' /\ \A ip : Strange(ip) => Strange(ip)'
  BY Watched DEF GateInv, SettingsKnown, Known, Strange
<1> DEFINE Row(x) == x = [rule |-> x.rule, ip |-> x.ip, kind |-> x.kind, step |-> x.step] /\ x.rule \in Rules /\ x.ip \in Addresses
<1>2. ASSUME \A x \in evaluating' : x \in evaluating \/ (Row(x) /\ (x.step = "block" => Strange(x.ip))),
             \A b \in blocks' : b \in blocks \/ (b.auto => Strange(b.ip))
      PROVE  StrangersBlocked'
  BY <1>1, <1>2 DEF GateInv, StrangersBlocked
<1>3. ASSUME NEW what, NEW ip \in Addresses, recordSecurityEvent(what, ip), UNCHANGED blocks PROVE StrangersBlocked'
  <2>1. \A x \in evaluating' : x \in evaluating \/ \E r \in Rules : x = [rule |-> r, ip |-> ip, kind |-> what, step |-> "count"]
    BY <1>3 DEF recordSecurityEvent
  <2>2. \A x \in evaluating' : x \in evaluating \/ (Row(x) /\ x.step = "count")
    BY <2>1
  <2> QED BY <1>2, <1>3, <2>2
<1>4. CASE UNCHANGED evaluating /\ (\A b \in blocks' : b \in blocks \/ ~b.auto)
  BY <1>2, <1>4
<1>5. ASSUME NEW x \in evaluating, Fires(x) PROVE StrangersBlocked'
  <2>1. \A y \in evaluating' : y \in evaluating \/ y = [x EXCEPT !.step = "fire"]
    BY <1>5 DEF Fires
  <2>2. Row(x)
    BY DEF GateInv, StrangersBlocked
  <2>3. Row([x EXCEPT !.step = "fire"]) /\ [x EXCEPT !.step = "fire"].step # "block"
    BY <2>2
  <2> QED BY <1>2, <1>5, <2>1, <2>3 DEF Fires
<1>6. ASSUME NEW x \in evaluating, Decides(x) PROVE StrangersBlocked'
  <2>1. \A y \in evaluating' : y \in evaluating \/ (y = [x EXCEPT !.step = "block"] /\ MayBlock(x))
    BY <1>6 DEF Decides
  <2>2. Row(x)
    BY DEF GateInv, StrangersBlocked
  <2>3. Row([x EXCEPT !.step = "block"]) /\ [x EXCEPT !.step = "block"].ip = x.ip
    BY <2>2
  <2>4. MayBlock(x) => Strange(x.ip)
    BY <1>6, <2>2 DEF Decides, Fresh, MayBlock, isOwnAddress, Current, Strange, Off, GateInv, SettingsKnown, Known, isBlocked, isAgentAddress
  <2> QED BY <1>2, <1>6, <2>1, <2>3, <2>4 DEF Decides
<1>7. ASSUME NEW x \in evaluating, blockIp(x) PROVE StrangersBlocked'
  <2>1. \A b \in blocks' : b \in blocks \/ b.ip = x.ip
    BY <1>7 DEF blockIp
  <2>2. evaluating' \subseteq evaluating /\ Strange(x.ip)
    BY <1>7 DEF blockIp, GateInv, StrangersBlocked
  <2> QED BY <1>2, <2>1, <2>2
<1>8. CASE ReadSettings \/ (\E x \in beingRead : SettingsRead(x)) \/ CacheExpires \/ WriteChange \/ WindowPasses
  BY <1>4, <1>8 DEF ReadSettings, SettingsRead, CacheExpires, WriteChange, WindowPasses
<1>9. CASE securityReset \/ SecurityRestarts
  BY <1>2, <1>9 DEF securityReset, SecurityRestarts
<1>10. CASE (\E key \in Keys : CooldownEnds(key)) \/ (\E b \in blocks : BlockEnds(b))
  BY <1>4, <1>10 DEF CooldownEnds, BlockEnds
<1>11. ASSUME NEW a \in Addresses, CheckChange(a) \/ EndSessions(a) PROVE StrangersBlocked'
  BY <1>4, <1>11 DEF CheckChange, EndSessions
<1>12. ASSUME NEW a \in Addresses, Denied(a) \/ notFoundHandler(a) PROVE StrangersBlocked'
  BY <1>3, <1>12 DEF Denied, notFoundHandler
<1>13. ASSUME NEW a \in Addresses, NEW right \in BOOLEAN, Login(a, right) \/ Verify(a, right) \/ requireAgentAuth(a, right) PROVE StrangersBlocked'
  <2>1. UNCHANGED blocks /\ (UNCHANGED evaluating \/ \E what : recordSecurityEvent(what, a))
    BY <1>13 DEF Login, Verify, requireAgentAuth
  <2> QED BY <1>3, <1>4, <2>1
<1>14. ASSUME NEW a \in Addresses, NEW ip \in Addresses, BlockByHand(a, ip) \/ ForgetIp(a, ip) PROVE StrangersBlocked'
  BY <1>4, <1>14 DEF BlockByHand, ForgetIp
<1>15. ASSUME NEW a \in Addresses, NEW b \in blocks, Unblock(a, b) PROVE StrangersBlocked'
  BY <1>4, <1>15 DEF Unblock
<1>16. ASSUME NEW a \in Addresses, NEW r \in Rules, PatchRule(a, r) PROVE StrangersBlocked'
  BY <1>4, <1>16 DEF PatchRule
<1>17. CASE UNCHANGED secvars
  BY <1>4, <1>17 DEF secvars
<1> QED BY <1>5, <1>6, <1>7, <1>8, <1>9, <1>10, <1>11, <1>12, <1>13, <1>14, <1>15, <1>16, <1>17 DEF SecurityMoves, SecurityNext

-----------------------------------------------------------------------------
\* A rule fires when it is not cooling down, and cools down from then on.
LEMMA CoolStep ==
  ASSUME GateInv, SecurityMoves
  PROVE  CoolsDown'
<1>1. CASE UNCHANGED <<told, fired>>
  BY <1>1 DEF GateInv, CoolsDown
<1>2. ASSUME NEW x \in evaluating, Fires(x) PROVE CoolsDown'
  <2>1. x.rule \in Rules /\ x.ip \in Addresses
    BY DEF GateInv, StrangersBlocked
  <2>2. Key(x.rule, x.ip) \in Keys
    BY <2>1 DEF Key, Keys
  <2> DEFINE k == Key(x.rule, x.ip)
  <2>3. CASE UNCHANGED <<told, fired>>
    BY <1>1, <2>3
  <2>4. CASE k \notin fired /\ fired' = fired \cup {k} /\ told' = [told EXCEPT ![k] = @ + 1]
    <3> HIDE DEF k
    <3>1. k \in Keys /\ told[k] = 0
      BY <2>2, <2>4 DEF k, GateInv, CoolsDown
    <3> QED BY <2>4, <3>1 DEF GateInv, CoolsDown
  <2> QED BY <1>2, <2>3, <2>4 DEF Fires, Due
<1>3. ASSUME NEW key \in Keys, CooldownEnds(key) PROVE CoolsDown'
  BY <1>3 DEF CooldownEnds, GateInv, CoolsDown
<1>4. CASE SecurityRestarts
  BY <1>4 DEF SecurityRestarts, CoolsDown
<1>5. ASSUME NEW x \in evaluating, Decides(x) \/ blockIp(x) PROVE UNCHANGED <<told, fired>>
  BY <1>5 DEF Decides, blockIp
<1>6. CASE ReadSettings \/ (\E x \in beingRead : SettingsRead(x)) \/ CacheExpires \/ WriteChange \/ WindowPasses \/ securityReset
           \/ (\E b \in blocks : BlockEnds(b)) \/ UNCHANGED secvars
  BY <1>1, <1>6 DEF ReadSettings, SettingsRead, CacheExpires, WriteChange, WindowPasses, securityReset, BlockEnds, secvars
<1>7. ASSUME NEW a \in Addresses, CheckChange(a) \/ Denied(a) \/ notFoundHandler(a) \/ EndSessions(a) PROVE UNCHANGED <<told, fired>>
  BY <1>7 DEF CheckChange, Denied, notFoundHandler, EndSessions
<1>8. ASSUME NEW a \in Addresses, NEW right \in BOOLEAN, Login(a, right) \/ Verify(a, right) \/ requireAgentAuth(a, right) PROVE UNCHANGED <<told, fired>>
  BY <1>8 DEF Login, Verify, requireAgentAuth
<1>9. ASSUME NEW a \in Addresses, NEW ip \in Addresses, BlockByHand(a, ip) \/ ForgetIp(a, ip) PROVE UNCHANGED <<told, fired>>
  BY <1>9 DEF BlockByHand, ForgetIp
<1>10. ASSUME NEW a \in Addresses, (\E b \in blocks : Unblock(a, b)) \/ (\E r \in Rules : PatchRule(a, r)) PROVE UNCHANGED <<told, fired>>
  BY <1>10 DEF Unblock, PatchRule
<1> QED BY <1>1, <1>2, <1>3, <1>4, <1>5, <1>6, <1>7, <1>8, <1>9, <1>10 DEF SecurityMoves, SecurityNext

-----------------------------------------------------------------------------
LEMMA GateStart == SecurityInit => GateInv
<1> SUFFICES ASSUME SecurityInit PROVE GateInv
  OBVIOUS
<1>1. SettingsKnown
  BY SettingsAssumption DEF SecurityInit, SettingsKnown, Known
<1>2. UpToDate /\ ChangeChecked /\ StrangersBlocked /\ CoolsDown
  BY DEF SecurityInit, UpToDate, ChangeChecked, StrangersBlocked, CoolsDown
<1> QED BY <1>1, <1>2 DEF GateInv

\* The promise of security.ts:5, for any addresses, rules, settings and requests: no rule blocks
\* an address that has been listed, or trusted, all along; no change of the settings shuts out
\* who makes it while it is checked against the settings that are there; and a rule fires once
\* in its cooldown.
THEOREM AdminIsNotLockedOut == SecurityInit /\ [][SecurityNext]_secvars => []GateHolds
<1>1. GateInv => GateHolds
  BY DEF GateInv, StrangersBlocked, Strange, ChangeChecked, CoolsDown, GateHolds, AdminStaysIn, FiresOnce
<1>2. GateInv /\ [SecurityNext]_secvars => GateInv'
  BY SettingsStep, StrangersStep, CoolStep DEF GateInv, SecurityMoves
<1> QED BY <1>1, <1>2, GateStart, PTL

-----------------------------------------------------------------------------
(* The statuses of a site, a location or a group, summed up in parts.        *)
LEMMA WorseRanks ==
  ASSUME NEW a \in Ranked, NEW b \in Ranked
  PROVE  /\ worseStatus(a, b) = a <=> STATUS_RANK[b] <= STATUS_RANK[a]
         /\ STATUS_RANK[a] = STATUS_RANK[b] => a = b
<1>1. a # None /\ b # None
  BY NullAssumption
<1>2. STATUS_RANK[a] \in Int /\ STATUS_RANK[b] \in Int /\ (STATUS_RANK[a] = STATUS_RANK[b] => a = b)
  BY DEF Ranked, STATUS_RANK
<1>3. worseStatus(a, b) = IF STATUS_RANK[b] > STATUS_RANK[a] THEN b ELSE a
  BY <1>1, Zenon DEF worseStatus
<1> QED BY <1>2, <1>3

WorstIn(a, S) == a \in S /\ \A b \in S : STATUS_RANK[b] <= STATUS_RANK[a]

\* There is one worst status, and it is the one that is found.
LEMMA WorstIsFound ==
  ASSUME NEW S \in SUBSET Ranked
  PROVE  /\ S = {} => WorstOf(S) = None
         /\ S # {} => WorstIn(WorstOf(S), S)
         /\ \A a : WorstIn(a, S) => a = WorstOf(S)
<1>1. S \ {None} = S
  BY NullAssumption
<1>2. \A a \in S : (\A b \in S : worseStatus(a, b) = a) <=> WorstIn(a, S)
  BY WorseRanks DEF WorstIn
<1>3. \A a, b : WorstIn(a, S) /\ WorstIn(b, S) => a = b
  <2> SUFFICES ASSUME NEW a, NEW b, WorstIn(a, S), WorstIn(b, S) PROVE a = b
    OBVIOUS
  <2>1. a \in Ranked /\ b \in Ranked /\ STATUS_RANK[b] <= STATUS_RANK[a] /\ STATUS_RANK[a] <= STATUS_RANK[b]
    BY DEF WorstIn
  <2>2. STATUS_RANK[a] \in Int /\ STATUS_RANK[b] \in Int
    BY <2>1 DEF STATUS_RANK, Ranked
  <2> QED BY <2>1, <2>2, WorseRanks
<1>4. CASE S = {}
  <2>1. WorstOf(S) = None
    BY <1>1, <1>4 DEF WorstOf
  <2> QED BY <2>1, <1>4 DEF WorstIn
<1>5. CASE S # {}
  <2>1. \E a : WorstIn(a, S)
    <3>1. Ranked = {"up", "unknown", "warn", "down"}
      BY DEF Ranked, STATUS_RANK
    <3>2. \A b \in S : STATUS_RANK[b] <= 3 /\ (b # "down" => STATUS_RANK[b] <= 2) /\ (b \notin {"down", "warn"} => STATUS_RANK[b] <= 1) /\ (b = "up" => STATUS_RANK[b] <= 0)
      BY <3>1 DEF STATUS_RANK
    <3>3. STATUS_RANK["down"] = 3 /\ STATUS_RANK["warn"] = 2 /\ STATUS_RANK["unknown"] = 1 /\ STATUS_RANK["up"] = 0
      BY DEF STATUS_RANK
    <3>4. CASE "down" \in S
      BY <3>2, <3>3, <3>4 DEF WorstIn
    <3>5. CASE "down" \notin S /\ "warn" \in S
      BY <3>2, <3>3, <3>5 DEF WorstIn
    <3>6. CASE "down" \notin S /\ "warn" \notin S /\ "unknown" \in S
      BY <3>2, <3>3, <3>6 DEF WorstIn
    <3>7. CASE "down" \notin S /\ "warn" \notin S /\ "unknown" \notin S
      BY <3>1, <3>2, <3>3, <3>7, <1>5 DEF WorstIn
    <3> QED BY <3>4, <3>5, <3>6, <3>7
  <2>2. WorstOf(S) = CHOOSE a \in S : \A b \in S : worseStatus(a, b) = a
    BY <1>1, <1>5 DEF WorstOf
  <2>3. \E a \in S : \A b \in S : worseStatus(a, b) = a
    BY <1>2, <2>1 DEF WorstIn
  <2>4. WorstOf(S) \in S /\ \A b \in S : worseStatus(WorstOf(S), b) = WorstOf(S)
    BY <2>2, <2>3, Zenon
  <2>5. WorstIn(WorstOf(S), S)
    BY <1>2, <2>4
  <2> QED BY <1>3, <1>5, <2>5
<1> QED BY <1>4, <1>5

\* A node's parts may have no checks, and so no status.
LEMMA WorstSkipsNull ==
  ASSUME NEW S \in SUBSET (Ranked \cup {None})
  PROVE  WorstOf(S) = WorstOf(S \ {None})
<1>1. (S \ {None}) \ {None} = S \ {None}
  OBVIOUS
<1>2. \A a \in S \ {None} : (\A b \in S : worseStatus(a, b) = a) <=> \A b \in S \ {None} : worseStatus(a, b) = a
  <2>1. \A a \in S \ {None} : worseStatus(a, None) = a
    BY DEF worseStatus
  <2> QED BY <2>1
<1>3. (CHOOSE a \in S \ {None} : \A b \in S : worseStatus(a, b) = a) = CHOOSE a \in S \ {None} : \A b \in S \ {None} : worseStatus(a, b) = a
  BY <1>2
<1> QED BY <1>1, <1>3, Zenon DEF WorstOf

LEMMA WorstOfParts ==
  ASSUME NEW F \in SUBSET SUBSET Ranked
  PROVE  WorstOf({WorstOf(S) : S \in F}) = WorstOf(UNION F)
<1> DEFINE W == {WorstOf(S) : S \in F}  V == {WorstOf(S) : S \in {S \in F : S # {}}}
<1>1. \A S \in F : S \in SUBSET Ranked
  OBVIOUS
<1>2. \A S \in F : (S = {} => WorstOf(S) = None) /\ (S # {} => WorstIn(WorstOf(S), S))
  BY <1>1, WorstIsFound
<1>3. W \in SUBSET (Ranked \cup {None})
  BY <1>1, <1>2 DEF WorstIn
<1>4. W \ {None} = V
  BY <1>1, <1>2, NullAssumption DEF WorstIn
<1>5. UNION F \in SUBSET Ranked /\ V \in SUBSET Ranked
  BY <1>1, <1>2 DEF WorstIn
<1>6. V \subseteq UNION F /\ \A b \in UNION F : \E a \in V : STATUS_RANK[b] <= STATUS_RANK[a]
  BY <1>1, <1>2 DEF WorstIn
<1>7. (V = {}) <=> (UNION F = {})
  BY <1>6
<1>8. CASE V = {}
  BY <1>3, <1>4, <1>5, <1>7, <1>8, WorstSkipsNull, WorstIsFound
<1>9. CASE V # {}
  <2>1. WorstIn(WorstOf(V), V)
    BY <1>5, <1>9, WorstIsFound
  <2>2. \A s \in Ranked : STATUS_RANK[s] \in Int
    BY DEF Ranked, STATUS_RANK
  <2>3. ASSUME NEW b \in UNION F PROVE STATUS_RANK[b] <= STATUS_RANK[WorstOf(V)]
    <3>1. PICK a \in V : STATUS_RANK[b] <= STATUS_RANK[a]
      BY <1>6
    <3>2. STATUS_RANK[a] <= STATUS_RANK[WorstOf(V)]
      BY <2>1 DEF WorstIn
    <3>3. b \in Ranked /\ a \in Ranked /\ WorstOf(V) \in Ranked
      BY <1>5, <2>1 DEF WorstIn
    <3>4. STATUS_RANK[b] \in Int /\ STATUS_RANK[a] \in Int /\ STATUS_RANK[WorstOf(V)] \in Int
      BY <2>2, <3>3
    <3> QED BY <3>1, <3>2, <3>4
  <2>4. WorstIn(WorstOf(V), UNION F)
    BY <1>6, <2>1, <2>3 DEF WorstIn
  <2>5. WorstOf(V) = WorstOf(UNION F)
    BY <1>5, <2>4, WorstIsFound
  <2> QED BY <1>3, <1>4, <2>5, WorstSkipsNull
<1> QED BY <1>8, <1>9

StatusesOn(v, C) == {StatusOf(v.checks[c]) : c \in C \cap Counted(v)}

\* The summaries of parts add up to that of the whole.
LEMMA SummariesAddUp ==
  ASSUME NEW v, IsUniverse(v), NEW P \in SUBSET SUBSET DOMAIN v.checks
  PROVE  combine({summarize(v, C) : C \in P}) = summarize(v, UNION P)
<1> DEFINE N == {summarize(v, C) : C \in P}
<1>1. \A C : summarize(v, C) = [status |-> WorstOf(StatusesOn(v, C)), problems |-> {c \in C \cap Counted(v) : v.checks[c].status \in {"down", "warn"}},
                                checks |-> C \cap Counted(v)]
  BY DEF summarize, StatusesOn
<1>2. combine(N) = [status |-> WorstOf({n.status : n \in N}), problems |-> UNION {n.problems : n \in N}, checks |-> UNION {n.checks : n \in N}]
  BY Zenon DEF combine
<1>a. \A C : /\ summarize(v, C).checks = C \cap Counted(v)
            /\ summarize(v, C).problems = {c \in C \cap Counted(v) : v.checks[c].status \in {"down", "warn"}}
  BY <1>1
<1>3. UNION {n.checks : n \in N} = (UNION P) \cap Counted(v)
  <2>1. {n.checks : n \in N} = {summarize(v, C).checks : C \in P}
    OBVIOUS
  <2>2. {summarize(v, C).checks : C \in P} = {C \cap Counted(v) : C \in P}
    BY <1>a, Zenon
  <2>3. UNION {C \cap Counted(v) : C \in P} = (UNION P) \cap Counted(v)
    OBVIOUS
  <2> QED BY <2>1, <2>2, <2>3, Zenon
<1>4. UNION {n.problems : n \in N} = {c \in (UNION P) \cap Counted(v) : v.checks[c].status \in {"down", "warn"}}
  <2> DEFINE Bad(C) == {c \in C \cap Counted(v) : v.checks[c].status \in {"down", "warn"}}
  <2>1. {n.problems : n \in N} = {summarize(v, C).problems : C \in P}
    OBVIOUS
  <2>2. {summarize(v, C).problems : C \in P} = {Bad(C) : C \in P}
    <3>1. \A C \in P : summarize(v, C).problems = Bad(C)
      BY <1>a
    <3> HIDE DEF Bad
    <3> QED BY <3>1, Zenon
  <2>3. UNION {Bad(C) : C \in P} = Bad(UNION P)
    OBVIOUS
  <2> QED BY <2>1, <2>2, <2>3, Zenon
<1>5. WorstOf({n.status : n \in N}) = WorstOf(StatusesOn(v, UNION P))
  <2> DEFINE F == {StatusesOn(v, C) : C \in P}
  <2>1. {n.status : n \in N} = {WorstOf(S) : S \in F}
    BY <1>1
  <2>2. UNION F = StatusesOn(v, UNION P)
    BY DEF StatusesOn
  <2>3. \A c \in DOMAIN v.checks : StatusOf(v.checks[c]) \in Ranked
    <3>1. "unknown" \in Ranked
      BY DEF Ranked, STATUS_RANK
    <3> QED BY <3>1 DEF StatusOf, IsUniverse
  <2>4. F \in SUBSET SUBSET Ranked
    BY <2>3 DEF StatusesOn, Counted
  <2> QED BY <2>1, <2>2, <2>4, WorstOfParts
<1> QED BY <1>1, <1>2, <1>3, <1>4, <1>5

-----------------------------------------------------------------------------
ChecksOf(v, s) == {c \in DOMAIN v.checks : v.checks[c].site = s}

LEMMA WholeSite ==
  ASSUME NEW v, IsUniverse(v), NEW s \in DOMAIN v.sites
  PROVE  GroupNode(v, Whole(s)) = summarize(v, ChecksOf(v, s))
<1>1. resolveGroup(v, Whole(s)) = {<<"site", s>>}
  <2>1. Whole(s).kind = "manual" /\ Whole(s).members = {<<"site", s>>}
    BY DEF Whole
  <2>2. Gone(v, {<<"site", s>>}) = {}
    BY DEF Gone, Pool
  <2> QED BY <2>1, <2>2 DEF resolveGroup
<1>2. SitesIn(v, {<<"site", s>>}) = {s}
  BY DEF SitesIn
<1>3. expandToChecks(v, {<<"site", s>>}) = ChecksOf(v, s)
  BY <1>2 DEF expandToChecks, ChecksOf
<1> QED BY <1>1, <1>3 DEF GroupNode, Covered

\* A site's checks are those of its endpoints and those of none.
LEMMA SiteInParts ==
  ASSUME NEW v, IsUniverse(v), NEW s \in DOMAIN v.sites,
         \A c \in DOMAIN v.checks : LET e == v.checks[c].endpoint IN e # None => (v.checks[c].site = s <=> v.endpoints[e].site = s)
  PROVE  SiteNode(v, s) = summarize(v, ChecksOf(v, s))
<1> DEFINE OnIt(e) == {c \in DOMAIN v.checks : v.checks[c].endpoint = e}
           Ends == {e \in DOMAIN v.endpoints : v.endpoints[e].site = s}
           Loose == {c \in DOMAIN v.checks : v.checks[c].endpoint = None /\ v.checks[c].site = s}
           P == {OnIt(e) : e \in Ends} \cup {Loose}
<1>1. {EndpointNode(v, e) : e \in Ends} \cup {summarize(v, Loose)} = {summarize(v, C) : C \in P}
  <2>1. \A e : EndpointNode(v, e) = summarize(v, OnIt(e))
    BY DEF EndpointNode
  <2>2. {EndpointNode(v, e) : e \in Ends} = {summarize(v, OnIt(e)) : e \in Ends}
    BY <2>1, Zenon
  <2>3. {summarize(v, C) : C \in P} = {summarize(v, OnIt(e)) : e \in Ends} \cup {summarize(v, Loose)}
    OBVIOUS
  <2> QED BY <2>2, <2>3, Zenon
<1>2. SiteNode(v, s) = combine({summarize(v, C) : C \in P})
  BY <1>1, Zenon DEF SiteNode
<1>3. P \in SUBSET SUBSET DOMAIN v.checks
  OBVIOUS
<1>4. UNION P = ChecksOf(v, s)
  <2>1. \A c \in DOMAIN v.checks : v.checks[c].endpoint \in DOMAIN v.endpoints \cup {None}
    BY DEF IsUniverse
  <2>2. None \notin DOMAIN v.endpoints
    BY DEF IsUniverse
  <2>3. ASSUME NEW c \in DOMAIN v.checks PROVE c \in UNION P <=> v.checks[c].site = s
    <3>1. c \in UNION P <=> (\E e \in Ends : c \in OnIt(e)) \/ c \in Loose
      <4> HIDE DEF OnIt, Loose, Ends
      <4> QED BY Zenon DEF P
    <3> QED BY <2>1, <2>2, <3>1
  <2>4. UNION P \subseteq DOMAIN v.checks
    BY <1>3
  <2> QED BY <2>3, <2>4 DEF ChecksOf
<1>5. combine({summarize(v, C) : C \in P}) = summarize(v, UNION P)
  <2> HIDE DEF P
  <2> QED BY <1>3, SummariesAddUp
<1> QED BY <1>2, <1>4, <1>5, Zenon

\* The tree, the filters and the groups agree on a site of any inventory.
LEMMA PartsAgree == ASSUME IsUniverse(u) PROVE TreeAgrees
<1> SUFFICES ASSUME NEW s \in DOMAIN u.sites, Together(s)
             PROVE  /\ SiteNode(u, s).status = siteStatus(u, s) /\ SiteNode(u, s) = GroupNode(u, Whole(s))
                    /\ u.sites[s].location # None => SiteNode(u, s).problems \subseteq LocationNode(u, u.sites[s].location).problems
  BY DEF TreeAgrees
<1>1. SiteNode(u, s) = summarize(u, ChecksOf(u, s))
  BY SiteInParts DEF Together
<1>2. SiteNode(u, s) = GroupNode(u, Whole(s))
  BY <1>1, WholeSite
<1>3. SiteNode(u, s).status = siteStatus(u, s)
  <2>1. ChecksOf(u, s) \cap Counted(u) = {c \in Counted(u) : u.checks[c].site = s}
    BY DEF ChecksOf, Counted
  <2>2. SiteNode(u, s).status = WorstOf({StatusOf(u.checks[c]) : c \in ChecksOf(u, s) \cap Counted(u)})
    BY <1>1 DEF summarize
  <2> QED BY <2>1, <2>2 DEF siteStatus
<1>4. ASSUME u.sites[s].location # None PROVE SiteNode(u, s).problems \subseteq LocationNode(u, u.sites[s].location).problems
  <2> DEFINE N == {SiteNode(u, t) : t \in {t \in DOMAIN u.sites : u.sites[t].location = u.sites[s].location}}
  <2>1. SiteNode(u, s) \in N
    OBVIOUS
  <2>2. LocationNode(u, u.sites[s].location).problems = UNION {n.problems : n \in N}
    BY DEF LocationNode, combine
  <2> HIDE DEF N
  <2> QED BY <2>1, <2>2
<1> QED BY <1>2, <1>3, <1>4

-----------------------------------------------------------------------------
(* The copy of the windows.  Objects only go: those of an older reading of   *)
(* the inventory are among those there were.                                 *)
Within(v, w) == \A t \in MemberTypes : Pool(v, t) \subseteq Pool(w, t)
InventoryKnown ==
  /\ IsUniverse(u) /\ groups = [g \in DOMAIN groups |-> groups[g]] /\ \A g \in DOMAIN groups : IsGroup(groups[g])
  /\ page # None => Within(u, page)
\* What was read of the windows, and of an inventory nothing has been written to since.
RefreshesKnown == \A r \in refreshing :
  /\ r = [rows |-> r.rows, u |-> r.u, behind |-> r.behind, asOf |-> r.asOf] /\ r.asOf \in 0..writes
  /\ r.u # None => Within(u, r.u)
  /\ ~r.behind => r.rows = Enabled(windows)
  /\ r.asOf = writes => ~r.behind /\ r.u \in {None, u}
CacheKnown == cache # None =>
  /\ cache = [rows |-> cache.rows, groupChecks |-> cache.groupChecks, fresh |-> cache.fresh, behind |-> cache.behind, asOf |-> cache.asOf]
  /\ cache.asOf \in 0..writes
  /\ ~cache.behind => cache.rows = Enabled(windows)
  /\ cache.asOf = writes => ~cache.behind /\ cache.groupChecks = checkIdsForGroups(GroupsOf(cache.rows), u)
PagesInv == writes \in Nat /\ InventoryKnown /\ RefreshesKnown /\ CacheKnown

LEMMA PagesStart == MaintenanceInit => PagesInv
<1> SUFFICES ASSUME MaintenanceInit PROVE PagesInv
  OBVIOUS
<1>1. IsUniverse(u)
  BY MaintenanceAssumption DEF MaintenanceInit
<1>2. PICK G \in SUBSET GroupIds : groups \in [G -> Groupings]
  BY DEF MaintenanceInit
<1>3. \A g \in DOMAIN groups : IsGroup(groups[g])
  BY <1>2, MaintenanceAssumption
<1> QED BY <1>1, <1>2, <1>3 DEF MaintenanceInit, PagesInv, InventoryKnown, RefreshesKnown, CacheKnown

LEMMA WithinIsAnOrder ==
  /\ \A v : Within(v, v)
  /\ \A v, w, x : Within(v, w) /\ Within(w, x) => Within(v, x)
  BY DEF Within

\* The members a reading has not got are not in a later one either: nothing is lost.
LEMMA TidyingShowsNot ==
  ASSUME NEW v, NEW w, Within(v, w), NEW g, IsGroup(g), g.kind = "manual"
  PROVE  LET h == [g EXCEPT !.members = @ \ Gone(w, @)] IN IsGroup(h) /\ Covered(v, h) = Covered(v, g)
<1> DEFINE h == [g EXCEPT !.members = @ \ Gone(w, @)]
<1>1. h = [kind |-> g.kind, members |-> g.members \ Gone(w, g.members), target |-> g.target, rules |-> g.rules]
  BY DEF IsGroup
<1>2. h.kind = g.kind /\ h.members = g.members \ Gone(w, g.members) /\ h.target = g.target /\ h.rules = g.rules
  BY <1>1
<1>3. IsGroup(h)
  BY <1>1, <1>2 DEF IsGroup
<1>4. Gone(w, g.members) \subseteq Gone(v, g.members)
  BY DEF Gone, Within, IsGroup
<1>5. h.members \ Gone(v, h.members) = g.members \ Gone(v, g.members)
  BY <1>2, <1>4 DEF Gone
<1>6. resolveGroup(v, h) = h.members \ Gone(v, h.members) /\ resolveGroup(v, g) = g.members \ Gone(v, g.members)
  BY <1>2 DEF resolveGroup
<1>7. Covered(v, h) = Covered(v, g)
  BY <1>5, <1>6, Zenon DEF Covered
<1> QED BY <1>3, <1>7

LEMMA TidiedGroups ==
  ASSUME InventoryKnown, NEW w, Within(u, w), NEW G
  PROVE  /\ DOMAIN Tidied(w, G) = DOMAIN groups /\ Tidied(w, G) = [g \in DOMAIN Tidied(w, G) |-> Tidied(w, G)[g]]
         /\ \A g \in DOMAIN groups : IsGroup(Tidied(w, G)[g]) /\ Covered(u, Tidied(w, G)[g]) = Covered(u, groups[g])
<1>1. DOMAIN Tidied(w, G) = DOMAIN groups /\ Tidied(w, G) = [g \in DOMAIN Tidied(w, G) |-> Tidied(w, G)[g]]
  BY DEF Tidied
<1>2. ASSUME NEW g \in DOMAIN groups PROVE IsGroup(Tidied(w, G)[g]) /\ Covered(u, Tidied(w, G)[g]) = Covered(u, groups[g])
  <2>1. IsGroup(groups[g])
    BY DEF InventoryKnown
  <2>2. CASE g \in G /\ groups[g].kind = "manual"
    <3>1. Tidied(w, G)[g] = [groups[g] EXCEPT !.members = @ \ Gone(w, @)]
      BY <2>2 DEF Tidied
    <3> QED BY <2>1, <2>2, <3>1, TidyingShowsNot
  <2>3. CASE ~(g \in G /\ groups[g].kind = "manual")
    BY <2>1, <2>3 DEF Tidied
  <2> QED BY <2>2, <2>3
<1> QED BY <1>1, <1>2

\* Tidying changes no answer, so a copy that was right stays so.
LEMMA TidyingKeepsInv ==
  ASSUME InventoryKnown, NEW w, Within(u, w), NEW G, groups' = Tidied(w, G), u' = u, page' \in {page, None}
  PROVE  /\ InventoryKnown'
         /\ \A rows : (GroupsOf(rows))' = GroupsOf(rows)
         /\ \A rows : (checkIdsForGroups(GroupsOf(rows), u))' = checkIdsForGroups(GroupsOf(rows), u)
<1> DEFINE T == Tidied(w, G)
<1>1. /\ DOMAIN T = DOMAIN groups /\ T = [g \in DOMAIN T |-> T[g]]
      /\ \A g \in DOMAIN groups : IsGroup(T[g]) /\ Covered(u, T[g]) = Covered(u, groups[g])
  BY TidiedGroups
<1> HIDE DEF T
<1>2. groups' = T
  BY DEF T
<1>3. InventoryKnown'
  BY <1>1, <1>2, Zenon DEF InventoryKnown
<1>4. \A rows : (GroupsOf(rows))' = GroupsOf(rows)
  BY <1>1, <1>2, Zenon DEF GroupsOf
<1>5. ASSUME NEW rows PROVE (checkIdsForGroups(GroupsOf(rows), u))' = checkIdsForGroups(GroupsOf(rows), u)
  <2>1. \A g \in GroupsOf(rows) : Covered(u', groups'[g]) = Covered(u, groups[g])
    <3> SUFFICES ASSUME NEW g \in GroupsOf(rows) PROVE Covered(u', groups'[g]) = Covered(u, groups[g])
      OBVIOUS
    <3>1. g \in DOMAIN groups
      BY DEF GroupsOf
    <3>2. groups'[g] = T[g] /\ u' = u
      BY <1>2
    <3> QED BY <1>1, <3>1, <3>2, Zenon
  <2>2. (checkIdsForGroups(GroupsOf(rows), u))' = [g \in GroupsOf(rows) |-> Covered(u', groups'[g])]
    BY <1>4, Zenon DEF checkIdsForGroups
  <2> QED BY <2>1, <2>2, Zenon DEF checkIdsForGroups
<1> QED BY <1>3, <1>4, <1>5

-----------------------------------------------------------------------------
(* Requests that write: the copy is dropped, or it is no longer up to date.  *)
LEMMA WindowsWritten ==
  ASSUME PagesInv, NEW ws, Write(ws)
  PROVE  PagesInv'
<1>1. /\ writes \in Nat /\ writes' = writes + 1 /\ cache' = None /\ UNCHANGED <<u, groups, page>>
      /\ refreshing' = {[r EXCEPT !.behind = TRUE] : r \in refreshing}
  BY DEF Write, Counts, invalidateMaintenanceCache, PagesInv
<1>2. InventoryKnown'
  BY <1>1, Zenon DEF PagesInv, InventoryKnown
<1>3. RefreshesKnown'
  <2> SUFFICES ASSUME NEW q \in refreshing'
               PROVE  /\ q = [rows |-> q.rows, u |-> q.u, behind |-> q.behind, asOf |-> q.asOf] /\ q.asOf \in 0..writes
                      /\ q.u # None => Within(u, q.u)
                      /\ q.behind
    BY <1>1 DEF RefreshesKnown
  <2>1. PICK r \in refreshing : q = [r EXCEPT !.behind = TRUE]
    BY <1>1
  <2>a. r = [rows |-> r.rows, u |-> r.u, behind |-> r.behind, asOf |-> r.asOf] /\ r.asOf \in 0..writes /\ (r.u # None => Within(u, r.u))
    BY DEF PagesInv, RefreshesKnown
  <2>2. q = [rows |-> r.rows, u |-> r.u, behind |-> TRUE, asOf |-> r.asOf] /\ r.asOf \in 0..writes /\ (r.u # None => Within(u, r.u))
    BY <2>1, <2>a
  <2> QED BY <2>2
<1> QED BY <1>1, <1>2, <1>3 DEF PagesInv, CacheKnown

LEMMA OtherWritten ==
  ASSUME PagesInv, InventoryKnown', Within(u', u), Counts, UNCHANGED <<windows, cache, refreshing>>
  PROVE  PagesInv'
<1>1. writes \in Nat /\ writes' = writes + 1
  BY DEF Counts, PagesInv
<1>2. ASSUME NEW r \in refreshing
      PROVE  /\ r = [rows |-> r.rows, u |-> r.u, behind |-> r.behind, asOf |-> r.asOf] /\ r.asOf \in 0..writes
             /\ r.u # None => Within(u', r.u)
             /\ ~r.behind => r.rows = Enabled(windows)
  BY WithinIsAnOrder DEF PagesInv, RefreshesKnown
<1>3. RefreshesKnown'
  BY <1>1, <1>2 DEF RefreshesKnown
<1>4. CacheKnown'
  BY <1>1 DEF PagesInv, CacheKnown
<1> QED BY <1>1, <1>3, <1>4 DEF PagesInv

LEMMA GroupsWritten ==
  ASSUME PagesInv, NEW gs, WriteGroups(gs), gs = [g \in DOMAIN gs |-> gs[g]], \A g \in DOMAIN gs : IsGroup(gs[g])
  PROVE  PagesInv'
<1>1. InventoryKnown'
  <2>1. groups' = gs /\ UNCHANGED <<u, page>>
    BY DEF WriteGroups
  <2> QED BY <2>1, Zenon DEF PagesInv, InventoryKnown
<1> QED BY <1>1, WithinIsAnOrder, OtherWritten DEF WriteGroups

LEMMA InventoryWritten ==
  ASSUME PagesInv, NEW v, WriteInventory(v), IsUniverse(v), Within(v, u)
  PROVE  PagesInv'
<1>1. u' = v /\ UNCHANGED <<groups, page>>
  BY DEF WriteInventory
<1>2. InventoryKnown'
  BY <1>1, WithinIsAnOrder DEF PagesInv, InventoryKnown
<1> QED BY <1>1, <1>2, OtherWritten DEF WriteInventory

-----------------------------------------------------------------------------
(* The edits of groups and of the inventory are such writes.                 *)
LEMMA GroupEdits ==
  ASSUME PagesInv, (\E g \in GroupIds : CreateGroup(g)) \/ \E g \in DOMAIN groups : DeleteGroup(g) \/ ChangeMembers(g)
  PROVE  PagesInv'
<1> USE DEF PagesInv, InventoryKnown
<1>1. ASSUME NEW g \in GroupIds, CreateGroup(g) PROVE PagesInv'
  <2>1. PICK row \in Groupings : WriteGroups(Put(groups, g, row))
    BY <1>1 DEF CreateGroup
  <2> DEFINE gs == Put(groups, g, row)
  <2>2. gs = [x \in DOMAIN gs |-> gs[x]] /\ \A x \in DOMAIN gs : IsGroup(gs[x])
    BY MaintenanceAssumption DEF Put
  <2> HIDE DEF gs
  <2> QED BY <2>1, <2>2, GroupsWritten DEF gs
<1>2. ASSUME NEW g \in DOMAIN groups, DeleteGroup(g) PROVE PagesInv'
  <2> DEFINE gs == Without(groups, {g})
  <2>2. gs = [x \in DOMAIN gs |-> gs[x]] /\ \A x \in DOMAIN gs : IsGroup(gs[x])
    BY DEF Without
  <2>3. WriteGroups(gs)
    BY <1>2 DEF DeleteGroup
  <2> HIDE DEF gs
  <2> QED BY <2>2, <2>3, GroupsWritten
<1>3. ASSUME NEW g \in DOMAIN groups, ChangeMembers(g) PROVE PagesInv'
  <2>0. PICK t \in MemberTypes : \E x \in Pool(u, t) : \E M \in {groups[g].members \cup {<<t, x>>}, groups[g].members \ {<<t, x>>}} :
          WriteGroups([groups EXCEPT ![g].members = M])
    BY <1>3 DEF ChangeMembers
  <2>a. PICK x \in Pool(u, t) : \E M \in {groups[g].members \cup {<<t, x>>}, groups[g].members \ {<<t, x>>}} :
          WriteGroups([groups EXCEPT ![g].members = M])
    BY <2>0
  <2>1. PICK M \in {groups[g].members \cup {<<t, x>>}, groups[g].members \ {<<t, x>>}} : WriteGroups([groups EXCEPT ![g].members = M])
    BY <2>a
  <2> DEFINE gs == [groups EXCEPT ![g].members = M]  row == [groups[g] EXCEPT !.members = M]
  <2>2. IsGroup(groups[g]) /\ \A m \in M : m[1] \in MemberTypes
    BY <2>1 DEF IsGroup
  <2>3. row = [kind |-> groups[g].kind, members |-> M, target |-> groups[g].target, rules |-> groups[g].rules]
    BY <2>2 DEF IsGroup
  <2>4. IsGroup(row)
    BY <2>2, <2>3 DEF IsGroup
  <2>5. gs = [h \in DOMAIN groups |-> IF h = g THEN row ELSE groups[h]]
    OBVIOUS
  <2>6. gs = [h \in DOMAIN gs |-> gs[h]] /\ \A h \in DOMAIN gs : IsGroup(gs[h])
    <3> HIDE DEF gs, row
    <3> QED BY <2>4, <2>5
  <2>7. WriteGroups(gs)
    BY <2>1
  <2> HIDE DEF gs
  <2> QED BY <2>6, <2>7, GroupsWritten
<1> QED BY <1>1, <1>2, <1>3

\* An inventory with other rows of one kind.
LEMMA Rewritten ==
  ASSUME NEW v, IsUniverse(v)
  PROVE  /\ \A x : [v EXCEPT !.checks = x] = [locations |-> v.locations, sites |-> v.sites, endpoints |-> v.endpoints, checks |-> x]
         /\ \A x : [v EXCEPT !.sites = x] = [locations |-> v.locations, sites |-> x, endpoints |-> v.endpoints, checks |-> v.checks]
         /\ \A x : [v EXCEPT !.endpoints = x] = [locations |-> v.locations, sites |-> v.sites, endpoints |-> x, checks |-> v.checks]
         /\ \A x : [v EXCEPT !.locations = x] = [locations |-> x, sites |-> v.sites, endpoints |-> v.endpoints, checks |-> v.checks]
<1>1. v = [locations |-> v.locations, sites |-> v.sites, endpoints |-> v.endpoints, checks |-> v.checks]
  BY DEF IsUniverse
<1>2. \A x : [v EXCEPT !.checks = x] = [locations |-> v.locations, sites |-> v.sites, endpoints |-> v.endpoints, checks |-> x]
  BY <1>1
<1>3. \A x : [v EXCEPT !.sites = x] = [locations |-> v.locations, sites |-> x, endpoints |-> v.endpoints, checks |-> v.checks]
  BY <1>1
<1>4. \A x : [v EXCEPT !.endpoints = x] = [locations |-> v.locations, sites |-> v.sites, endpoints |-> x, checks |-> v.checks]
  BY <1>1
<1>5. \A x : [v EXCEPT !.locations = x] = [locations |-> x, sites |-> v.sites, endpoints |-> v.endpoints, checks |-> v.checks]
  BY <1>1
<1> QED BY <1>2, <1>3, <1>4, <1>5

CheckRow == [site : DOMAIN u.sites, endpoint : DOMAIN u.endpoints \cup {None}, probe : DOMAIN u.endpoints \cup {None},
             tags : SUBSET STRING, status : Ranked \cup {None}, enabled : BOOLEAN]

LEMMA ChecksRewritten ==
  ASSUME PagesInv, NEW x, x \in [DOMAIN x -> CheckRow], DOMAIN x \subseteq DOMAIN u.checks, WriteInventory([u EXCEPT !.checks = x])
  PROVE  PagesInv'
<1> DEFINE v == [u EXCEPT !.checks = x]
<1>1. IsUniverse(u)
  BY DEF PagesInv, InventoryKnown
<1>2. v = [locations |-> u.locations, sites |-> u.sites, endpoints |-> u.endpoints, checks |-> x]
  BY <1>1, Rewritten
<1>3. v.locations = u.locations /\ v.sites = u.sites /\ v.endpoints = u.endpoints /\ v.checks = x
  BY <1>2
<1> HIDE DEF v
<1>4. IsUniverse(v)
  BY <1>1, <1>2, <1>3 DEF IsUniverse, CheckRow
<1>5. Within(v, u)
  BY <1>3 DEF Within, Pool, MemberTypes
<1> QED BY <1>4, <1>5, InventoryWritten DEF v

LEMMA InventoryEdits ==
  ASSUME PagesInv, DeleteObject \/ NewStatus \/ EnableCheck \/ MoveEndpoint \/ SetLocation
  PROVE  PagesInv'
<1>1. /\ IsUniverse(u)
      /\ u.sites \in [DOMAIN u.sites -> [location : u.locations \cup {None}, collector : BOOLEAN]]
      /\ u.endpoints \in [DOMAIN u.endpoints -> [site : DOMAIN u.sites, tags : SUBSET STRING]]
      /\ u.checks \in [DOMAIN u.checks -> CheckRow]
  BY DEF PagesInv, InventoryKnown, IsUniverse, CheckRow
<1>2. ASSUME NEW c \in DOMAIN u.checks, WriteInventory([u EXCEPT !.checks = Without(@, {c})]) PROVE PagesInv'
  <2> DEFINE x == Without(u.checks, {c})
  <2>1. x \in [DOMAIN x -> CheckRow] /\ DOMAIN x \subseteq DOMAIN u.checks
    BY <1>1 DEF Without
  <2>2. WriteInventory([u EXCEPT !.checks = x])
    BY <1>2
  <2> HIDE DEF x
  <2> QED BY <2>1, <2>2, ChecksRewritten
<1>3. ASSUME NEW l \in u.locations,
             WriteInventory([u EXCEPT !.locations = @ \ {l}, !.sites = [s \in DOMAIN u.sites |-> [u.sites[s] EXCEPT !.location = IF @ = l THEN None ELSE @]]])
      PROVE  PagesInv'
  <2> DEFINE sites == [s \in DOMAIN u.sites |-> [u.sites[s] EXCEPT !.location = IF @ = l THEN None ELSE @]]
             w == [u EXCEPT !.locations = u.locations \ {l}]  v == [w EXCEPT !.sites = sites]
  <2>1. sites \in [DOMAIN u.sites -> [location : (u.locations \ {l}) \cup {None}, collector : BOOLEAN]]
    BY <1>1
  <2>2. WriteInventory(v)
    BY <1>3
  <2>3. DOMAIN sites = DOMAIN u.sites
    OBVIOUS
  <2> HIDE DEF sites
  <2>4. v = [locations |-> u.locations \ {l}, sites |-> sites, endpoints |-> u.endpoints, checks |-> u.checks]
    <3>1. w = [locations |-> u.locations \ {l}, sites |-> u.sites, endpoints |-> u.endpoints, checks |-> u.checks]
      BY <1>1, Rewritten
    <3> HIDE DEF w
    <3> QED BY <3>1
  <2>5. v.locations = u.locations \ {l} /\ v.sites = sites /\ v.endpoints = u.endpoints /\ v.checks = u.checks
    BY <2>4
  <2> HIDE DEF v
  <2>6. IsUniverse(v)
    BY <1>1, <2>1, <2>3, <2>4, <2>5 DEF IsUniverse
  <2>7. Within(v, u)
    BY <2>3, <2>5 DEF Within, Pool, MemberTypes
  <2> QED BY <2>2, <2>6, <2>7, InventoryWritten
<1>4. ASSUME NEW c \in DOMAIN u.checks, NEW status \in {"up", "down"}, WriteInventory([u EXCEPT !.checks[c].status = status]) PROVE PagesInv'
  <2> DEFINE x == [u.checks EXCEPT ![c].status = status]
  <2>1. status \in Ranked
    BY DEF Ranked, STATUS_RANK
  <2>2. x \in [DOMAIN x -> CheckRow] /\ DOMAIN x \subseteq DOMAIN u.checks
    BY <1>1, <2>1 DEF CheckRow
  <2>3. WriteInventory([u EXCEPT !.checks = x])
    BY <1>4
  <2> HIDE DEF x
  <2> QED BY <2>2, <2>3, ChecksRewritten
<1>5. ASSUME NEW c \in DOMAIN u.checks, NEW on \in BOOLEAN, WriteInventory([u EXCEPT !.checks[c].enabled = on]) PROVE PagesInv'
  <2> DEFINE x == [u.checks EXCEPT ![c].enabled = on]
  <2>2. x \in [DOMAIN x -> CheckRow] /\ DOMAIN x \subseteq DOMAIN u.checks
    BY <1>1 DEF CheckRow
  <2>3. WriteInventory([u EXCEPT !.checks = x])
    BY <1>5
  <2> HIDE DEF x
  <2> QED BY <2>2, <2>3, ChecksRewritten
<1>6. ASSUME NEW e \in DOMAIN u.endpoints, NEW s \in DOMAIN u.sites, NEW moveChecks \in BOOLEAN,
             WriteInventory([u EXCEPT !.endpoints[e].site = s, !.checks = [c \in DOMAIN @ |-> IF moveChecks /\ @[c].endpoint = e THEN [@[c] EXCEPT !.site = s] ELSE @[c]]])
      PROVE  PagesInv'
  <2> DEFINE ends == [u.endpoints EXCEPT ![e].site = s]
             x == [c \in DOMAIN u.checks |-> IF moveChecks /\ u.checks[c].endpoint = e THEN [u.checks[c] EXCEPT !.site = s] ELSE u.checks[c]]
             w == [u EXCEPT !.endpoints = ends]  v == [w EXCEPT !.checks = x]
  <2>1. ends \in [DOMAIN u.endpoints -> [site : DOMAIN u.sites, tags : SUBSET STRING]] /\ DOMAIN ends = DOMAIN u.endpoints
    BY <1>1
  <2>2. x \in [DOMAIN u.checks -> CheckRow] /\ DOMAIN x = DOMAIN u.checks
    BY <1>1 DEF CheckRow
  <2>3. WriteInventory(v)
    BY <1>6
  <2> HIDE DEF ends, x
  <2>4. v = [locations |-> u.locations, sites |-> u.sites, endpoints |-> ends, checks |-> x]
    <3>1. w = [locations |-> u.locations, sites |-> u.sites, endpoints |-> ends, checks |-> u.checks]
      BY <1>1, Rewritten
    <3> HIDE DEF w
    <3> QED BY <3>1
  <2>5. v.locations = u.locations /\ v.sites = u.sites /\ v.endpoints = ends /\ v.checks = x
    BY <2>4
  <2> HIDE DEF v
  <2>6. IsUniverse(v)
    BY <1>1, <2>1, <2>2, <2>4, <2>5 DEF IsUniverse, CheckRow
  <2>7. Within(v, u)
    BY <2>1, <2>2, <2>5 DEF Within, Pool, MemberTypes
  <2> QED BY <2>3, <2>6, <2>7, InventoryWritten
<1>7. ASSUME NEW l \in u.locations, NEW S \in SUBSET DOMAIN u.sites, WriteInventory([u EXCEPT !.sites = [s \in DOMAIN u.sites |-> Placed(s, l, S)]]) PROVE PagesInv'
  <2> DEFINE sites == [s \in DOMAIN u.sites |-> Placed(s, l, S)]  v == [u EXCEPT !.sites = sites]
  <2>1. sites \in [DOMAIN u.sites -> [location : u.locations \cup {None}, collector : BOOLEAN]] /\ DOMAIN sites = DOMAIN u.sites
    <3>1. ASSUME NEW s \in DOMAIN u.sites PROVE Placed(s, l, S) \in [location : u.locations \cup {None}, collector : BOOLEAN]
      BY <1>1 DEF Placed
    <3> QED BY <3>1
  <2>2. WriteInventory(v)
    BY <1>7
  <2> HIDE DEF sites
  <2>4. v = [locations |-> u.locations, sites |-> sites, endpoints |-> u.endpoints, checks |-> u.checks]
    BY <1>1, Rewritten
  <2>5. v.locations = u.locations /\ v.sites = sites /\ v.endpoints = u.endpoints /\ v.checks = u.checks
    BY <2>4
  <2> HIDE DEF v
  <2>6. IsUniverse(v)
    BY <1>1, <2>1, <2>4, <2>5 DEF IsUniverse
  <2>7. Within(v, u)
    BY <2>1, <2>5 DEF Within, Pool, MemberTypes
  <2> QED BY <2>2, <2>6, <2>7, InventoryWritten
<1> QED BY <1>2, <1>3, <1>4, <1>5, <1>6, <1>7 DEF DeleteObject, NewStatus, EnableCheck, MoveEndpoint, SetLocation

-----------------------------------------------------------------------------
(* Reading the windows and the inventory into the copy.                      *)
IsRefresh(r) ==
  /\ r = [rows |-> r.rows, u |-> r.u, behind |-> r.behind, asOf |-> r.asOf] /\ r.asOf \in 0..writes
  /\ r.u # None => Within(u, r.u)
  /\ ~r.behind => r.rows = Enabled(windows)
  /\ r.asOf = writes => ~r.behind /\ r.u \in {None, u}

LEMMA RefreshMoves ==
  ASSUME PagesInv, UNCHANGED <<u, groups, windows, cache, page, writes>>, \A r \in refreshing' : r \in refreshing \/ IsRefresh(r)
  PROVE  PagesInv'
<1>1. \A r \in refreshing' : IsRefresh(r)
  BY DEF PagesInv, RefreshesKnown, IsRefresh
<1>2. RefreshesKnown'
  BY <1>1 DEF RefreshesKnown, IsRefresh, Enabled
<1>3. InventoryKnown' /\ CacheKnown'
  BY DEF PagesInv, InventoryKnown, CacheKnown, Enabled, checkIdsForGroups, GroupsOf
<1> QED BY <1>2, <1>3 DEF PagesInv

LEMMA RefreshBegins == ASSUME PagesInv, RefreshStarts PROVE PagesInv'
<1> DEFINE r == [rows |-> Enabled(windows), u |-> None, behind |-> FALSE, asOf |-> writes]
<1>1. IsRefresh(r)
  <2>1. r.rows = Enabled(windows) /\ r.u = None /\ r.behind = FALSE /\ r.asOf = writes
    OBVIOUS
  <2>2. writes \in 0..writes
    BY DEF PagesInv
  <2> QED BY <2>1, <2>2 DEF IsRefresh
<1>2. refreshing' = refreshing \cup {r} /\ UNCHANGED <<u, groups, windows, cache, page, writes>>
  BY DEF RefreshStarts
<1> HIDE DEF r
<1> QED BY <1>1, <1>2, RefreshMoves

LEMMA RefreshGoesOn ==
  ASSUME PagesInv, NEW r \in refreshing, RefreshReadsInventory(r) \/ RefreshFails(r)
  PROVE  PagesInv'
<1>1. CASE RefreshFails(r)
  <2>1. refreshing' \subseteq refreshing /\ UNCHANGED <<u, groups, windows, cache, page, writes>>
    BY <1>1 DEF RefreshFails
  <2> QED BY <2>1, RefreshMoves
<1>2. CASE RefreshReadsInventory(r)
  <2> DEFINE q == [r EXCEPT !.u = u]
  <2>1. IsRefresh(r)
    BY DEF PagesInv, RefreshesKnown, IsRefresh
  <2>2. q = [rows |-> r.rows, u |-> u, behind |-> r.behind, asOf |-> r.asOf]
    BY <2>1 DEF IsRefresh
  <2>3. q.rows = r.rows /\ q.u = u /\ q.behind = r.behind /\ q.asOf = r.asOf
    BY <2>2
  <2>4. refreshing' = (refreshing \ {r}) \cup {q} /\ UNCHANGED <<u, groups, windows, cache, page, writes>>
    BY <1>2 DEF RefreshReadsInventory
  <2> HIDE DEF q
  <2>5. IsRefresh(q)
    BY <2>1, <2>2, <2>3, WithinIsAnOrder DEF IsRefresh
  <2> QED BY <2>4, <2>5, RefreshMoves
<1> QED BY <1>1, <1>2

LEMMA RefreshIsKept == ASSUME PagesInv, NEW r \in refreshing, RefreshEnds(r) PROVE PagesInv'
<1> DEFINE k == [rows |-> r.rows, groupChecks |-> checkIdsForGroups(GroupsOf(r.rows), r.u), fresh |-> TRUE, behind |-> r.behind, asOf |-> r.asOf]
<1>1. IsRefresh(r)
  BY DEF PagesInv, RefreshesKnown, IsRefresh
<1>2. /\ r.u # None /\ refreshing' = refreshing \ {r} /\ cache' = k /\ groups' = Tidied(r.u, GroupsOf(r.rows))
      /\ UNCHANGED <<u, windows, now, page, writes>>
  BY DEF RefreshEnds
<1>3. Within(u, r.u)
  BY <1>1, <1>2 DEF IsRefresh
<1>4. /\ InventoryKnown'
      /\ \A rows : (checkIdsForGroups(GroupsOf(rows), u))' = checkIdsForGroups(GroupsOf(rows), u)
  BY <1>2, <1>3, TidyingKeepsInv DEF PagesInv
<1>5. (Enabled(windows))' = Enabled(windows)
  BY <1>2 DEF Enabled
<1>6. RefreshesKnown'
  BY <1>2, <1>5 DEF PagesInv, RefreshesKnown
<1>7. CacheKnown'
  <2>1. k.rows = r.rows /\ k.groupChecks = checkIdsForGroups(GroupsOf(r.rows), r.u) /\ k.fresh = TRUE /\ k.behind = r.behind /\ k.asOf = r.asOf
    OBVIOUS
  <2>2. k = [rows |-> k.rows, groupChecks |-> k.groupChecks, fresh |-> k.fresh, behind |-> k.behind, asOf |-> k.asOf]
    BY <2>1
  <2>3. k.asOf \in 0..writes /\ (~k.behind => k.rows = Enabled(windows))
    BY <1>1, <2>1 DEF IsRefresh
  <2>4. k.asOf = writes => ~k.behind /\ k.groupChecks = (checkIdsForGroups(GroupsOf(r.rows), u))'
    BY <1>1, <1>2, <1>4, <2>1, Zenon DEF IsRefresh
  <2> HIDE DEF k
  <2>5. cache' = k /\ cache'.rows = r.rows /\ writes' = writes
    BY <1>2, <2>1
  <2>6. (checkIdsForGroups(GroupsOf(cache.rows), u))' = (checkIdsForGroups(GroupsOf(r.rows), u))'
    BY <2>5 DEF checkIdsForGroups, GroupsOf
  <2> QED BY <1>5, <2>2, <2>3, <2>4, <2>5, <2>6 DEF CacheKnown
<1> QED BY <1>2, <1>4, <1>6, <1>7 DEF PagesInv

LEMMA ReadingOnly == ASSUME PagesInv, Expires \/ TimePasses \/ PageStarts \/ PageEnds PROVE PagesInv'
<1>1. CASE Expires
  <2>1. cache # None /\ cache' = [cache EXCEPT !.fresh = FALSE] /\ UNCHANGED <<u, groups, windows, refreshing, page, writes>>
    BY <1>1 DEF Expires, Stale
  <2>2. cache = [rows |-> cache.rows, groupChecks |-> cache.groupChecks, fresh |-> cache.fresh, behind |-> cache.behind, asOf |-> cache.asOf]
    BY <2>1 DEF PagesInv, CacheKnown
  <2>3. cache' = [rows |-> cache.rows, groupChecks |-> cache.groupChecks, fresh |-> FALSE, behind |-> cache.behind, asOf |-> cache.asOf]
    BY <2>1, <2>2
  <2>a. /\ cache'.rows = cache.rows /\ cache'.groupChecks = cache.groupChecks /\ cache'.fresh = FALSE
        /\ cache'.behind = cache.behind /\ cache'.asOf = cache.asOf
    BY <2>3
  <2>b. (checkIdsForGroups(GroupsOf(cache.rows), u))' = checkIdsForGroups(GroupsOf(cache.rows), u) /\ (Enabled(windows))' = Enabled(windows)
    BY <2>1, <2>a DEF checkIdsForGroups, GroupsOf, Enabled
  <2>4. CacheKnown'
    BY <2>1, <2>3, <2>a, <2>b DEF PagesInv, CacheKnown
  <2>5. InventoryKnown' /\ RefreshesKnown'
    BY <2>1 DEF PagesInv, InventoryKnown, RefreshesKnown, Enabled
  <2> QED BY <2>1, <2>4, <2>5 DEF PagesInv
<1>2. CASE TimePasses
  BY <1>2, RefreshMoves DEF TimePasses
<1>3. CASE PageStarts
  <2>1. page' = u /\ UNCHANGED <<u, groups, windows, cache, refreshing, writes>>
    BY <1>3 DEF PageStarts
  <2>2. InventoryKnown'
    BY <2>1, WithinIsAnOrder DEF PagesInv, InventoryKnown
  <2> QED BY <2>1, <2>2 DEF PagesInv, RefreshesKnown, CacheKnown, Enabled, checkIdsForGroups, GroupsOf
<1>4. CASE PageEnds
  <2>1. page # None /\ page' = None /\ groups' = Tidied(page, DOMAIN groups) /\ UNCHANGED <<u, windows, cache, refreshing, writes>>
    BY <1>4 DEF PageEnds
  <2>2. /\ InventoryKnown'
        /\ \A rows : (checkIdsForGroups(GroupsOf(rows), u))' = checkIdsForGroups(GroupsOf(rows), u)
    BY <2>1, TidyingKeepsInv DEF PagesInv, InventoryKnown
  <2>3. RefreshesKnown'
    BY <2>1 DEF PagesInv, RefreshesKnown, Enabled
  <2>4. CacheKnown'
    BY <2>1, <2>2, Zenon DEF PagesInv, CacheKnown, Enabled
  <2> QED BY <2>1, <2>2, <2>3, <2>4 DEF PagesInv
<1> QED BY <1>1, <1>2, <1>3, <1>4

LEMMA WindowEdits ==
  ASSUME PagesInv, \/ \E w \in WindowIds : CreateWindow(w) \/ BulkMaintenance(w) \/ LocationMaintenance(w)
                   \/ \E w \in DOMAIN windows : PatchWindow(w) \/ EndWindow(w) \/ DeleteWindow(w)
  PROVE  PagesInv'
<1>1. \E ws : Write(ws)
  BY DEF CreateWindow, BulkMaintenance, LocationMaintenance, Shortcut, PatchWindow, EndWindow, DeleteWindow
<1> QED BY <1>1, WindowsWritten

LEMMA PagesStep == PagesInv /\ [MaintenanceNext]_mvars => PagesInv'
<1> SUFFICES ASSUME PagesInv, [MaintenanceNext]_mvars PROVE PagesInv'
  OBVIOUS
<1>1. CASE UNCHANGED mvars
  BY <1>1, RefreshMoves DEF mvars
<1>2. CASE MaintenanceNext
  <2>1. CASE RefreshStarts
    BY <2>1, RefreshBegins
  <2>2. CASE \E r \in refreshing : RefreshReadsInventory(r) \/ RefreshEnds(r) \/ RefreshFails(r)
    BY <2>2, RefreshGoesOn, RefreshIsKept
  <2>3. CASE Expires \/ TimePasses \/ PageStarts \/ PageEnds
    BY <2>3, ReadingOnly
  <2>4. CASE \/ \E w \in WindowIds : CreateWindow(w) \/ BulkMaintenance(w) \/ LocationMaintenance(w)
             \/ \E w \in DOMAIN windows : PatchWindow(w) \/ EndWindow(w) \/ DeleteWindow(w)
    BY <2>4, WindowEdits
  <2>5. CASE (\E g \in GroupIds : CreateGroup(g)) \/ \E g \in DOMAIN groups : DeleteGroup(g) \/ ChangeMembers(g)
    BY <2>5, GroupEdits
  <2>6. CASE DeleteObject \/ NewStatus \/ EnableCheck \/ MoveEndpoint \/ SetLocation
    BY <2>6, InventoryEdits
  <2> QED BY <1>2, <2>1, <2>2, <2>3, <2>4, <2>5, <2>6 DEF MaintenanceNext
<1> QED BY <1>1, <1>2

\* A window that is in effect was read with the copy, and its groups with it.
LEMMA CopyAgrees == ASSUME PagesInv PROVE EditsApply /\ ResultsAsListed
<1>1. EditsApply
  BY DEF EditsApply, NotBehind, PagesInv, CacheKnown
<1>2. ASSUME cache # None, cache.asOf = writes, NEW c \in DOMAIN u.checks PROVE isInMaintenance(c) <=> activeMaintenance(c)
  <2> DEFINE all == Enabled(windows)  now_ == {w \in all : windowIsActive(w, now)}  target == u.checks[c]
             ofAll == checkIdsForGroups(GroupsOf(all), u)  ofNow == checkIdsForGroups(GroupsOf(now_), u)
  <2>1. cache.rows = all /\ cache.groupChecks = ofAll
    BY <1>2 DEF PagesInv, CacheKnown
  <2>2. ASSUME NEW w \in now_ PROVE windowAppliesTo(w, c, target, ofAll) <=> windowAppliesTo(w, c, target, ofNow)
    <3>1. CASE w.scope = "group"
      <4>1. \A g \in w.targets : (g \in GroupsOf(all) <=> g \in DOMAIN groups) /\ (g \in GroupsOf(now_) <=> g \in DOMAIN groups)
        BY <3>1 DEF GroupsOf
      <4>2. \A g \in w.targets : (g \in DOMAIN ofAll <=> g \in DOMAIN groups) /\ (g \in DOMAIN ofNow <=> g \in DOMAIN groups)
        BY <4>1 DEF checkIdsForGroups
      <4>3. \A g \in w.targets \cap DOMAIN groups : ofAll[g] = Covered(u, groups[g]) /\ ofNow[g] = Covered(u, groups[g])
        BY <4>1 DEF checkIdsForGroups
      <4> HIDE DEF ofAll, ofNow
      <4>4. (\E g \in w.targets \cap DOMAIN ofAll : c \in ofAll[g]) <=> \E g \in w.targets \cap DOMAIN ofNow : c \in ofNow[g]
        BY <4>2, <4>3
      <4> QED BY <3>1, <4>4 DEF windowAppliesTo
    <3>2. CASE w.scope # "group"
      BY <3>2 DEF windowAppliesTo
    <3> QED BY <3>1, <3>2
  <2>3. isInMaintenance(c) <=> \E w \in all : windowAppliesTo(w, c, target, ofAll) /\ windowIsActive(w, now)
    BY <2>1, Zenon DEF isInMaintenance, InWindows
  <2>4. activeMaintenance(c) <=> \E w \in now_ : windowAppliesTo(w, c, target, ofNow) /\ windowIsActive(w, now)
    BY DEF activeMaintenance, InWindows
  <2> HIDE DEF ofAll, ofNow, target, all
  <2> QED BY <2>2, <2>3, <2>4
<1>3. ResultsAsListed
  BY <1>2 DEF ResultsAsListed, NoWriteSince
<1> QED BY <1>1, <1>3

(* Whatever is written while the copy of the windows is being read, a copy   *)
(* that is not behind holds the windows there are, a result is judged as the *)
(* lists show it, and the pages agree on the problems of a site              *)
(* (maintenance.ts, groups.ts, tree.ts).                                     *)
THEOREM PagesDoAgree == MaintenanceInit /\ [][MaintenanceNext]_mvars => []PagesAgree
<1>1. PagesInv => PagesAgree
  BY CopyAgrees, PartsAgree DEF PagesAgree, PagesInv, InventoryKnown
<1> QED BY <1>1, PagesStart, PagesStep, PTL

-----------------------------------------------------------------------------
(* Suggested checks.  ofAll set of checks is of types that may be suggested if   *)
(* every one's type is, of an endpoint's checks or of a site's.              *)
Suggestable == CheckType \ PushTypes
OfType(S, types) == \A s \in S : s.type \in types

\* What a check made here is of.
LEMMA TypeOfCheck == ASSUME NEW t, NEW c PROVE Check(t, c).type = t /\ Check(t, c).config = c
  BY DEF Check

\* The types of what is suggested.
LEMMA SuggestedTypes ==
  {"ping", "http", "tcp", "dns", "protocol", "ssl_cert", "mqtt", "snmp", "public_ip", "agent_heartbeat", "host_reboot", "host_metric", "host_change",
   "host_packages", "host_software", "host_vulnerable", "disk_forecast", "agent_services_overview", "agent_service", "agent_process", "agent_docker",
   "agent_eventlog", "agent_journal", "agent_log", "agent_hyperv", "agent_backup"} \subseteq Suggestable
  BY DEF Suggestable, CheckType, PushTypes, EngineTypes, AgentTypes, ReportTypes, OtherAgentTypes, RemoteProbeTypes, LocalTypes

\* Those of a site.
LEMMA SiteTypes == {"ping", "dns", "public_ip"} \subseteq CheckType \ (PushTypes \cup EndpointScoped)
  BY DEF CheckType, PushTypes, EndpointScoped, EngineTypes, AgentTypes, ReportTypes, OtherAgentTypes, RemoteProbeTypes, LocalTypes

\* The ways checks are made.
LEMMA MadeOfType ==
  /\ \A m : Watch(m).type \in Suggestable
  /\ \A m, items : OfType(EachOf(m, items), Suggestable)
  /\ \A log, ids : Event(log, ids).type \in Suggestable
  /\ \A p : Url(p).type \in Suggestable
  /\ \A p : \A t \in {"tcp", "protocol", "ssl_cert", "mqtt"} : Port(t, p).type \in Suggestable
  /\ \A p : Log(p).type \in Suggestable
  /\ \A w : Seen(w).type \in Suggestable
  /\ \A h, names : OfType(Services(h, names), Suggestable)
  /\ \A h, ps : \A t \in {"tcp", "protocol"} : OfType(NetPorts(h, t, ps), Suggestable)
  /\ OfType(Containers, Suggestable)
  /\ OfType(Updates, Suggestable)
<1>1. /\ \A m : Watch(m).type \in Suggestable
      /\ \A log, ids : Event(log, ids).type \in Suggestable
      /\ \A p : Url(p).type \in Suggestable
      /\ \A p : \A t \in {"tcp", "protocol", "ssl_cert", "mqtt"} : Port(t, p).type \in Suggestable
      /\ \A p : Log(p).type \in Suggestable
      /\ \A w : Seen(w).type \in Suggestable
  BY TypeOfCheck, SuggestedTypes DEF Watch, Event, Url, Port, Log, Seen
<1>2. \A m, items : OfType(EachOf(m, items), Suggestable)
  <2>1. "host_metric" \in Suggestable
    BY SuggestedTypes
  <2> QED BY <2>1, TypeOfCheck, Zenon DEF EachOf, OfType
<1>3. \A h, names : OfType(Services(h, names), Suggestable)
  <2>1. "agent_service" \in Suggestable
    BY SuggestedTypes
  <2> QED BY <2>1, TypeOfCheck, Zenon DEF Services, OfType
<1>4. \A h, ps : \A t \in {"tcp", "protocol"} : OfType(NetPorts(h, t, ps), Suggestable)
  BY <1>1 DEF NetPorts, OfType, On
<1>5. OfType(Containers, Suggestable) /\ OfType(Updates, Suggestable)
  BY TypeOfCheck, SuggestedTypes DEF Containers, Updates, OfType
<1> QED BY <1>1, <1>2, <1>3, <1>4, <1>5

\* Sets of checks, put together.
LEMMA TypesTogether ==
  /\ \A S, T, types : OfType(S, types) /\ OfType(T, types) => OfType(S \cup T, types)
  /\ \A cond, S, types : OfType(S, types) => OfType(On(cond, S), types)
  /\ \A s, types : s.type \in types => OfType({s}, types)
  /\ \A s, t, types : s.type \in types /\ t.type \in types => OfType({s, t}, types)
  /\ \A types : OfType({}, types)
  BY DEF OfType, On

\* A set of checks made with one type.
LEMMA OneType == ASSUME NEW t \in Suggestable, NEW S, \A s \in S : \E c : s = Check(t, c) PROVE OfType(S, Suggestable)
  BY TypeOfCheck DEF OfType

\* Sets of them, together.
LEMMA UnionOfType == ASSUME NEW F, NEW types, \A S \in F : OfType(S, types) PROVE OfType(UNION F, types)
  BY DEF OfType

\* A template's checks.
LEMMA TemplatesOfType == ASSUME NEW h, NEW id \in Templates PROVE OfType(TemplateChecks(h, id), Suggestable)
<1> USE MadeOfType, TypesTogether
<1>1. OfType(WebChecks(h), Suggestable)
  BY DEF WebChecks, OfType, On
<1>2. OfType(DatabaseChecks(h), Suggestable)
  <2>1. Check("agent_eventlog", [logName |-> "Application"]).type \in Suggestable
    BY TypeOfCheck, SuggestedTypes
  <2> QED BY <2>1 DEF DatabaseChecks, OfType, On
<1>3. OfType(DnsChecks(h), Suggestable)
  <2>1. Check("dns", [hostname |-> "example.com", server |-> "a"]).type \in Suggestable
    BY TypeOfCheck, SuggestedTypes
  <2> QED BY <2>1 DEF DnsChecks, OfType, On
<1>4. OfType(MailChecks(h), Suggestable) /\ OfType(FileChecks(h), Suggestable)
  BY DEF MailChecks, FileChecks
<1>5. OfType(DcChecks(h), Suggestable)
  <2>1. OfType({Check("agent_eventlog", [logName |-> l]) : l \in {"Directory Service", "DFS Replication"}}, Suggestable)
    <3>1. "agent_eventlog" \in Suggestable
      BY SuggestedTypes
    <3> QED BY <3>1, OneType, Zenon
  <2> DEFINE logs == {Check("agent_eventlog", [logName |-> l]) : l \in {"Directory Service", "DFS Replication"}}
  <2>2. DcChecks(h) = Services(h, {"NTDS", "DNS", "Netlogon", "Kdc", "W32Time", "DFSR", "ADWS"})
          \cup On(h.address, {Port("tcp", "389"), Port("tcp", "88")}) \cup logs \cup {Watch("time.offset_ms")}
    BY DEF DcChecks
  <2> HIDE DEF logs
  <2>3. OfType(logs, Suggestable)
    BY <2>1 DEF logs
  <2> QED BY <2>2, <2>3 DEF OfType, On
<1>6. OfType(HypervisorChecks(h), Suggestable) /\ OfType(DockerChecks(h), Suggestable)
  <2>1. Check("agent_hyperv", [vmName |-> "*"]).type \in Suggestable
    BY TypeOfCheck, SuggestedTypes
  <2> QED BY <2>1 DEF HypervisorChecks, DockerChecks, OfType, On
<1>7. OfType(BackupChecks(h), Suggestable) /\ OfType(PrintChecks(h), Suggestable)
  <2>1. /\ Check("agent_backup", [tool |-> "veeam"]).type \in Suggestable
        /\ Check("agent_eventlog", [logName |-> "PrintService"]).type \in Suggestable
    BY TypeOfCheck, SuggestedTypes
  <2> QED BY <2>1 DEF BackupChecks, PrintChecks, OfType, On
<1>8. OfType(Baseline, Suggestable)
  <2>1. Check("host_software", <<>>).type \in Suggestable
    BY TypeOfCheck, SuggestedTypes
  <2>2. OfType({Watch("firewall.enabled"), Seen("sessions"), Check("host_software", <<>>)}, Suggestable)
    BY <2>1 DEF OfType
  <2> QED BY <2>2 DEF Baseline
<1>9. OfType(WindowsBaseline, Suggestable) /\ OfType(LinuxBaseline, Suggestable) /\ OfType(MacBaseline, Suggestable)
  <2>1. \A ms : OfType({Watch(m) : m \in ms}, Suggestable)
    BY DEF OfType
  <2>2. \A log, all : OfType({Event(log, ids) : ids \in all}, Suggestable)
    BY DEF OfType
  <2> QED BY <1>8, <2>1, <2>2 DEF WindowsBaseline, LinuxBaseline, MacBaseline, OfType
<1> QED
  BY <1>1, <1>2, <1>3, <1>4, <1>5, <1>6, <1>7, <1>9 DEF TemplateChecks, Templates, Roles

\* An endpoint's suggestions.
LEMMA SuggestionsOfType == ASSUME NEW h PROVE OfType(SuggestChecks(h), Suggestable)
<1> USE MadeOfType, TypesTogether
<1>1. OfType(MissingCerts(existing), Suggestable)
  <2>1. "ssl_cert" \in Suggestable
    BY SuggestedTypes
  <2> QED BY <2>1, OneType, Zenon DEF MissingCerts, CertOf
<1>2. OfType(UNION {TemplateChecks(h, id) : id \in {id \in Roles : Detect(h, id)}}, Suggestable)
  BY TemplatesOfType DEF OfType, Templates
<1>3. OfType(UNION {PORT_CHECKS(p) : p \in h.ports}, Suggestable)
  <2>1. \A p : OfType(PORT_CHECKS(p), Suggestable)
    BY DEF PORT_CHECKS
  <2> QED BY <2>1 DEF OfType
<1>4. /\ \A t \in {"agent_heartbeat", "host_reboot", "agent_services_overview", "disk_forecast", "agent_docker", "agent_journal", "ping"} :
           \A c : Check(t, c).type \in Suggestable
  BY TypeOfCheck, SuggestedTypes
<1> DEFINE Processes(names, m) == {Check("agent_process", [serviceName |-> n, measure |-> m]) : n \in names}
           Events(log, all) == {Event(log, ids) : ids \in all}
<1>5. \A names, m : OfType(Processes(names, m), Suggestable)
  <2>1. "agent_process" \in Suggestable
    BY SuggestedTypes
  <2> QED BY <2>1, OneType, Zenon
<1>6. \A xs : OfType({Watch(x[2]) : x \in xs}, Suggestable) /\ OfType(UNION {EachOf(x[2], {x[1]}) : x \in xs}, Suggestable)
  <2>1. "host_metric" \in Suggestable
    BY SuggestedTypes
  <2>2. \A xs : OfType({Watch(x[2]) : x \in xs}, Suggestable)
    BY <2>1, OneType, Zenon DEF Watch
  <2>3. \A xs : OfType(UNION {EachOf(x[2], {x[1]}) : x \in xs}, Suggestable)
    <3>1. \A m, all : OfType(EachOf(m, all), Suggestable)
      BY DEF OfType
    <3> SUFFICES ASSUME NEW xs PROVE OfType(UNION {EachOf(x[2], {x[1]}) : x \in xs}, Suggestable)
      OBVIOUS
    <3> DEFINE F == {EachOf(x[2], {x[1]}) : x \in xs}
    <3>2. ASSUME NEW S \in F PROVE OfType(S, Suggestable)
      <4>1. PICK x \in xs : S = EachOf(x[2], {x[1]})
        BY <3>2
      <4> QED BY <3>1, <4>1
    <3> HIDE DEF F
    <3>3. OfType(UNION F, Suggestable)
      BY <3>2, UnionOfType
    <3> QED BY <3>3 DEF F
  <2> QED BY <2>2, <2>3
<1>7. \A log, all : OfType(Events(log, all), Suggestable)
  <2>1. "agent_eventlog" \in Suggestable
    BY SuggestedTypes
  <2> QED BY <2>1, OneType, Zenon DEF Event
\* The parts, by name.
<1> DEFINE always == {Check("agent_heartbeat", <<>>), Check("host_reboot", <<>>), Check("agent_services_overview", <<>>)}
           snapshot == {Watch(x[2]) : x \in {x \in SnapshotMetrics : x[1] \in h.snapshot}}
           items == UNION {EachOf(x[2], {x[1]}) : x \in {x \in ItemMetrics : x[1] \in h.snapshot}}
           counts == Processes(h.found \cap NOTABLE, "count")
           memory == Processes(h.found \cap DATABASE_PROCESS, "memory_mb")
           containers == Containers \cup {Check("agent_docker", [container |-> "c", measure |-> "status"])}
           events == Events("System", {"41,6008", "7031,7034", "7,11,51,153"})
           open == UNION {PORT_CHECKS(p) : p \in h.ports}
           found == UNION {TemplateChecks(h, id) : id \in {id \in Roles : Detect(h, id)}}
<1>8. SuggestChecks(h) = always \cup snapshot \cup On("load" \in h.snapshot /\ h.os # "windows", {Watch("load.5")}) \cup items
        \cup On("disk" \in h.snapshot, {Check("disk_forecast", [mount |-> "disk"])}) \cup Services(h, NOTABLE) \cup counts \cup memory
        \cup On("containers" \in h.snapshot, containers)
        \cup (IF h.os = "windows" THEN events ELSE On(h.os = "linux" \/ "load" \in h.snapshot, {Check("agent_journal", [unit |-> ""])}))
        \cup On(h.address, {Check("ping", [host |-> "a"])} \cup open) \cup On("software" \in h.snapshot, Updates) \cup MissingCerts(existing) \cup found
  BY DEF SuggestChecks
<1>9. OfType(always, Suggestable) /\ OfType(containers, Suggestable)
  BY <1>4 DEF OfType
<1>10. /\ OfType(snapshot, Suggestable) /\ OfType(items, Suggestable) /\ OfType(counts, Suggestable) /\ OfType(memory, Suggestable)
       /\ OfType(events, Suggestable) /\ OfType(open, Suggestable) /\ OfType(found, Suggestable)
  <2>1. OfType(snapshot, Suggestable) /\ OfType(items, Suggestable)
    BY <1>6, Zenon
  <2>2. OfType(counts, Suggestable) /\ OfType(memory, Suggestable)
    <3> HIDE DEF Processes
    <3> QED BY <1>5
  <2>3. OfType(events, Suggestable)
    <3> HIDE DEF Events
    <3> QED BY <1>7
  <2>4. OfType(open, Suggestable) /\ OfType(found, Suggestable)
    BY <1>2, <1>3
  <2> QED BY <2>1, <2>2, <2>3, <2>4
<1> HIDE DEF always, snapshot, items, counts, memory, containers, events, open, found
<1>11. ASSUME NEW s \in SuggestChecks(h) PROVE s.type \in Suggestable
  <2>1. \/ s \in always \cup snapshot \cup items \cup Services(h, NOTABLE) \cup counts \cup memory \cup containers
        \/ s \in events \cup open \cup Updates \cup MissingCerts(existing) \cup found
        \/ s = Watch("load.5") \/ s = Check("disk_forecast", [mount |-> "disk"])
        \/ s = Check("agent_journal", [unit |-> ""]) \/ s = Check("ping", [host |-> "a"])
    BY <1>8, <1>11 DEF On
  <2> QED BY <1>1, <1>4, <1>9, <1>10, <2>1 DEF OfType
<1> QED BY <1>11 DEF OfType

-----------------------------------------------------------------------------
\* What is kept of several: one of each key, and none of a key there is.
LEMMA UniqueIs ==
  ASSUME NEW S, NEW s \in Unique(S)
  PROVE  /\ s \in S
         /\ \A t \in existing : SuggestionKey(t) # SuggestionKey(s)
         /\ \A t \in Unique(S) : SuggestionKey(t) = SuggestionKey(s) => t = s
<1> DEFINE keys == {SuggestionKey(x) : x \in S} \ {SuggestionKey(x) : x \in existing}
           Pick(k) == CHOOSE x \in S : SuggestionKey(x) = k
<1>1. Unique(S) = {Pick(k) : k \in keys}
  BY DEF Unique
<1>2. ASSUME NEW k \in keys PROVE Pick(k) \in S /\ SuggestionKey(Pick(k)) = k
  <2>1. \E x \in S : SuggestionKey(x) = k
    OBVIOUS
  <2> QED BY <2>1
<1>3. \A k \in keys : \A t \in existing : SuggestionKey(t) # k
  OBVIOUS
<1> HIDE DEF keys, Pick
<1> QED BY <1>1, <1>2, <1>3

\* The first part of a key is the type.
LEMMA KeyHasType == ASSUME NEW s, NEW t, SuggestionKey(s) = SuggestionKey(t) PROVE s.type = t.type
  BY DEF SuggestionKey

\* Certificates are told by their port.
LEMMA KeysOfCerts ==
  ASSUME NEW p, NEW q, SuggestionKey(Check("ssl_cert", [host |-> "a", port |-> p])) = SuggestionKey(Check("ssl_cert", [host |-> "a", port |-> q]))
  PROVE  p = q
<1>1. \A x : FirstOf([host |-> "a", port |-> x], <<"port">>) = x
  <2> SUFFICES ASSUME NEW x PROVE FirstOf([host |-> "a", port |-> x], <<"port">>) = x
    OBVIOUS
  <2> DEFINE c == [host |-> "a", port |-> x]  fields == <<"port">>  I == {i \in DOMAIN fields : fields[i] \in DOMAIN c}
  <2>1. I = {1} /\ fields[1] = "port" /\ c["port"] = x
    OBVIOUS
  <2>2. (CHOOSE i \in I : \A j \in I : i <= j) = 1
    BY <2>1
  <2> HIDE DEF I
  <2> QED BY <2>1, <2>2 DEF FirstOf, I
<1>2. SuggestionKey(Check("ssl_cert", [host |-> "a", port |-> p]))[5] = FirstOf([host |-> "a", port |-> p], <<"port">>)
  BY DEF SuggestionKey, Check
<1>3. SuggestionKey(Check("ssl_cert", [host |-> "a", port |-> q]))[5] = FirstOf([host |-> "a", port |-> q], <<"port">>)
  BY DEF SuggestionKey, Check
<1> QED BY <1>1, <1>2, <1>3

\* The two checks of a printer are told by their preset.
LEMMA KeysOfPrinters ==
  SuggestionKey(Check("snmp", [host |-> "a", preset |-> "printer_supplies"])) # SuggestionKey(Check("snmp", [host |-> "a", preset |-> "printer_status"]))
<1>1. \A x : FirstOf([host |-> "a", preset |-> x], <<"eventIds", "preset", "oid">>) = x
  <2> SUFFICES ASSUME NEW x PROVE FirstOf([host |-> "a", preset |-> x], <<"eventIds", "preset", "oid">>) = x
    OBVIOUS
  <2> DEFINE c == [host |-> "a", preset |-> x]  fields == <<"eventIds", "preset", "oid">>  I == {i \in DOMAIN fields : fields[i] \in DOMAIN c}
  <2>1. I = {2} /\ fields[2] = "preset" /\ c["preset"] = x
    OBVIOUS
  <2>2. (CHOOSE i \in I : \A j \in I : i <= j) = 2
    BY <2>1
  <2> HIDE DEF I
  <2> QED BY <2>1, <2>2 DEF FirstOf, I
<1>2. \A x : SuggestionKey(Check("snmp", [host |-> "a", preset |-> x]))[6] = FirstOf([host |-> "a", preset |-> x], <<"eventIds", "preset", "oid">>)
  BY DEF SuggestionKey, Check
<1> QED BY <1>1, <1>2

\* What is suggested with a site: of other keys than what is there, and each of its own.
LEMMA SiteIsNew ==
  ASSUME NEW h, NEW s \in ForEndpoint(h)
  PROVE  /\ \A t \in existing : SuggestionKey(t) # SuggestionKey(s)
         /\ \A t \in ForEndpoint(h) : SuggestionKey(t) = SuggestionKey(s) => t = s
<1> DEFINE ping == Check("ping", [host |-> "a"])  beat == Check("agent_heartbeat", <<>>)
           printer(p) == Check("snmp", [host |-> "a", preset |-> p])
           cert(p) == Check("ssl_cert", [host |-> "a", port |-> p])
<1>1. /\ ping.type = "ping" /\ beat.type = "agent_heartbeat"
      /\ \A p : printer(p).type = "snmp" /\ cert(p).type = "ssl_cert"
  BY TypeOfCheck
<1>2. ASSUME NEW x \in ForEndpoint(h)
      PROVE  \/ x = ping /\ existing = {}
             \/ x = beat /\ NoneOf("agent_heartbeat", existing)
             \/ NoneOf("snmp", existing) /\ \E p \in {"printer_supplies", "printer_status"} : x = printer(p)
             \/ NoneOf("ssl_cert", existing) /\ \E p : x = cert(p)
  BY <1>2 DEF ForEndpoint, On, MissingCerts, CertOf, NoneOf
<1>3. printer("printer_supplies") = printer("printer_status") \/ SuggestionKey(printer("printer_supplies")) # SuggestionKey(printer("printer_status"))
  BY KeysOfPrinters
<1>4. \A p, q : SuggestionKey(cert(p)) = SuggestionKey(cert(q)) => p = q
  BY KeysOfCerts
<1> HIDE DEF ping, beat, printer, cert
<1>5. ASSUME NEW t \in existing PROVE SuggestionKey(t) # SuggestionKey(s)
  <2>1. s.type # t.type
    BY <1>1, <1>2 DEF NoneOf
  <2> QED BY <2>1, KeyHasType
<1>6. ASSUME NEW t \in ForEndpoint(h), SuggestionKey(t) = SuggestionKey(s) PROVE t = s
  <2>1. s.type = t.type
    BY <1>6, KeyHasType
  <2> QED BY <1>1, <1>2, <1>3, <1>4, <1>6, <2>1
<1> QED BY <1>5, <1>6

\* Checks of other keys than what is there, each of its own and of a type that may be
\* suggested, are added.
LEMMA AddedFit ==
  ASSUME SuggestionsFit, NEW S, NEW T, Add(S, T), OfType(S, Suggestable), OfType(T, CheckType \ (PushTypes \cup EndpointScoped)),
         \A s \in S : /\ \A t \in existing : SuggestionKey(t) # SuggestionKey(s)
                      /\ \A t \in S : SuggestionKey(t) = SuggestionKey(s) => t = s
  PROVE  SuggestionsFit'
<1>1. existing' = existing \cup S /\ siteChecks' = siteChecks \cup T
  BY DEF Add
<1>2. FitTheirPlace'
  BY <1>1 DEF SuggestionsFit, FitTheirPlace, OfType, Suggestable
<1>3. NoneTwice'
  <2>1. NoneTwice
    BY DEF SuggestionsFit
  <2> SUFFICES ASSUME NEW s \in existing \cup S, NEW t \in existing \cup S, SuggestionKey(s) = SuggestionKey(t) PROVE s = t
    BY <1>1, Zenon DEF NoneTwice
  <2> QED BY <2>1 DEF NoneTwice
<1> QED BY <1>2, <1>3 DEF SuggestionsFit

\* Every way of adding checks keeps them fit.
LEMMA SuggestionsStay == SuggestionsFit /\ [SuggestionsNext]_gvars => SuggestionsFit'
<1> SUFFICES ASSUME SuggestionsFit, [SuggestionsNext]_gvars PROVE SuggestionsFit'
  OBVIOUS
<1>1. OfType({}, CheckType \ (PushTypes \cup EndpointScoped))
  BY DEF OfType
<1>2. \A S, T : T \subseteq S /\ OfType(S, Suggestable) => OfType(T, Suggestable)
  BY DEF OfType
<1>3. CASE ApplyAll
  <2>1. Add(SuggestionsFor(host), {}) /\ OfType(SuggestionsFor(host), Suggestable)
    BY <1>2, <1>3, UniqueIs, SuggestionsOfType DEF ApplyAll, SuggestionsFor
  <2> QED BY <1>1, <2>1, UniqueIs, AddedFit DEF SuggestionsFor
<1>4. CASE ApplyTemplate
  <2>1. PICK id \in Templates : Add(TemplatesFor(host, id), {})
    BY <1>4 DEF ApplyTemplate
  <2>2. OfType(TemplatesFor(host, id), Suggestable)
    BY <1>2, UniqueIs, TemplatesOfType DEF TemplatesFor
  <2> QED BY <1>1, <2>1, <2>2, UniqueIs, AddedFit DEF TemplatesFor
<1>5. CASE ApplySite
  <2>1. OfType(ForSite(host), CheckType \ (PushTypes \cup EndpointScoped))
    BY SiteTypes, TypeOfCheck DEF OfType, ForSite, On
  <2>2. OfType(ForEndpoint(host), Suggestable)
    <3>1. OfType(MissingCerts(existing), Suggestable)
      <4>1. "ssl_cert" \in Suggestable
        BY SuggestedTypes
      <4> QED BY <4>1, OneType, Zenon DEF MissingCerts, CertOf
    <3>2. \A ps : OfType({Check("snmp", [host |-> "a", preset |-> p]) : p \in ps}, Suggestable)
      <4>1. "snmp" \in Suggestable
        BY SuggestedTypes
      <4> QED BY <4>1, OneType, Zenon
    <3>3. Check("ping", [host |-> "a"]).type \in Suggestable /\ Check("agent_heartbeat", <<>>).type \in Suggestable
      BY SuggestedTypes, TypeOfCheck
    <3> QED BY <3>1, <3>2, <3>3 DEF ForEndpoint, On, OfType
  <2> QED BY <1>5, <2>1, <2>2, SiteIsNew, AddedFit DEF ApplySite
<1>6. CASE AddOne
  <2>1. PICK s \in SuggestionsFor(host) : Add({s}, {})
    BY <1>6 DEF AddOne
  <2>2. OfType({s}, Suggestable)
    BY <1>2, <2>1, UniqueIs, SuggestionsOfType DEF SuggestionsFor
  <2>3. \A t \in existing : SuggestionKey(t) # SuggestionKey(s)
    BY UniqueIs DEF SuggestionsFor
  <2> QED BY <1>1, <2>1, <2>2, <2>3, AddedFit
<1>7. CASE UNCHANGED gvars
  BY <1>7 DEF gvars, SuggestionsFit, FitTheirPlace, NoneTwice
<1> QED BY <1>3, <1>4, <1>5, <1>6, <1>7 DEF SuggestionsNext

(* Whatever is known of an endpoint, and whatever of its suggestions, its     *)
(* templates and its site's are added, in whatever order and however often:   *)
(* each check fits the place it is added to, and none is there twice          *)
(* (suggestions.ts, roleTemplates.ts, siteSuggestions.ts).                    *)
THEOREM SuggestionsDoFit == SuggestionsInit /\ [][SuggestionsNext]_gvars => []SuggestionsFit
<1>1. SuggestionsInit => SuggestionsFit
  BY DEF SuggestionsInit, SuggestionsFit, FitTheirPlace, NoneTwice
<1> QED BY <1>1, SuggestionsStay, PTL

-----------------------------------------------------------------------------
(* What a probe returns when more and more goes wrong.                       *)
\* What an order asks.
Members(order) == {order[i] : i \in DOMAIN order}
\* What is not up.
Loud == {"warn", "unknown", "down"}
\* A question as the tables have them: its status goes with its kind.
Proper(q) ==
  /\ q.kind \in {"fault", "setup", "blind", "passed", "silent"}
  /\ q.kind \in {"fault", "setup"} => q.status \in Loud
  /\ q.kind = "blind" => q.status \in Statuses
  /\ q.kind = "passed" => q.status = "up"
  /\ q.kind = "silent" => q.status = "none"
\* What may come before something worse: WorseIsNotBetter does not speak of it.
Exempt(name, q) == q.kind \in {"setup", "blind", "silent"} \/ (q.kind = "fault" /\ <<name, q.fact>> \in Hides)
\* An answer nothing can be worse than, or that is exempt.
Settles(name, q) == Proper(q) /\ (q.status = "down" \/ Exempt(name, q))
\* An answer of the status s, or one no worse that is exempt.
Weighs(name, q, s) == Proper(q) /\ (q.status = "none" \/ (RANK[q.status] <= RANK[s] /\ (q.status = s \/ Exempt(name, q))))
\* An answer that is up, or no result at all.
LetsPass(name, q) == Proper(q) /\ q.status \in {"up", "none"}
\* Questions in an order that falls: until k they settle it, until m they are of one status,
\* and the rest let pass.
Falls(name, order, k, m, s) ==
  /\ order \in Seq(Members(order)) /\ k \in Nat /\ m \in Nat /\ s \in Loud
  /\ \A i \in DOMAIN order :
      /\ i <= k => Settles(name, order[i])
      /\ i > k /\ i <= m => Weighs(name, order[i], s)
      /\ i > m => LetsPass(name, order[i])
\* A probe whose order falls; what has parts to judge asks before only what settles it.
Orderly(name, p) ==
  /\ \E k, m, s : Falls(name, p.order, k, m, s) /\ (p.parts # {} => \A i \in DOMAIN p.order : i <= k)
  /\ \A q \in p.parts : Proper(q) /\ q.status \in Statuses

\* Of numbers, one is the least: of the intervals that end at one of them, one is the
\* smallest.
LEMMA LeastNumber == ASSUME NEW T \in SUBSET Nat, T # {} PROVE \E i \in T : \A j \in T : i <= j
<1>1. PICK n \in T : TRUE
  OBVIOUS
<1> DEFINE I == 1..n  Bad == {1..k : k \in {k \in T : k <= n}}
<1>2. IsFiniteSet(I)
  BY FS_Interval
<1>3. \A U \in Bad : U \in SUBSET I
  OBVIOUS
<1>4. I \in Bad
  BY <1>1
<1>5. \A U \in Bad : \E k \in T : k <= n /\ U = 1..k
  OBVIOUS
<1>6. \A k \in T : k <= n => 1..k \in Bad
  OBVIOUS
<1> HIDE DEF I, Bad
<1>7. Bad \subseteq FiniteSubsetsOf(I)
  BY <1>2, <1>3, FS_Subset DEF FiniteSubsetsOf
<1>8. \E U \in Bad : \A V \in Bad : <<V, U>> \notin StrictSubsetOrdering(I)
  BY <1>2, <1>4, <1>7, FS_StrictSubsetOrderingWellFounded, WFMin
<1>9. PICK U \in Bad : \A V \in Bad : V \subseteq U => V = U
  BY <1>3, <1>8 DEF StrictSubsetOrdering
<1>10. PICK i \in T : i <= n /\ U = 1..i
  BY <1>5
<1>11. ASSUME NEW j \in T, j < i PROVE FALSE
  <2>1. j <= n
    BY <1>10, <1>11
  <2>2. 1..j \in Bad /\ 1..j \subseteq 1..i /\ i \in 1..i /\ i \notin 1..j
    BY <1>6, <1>10, <1>11, <2>1
  <2> QED BY <1>9, <1>10, <2>2
<1> QED BY <1>11

\* What the parts say, and which questions are answered.
Found(p, given) == {q.status : q \in {q \in p.parts : q.fact \in given}} \union {"up"}
Asks(p, given) == {i \in DOMAIN p.order : p.order[i].fact \in given}

\* Of statuses, one is the worst.
LEMMA WorstOfSome == ASSUME NEW S \in SUBSET Statuses, S # {} PROVE LET w == CHOOSE s \in S : \A r \in S : RANK[s] >= RANK[r] IN w \in S /\ \A r \in S : RANK[w] >= RANK[r]
<1>1. \E s \in S : \A r \in S : RANK[s] >= RANK[r]
  <2>1. S \subseteq {"up", "unknown", "warn", "down"} /\ RANK["up"] = 0 /\ RANK["unknown"] = 1 /\ RANK["warn"] = 2 /\ RANK["down"] = 3
    BY DEF Statuses, RANK
  <2>2. CASE "down" \in S
    BY <2>1, <2>2
  <2>3. CASE "down" \notin S /\ "warn" \in S
    BY <2>1, <2>3
  <2>4. CASE "down" \notin S /\ "warn" \notin S /\ "unknown" \in S
    BY <2>1, <2>4
  <2>5. CASE "down" \notin S /\ "warn" \notin S /\ "unknown" \notin S
    <3>1. "up" \in S /\ \A r \in S : r = "up"
      BY <2>1, <2>5
    <3> QED BY <2>1, <3>1
  <2> QED BY <2>2, <2>3, <2>4, <2>5
<1> QED BY <1>1

\* What a probe returns is its first answer, or the worst of its parts.
LEMMA OutcomeIs ==
  ASSUME NEW name, NEW p, Orderly(name, p), NEW given
  PROVE  /\ Asks(p, given) # {} => \E i \in Asks(p, given) : (\A j \in Asks(p, given) : i <= j) /\ Outcome(p, given) = p.order[i].status
         /\ Asks(p, given) = {} => Found(p, given) \in SUBSET Statuses /\ Outcome(p, given) \in Found(p, given) /\ \A r \in Found(p, given) : RANK[Outcome(p, given)] >= RANK[r]
<1> DEFINE asked == Asks(p, given)  found == Found(p, given)
<1>1. DOMAIN p.order \in SUBSET Nat
  BY DEF Orderly, Falls
<1>2. Outcome(p, given) = IF asked # {} THEN p.order[CHOOSE i \in asked : \A j \in asked : i <= j].status ELSE CHOOSE s \in found : \A r \in found : RANK[s] >= RANK[r]
  BY Zenon DEF Outcome, Asks, Found
<1>3. found \in SUBSET Statuses /\ found # {}
  BY DEF Found, Orderly, Statuses
<1>4. asked \in SUBSET Nat
  BY <1>1 DEF Asks
<1> HIDE DEF asked, found
<1>5. CASE asked # {}
  <2>1. \E i \in asked : \A j \in asked : i <= j
    BY <1>4, <1>5, LeastNumber
  <2> DEFINE i == CHOOSE i \in asked : \A j \in asked : i <= j
  <2>2. i \in asked /\ \A j \in asked : i <= j
    BY <2>1
  <2> QED BY <1>2, <1>5, <2>2 DEF asked
<1>6. CASE asked = {}
  <2>1. Outcome(p, given) = CHOOSE s \in found : \A r \in found : RANK[s] >= RANK[r]
    BY <1>2, <1>6
  <2> QED BY <1>3, <1>6, <2>1, WorstOfSome DEF asked, found
<1> QED BY <1>5, <1>6

\* With a fault present and nothing to blind the probe, it does not return up.
LEMMA FaultIsLoud ==
  ASSUME NEW name, NEW p, Orderly(name, p), NEW given, NEW f \in Questions(p), f.kind = "fault", f.fact \in given,
         \A q \in Questions(p) : q.kind \in {"blind", "silent"} => q.fact \notin given
  PROVE  Outcome(p, given) \in Loud
<1>1. PICK k, m, s : Falls(name, p.order, k, m, s) /\ (p.parts # {} => \A i \in DOMAIN p.order : i <= k)
  BY DEF Orderly
<1>2. DOMAIN p.order \in SUBSET Nat
  BY <1>1 DEF Falls
<1>3. Proper(f)
  BY <1>1, <1>2 DEF Questions, Orderly, Falls, Settles, Weighs, LetsPass
<1>4. f.status \in Loud
  BY <1>3 DEF Proper
<1>5. CASE Asks(p, given) # {}
  <2>1. PICK i \in Asks(p, given) : (\A j \in Asks(p, given) : i <= j) /\ Outcome(p, given) = p.order[i].status
    BY <1>5, OutcomeIs
  <2> DEFINE q == p.order[i]
  <2>2. i \in DOMAIN p.order /\ q \in Questions(p) /\ q.fact \in given
    BY DEF Asks, Questions
  <2>3. q.kind \notin {"blind", "silent"}
    BY <2>2
  <2>4. i \in Nat /\ k \in Nat /\ m \in Nat
    BY <1>1, <1>2, <2>2 DEF Falls
  <2>5. CASE i > m /\ i > k
    <3>1. p.parts = {}
      BY <1>1, <2>2, <2>4, <2>5
    <3>2. PICK j \in DOMAIN p.order : f = p.order[j]
      BY <3>1 DEF Questions
    <3>3. j \in Asks(p, given) /\ j \in Nat
      BY <1>2, <3>2 DEF Asks
    <3>4. i <= j
      BY <2>1, <3>3
    <3>5. j > m
      BY <2>4, <2>5, <3>3, <3>4
    <3>6. LetsPass(name, f)
      BY <1>1, <3>2, <3>5 DEF Falls
    <3> QED BY <1>4, <3>6 DEF LetsPass, Loud
  <2>6. CASE i <= k
    <3>1. Settles(name, q)
      BY <1>1, <2>2, <2>6 DEF Falls
    <3> QED BY <2>1, <2>3, <3>1 DEF Settles, Proper, Exempt, Loud
  <2>7. CASE i > k /\ i <= m
    <3>1. Weighs(name, q, s) /\ s \in Loud
      BY <1>1, <2>2, <2>7 DEF Falls
    <3> QED BY <2>1, <2>3, <3>1 DEF Weighs, Proper, Exempt, Loud
  <2> QED BY <2>4, <2>5, <2>6, <2>7
<1>6. CASE Asks(p, given) = {}
  <2>1. f \in p.parts
    BY <1>6 DEF Questions, Asks
  <2>2. f.status \in Found(p, given)
    BY <2>1 DEF Found
  <2>3. Outcome(p, given) \in Statuses /\ RANK[Outcome(p, given)] >= RANK[f.status]
    BY <1>6, <2>2, OutcomeIs
  <2> QED BY <1>4, <2>3 DEF Loud, RANK, Statuses
<1> QED BY <1>5, <1>6

\* One more fact that is no setting, does not blind the probe and is not known to hide the
\* rest: what an orderly probe returns is no better.
LEMMA MoreIsWorse ==
  ASSUME NEW name, NEW p, Orderly(name, p), NEW given, NEW f, <<name, f>> \notin Hides,
         \A q \in Questions(p) : q.kind \in {"setup", "blind", "silent"} => q.fact # f,
         Outcome(p, given) # "none", Outcome(p, given \union {f}) # "none"
  PROVE  /\ Outcome(p, given) \in Statuses /\ Outcome(p, given \union {f}) \in Statuses
         /\ RANK[Outcome(p, given)] <= RANK[Outcome(p, given \union {f})]
<1> DEFINE all == given \union {f}  asked == Asks(p, given)  asks == Asks(p, all)  old == Outcome(p, given)  new == Outcome(p, all)
<1>1. PICK k, m, s : Falls(name, p.order, k, m, s) /\ (p.parts # {} => \A i \in DOMAIN p.order : i <= k)
  BY DEF Orderly
<1>2. DOMAIN p.order \in SUBSET Nat /\ k \in Nat /\ m \in Nat /\ s \in Loud
  BY <1>1 DEF Falls
<1>3. asked \subseteq asks /\ asks \subseteq DOMAIN p.order /\ \A i \in asks : i \in asked \/ p.order[i].fact = f
  BY DEF Asks
<1>4. \A i \in DOMAIN p.order : Proper(p.order[i]) /\ p.order[i] \in Questions(p)
  BY <1>1, <1>2 DEF Falls, Settles, Weighs, LetsPass, Questions
<1>5. \A i \in DOMAIN p.order : p.order[i].status \in Statuses \union {"none"}
  BY <1>4 DEF Proper, Loud, Statuses
<1>6. asked # {} => \E i \in asked : (\A j \in asked : i <= j) /\ old = p.order[i].status
  BY OutcomeIs
<1>7. asked = {} => Found(p, given) \in SUBSET Statuses /\ old \in Found(p, given) /\ \A r \in Found(p, given) : RANK[old] >= RANK[r]
  BY OutcomeIs
<1>8. asks # {} => \E i \in asks : (\A j \in asks : i <= j) /\ new = p.order[i].status
  BY OutcomeIs
<1>9. asks = {} => Found(p, all) \in SUBSET Statuses /\ new \in Found(p, all) /\ \A r \in Found(p, all) : RANK[new] >= RANK[r]
  BY OutcomeIs
<1>10. Found(p, given) \subseteq Found(p, all)
  BY DEF Found
<1>10a. old # "none" /\ new # "none"
  OBVIOUS
<1>10b. p.parts = {} => Found(p, given) = {"up"}
  BY DEF Found
<1> HIDE DEF asked, asks, old, new, all
<1>11. old \in Statuses /\ new \in Statuses
  BY <1>3, <1>5, <1>6, <1>7, <1>8, <1>9, <1>10a
<1>12. CASE asks = {}
  <2>1. asked = {}
    BY <1>3, <1>12
  <2> QED BY <1>7, <1>9, <1>10, <1>11, <1>12, <2>1 DEF old, new, all
<1>13. CASE asks # {}
  <2>1. PICK i \in asks : (\A j \in asks : i <= j) /\ new = p.order[i].status
    BY <1>8, <1>13
  <2> DEFINE q == p.order[i]
  <2>2. CASE i \in asked
    <3>1. PICK j \in asked : (\A l \in asked : j <= l) /\ old = p.order[j].status
      BY <1>6, <2>2
    <3>2. i <= j /\ j <= i /\ i \in Nat /\ j \in Nat
      BY <1>2, <1>3, <2>1, <2>2, <3>1
    <3>3. i = j
      BY <3>2
    <3> QED BY <1>11, <2>1, <3>1, <3>3 DEF old, new, all, RANK, Statuses
  <2>3. CASE i \notin asked
    <3>1. q.fact = f /\ Proper(q) /\ q \in Questions(p) /\ i \in Nat
      BY <1>2, <1>3, <1>4, <2>3
    <3>2. ~Exempt(name, q)
      BY <3>1 DEF Exempt, Proper
    <3>3. \A j \in asked : j > i
      <4> SUFFICES ASSUME NEW j \in asked PROVE j > i
        OBVIOUS
      <4>1. i <= j /\ j # i /\ j \in Nat
        BY <1>2, <1>3, <2>1, <2>3
      <4> QED BY <3>1, <4>1
    <3>4. CASE i <= k
      <4>1. new = "down"
        BY <1>1, <1>3, <2>1, <3>2, <3>4 DEF Falls, Settles
      <4> QED BY <1>11, <4>1 DEF RANK, Statuses, old, new, all
    <3>5. CASE i > k
      <4>1. p.parts = {}
        BY <1>1, <1>2, <1>3, <3>1, <3>5
      <4>2. CASE asked = {}
        <5>1. old = "up"
          BY <1>7, <1>10b, <4>1, <4>2
        <5> QED BY <1>11, <5>1 DEF RANK, Statuses, old, new, all
      <4>3. CASE asked # {}
        <5>1. PICK j \in asked : old = p.order[j].status
          BY <1>6, <4>3
        <5>2. j > i /\ j \in DOMAIN p.order /\ j \in Nat /\ i \in DOMAIN p.order
          BY <1>2, <1>3, <3>3
        <5>3. CASE i > m
          <6>1. j > m
            BY <1>2, <3>1, <5>2, <5>3
          <6>2. old = "up"
            BY <1>1, <1>10a, <5>1, <5>2, <6>1 DEF Falls, LetsPass
          <6> QED BY <1>11, <6>2 DEF RANK, Statuses, old, new, all
        <5>4. CASE i <= m
          <6>1. new = s
            BY <1>1, <1>10a, <2>1, <3>2, <3>5, <5>2, <5>4 DEF Falls, Weighs
          <6>2. j > k
            BY <1>2, <3>1, <3>5, <5>2
          <6>3. CASE j <= m
            <7>1. RANK[old] <= RANK[s]
              BY <1>1, <1>10a, <5>1, <5>2, <6>2, <6>3 DEF Falls, Weighs
            <7> QED BY <1>11, <6>1, <7>1 DEF old, new, all
          <6>4. CASE j > m
            <7>1. old = "up"
              BY <1>1, <1>10a, <5>1, <5>2, <6>4 DEF Falls, LetsPass
            <7> QED BY <1>11, <7>1 DEF RANK, Statuses, old, new, all
          <6> QED BY <1>2, <5>2, <6>3, <6>4
        <5> QED BY <1>2, <3>1, <5>3, <5>4
      <4> QED BY <4>2, <4>3
    <3> QED BY <1>2, <3>1, <3>4, <3>5
  <2> QED BY <2>2, <2>3
<1> QED BY <1>12, <1>13

\* What the questions of the engine's probes may do to an order.
LEMMA EngineQuestions == ASSUME NEW name, NEW f
  PROVE /\ Settles(name, E!Setup(f)) /\ Settles(name, E!Down(f)) /\ Settles(name, E!Silent(f)) /\ \A s \in Statuses : Settles(name, E!Blind(f, s))
        /\ Weighs(name, E!Warn(f), "warn") /\ \A s \in Loud : Weighs(name, E!Fault(f, s), s)
        /\ LetsPass(name, E!Passed(f)) /\ LetsPass(name, E!Silent(f)) /\ LetsPass(name, E!Blind(f, "up"))
<1>1. Settles(name, E!Setup(f)) /\ Settles(name, E!Silent(f)) /\ \A s \in Statuses : Settles(name, E!Blind(f, s))
  BY DEF E!Setup, E!Silent, E!Blind, Settles, Proper, Exempt, Loud
<1>2. Settles(name, E!Down(f)) /\ Weighs(name, E!Warn(f), "warn") /\ \A s \in Loud : Weighs(name, E!Fault(f, s), s)
  BY DEF E!Down, E!Warn, E!Fault, Settles, Weighs, Proper, Loud, RANK
<1>3. LetsPass(name, E!Passed(f)) /\ LetsPass(name, E!Silent(f)) /\ LetsPass(name, E!Blind(f, "up"))
  BY DEF E!Silent, E!Passed, E!Blind, LetsPass, Proper, Statuses
<1> QED BY <1>1, <1>2, <1>3

\* Where an early return is known to hide the rest, a warning may come first.
LEMMA Hidden == ASSUME NEW name, NEW f, <<name, f>> \in Hides PROVE Settles(name, E!Warn(f)) /\ Settles(name, A!Warn(f))
  BY DEF E!Warn, E!Fault, A!Warn, A!Fault, Settles, Proper, Exempt, Loud

\* How the probes of the tables are orderly: with questions only, or with parts to judge.
Good(x) == Orderly(x.name, x.of)
Straight(name, p, k, m, s) == p.parts = {} /\ Falls(name, p.order, k, m, s)
Mixed(name, p, n) ==
  /\ Falls(name, p.order, n, n, "down") /\ \A i \in DOMAIN p.order : i <= n
  /\ \A q \in p.parts : Proper(q) /\ q.status \in Statuses

\* Both are orderly.
LEMMA StraightIsGood == ASSUME NEW name, NEW p, NEW k, NEW m, NEW s, Straight(name, p, k, m, s) PROVE Good(Named(name, p))
  BY DEF Straight, Good, Named, Orderly
\* So is one with parts.
LEMMA MixedIsGood == ASSUME NEW name, NEW p, NEW n, Mixed(name, p, n) PROVE Good(Named(name, p))
  BY DEF Mixed, Good, Named, Orderly

\* An order may come behind questions that settle it.
LEMMA Behind ==
  ASSUME NEW name, NEW a, a \in Seq(Members(a)), \A i \in DOMAIN a : Settles(name, a[i]), NEW b, NEW k, NEW m, NEW s, Falls(name, b, k, m, s)
  PROVE  Falls(name, a \o b, Len(a) + k, Len(a) + m, s)
<1> DEFINE c == a \o b  n == Len(a)
<1>1. b \in Seq(Members(b)) /\ k \in Nat /\ m \in Nat /\ s \in Loud
  BY DEF Falls
<1>2. a \in Seq(Members(a) \union Members(b)) /\ b \in Seq(Members(a) \union Members(b))
  BY <1>1
<1>3. /\ c \in Seq(Members(a) \union Members(b)) /\ n \in Nat /\ Len(b) \in Nat /\ DOMAIN a = 1..n /\ DOMAIN b = 1..Len(b) /\ DOMAIN c = 1..(n + Len(b))
      /\ \A i \in 1..n : c[i] = a[i]
      /\ \A i \in DOMAIN c : i > n => c[i] = b[i - n]
  BY <1>2
<1> HIDE DEF c, n
<1>4. c \in Seq(Members(c))
  <2>1. Len(c) \in Nat /\ DOMAIN c = 1..Len(c) /\ c = [i \in DOMAIN c |-> c[i]]
    BY <1>3
  <2>2. \A i \in DOMAIN c : c[i] \in Members(c)
    BY DEF Members
  <2> QED BY <2>1, <2>2
<1>5. ASSUME NEW i \in DOMAIN c
      PROVE  /\ i <= n + k => Settles(name, c[i])
             /\ i > n + k /\ i <= n + m => Weighs(name, c[i], s)
             /\ i > n + m => LetsPass(name, c[i])
  <2>1. CASE i <= n
    <3>1. i \in 1..n
      BY <1>3, <2>1
    <3> QED BY <1>1, <1>3, <2>1, <3>1
  <2>2. CASE i > n
    <3>1. i - n \in DOMAIN b /\ c[i] = b[i - n] /\ i \in Nat
      BY <1>3, <2>2
    <3>2. (i <= n + k => i - n <= k) /\ (i > n + k => i - n > k) /\ (i <= n + m => i - n <= m) /\ (i > n + m => i - n > m)
      BY <1>1, <1>3, <3>1
    <3> QED BY <3>1, <3>2 DEF Falls
  <2> QED BY <1>3, <2>1, <2>2
<1> QED BY <1>1, <1>3, <1>4, <1>5 DEF Falls, c, n

\* The probes of basic.ts.
LEMMA BasicProbes ==
  /\ Straight("ping", E!ProbePing, 3, 4, "warn") /\ Straight("tcp", E!ProbeTcp, 3, 3, "warn") /\ Straight("dns", E!ProbeDns, 6, 6, "warn")
  /\ Straight("ssl_cert", E!ProbeSslCert, 7, 9, "warn")
  BY EngineQuestions DEF Straight, Falls, Members, E!InOrder, E!ProbePing, E!ProbeTcp, E!ProbeDns, E!ProbeSslCert, Loud, Statuses

\* httpProbe says the redirects are too many before it looks at the JSON.
LEMMA HttpProbe == Straight("http", E!ProbeHttp, 12, 12, "warn")
<1>1. <<"http", "tooManyRedirects">> \in Hides
  BY DEF Hides
<1> QED BY <1>1, Hidden, EngineQuestions DEF Straight, Falls, Members, E!InOrder, E!ProbeHttp, E!HttpRequest, Loud, Statuses

\* The probes of protocols.ts with nothing out of order.
LEMMA Protocols ==
  /\ Straight("udp", E!ProbeUdp, 3, 3, "warn") /\ Straight("dhcp", E!ProbeDhcp, 2, 2, "warn") /\ Straight("mqtt", E!ProbeMqtt, 4, 4, "warn")
  /\ Straight("websocket", E!ProbeWebsocket, 3, 3, "warn") /\ Straight("grpc", E!ProbeGrpc, 3, 3, "warn")
  /\ Straight("docker_registry", E!ProbeDockerRegistry, 4, 4, "warn") /\ Straight("arp_presence", E!ProbeArp, 4, 4, "warn")
  BY EngineQuestions DEF Straight, Falls, Members, E!InOrder, E!ProbeUdp, E!ProbeDhcp, E!ProbeMqtt, E!ProbeWebsocket, E!ProbeGrpc, E!ProbeDockerRegistry, E!ProbeArp, Loud, Statuses

\* The stratum is judged before the offset.
LEMMA NtpProbe == Straight("ntp", E!ProbeNtp, 6, 7, "warn")
<1>1. <<"ntp", "stratumTooHigh">> \in Hides
  BY DEF Hides
<1> QED BY <1>1, Hidden, EngineQuestions DEF Straight, Falls, Members, E!InOrder, E!ProbeNtp, Loud, Statuses

\* Every greeting; of imap a missing STARTTLS comes before the reply is matched.
LEMMA GreetingProbes == \A p \in DOMAIN E!Greeting : Good(Named(p, E!ProbeProtocol(p)))
<1> USE Hidden, EngineQuestions DEF Straight, Falls, Members, E!InOrder, E!ProbeProtocol, Loud, Statuses
<1>1. <<"imap", "noStartTls">> \in Hides
  BY DEF Hides
<1>2. Straight("smtp", E!ProbeProtocol("smtp"), 6, 6, "warn")
  <2>1. E!Greeting["smtp"] = <<E!Down("otherGreeting"), E!Down("noStartTls")>>
    BY DEF E!Greeting
  <2> QED BY <2>1
<1>3. Straight("imap", E!ProbeProtocol("imap"), 6, 6, "warn")
  <2>1. E!Greeting["imap"] = <<E!Down("otherGreeting"), E!Warn("noStartTls")>>
    BY DEF E!Greeting
  <2> QED BY <1>1, <2>1
<1>4. Straight("pop3", E!ProbeProtocol("pop3"), 5, 5, "warn")
  <2>1. E!Greeting["pop3"] = <<E!Down("otherGreeting")>>
    BY DEF E!Greeting
  <2> QED BY <2>1
<1>5. Straight("ldap", E!ProbeProtocol("ldap"), 6, 6, "warn")
  <2>1. E!Greeting["ldap"] = <<E!Down("noBindResponse"), E!Down("bindFails")>>
    BY DEF E!Greeting
  <2> QED BY <2>1
<1>6. Straight("unknownProtocol", E!ProbeProtocol("unknownProtocol"), 5, 5, "warn")
  <2>1. E!Greeting["unknownProtocol"] = <<E!Setup("unknownProtocol")>>
    BY DEF E!Greeting
  <2> QED BY <2>1
<1>7. DOMAIN E!Greeting = {"smtp", "imap", "pop3", "ldap", "unknownProtocol"}
  BY DEF E!Greeting
<1> HIDE DEF Straight
<1> QED BY ZenonT(40), <1>2, <1>3, <1>4, <1>5, <1>6, <1>7, StraightIsGood

\* The probes of services.ts.
LEMMA ServiceProbes ==
  /\ Straight("email_roundtrip", E!ProbeEmailRoundtrip, 4, 4, "warn") /\ Straight("browser", E!ProbeBrowser, 7, 8, "warn")
  /\ Straight("domain_expiry", E!ProbeDomainExpiry, 8, 9, "warn")
<1>1. Straight("email_roundtrip", E!ProbeEmailRoundtrip, 4, 4, "warn")
  BY EngineQuestions DEF Straight, Falls, Members, E!InOrder, E!ProbeEmailRoundtrip, Loud, Statuses
<1>2. Straight("browser", E!ProbeBrowser, 7, 8, "warn")
  BY EngineQuestions DEF Straight, Falls, Members, E!InOrder, E!ProbeBrowser, Loud, Statuses
<1>3. Straight("domain_expiry", E!ProbeDomainExpiry, 8, 9, "warn")
  BY EngineQuestions DEF Straight, Falls, Members, E!InOrder, E!ProbeDomainExpiry, Loud, Statuses
<1> QED BY <1>1, <1>2, <1>3

\* Those with a severity the user has set.
LEMMA SeverityProbes == ASSUME NEW s \in Severities PROVE
  /\ Straight("traceroute", E!ProbeTraceroute(s), 6, 7, s) /\ Straight("public_ip", E!ProbePublicIp(s), 3, 4, s)
  /\ Straight("event_match", E!ProbeEventMatch(s), 1, 2, s) /\ Straight("agent_heartbeat", E!ProbeAgentHeartbeat(s), 2, 3, s)
  /\ Straight("ip_change", E!ProbeIpChange(s), 2, 3, s) /\ Straight("dns_zone", E!ProbeDnsZone(s), 4, 5, s)
<1> USE EngineQuestions DEF Straight, Falls, Members, E!InOrder, Loud, Statuses, Severities
<1>1. Straight("traceroute", E!ProbeTraceroute(s), 6, 7, s)
  BY DEF E!ProbeTraceroute
<1>2. Straight("public_ip", E!ProbePublicIp(s), 3, 4, s)
  BY DEF E!ProbePublicIp
<1>3. Straight("event_match", E!ProbeEventMatch(s), 1, 2, s)
  BY DEF E!ProbeEventMatch
<1>4. Straight("agent_heartbeat", E!ProbeAgentHeartbeat(s), 2, 3, s)
  BY DEF E!ProbeAgentHeartbeat
<1>5. Straight("ip_change", E!ProbeIpChange(s), 2, 3, s)
  BY DEF E!ProbeIpChange
<1>6. Straight("dns_zone", E!ProbeDnsZone(s), 4, 5, s)
  BY DEF E!ProbeDnsZone
<1> QED BY <1>1, <1>2, <1>3, <1>4, <1>5, <1>6

\* What the parts of a device may be.
LEMMA EngineParts == ASSUME NEW f PROVE
  /\ \A s \in Loud : Proper(E!Fault(f, s)) /\ E!Fault(f, s).status \in Statuses
  /\ Proper(E!Down(f)) /\ E!Down(f).status \in Statuses /\ Proper(E!Warn(f)) /\ E!Warn(f).status \in Statuses
  /\ Proper(E!Unknown(f)) /\ E!Unknown(f).status \in Statuses /\ Proper(E!Passed(f)) /\ E!Passed(f).status \in Statuses
  BY DEF Proper, Loud, Statuses, E!Fault, E!Down, E!Warn, E!Unknown, E!Passed

\* The probes that judge parts.
LEMMA DeviceProbes == ASSUME NEW s \in Severities PROVE
  /\ Mixed("redfish", E!ProbeRedfish, 2) /\ Mixed("host_vulnerable", E!ProbeVulnerable(s), 2) /\ Mixed("snmp_interfaces", E!ProbeSnmpInterfaces(s), 5)
<1> USE EngineQuestions, EngineParts DEF Mixed, Falls, Members, Loud, Statuses, Severities
<1>1. Mixed("redfish", E!ProbeRedfish, 2)
  BY DEF E!ProbeRedfish
<1>2. Mixed("host_vulnerable", E!ProbeVulnerable(s), 2)
  BY DEF E!ProbeVulnerable
<1>3. Mixed("snmp_interfaces", E!ProbeSnmpInterfaces(s), 5)
  BY DEF E!ProbeSnmpInterfaces
<1> QED BY <1>1, <1>2, <1>3

\* The probes of apps.ts, infra.ts and internal.ts, and calculated.ts.
LEMMA InternalProbes ==
  /\ Straight("prometheus", E!ProbePrometheus, 4, 4, "warn") /\ Straight("webserver_status", E!ProbeWebserverStatus, 4, 4, "warn")
  /\ Straight("ipmi", E!ProbeIpmi, 5, 6, "warn") /\ Straight("anomaly", E!ProbeAnomaly, 4, 5, "warn")
  /\ Straight("push_value", E!ProbePushStaleness, 1, 1, "warn") /\ Straight("disk_forecast", E!ProbeDiskForecast, 4, 5, "warn")
  /\ Straight("calculated", E!ProbeCalculated, 5, 6, "warn")
<1> USE EngineQuestions DEF Straight, Falls, Members, E!InOrder, Loud, Statuses
<1>1. Straight("prometheus", E!ProbePrometheus, 4, 4, "warn")
  BY DEF E!ProbePrometheus
<1>2. Straight("webserver_status", E!ProbeWebserverStatus, 4, 4, "warn")
  BY DEF E!ProbeWebserverStatus
<1>3. Straight("ipmi", E!ProbeIpmi, 5, 6, "warn")
  BY DEF E!ProbeIpmi
<1>4. Straight("anomaly", E!ProbeAnomaly, 4, 5, "warn")
  BY DEF E!ProbeAnomaly
<1>5. Straight("push_value", E!ProbePushStaleness, 1, 1, "warn")
  BY DEF E!ProbePushStaleness
<1>6. Straight("disk_forecast", E!ProbeDiskForecast, 4, 5, "warn")
  BY DEF E!ProbeDiskForecast
<1>7. Straight("calculated", E!ProbeCalculated, 5, 6, "warn")
  BY DEF E!ProbeCalculated
<1> QED BY <1>1, <1>2, <1>3, <1>4, <1>5, <1>6, <1>7

\* Every engine and metric of the database check.
LEMMA DatabaseProbes == ASSUME NEW e \in DOMAIN E!DbMetrics, NEW m PROVE \E k \in {2, 3} : Straight("database", E!ProbeDatabase(e, m), k, k, "warn")
<1> USE EngineQuestions DEF Straight, Falls, Members, E!InOrder, Loud, Statuses, E!ProbeDatabase
<1>1. CASE m = "connect"
  <2>1. Straight("database", E!ProbeDatabase(e, m), 2, 2, "warn")
    BY <1>1
  <2> QED BY <2>1
<1>2. CASE m # "connect" /\ m \in E!DbMetrics[e]
  <2>1. Straight("database", E!ProbeDatabase(e, m), 3, 3, "warn")
    BY <1>2
  <2> QED BY <2>1
<1>3. CASE m # "connect" /\ m \notin E!DbMetrics[e]
  <2>1. Straight("database", E!ProbeDatabase(e, m), 3, 3, "warn")
    BY <1>3
  <2> QED BY <2>1
<1> QED BY <1>1, <1>2, <1>3

\* InOrder keeps its questions and has no parts.
LEMMA EngineInOrder == ASSUME NEW q PROVE E!InOrder(q).order = q /\ E!InOrder(q).parts = {}
  BY DEF E!InOrder

\* The tables of what is integrated.
LEMMA AppProbes == \A x \in Each("app_integration", E!ProbeAppIntegration) : Good(x)
<1> DEFINE table == E!ProbeAppIntegration
<1>1. Straight("app_integration", table.nextcloud, 2, 5, "warn")
  BY EngineInOrder, EngineQuestions, SMTT(30) DEF Straight, Falls, Members, Loud, Statuses, E!ProbeAppIntegration
<1>2. Straight("app_integration", table.home_assistant, 4, 4, "warn")
  BY EngineInOrder, EngineQuestions, SMTT(30) DEF Straight, Falls, Members, Loud, Statuses, E!ProbeAppIntegration
<1>3. Straight("app_integration", table.streams, 2, 2, "warn")
  BY EngineInOrder, EngineQuestions, SMTT(30) DEF Straight, Falls, Members, Loud, Statuses, E!ProbeAppIntegration
<1>4. Straight("app_integration", table.pihole, 3, 3, "warn")
  BY EngineInOrder, EngineQuestions, SMTT(30) DEF Straight, Falls, Members, Loud, Statuses, E!ProbeAppIntegration
<1>5. Straight("app_integration", table.custom_json, 2, 2, "warn")
  BY EngineInOrder, EngineQuestions, SMTT(30) DEF Straight, Falls, Members, Loud, Statuses, E!ProbeAppIntegration
<1>6. Straight("app_integration", table.unknownApp, 1, 1, "warn")
  BY EngineInOrder, EngineQuestions, SMTT(30) DEF Straight, Falls, Members, Loud, Statuses, E!ProbeAppIntegration
<1>7. DOMAIN table = {"nextcloud", "home_assistant", "streams", "pihole", "custom_json", "unknownApp"}
  BY DEF E!ProbeAppIntegration
<1> HIDE DEF table
<1>8. \A k \in DOMAIN table : Good(Named("app_integration", table[k]))
  BY Zenon, <1>1, <1>2, <1>3, <1>4, <1>5, <1>6, <1>7, StraightIsGood
<1> QED BY Zenon, <1>8 DEF Each, table

\* Every target of Proxmox.
LEMMA ProxmoxProbes == \A x \in Each("proxmox", E!ProbeProxmox) : Good(x)
<1> DEFINE table == E!ProbeProxmox
<1>1. Straight("proxmox", table.cluster, 4, 4, "warn")
  BY EngineInOrder, EngineQuestions, SMTT(30) DEF Straight, Falls, Members, Loud, Statuses, E!ProbeProxmox
<1>2. Straight("proxmox", table.node, 4, 4, "warn")
  BY EngineInOrder, EngineQuestions, SMTT(30) DEF Straight, Falls, Members, Loud, Statuses, E!ProbeProxmox
<1>3. Straight("proxmox", table.all_vms, 2, 2, "warn")
  BY EngineInOrder, EngineQuestions, SMTT(30) DEF Straight, Falls, Members, Loud, Statuses, E!ProbeProxmox
<1>4. Straight("proxmox", table.vm, 4, 4, "warn")
  BY EngineInOrder, EngineQuestions, SMTT(30) DEF Straight, Falls, Members, Loud, Statuses, E!ProbeProxmox
<1>5. Straight("proxmox", table.storage, 4, 4, "warn")
  BY EngineInOrder, EngineQuestions, SMTT(30) DEF Straight, Falls, Members, Loud, Statuses, E!ProbeProxmox
<1>6. Straight("proxmox", table.backups, 5, 5, "warn")
  BY EngineInOrder, EngineQuestions, SMTT(30) DEF Straight, Falls, Members, Loud, Statuses, E!ProbeProxmox
<1>7. Straight("proxmox", table.unknownTarget, 2, 2, "warn")
  BY EngineInOrder, EngineQuestions, SMTT(30) DEF Straight, Falls, Members, Loud, Statuses, E!ProbeProxmox
<1>8. DOMAIN table = {"cluster", "node", "all_vms", "vm", "storage", "backups", "unknownTarget"}
  BY DEF E!ProbeProxmox
<1> HIDE DEF table
<1>9. \A k \in DOMAIN table : Good(Named("proxmox", table[k]))
  BY Zenon, <1>1, <1>2, <1>3, <1>4, <1>5, <1>6, <1>7, <1>8, StraightIsGood
<1> QED BY Zenon, <1>9 DEF Each, table

\* Every target of VMware; a host is judged by its parts.
LEMMA VmwareProbes == \A x \in Each("vmware", E!ProbeVmware) : Good(x)
<1> DEFINE table == E!ProbeVmware
<1>1. Straight("vmware", table.all_vms, 3, 3, "warn")
  BY EngineInOrder, EngineQuestions, SMTT(30) DEF Straight, Falls, Members, Loud, Statuses, E!ProbeVmware
<1>2. Straight("vmware", table.vm, 4, 4, "warn")
  BY EngineInOrder, EngineQuestions, SMTT(30) DEF Straight, Falls, Members, Loud, Statuses, E!ProbeVmware
<1>3. Straight("vmware", table.datastore, 4, 4, "warn")
  BY EngineInOrder, EngineQuestions, SMTT(30) DEF Straight, Falls, Members, Loud, Statuses, E!ProbeVmware
<1>4. Mixed("vmware", table.host, 3)
  <2>1. Falls("vmware", table.host.order, 3, 3, "down") /\ \A i \in DOMAIN table.host.order : i <= 3
    BY EngineQuestions, SMTT(60) DEF Falls, Members, Loud, Statuses, E!ProbeVmware
  <2>2. \A q \in table.host.parts : Proper(q) /\ q.status \in Statuses
    BY EngineParts, SMTT(60) DEF E!ProbeVmware
  <2> QED BY <2>1, <2>2 DEF Mixed
<1>5. DOMAIN table = {"all_vms", "vm", "datastore", "host"}
  BY DEF E!ProbeVmware
<1> HIDE DEF table
<1>6. \A k \in DOMAIN table : Good(Named("vmware", table[k]))
  BY Zenon, <1>1, <1>2, <1>3, <1>4, <1>5, StraightIsGood, MixedIsGood
<1> QED BY Zenon, <1>6 DEF Each, table

\* A reading of snmp.ts: what it asks before it has a value settles it, what it says of the
\* value falls.
Final(name, a) == a \in Seq(Members(a)) /\ \A i \in DOMAIN a : Settles(name, a[i])
Last(name, b) == \E k, m, s : Falls(name, b, k, m, s)
Readable(name, r) == r \in [{"unread", "judged"} -> {r.unread, r.judged}] /\ Final(name, r.unread) /\ Last(name, r.judged)

\* Such orders one behind the other.
LEMMA FinalThenLast == ASSUME NEW name, NEW a, NEW b, Final(name, a), Last(name, b) PROVE Last(name, a \o b)
<1>1. PICK k, m, s : Falls(name, b, k, m, s)
  BY DEF Last
<1>2. Falls(name, a \o b, Len(a) + k, Len(a) + m, s)
  BY <1>1, Behind DEF Final
<1> QED BY <1>2 DEF Last

\* Questions that settle it, twice.
LEMMA FinalThenFinal == ASSUME NEW name, NEW a, NEW b, Final(name, a), Final(name, b) PROVE Final(name, a \o b)
<1>0. Len(b) \in Nat /\ "warn" \in Loud /\ DOMAIN b = 1..Len(b)
  BY DEF Final, Loud
<1>1. Falls(name, b, Len(b), Len(b), "warn")
  BY <1>0 DEF Falls, Final
<1>2. Falls(name, a \o b, Len(a) + Len(b), Len(a) + Len(b), "warn")
  BY <1>1, Behind DEF Final
<1>3. DOMAIN (a \o b) = 1..(Len(a) + Len(b))
  BY DEF Final
<1>4. Len(a) \in Nat
  BY DEF Final
<1> QED BY <1>0, <1>2, <1>3, <1>4 DEF Falls, Final

\* Every reading and preset is such a reading.
LEMMA WhatSnmpReads == ASSUME NEW name PROVE
  /\ Readable(name, E!SnmpGet) /\ Readable(name, E!WalkCheck)
  /\ \A k \in DOMAIN E!SNMP_PRESETS : Readable(name, E!SNMP_PRESETS[k])
<1> DEFINE table == E!SNMP_PRESETS
<1>0. Last(name, <<>>)
  <2>1. Falls(name, <<>>, 0, 0, "warn")
    BY DEF Falls, Members, Loud
  <2> QED BY <2>1 DEF Last
<1>1. Readable(name, E!SnmpGet)
  BY <1>0, EngineQuestions, SMTT(30) DEF Readable, Final, Members, E!SnmpGet, Statuses
<1>2. Readable(name, E!WalkCheck)
  BY <1>0, EngineQuestions, SMTT(30) DEF Readable, Final, Members, E!WalkCheck, Statuses
<1>3. Readable(name, table.tables)
  BY <1>0, EngineQuestions, SMTT(30) DEF Readable, Final, Members, E!SNMP_PRESETS, Statuses
<1>4. Readable(name, table.printer_status)
  <2>1. Falls(name, table.printer_status.judged, 1, 2, "warn")
    BY EngineQuestions, SMTT(90) DEF Falls, Members, E!SNMP_PRESETS, Loud, Statuses
  <2>2. Last(name, table.printer_status.judged)
    BY Zenon, <2>1 DEF Last
  <2> QED BY <2>2, EngineQuestions, SMTT(30) DEF Readable, Final, Members, E!SNMP_PRESETS, Statuses
<1>5. Readable(name, table.printer_jobs)
  <2>1. Falls(name, table.printer_jobs.judged, 0, 1, "warn")
    BY EngineQuestions, SMTT(90) DEF Falls, Members, E!SNMP_PRESETS, Loud, Statuses
  <2>2. Last(name, table.printer_jobs.judged)
    BY Zenon, <2>1 DEF Last
  <2> QED BY <2>2, EngineQuestions, SMTT(30) DEF Readable, Final, Members, E!SNMP_PRESETS, Statuses
<1>6. Readable(name, table.ups)
  <2>1. Falls(name, table.ups.judged, 1, 1, "warn")
    BY EngineQuestions, SMTT(90) DEF Falls, Members, E!SNMP_PRESETS, Loud, Statuses
  <2>2. Last(name, table.ups.judged)
    BY Zenon, <2>1 DEF Last
  <2> QED BY <2>2, EngineQuestions, SMTT(30) DEF Readable, Final, Members, E!SNMP_PRESETS, Statuses
<1>7. Readable(name, table.ups_on_battery)
  <2>1. Falls(name, table.ups_on_battery.judged, 2, 3, "warn")
    BY EngineQuestions, SMTT(90) DEF Falls, Members, E!SNMP_PRESETS, Loud, Statuses
  <2>2. Last(name, table.ups_on_battery.judged)
    BY Zenon, <2>1 DEF Last
  <2> QED BY <2>2, EngineQuestions, SMTT(30) DEF Readable, Final, Members, E!SNMP_PRESETS, Statuses
<1>8. Readable(name, table.uptime_reboot)
  <2>1. Falls(name, table.uptime_reboot.judged, 1, 2, "warn")
    BY EngineQuestions, SMTT(90) DEF Falls, Members, E!SNMP_PRESETS, Loud, Statuses
  <2>2. Last(name, table.uptime_reboot.judged)
    BY Zenon, <2>1 DEF Last
  <2> QED BY <2>2, EngineQuestions, SMTT(30) DEF Readable, Final, Members, E!SNMP_PRESETS, Statuses
<1>9. Readable(name, table.unknownPreset)
  BY <1>0, EngineQuestions, SMTT(30) DEF Readable, Final, Members, E!SNMP_PRESETS, Statuses
<1>10. DOMAIN table = {"tables", "printer_status", "printer_jobs", "ups", "ups_on_battery", "uptime_reboot", "unknownPreset"}
  BY DEF E!SNMP_PRESETS
<1> HIDE DEF table
<1>11. \A k \in DOMAIN table : Readable(name, table[k])
  BY Zenon, <1>3, <1>4, <1>5, <1>6, <1>7, <1>8, <1>9, <1>10
<1> QED BY Zenon, <1>1, <1>2, <1>11 DEF table

\* The same with the session before it.
LEMMA SnmpIsRead == ASSUME NEW name, NEW reads \in {"get", "walk"} \union DOMAIN E!SNMP_PRESETS
  PROVE Final(name, E!ReadSnmp(reads).unread) /\ Last(name, E!ReadSnmp(reads).judged)
<1> DEFINE r == CASE reads = "get" -> E!SnmpGet [] reads = "walk" -> E!WalkCheck [] OTHER -> E!SNMP_PRESETS[reads]
           session == <<E!Setup("noHost"), E!Down("noSession")>>
<1>1. Readable(name, r)
  BY WhatSnmpReads
<1>2. Final(name, session)
  BY EngineQuestions DEF Final, Members
<1>3. E!ReadSnmp(reads) = [r EXCEPT !.unread = session \o @]
  BY Zenon DEF E!ReadSnmp
<1> HIDE DEF r, session
<1>4. E!ReadSnmp(reads).unread = session \o r.unread /\ E!ReadSnmp(reads).judged = r.judged
  BY <1>1, <1>3 DEF Readable
<1> QED BY <1>1, <1>2, <1>4, FinalThenFinal DEF Readable

\* A probe with such an order is orderly.
LEMMA LastIsGood == ASSUME NEW name, NEW order, Last(name, order) PROVE Good(Named(name, E!InOrder(order)))
  BY DEF Last, Good, Named, Orderly, E!InOrder

\* Every reading of the SNMP check, calculated or not.
LEMMA SnmpProbes == ASSUME NEW reads \in {"get", "walk"} \union DOMAIN E!SNMP_PRESETS, NEW c \in BOOLEAN
  PROVE Good(Named(IF c THEN "snmp_calculated" ELSE "snmp", E!ProbeSnmp(reads, c)))
<1> DEFINE name == IF c THEN "snmp_calculated" ELSE "snmp"  unread == E!ReadSnmp(reads).unread  says == E!ReadSnmp(reads).judged
           first == <<E!Setup("badExtraOids")>>
           extra == <<E!Blind("referenceMissing", "unknown"), E!Down("extraOidFails"), E!Silent("noExtraRateYet"), E!Warn("calculationFails")>>
<1>1. Final(name, unread) /\ Last(name, says)
  BY SnmpIsRead
<1>2. CASE c
  <2>1. E!ProbeSnmp(reads, c) = E!InOrder(first \o unread \o extra \o says)
    BY Zenon, <1>2 DEF E!ProbeSnmp
  <2>2. Final(name, first)
    BY EngineQuestions DEF Final, Members
  <2>3. <<name, "calculationFails">> \in Hides
    BY <1>2 DEF Hides
  <2>4. Final(name, extra)
    BY <2>3, Hidden, EngineQuestions DEF Final, Members, Statuses
  <2> HIDE DEF name, unread, says, first, extra
  <2>5. Final(name, first \o unread)
    BY <1>1, <2>2, FinalThenFinal
  <2>6. Final(name, first \o unread \o extra)
    BY <2>4, <2>5, FinalThenFinal
  <2>7. Last(name, first \o unread \o extra \o says)
    BY <1>1, <2>6, FinalThenLast
  <2> QED BY <2>1, <2>7, LastIsGood DEF name
<1>3. CASE ~c
  <2>1. E!ProbeSnmp(reads, c) = E!InOrder(unread \o says)
    BY Zenon, <1>3 DEF E!ProbeSnmp
  <2> HIDE DEF unread, says, name
  <2>2. Last(name, unread \o says)
    BY <1>1, FinalThenLast
  <2> QED BY <2>1, <2>2, LastIsGood DEF name
<1> QED BY <1>2, <1>3

\* What the questions of the agent's checks may do to an order.
LEMMA AgentQuestions == ASSUME NEW name, NEW f
  PROVE /\ Settles(name, A!Setup(f)) /\ Settles(name, A!Unset(f)) /\ Settles(name, A!Down(f)) /\ Settles(name, A!Silent(f))
        /\ \A s \in Statuses : Settles(name, A!Blind(f, s))
        /\ Weighs(name, A!Warn(f), "warn") /\ \A s \in Loud : Weighs(name, A!Fault(f, s), s)
        /\ LetsPass(name, A!Passed(f))
<1>1. Settles(name, A!Setup(f)) /\ Settles(name, A!Unset(f)) /\ Settles(name, A!Silent(f)) /\ \A s \in Statuses : Settles(name, A!Blind(f, s))
  BY DEF A!Setup, A!Unset, A!Silent, A!Blind, Settles, Proper, Exempt, Loud
<1>2. Settles(name, A!Down(f)) /\ Weighs(name, A!Warn(f), "warn") /\ \A s \in Loud : Weighs(name, A!Fault(f, s), s)
  BY DEF A!Down, A!Warn, A!Fault, Settles, Weighs, Proper, Loud, RANK
<1>3. LetsPass(name, A!Passed(f))
  BY DEF A!Passed, LetsPass, Proper, Statuses
<1> QED BY <1>1, <1>2, <1>3

\* What the parts of a script's output may be.
LEMMA AgentParts == ASSUME NEW f PROVE
  /\ \A s \in Loud : Proper(A!Fault(f, s)) /\ A!Fault(f, s).status \in Statuses
  /\ Proper(A!Warn(f)) /\ A!Warn(f).status \in Statuses
  BY DEF Proper, Loud, Statuses, A!Fault, A!Warn

\* An agent's check with questions only, which Run guards against a panic.
Plain(name, p, k, m, s) == p = A!InOrder(p.order) /\ Falls(name, p.order, k, m, s)

\* A panic settles it first: the check is orderly as before.
LEMMA RunIsGood == ASSUME NEW name, NEW p, NEW k, NEW m, NEW s, Plain(name, p, k, m, s) PROVE Good(Named(name, A!Run(p)))
<1> DEFINE first == <<A!Blind("panics", "unknown")>>
<1>1. Final(name, first)
  BY AgentQuestions DEF Final, Members, Statuses
<1>2. A!Run(p) = [p EXCEPT !.order = first \o @]
  BY Zenon DEF A!Run
<1> HIDE DEF first
<1>3. A!Run(p).order = first \o p.order /\ A!Run(p).parts = {}
  BY <1>2 DEF Plain, A!InOrder
<1>4. Falls(name, first \o p.order, Len(first) + k, Len(first) + m, s)
  BY <1>1, Behind DEF Plain, Final
<1> QED BY <1>3, <1>4 DEF Good, Named, Orderly

\* The agent's checks without a severity.
LEMMA AloneProbes ==
  /\ Plain("agent_process", A!RunProcess, 3, 4, "warn") /\ Plain("agent_scheduled_task", A!RunScheduledTask, 6, 6, "warn")
  /\ Plain("agent_users", A!RunUsers, 2, 2, "warn") /\ Plain("agent_perfcounter", A!RunPerfCounter, 4, 4, "warn")
  /\ Plain("ping", A!ProbePing, 3, 4, "warn") /\ Plain("tcp", A!ProbeTCP, 2, 2, "warn") /\ Plain("http", A!ProbeHTTP, 11, 11, "warn")
  /\ Plain("dns", A!ProbeDNS, 3, 3, "warn") /\ Plain("ssl_cert", A!ProbeSSL, 7, 8, "warn")
<1> USE AgentQuestions DEF Plain, Falls, Members, A!InOrder, Loud, Statuses
<1>1. Plain("agent_process", A!RunProcess, 3, 4, "warn")
  BY SMTT(30) DEF A!RunProcess
<1>2. Plain("agent_scheduled_task", A!RunScheduledTask, 6, 6, "warn")
  BY SMTT(30) DEF A!RunScheduledTask
<1>3. Plain("agent_users", A!RunUsers, 2, 2, "warn")
  BY SMTT(30) DEF A!RunUsers
<1>4. Plain("agent_perfcounter", A!RunPerfCounter, 4, 4, "warn")
  BY SMTT(30) DEF A!RunPerfCounter
<1>5. Plain("ping", A!ProbePing, 3, 4, "warn")
  BY SMTT(30) DEF A!ProbePing
<1>6. Plain("tcp", A!ProbeTCP, 2, 2, "warn")
  BY SMTT(30) DEF A!ProbeTCP
<1>7. Plain("http", A!ProbeHTTP, 11, 11, "warn")
  BY SMTT(30) DEF A!ProbeHTTP
<1>8. Plain("dns", A!ProbeDNS, 3, 3, "warn")
  BY SMTT(30) DEF A!ProbeDNS
<1>9. Plain("ssl_cert", A!ProbeSSL, 7, 8, "warn")
  BY SMTT(30) DEF A!ProbeSSL
<1> QED BY <1>1, <1>2, <1>3, <1>4, <1>5, <1>6, <1>7, <1>8, <1>9

\* By the script's exit code, and by the number of disks.
LEMMA ScriptAndTree ==
  /\ \A x \in {"exit1", "exit2", "otherExit"} : Plain("agent_script", A!RunScript(x), 4, 5, A!ExitStatus[x])
  /\ Plain("agent_disk_tree", A!RunDiskTree(1), 1, 1, "warn") /\ Plain("agent_disk_tree", A!RunDiskTree(2), 0, 0, "warn")
<1> USE AgentQuestions DEF Plain, Falls, Members, A!InOrder, Loud, Statuses
<1>1. ASSUME NEW x \in {"exit1", "exit2", "otherExit"} PROVE Plain("agent_script", A!RunScript(x), 4, 5, A!ExitStatus[x])
  <2>1. A!ExitStatus[x] \in Loud
    BY DEF A!ExitStatus
  <2> QED BY <2>1, SMTT(30) DEF A!RunScript
<1>2. Plain("agent_disk_tree", A!RunDiskTree(1), 1, 1, "warn") /\ Plain("agent_disk_tree", A!RunDiskTree(2), 0, 0, "warn")
  BY SMTT(30) DEF A!RunDiskTree
<1> QED BY <1>1, <1>2

\* Those with a severity, judged by the agent or left for the thresholds.
LEMMA JudgedProbes == ASSUME NEW s \in Severities, NEW j \in BOOLEAN PROVE
  /\ Plain("agent_services_overview", A!RunServicesOverview(s, j), 2, IF j THEN 2 ELSE 3, s)
  /\ Plain("agent_log", A!RunLog(s, j), 4, IF j THEN 4 ELSE 5, s)
  /\ Plain("agent_journal", A!RunJournal(s, j), 4, IF j THEN 4 ELSE 5, s) /\ Plain("agent_eventlog", A!RunEventLog(s, j), 4, IF j THEN 4 ELSE 5, s)
  /\ Plain("agent_hyperv", A!RunHyperV(TRUE, s, j), 4, IF j THEN 4 ELSE 5, s) /\ Plain("agent_hyperv", A!RunHyperV(FALSE, s, j), 5, 5, s)
  /\ Plain("agent_service", A!RunService(s), 2, 3, s) /\ Plain("agent_docker", A!RunDocker(s), 2, 3, s)
<1> USE AgentQuestions DEF Plain, Falls, Members, A!InOrder, Loud, Statuses, Severities, A!CountOrFail, A!MatchResult
<1>1. Plain("agent_services_overview", A!RunServicesOverview(s, j), 2, IF j THEN 2 ELSE 3, s)
  BY SMTT(30) DEF A!RunServicesOverview
<1>2. Plain("agent_log", A!RunLog(s, j), 4, IF j THEN 4 ELSE 5, s)
  BY SMTT(30) DEF A!RunLog
<1>3. Plain("agent_journal", A!RunJournal(s, j), 4, IF j THEN 4 ELSE 5, s)
  BY SMTT(30) DEF A!RunJournal
<1>4. Plain("agent_eventlog", A!RunEventLog(s, j), 4, IF j THEN 4 ELSE 5, s)
  BY SMTT(30) DEF A!RunEventLog
<1>5. Plain("agent_hyperv", A!RunHyperV(TRUE, s, j), 4, IF j THEN 4 ELSE 5, s)
  BY SMTT(30) DEF A!RunHyperV
<1>6. Plain("agent_hyperv", A!RunHyperV(FALSE, s, j), 5, 5, s)
  BY SMTT(30) DEF A!RunHyperV
<1>7. Plain("agent_service", A!RunService(s), 2, 3, s)
  BY SMTT(30) DEF A!RunService
<1>8. Plain("agent_docker", A!RunDocker(s), 2, 3, s)
  BY SMTT(30) DEF A!RunDocker
<1> QED BY <1>1, <1>2, <1>3, <1>4, <1>5, <1>6, <1>7, <1>8

\* The agent's tables.
Runs(name, table) == \A k \in DOMAIN table : \E n, m, s : Plain(name, table[k], n, m, s)

\* The same of the agent's.
LEMMA InOrderIs == ASSUME NEW q PROVE A!InOrder(q).order = q /\ A!InOrder(q).parts = {}
  BY DEF A!InOrder

\* Every mode of the file check.
LEMMA FileProbes == ASSUME NEW s \in Severities PROVE Runs("agent_file", A!RunFile(s))
<1> DEFINE table == A!RunFile(s)
<1>0. DOMAIN table = {"exists", "not_exists", "age", "size", "folder", "checksum", "watchdog", "unknownMode"}
  BY DEF A!RunFile
<1>1. \A k \in DOMAIN table : table[k] = A!InOrder(table[k].order)
  BY InOrderIs DEF A!RunFile
<1>2. Falls("agent_file", table.exists.order, 3, 3, "warn")
  BY InOrderIs, AgentQuestions, SMTT(30) DEF Falls, Members, Loud, Statuses, Severities, A!RunFile
<1>3. Falls("agent_file", table.not_exists.order, 2, 3, s)
  BY InOrderIs, AgentQuestions, SMTT(30) DEF Falls, Members, Loud, Statuses, Severities, A!RunFile
<1>4. Falls("agent_file", table.age.order, 5, 5, "warn")
  BY InOrderIs, AgentQuestions, SMTT(30) DEF Falls, Members, Loud, Statuses, Severities, A!RunFile
<1>5. Falls("agent_file", table.size.order, 4, 4, "warn")
  BY InOrderIs, AgentQuestions, SMTT(30) DEF Falls, Members, Loud, Statuses, Severities, A!RunFile
<1>6. Falls("agent_file", table.folder.order, 4, 4, "warn")
  BY InOrderIs, AgentQuestions, SMTT(30) DEF Falls, Members, Loud, Statuses, Severities, A!RunFile
<1>7. Falls("agent_file", table.checksum.order, 4, 4, "warn")
  BY InOrderIs, AgentQuestions, SMTT(30) DEF Falls, Members, Loud, Statuses, Severities, A!RunFile
<1>8. Falls("agent_file", table.watchdog.order, 5, 6, s)
  BY InOrderIs, AgentQuestions, SMTT(30) DEF Falls, Members, Loud, Statuses, Severities, A!RunFile
<1>9. Falls("agent_file", table.unknownMode.order, 3, 3, "warn")
  BY InOrderIs, AgentQuestions, SMTT(30) DEF Falls, Members, Loud, Statuses, Severities, A!RunFile
<1> HIDE DEF table
<1> QED BY Zenon, <1>0, <1>1, <1>2, <1>3, <1>4, <1>5, <1>6, <1>7, <1>8, <1>9 DEF Runs, Plain, table

\* Both kinds of VPN.
LEMMA VpnProbes == Runs("agent_vpn", A!RunVPN)
<1> DEFINE table == A!RunVPN
<1>0. DOMAIN table = {"wireguard", "interface"}
  BY DEF A!RunVPN
<1>1. \A k \in DOMAIN table : table[k] = A!InOrder(table[k].order)
  BY InOrderIs DEF A!RunVPN
<1>2. Falls("agent_vpn", table.wireguard.order, 5, 5, "warn")
  BY InOrderIs, AgentQuestions, SMTT(30) DEF Falls, Members, Loud, Statuses, Severities, A!RunVPN
<1>3. Falls("agent_vpn", table.interface.order, 3, 3, "warn")
  BY InOrderIs, AgentQuestions, SMTT(30) DEF Falls, Members, Loud, Statuses, Severities, A!RunVPN
<1> HIDE DEF table
<1> QED BY Zenon, <1>0, <1>1, <1>2, <1>3 DEF Runs, Plain, table

\* Both tools of a UPS.
LEMMA UpsProbes == Runs("agent_ups", A!RunUPS)
<1> DEFINE table == A!RunUPS
<1>0. DOMAIN table = {"nut", "apcupsd"}
  BY DEF A!RunUPS
<1>1. \A k \in DOMAIN table : table[k] = A!InOrder(table[k].order)
  BY InOrderIs DEF A!RunUPS
<1>2. Falls("agent_ups", table.nut.order, 3, 4, "warn")
  BY InOrderIs, AgentQuestions, SMTT(30) DEF Falls, Members, Loud, Statuses, Severities, A!RunUPS
<1>3. Falls("agent_ups", table.apcupsd.order, 3, 4, "warn")
  BY InOrderIs, AgentQuestions, SMTT(30) DEF Falls, Members, Loud, Statuses, Severities, A!RunUPS
<1> HIDE DEF table
<1> QED BY Zenon, <1>0, <1>1, <1>2, <1>3 DEF Runs, Plain, table

\* A warning of Veeam's last job is found before its age.
LEMMA BackupProbes == Runs("agent_backup", A!RunBackup)
<1> DEFINE table == A!RunBackup
<1>0. DOMAIN table = {"borg", "veeam", "unknownTool"} /\ <<"agent_backup", "warning">> \in Hides
  BY DEF A!RunBackup, Hides
<1>1. \A k \in DOMAIN table : table[k] = A!InOrder(table[k].order)
  BY InOrderIs DEF A!RunBackup
<1>2. Falls("agent_backup", table.borg.order, 3, 3, "warn")
  BY InOrderIs, AgentQuestions, SMTT(30) DEF Falls, Members, Loud, Statuses, Severities, A!RunBackup
<1>3. Falls("agent_backup", table.veeam.order, 6, 6, "warn")
  BY <1>0, Hidden, InOrderIs, AgentQuestions, SMTT(90) DEF Falls, Members, Loud, Statuses, Severities, A!RunBackup
<1>4. Falls("agent_backup", table.unknownTool.order, 1, 1, "warn")
  BY InOrderIs, AgentQuestions, SMTT(30) DEF Falls, Members, Loud, Statuses, Severities, A!RunBackup
<1> HIDE DEF table
<1> QED BY Zenon, <1>0, <1>1, <1>2, <1>3, <1>4 DEF Runs, Plain, table

\* What is in such a table is orderly when Run guards it.
LEMMA TablesRun == ASSUME NEW name, NEW table, Runs(name, table), NEW x \in Each(name, table) PROVE Good(Named(x.name, A!Run(x.of)))
<1>1. PICK k \in DOMAIN table : x = Named(name, table[k])
  BY DEF Each
<1>2. x.name = name /\ x.of = table[k]
  BY <1>1 DEF Named
<1> QED BY <1>1, <1>2, RunIsGood DEF Runs

\* What the engine judges from a report.
LEMMA HostIsGood == Good(Named("host_cpu", A!EvaluateHost))
<1>1. Falls("host_cpu", A!EvaluateHost.order, 2, 3, "warn") /\ A!EvaluateHost.parts = {}
  BY AgentQuestions, SMTT(30) DEF Falls, Members, A!InOrder, Loud, Statuses, A!EvaluateHost
<1> QED BY <1>1, StraightIsGood DEF Straight

\* A metric of an endpoint, by how it is judged.
LEMMA MetricsAreGood == ASSUME NEW m \in DOMAIN A!ENDPOINT_METRICS, NEW s \in Severities
  PROVE Good(Named("host_metric", A!EvaluateEndpointMetric(A!ENDPOINT_METRICS[m], s)))
<1> DEFINE Metric(b, i) == A!EvaluateEndpointMetric([boolean |-> b, instanceRequired |-> i], s)
<1>1. PICK b, i \in BOOLEAN : A!ENDPOINT_METRICS[m] = [boolean |-> b, instanceRequired |-> i]
  <2>1. m \in {"number", "ofItem", "flag", "presence"}
    BY DEF A!ENDPOINT_METRICS
  <2>2. /\ A!ENDPOINT_METRICS["number"] = [boolean |-> FALSE, instanceRequired |-> FALSE]
        /\ A!ENDPOINT_METRICS["ofItem"] = [boolean |-> FALSE, instanceRequired |-> TRUE]
        /\ A!ENDPOINT_METRICS["flag"] = [boolean |-> TRUE, instanceRequired |-> FALSE]
        /\ A!ENDPOINT_METRICS["presence"] = [boolean |-> TRUE, instanceRequired |-> TRUE]
    BY DEF A!ENDPOINT_METRICS
  <2> QED BY Zenon, <2>1, <2>2
<1>2. Straight("host_metric", Metric(FALSE, FALSE), 2, 2, s)
  BY AgentQuestions, SMTT(30) DEF Straight, Falls, Members, A!InOrder, Loud, Statuses, Severities, A!EvaluateEndpointMetric
<1>3. Straight("host_metric", Metric(FALSE, TRUE), 3, 3, s)
  BY AgentQuestions, SMTT(30) DEF Straight, Falls, Members, A!InOrder, Loud, Statuses, Severities, A!EvaluateEndpointMetric
<1>4. Straight("host_metric", Metric(TRUE, FALSE), 2, 3, s)
  BY AgentQuestions, SMTT(30) DEF Straight, Falls, Members, A!InOrder, Loud, Statuses, Severities, A!EvaluateEndpointMetric
<1>5. Straight("host_metric", Metric(TRUE, TRUE), 2, 4, s)
  BY AgentQuestions, SMTT(30) DEF Straight, Falls, Members, A!InOrder, Loud, Statuses, Severities, A!EvaluateEndpointMetric
<1> HIDE DEF Metric
<1>6. Good(Named("host_metric", Metric(b, i)))
  BY Zenon, <1>2, <1>3, <1>4, <1>5, StraightIsGood
<1> QED BY Zenon, <1>1, <1>6 DEF Metric

\* The packages, by what fails the check.
LEMMA PackagesAreGood == ASSUME NEW f \in {"security", "any", "none"}, NEW s \in Severities PROVE Good(Named("host_packages", A!EvaluatePackages(f, s)))
<1>1. CASE f = "security"
  <2>1. Straight("host_packages", A!EvaluatePackages(f, s), 1, 2, s)
    BY <1>1, AgentQuestions, SMTT(30) DEF Straight, Falls, Members, A!InOrder, Loud, Statuses, Severities, A!EvaluatePackages
  <2> QED BY <2>1, StraightIsGood
<1>2. CASE f = "any"
  <2>1. Straight("host_packages", A!EvaluatePackages(f, s), 1, 3, s)
    BY <1>2, AgentQuestions, SMTT(30) DEF Straight, Falls, Members, A!InOrder, Loud, Statuses, Severities, A!EvaluatePackages
  <2> QED BY <2>1, StraightIsGood
<1>3. CASE f = "none"
  <2>1. Straight("host_packages", A!EvaluatePackages(f, s), 1, 1, s)
    BY <1>3, AgentQuestions, SMTT(30) DEF Straight, Falls, Members, A!InOrder, Loud, Statuses, Severities, A!EvaluatePackages
  <2> QED BY <2>1, StraightIsGood
<1> QED BY <1>1, <1>2, <1>3

\* The output of a script, judged by its patterns.
LEMMA ScriptOutputIsGood == ASSUME NEW s \in Severities PROVE Good(Named("script_output", A!EvaluateScriptOutput(s)))
<1>1. Mixed("script_output", A!EvaluateScriptOutput(s), 5)
  BY AgentQuestions, AgentParts, SMTT(30) DEF Mixed, Falls, Members, Loud, Statuses, Severities, A!EvaluateScriptOutput
<1> QED BY <1>1, MixedIsGood

\* A type the agent does not know.
LEMMA UnknownIsGood == Good(Named("unknown", A!RunUnknown))
<1>1. Straight("unknown", A!RunUnknown, 1, 1, "warn")
  BY AgentQuestions DEF Straight, Falls, Members, A!InOrder, Loud, A!RunUnknown
<1> QED BY <1>1, StraightIsGood

\* All tables of the engine.
LEMMA EngineProbesAreGood == \A x \in EngineProbes : Good(x)
<1>1. \A s \in Severities :
        /\ Good(Named("traceroute", E!ProbeTraceroute(s))) /\ Good(Named("public_ip", E!ProbePublicIp(s))) /\ Good(Named("event_match", E!ProbeEventMatch(s)))
        /\ Good(Named("agent_heartbeat", E!ProbeAgentHeartbeat(s))) /\ Good(Named("ip_change", E!ProbeIpChange(s)))
        /\ Good(Named("host_vulnerable", E!ProbeVulnerable(s))) /\ Good(Named("dns_zone", E!ProbeDnsZone(s)))
        /\ Good(Named("snmp_interfaces", E!ProbeSnmpInterfaces(s))) /\ Good(Named("redfish", E!ProbeRedfish))
  BY Zenon, SeverityProbes, DeviceProbes, StraightIsGood, MixedIsGood
<1>2. Good(Named("redfish", E!ProbeRedfish))
  BY <1>1 DEF Severities
<1>3. \A e \in DOMAIN E!DbMetrics : \A m : Good(Named("database", E!ProbeDatabase(e, m)))
  BY Zenon, DatabaseProbes, StraightIsGood
<1>4. /\ Good(Named("ping", E!ProbePing)) /\ Good(Named("tcp", E!ProbeTcp)) /\ Good(Named("dns", E!ProbeDns)) /\ Good(Named("ssl_cert", E!ProbeSslCert))
      /\ Good(Named("http", E!ProbeHttp)) /\ Good(Named("udp", E!ProbeUdp)) /\ Good(Named("ntp", E!ProbeNtp)) /\ Good(Named("dhcp", E!ProbeDhcp))
      /\ Good(Named("mqtt", E!ProbeMqtt)) /\ Good(Named("websocket", E!ProbeWebsocket)) /\ Good(Named("grpc", E!ProbeGrpc))
      /\ Good(Named("docker_registry", E!ProbeDockerRegistry)) /\ Good(Named("arp_presence", E!ProbeArp))
  BY Zenon, BasicProbes, HttpProbe, Protocols, NtpProbe, StraightIsGood
<1>5. /\ Good(Named("email_roundtrip", E!ProbeEmailRoundtrip)) /\ Good(Named("browser", E!ProbeBrowser)) /\ Good(Named("domain_expiry", E!ProbeDomainExpiry))
      /\ Good(Named("prometheus", E!ProbePrometheus)) /\ Good(Named("webserver_status", E!ProbeWebserverStatus)) /\ Good(Named("ipmi", E!ProbeIpmi))
      /\ Good(Named("anomaly", E!ProbeAnomaly)) /\ Good(Named("push_value", E!ProbePushStaleness))
      /\ Good(Named("disk_forecast", E!ProbeDiskForecast)) /\ Good(Named("calculated", E!ProbeCalculated))
  BY Zenon, ServiceProbes, InternalProbes, StraightIsGood
<1> HIDE DEF Good, Named
<1> QED BY SMTT(60), <1>1, <1>2, <1>3, <1>4, <1>5, GreetingProbes, AppProbes, ProxmoxProbes, VmwareProbes, SnmpProbes DEF EngineProbes

\* All tables of the agent.
LEMMA AgentProbesAreGood == \A x \in AgentProbes : Good(x)
<1> DEFINE Fine(x) == Good(Named(x.name, A!Run(x.of)))
<1>1. ASSUME NEW name, NEW p, NEW k, NEW m, NEW s, Plain(name, p, k, m, s) PROVE Fine(Named(name, p))
  <2>1. Named(name, p).name = name /\ Named(name, p).of = p
    BY DEF Named
  <2> QED BY <1>1, <2>1, RunIsGood
<1> HIDE DEF Fine
<1>2. \A x \in RunAlone : Fine(x)
  <2>1. /\ \A x \in {"exit1", "exit2", "otherExit"} : Fine(Named("agent_script", A!RunScript(x)))
        /\ \A n \in {1, 2} : Fine(Named("agent_disk_tree", A!RunDiskTree(n)))
    BY Zenon, <1>1, ScriptAndTree
  <2>2. /\ \A x \in Each("agent_vpn", A!RunVPN) : Fine(x)
        /\ \A x \in Each("agent_ups", A!RunUPS) : Fine(x)
        /\ \A x \in Each("agent_backup", A!RunBackup) : Fine(x)
    BY Zenon, VpnProbes, UpsProbes, BackupProbes, TablesRun DEF Fine
  <2> QED BY Zenon, <1>1, <2>1, <2>2, AloneProbes DEF RunAlone
<1>3. ASSUME NEW s \in Severities, NEW j \in BOOLEAN PROVE \A x \in RunWith(s, j) : Fine(x)
  <2>1. \A x \in Each("agent_file", A!RunFile(s)) : Fine(x)
    BY Zenon, FileProbes, TablesRun DEF Fine
  <2> QED BY Zenon, <1>1, <2>1, JudgedProbes DEF RunWith
<1>4. \A s \in {"warn", "unset"} : A!Severity(s, "down") \in Severities
  BY DEF A!Severity, Severities
<1>5. Good(Named("unknown", A!RunUnknown))
  BY UnknownIsGood
<1>6. ASSUME NEW p \in RunAlone \union UNION {RunWith(A!Severity(s, "down"), j) : s \in {"warn", "unset"}, j \in BOOLEAN} PROVE Fine(p)
  <2>1. CASE p \in RunAlone
    BY <1>2, <2>1
  <2>2. CASE p \notin RunAlone
    <3>1. PICK s \in {"warn", "unset"}, j \in BOOLEAN : p \in RunWith(A!Severity(s, "down"), j)
      BY <2>2
    <3> QED BY <1>3, <1>4, <3>1
  <2> QED BY <2>1, <2>2
<1> QED
  <2> SUFFICES ASSUME NEW x \in AgentProbes, x # Named("unknown", A!RunUnknown) PROVE Good(x)
    BY <1>5
  <2>1. PICK p \in RunAlone \union UNION {RunWith(A!Severity(s, "down"), j) : s \in {"warn", "unset"}, j \in BOOLEAN} : x = Named(p.name, A!Run(p.of))
    BY DEF AgentProbes
  <2> QED BY <1>6, <2>1 DEF Fine

\* All that is judged from a report.
LEMMA ReportProbesAreGood == \A x \in ReportProbes : Good(x)
  BY HostIsGood, MetricsAreGood, PackagesAreGood, ScriptOutputIsGood DEF ReportProbes

\* What is recorded of a status: it, or what the thresholds make of it.
ThresholdsOf(s, r) == ApplyThresholds(s, r.value, r.latency, r.limits)
Judged(name, s, r) == IF name \in Unlimited \/ s = "none" THEN s ELSE ThresholdsOf(s, r)

\* A reading has one value or none, for which the theorems about applyThresholds hold.
LEMMA AtMostOneValue == ASSUME NEW r \in Readings PROVE r.value = {} \/ \E v : r.value = {v}
<1>1. \A x, y \in r.value : x = y
  BY ReadingsAssumption
<1>2. ASSUME NEW v \in r.value PROVE r.value = {v}
  BY <1>1
<1> QED BY <1>2

\* The thresholds make it no better.
LEMMA ThresholdsRaise == ASSUME NEW r \in Readings, NEW s \in Statuses PROVE ThresholdsOf(s, r) \in Statuses /\ RANK[ThresholdsOf(s, r)] >= RANK[s]
  BY AtMostOneValue, ThresholdsNeverImprove DEF ThresholdsOf

\* The thresholds keep the order, also without a value.
LEMMA ThresholdsOrder == ASSUME NEW r \in Readings, NEW s \in Statuses, NEW t \in Statuses, RANK[s] <= RANK[t] PROVE RANK[ThresholdsOf(s, r)] <= RANK[ThresholdsOf(t, r)]
<1>1. CASE r.value = {}
  <2>1. ASSUME NEW a \in Statuses PROVE ThresholdsOf(a, r) = Worst(a, LatencyVerdict(r.latency, r.limits))
    <3>1. AfterValue(a, {}, r.limits) = a
      BY AfterValueNeverBetter
    <3> QED BY <1>1, <3>1, AfterLatencyIsTheWorst DEF ThresholdsOf, ApplyThresholds
  <2>2. LatencyVerdict(r.latency, r.limits) \in Statuses
    BY AfterLatencyIsTheWorst DEF Statuses
  <2>3. \A c \in Statuses : RANK[Worst(s, c)] <= RANK[Worst(t, c)]
    BY DEF Worst, RANK, Statuses
  <2> QED BY <2>1, <2>2, <2>3
<1>2. CASE \E v : r.value = {v}
  BY <1>2, ThresholdsKeepTheOrder DEF ThresholdsOf
<1> QED BY <1>1, <1>2, AtMostOneValue

\* Every probe there is has an order that falls.
AllProbes == EngineProbes \union AgentProbes \union ReportProbes

\* The three tables together.
LEMMA ProbesAreOrderly == \A x \in AllProbes : Orderly(x.name, x.of)
  BY EngineProbesAreGood, AgentProbesAreGood, ReportProbesAreGood DEF AllProbes, Good

\* While more goes wrong, it stays the same probe of the tables.
RunInv == probe \in AllProbes /\ reading \in Readings

\* It does so in every step.
LEMMA RunInvHolds == ProbeInit /\ [][ProbeNext]_pvars => []RunInv
<1>1. ProbeInit => RunInv
  BY DEF ProbeInit, RunInv, AllProbes
<1>2. RunInv /\ [ProbeNext]_pvars => RunInv'
  BY DEF ProbeNext, GoesWrong, Measures, RunInv, pvars
<1> QED BY <1>1, <1>2, PTL

\* A fault is returned as something other than up, and the thresholds do not improve it.
LEMMA FaultsShow == RunInv => EveryFaultShows
<1> SUFFICES ASSUME RunInv, facts \intersect FactsOf(probe.of, {"fault"}) # {}, facts \intersect FactsOf(probe.of, {"blind", "silent"}) = {} PROVE Recorded # "up"
  BY DEF EveryFaultShows
<1>1. Orderly(probe.name, probe.of) /\ reading \in Readings
  BY ProbesAreOrderly DEF RunInv
<1>2. PICK q \in Questions(probe.of) : q.kind = "fault" /\ q.fact \in facts
  BY DEF FactsOf
<1>3. \A p \in Questions(probe.of) : p.kind \in {"blind", "silent"} => p.fact \notin facts
  BY DEF FactsOf
<1> DEFINE s == Outcome(probe.of, facts)
<1>4. s \in Loud
  BY <1>1, <1>2, <1>3, FaultIsLoud
<1>5. Recorded = Judged(probe.name, s, reading)
  BY Zenon DEF Recorded, Judged, Said, ThresholdsOf
<1> HIDE DEF s
<1>6. s \in Statuses /\ RANK[s] >= 1
  BY <1>4 DEF Loud, Statuses, RANK
<1>7. ThresholdsOf(s, reading) \in Statuses /\ RANK[ThresholdsOf(s, reading)] >= RANK[s]
  BY <1>1, <1>6, ThresholdsRaise
<1>8. ThresholdsOf(s, reading) # "up"
  BY <1>6, <1>7 DEF RANK, Statuses
<1> QED BY <1>4, <1>5, <1>8 DEF Judged, Loud

\* EveryFaultShows: a fault is never recorded as up while the probe can see at all, for every
\* probe and any values, latencies and limits.
THEOREM EveryFaultDoesShow == ProbeInit /\ [][ProbeNext]_pvars => []EveryFaultShows
  BY RunInvHolds, FaultsShow, PTL

\* One step of what goes wrong.
LEMMA StepKeepsTheOrder ==
  ASSUME RunInv, [ProbeNext]_pvars, NEW f \in facts' \ facts, f \notin FactsOf(probe.of, {"blind", "silent"}), <<probe.name, f>> \notin Hides,
         "none" \notin {Said, Said'}
  PROVE  RANK[Recorded'] >= RANK[Recorded]
<1>1. f \in Happens /\ GoesWrong(f)
  BY DEF ProbeNext, Measures, GoesWrong, pvars
<1>2. facts' = facts \union {f} /\ probe' = probe /\ reading' = reading
  BY <1>1 DEF GoesWrong
<1>3. Orderly(probe.name, probe.of) /\ reading \in Readings
  BY ProbesAreOrderly DEF RunInv
<1>4. \A q \in Questions(probe.of) : q.kind \in {"setup", "blind", "silent"} => q.fact # f
  <2>1. Questions(probe.of) \subseteq World
    BY Zenon DEF World
  <2>2. \A q \in World : q.kind = "setup" => q.fact # f
    BY <1>1 DEF Happens
  <2>3. \A q \in Questions(probe.of) : q.kind \in {"blind", "silent"} => q.fact # f
    BY DEF FactsOf
  <2> QED BY <2>1, <2>2, <2>3
<1> DEFINE old == Outcome(probe.of, facts)  new == Outcome(probe.of, facts \union {f})
<1>5. old # "none" /\ new # "none"
  BY <1>2 DEF Said
<1>6. old \in Statuses /\ new \in Statuses /\ RANK[old] <= RANK[new]
  BY <1>3, <1>4, <1>5, MoreIsWorse
<1>7. Recorded = Judged(probe.name, old, reading) /\ Recorded' = Judged(probe.name, new, reading)
  BY <1>2, Zenon DEF Recorded, Judged, Said, ThresholdsOf
<1> HIDE DEF old, new
<1>8. RANK[ThresholdsOf(old, reading)] <= RANK[ThresholdsOf(new, reading)]
  BY <1>3, <1>6, ThresholdsOrder
<1>9. \A a, b \in {old, new} : RANK[a] <= RANK[b] => RANK[b] >= RANK[a]
  BY <1>6 DEF RANK, Statuses
<1>10. ThresholdsOf(old, reading) \in Statuses /\ ThresholdsOf(new, reading) \in Statuses
  BY <1>3, <1>6, ThresholdsRaise
<1>11. CASE probe.name \in Unlimited
  <2>1. Recorded = old /\ Recorded' = new
    BY <1>7, <1>11 DEF Judged
  <2> QED BY <1>6, <2>1 DEF RANK, Statuses
<1>12. CASE probe.name \notin Unlimited
  <2>1. Recorded = ThresholdsOf(old, reading) /\ Recorded' = ThresholdsOf(new, reading)
    BY <1>5, <1>7, <1>12 DEF Judged
  <2> QED BY <1>8, <1>10, <2>1 DEF RANK, Statuses
<1> QED BY <1>11, <1>12

\* WorseIsNotBetter: when one more thing goes wrong, what is recorded is never better, but for
\* the early returns Hides names, for every probe and any values, latencies and limits.
THEOREM WorseIsNeverBetter == ProbeInit /\ [][ProbeNext]_pvars => WorseIsNotBetter
<1>1. RunInv /\ [ProbeNext]_pvars =>
      [\A f \in facts' \ facts :
         f \in FactsOf(probe.of, {"blind", "silent"}) \/ <<probe.name, f>> \in Hides
         \/ "none" \in {Said, Said'} \/ RANK[Recorded'] >= RANK[Recorded]]_pvars
  BY StepKeepsTheOrder
<1> QED BY <1>1, RunInvHolds, PTL DEF WorseIsNotBetter

=============================================================================
