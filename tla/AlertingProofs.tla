--------------------------- MODULE AlertingProofs ---------------------------
(***************************************************************************)
(* Theorems about Alerting.tla, for any checks, rules, dependencies,       *)
(* follower chains, thresholds and flap windows.                           *)
(***************************************************************************)
EXTENDS Alerting, SequenceTheorems, FiniteSetTheorems, TLAPS

(***************************************************************************)
(* A query with LIMIT n after inserting x: a sequence of the same type,    *)
(* never longer than n, that starts with x.                                *)
(***************************************************************************)
LEMMA PushType ==
  ASSUME NEW S, NEW s \in Seq(S), NEW x \in S, NEW n \in Nat \ {0}
  PROVE  /\ Push(s, x, n) \in Seq(S)
         /\ Push(s, x, n) # <<>>
         /\ Head(Push(s, x, n)) = x
         /\ Len(s) <= n => Len(Push(s, x, n)) <= n
<1> DEFINE t == <<x>> \o s
           p == Push(s, x, n)
<1>1. /\ t \in Seq(S)
      /\ Len(t) = Len(s) + 1
      /\ t[1] = x
  OBVIOUS
<1>2. p \in Seq(S) /\ Len(p) >= 1 /\ p[1] = x /\ (Len(s) <= n => Len(p) <= n)
  <2>1. CASE Len(s) < n
    BY <1>1, <2>1 DEF Push
  <2>2. CASE ~ (Len(s) < n)
    <3>1. /\ SubSeq(t, 1, n) \in Seq(S)
          /\ Len(SubSeq(t, 1, n)) = n
          /\ SubSeq(t, 1, n)[1] = t[1]
      BY <1>1, <2>2
    <3>2. p = SubSeq(t, 1, n)
      BY <2>2 DEF Push
    <3> HIDE DEF t, p
    <3> QED BY <1>1, <3>1, <3>2
  <2> QED BY <2>1, <2>2
<1> HIDE DEF p
<1>3. p # <<>> /\ Head(p) = p[1]
  BY <1>2
<1> QED BY <1>2, <1>3 DEF p

(***************************************************************************)
(* An incident row is put in front of the open ones, or the newest is      *)
(* taken away.                                                             *)
(***************************************************************************)
LEMMA RowsType ==
  ASSUME NEW S, NEW s \in Seq(S), NEW x \in S
  PROVE  /\ <<x>> \o s \in Seq(S)
         /\ Len(<<x>> \o s) = Len(s) + 1
         /\ Head(<<x>> \o s) = x
         /\ <<x>> \o s # <<>>
         /\ s # <<>> => /\ Tail(s) \in Seq(S)
                        /\ Len(Tail(s)) = Len(s) - 1
                        /\ Head(s) \in S
                        /\ Head(s) = s[1]
                        /\ Len(s) >= 1
OBVIOUS

LEMMA TailType ==
  ASSUME NEW S, NEW s \in Seq(S), s # <<>>
  PROVE  Tail(s) \in Seq(S)
OBVIOUS

(***************************************************************************)
(* The number of changes of state in a window of results is a number.      *)
(***************************************************************************)
LEMMA ChangesType ==
  ASSUME NEW s \in Seq(Status)
  PROVE  Changes(s) \in Nat
<1> DEFINE I == {i \in 2 .. Len(s) : s[i] # s[i-1]}
<1>1. IsFiniteSet(2 .. Len(s))
  BY FS_Interval
<1>2. IsFiniteSet(I)
  BY <1>1, FS_Subset
<1> QED BY <1>2, FS_CardinalityType DEF Changes

(***************************************************************************)
(* What recordCheckResult does to the checks: a set D of checks, c and the *)
(* followers that recover with it, gets a new result each.                 *)
(***************************************************************************)
Recorded(c, report) == {c} \cup Followers(c, JudgeTimeout(c, report))
NewStatus(c, report) ==
  [x \in Recorded(c, report) |-> IF x = c THEN JudgeTimeout(c, report) ELSE "up"]

LEMMA RecordedType ==
  ASSUME NEW c \in Checks, NEW report \in Report
  PROVE  /\ Recorded(c, report) \subseteq Checks
         /\ c \in Recorded(c, report)
         /\ NewStatus(c, report) \in [Recorded(c, report) -> Status]
         /\ \A x \in Recorded(c, report) : x # c => NewStatus(c, report)[x] = "up"
BY DEF Recorded, NewStatus, Followers, RecoveredWith, JudgeTimeout, Report, Status

(***************************************************************************)
(* Recording results for a set D of checks keeps the tables well typed,    *)
(* and the newest status of each of them is the one just recorded.         *)
(***************************************************************************)
ChecksRecorded(D, new) ==
  /\ recent' \in [Checks -> Seq(Status)]
  /\ counted' \in [Checks -> Seq(Status)]
  /\ flapping' \in [Checks -> BOOLEAN]
  /\ \A x \in Checks : Len(recent'[x]) <= FlapWindow /\ Len(counted'[x]) <= MaxFailures
  /\ \A x \in D : /\ recent'[x] = Push(recent[x], new[x], FlapWindow)
                  /\ recent'[x] # <<>>
                  /\ Head(recent'[x]) = new[x]
                  /\ flapping'[x] = Flaps(x, recent'[x])
  /\ \A x \in Checks \ D : recent'[x] = recent[x] /\ flapping'[x] = flapping[x]
  /\ \A x \in D \ maintenance : /\ counted'[x] = Push(counted[x], new[x], MaxFailures)
                                /\ counted'[x] # <<>>
                                /\ Head(counted'[x]) = new[x]
                                /\ counted'[x][1] = new[x]
  /\ \A x \in Checks : x \notin D \ maintenance => counted'[x] = counted[x]

LEMMA RecordChecks ==
  ASSUME TypeOK, NEW D \in SUBSET Checks, NEW new \in [D -> Status], Record(new)
  PROVE  ChecksRecorded(D, new)
<1> USE DEF TypeOK
<1>1. DOMAIN new = D
  OBVIOUS
<1>2. \A x \in D : /\ Push(recent[x], new[x], FlapWindow) \in Seq(Status)
                   /\ Push(recent[x], new[x], FlapWindow) # <<>>
                   /\ Head(Push(recent[x], new[x], FlapWindow)) = new[x]
                   /\ Len(Push(recent[x], new[x], FlapWindow)) <= FlapWindow
  BY PushType, FlapAssumption
<1>3. \A x \in D : /\ Push(counted[x], new[x], MaxFailures) \in Seq(Status)
                   /\ Push(counted[x], new[x], MaxFailures) # <<>>
                   /\ Head(Push(counted[x], new[x], MaxFailures)) = new[x]
                   /\ Len(Push(counted[x], new[x], MaxFailures)) <= MaxFailures
  BY PushType, RulesAssumption
<1>4. recent' = [x \in Checks |-> IF x \in D THEN Push(recent[x], new[x], FlapWindow) ELSE recent[x]]
  BY <1>1 DEF Record
<1>5. counted' = [x \in Checks |-> IF x \in D \ maintenance THEN Push(counted[x], new[x], MaxFailures)
                                  ELSE counted[x]]
  BY <1>1 DEF Record
<1>6. flapping' = [x \in Checks |-> IF x \in D THEN Flaps(x, Push(recent[x], new[x], FlapWindow))
                                   ELSE flapping[x]]
  BY <1>1 DEF Record
<1>7. ASSUME NEW x \in Checks, NEW w \in Seq(Status)
      PROVE  Flaps(x, w) \in BOOLEAN
  <2>1. Changes(w) \in Nat
    BY ChangesType
  <2>2. flapping[x] \in BOOLEAN
    OBVIOUS
  <2>3. Flaps(x, w) = TRUE \/ Flaps(x, w) = FALSE
    BY <2>1, <2>2, FlapAssumption DEF Flaps
  <2> QED BY <2>3, Zenon
<1>8. \A x \in D : counted[x] \in Seq(Status)
  OBVIOUS
<1> HIDE DEF TypeOK
<1>9. recent' \in [Checks -> Seq(Status)] /\ \A x \in Checks : Len(recent'[x]) <= FlapWindow
  BY <1>2, <1>4 DEF TypeOK
<1>10. counted' \in [Checks -> Seq(Status)] /\ \A x \in Checks : Len(counted'[x]) <= MaxFailures
  BY <1>3, <1>5 DEF TypeOK
<1>11. flapping' \in [Checks -> BOOLEAN]
  BY <1>2, <1>6, <1>7 DEF TypeOK
<1>12. \A x \in D \ maintenance : counted'[x] = Push(counted[x], new[x], MaxFailures)
  BY <1>5
<1>13. \A x \in D \ maintenance : counted'[x] # <<>> /\ Head(counted'[x]) = new[x]
  BY <1>12, <1>3
<1>14. \A x \in D \ maintenance : counted'[x][1] = new[x]
  BY <1>10, <1>13
<1> QED BY <1>2, <1>4, <1>5, <1>6, <1>9, <1>10, <1>11, <1>12, <1>13, <1>14
   DEF ChecksRecorded

-----------------------------------------------------------------------------
(***************************************************************************)
(* What recording results does to the incidents of one rule: it opens one, *)
(* closes the newest, or leaves them alone.                                *)
(***************************************************************************)
Graded(r, new) == r \in enabled /\ CheckOf[r] \in (DOMAIN new) \ maintenance

OpenedBy(r, new) ==
  /\ Graded(r, new)
  /\ Opens(r, counted'[CheckOf[r]], flapping'[CheckOf[r]])
  /\ openEvents'[r] = <<FALSE>> \o openEvents[r]
  /\ sent'[r] = Note("triggered", {"primary"})

ClosedBy(r, new) ==
  /\ Graded(r, new)
  /\ Closes(r, new[CheckOf[r]])
  /\ openEvents'[r] = Tail(openEvents[r])
  /\ sent'[r] = Note("resolved", Audience(Head(openEvents[r])))

LeftBy(r, new) ==
  /\ Graded(r, new) => ~ Closes(r, new[CheckOf[r]])
  /\ openEvents'[r] = openEvents[r]
  /\ sent'[r] = sent[r]

LEMMA RecordRules ==
  ASSUME TypeOK, NEW D \in SUBSET Checks, NEW new \in [D -> Status], Record(new),
         NEW r \in Rules
  PROVE  OpenedBy(r, new) \/ ClosedBy(r, new) \/ LeftBy(r, new)
<1> DEFINE c == CheckOf[r]
           opens == Opens(r, Push(counted[c], new[c], MaxFailures),
                          Flaps(c, Push(recent[c], new[c], FlapWindow)))
<1>1. c \in Checks
  BY RulesAssumption
<1>2. DOMAIN new = D
  OBVIOUS
<1>3. openEvents'[r] = IF Graded(r, new) /\ opens THEN <<FALSE>> \o openEvents[r]
                       ELSE IF Graded(r, new) /\ Closes(r, new[c]) THEN Tail(openEvents[r])
                       ELSE openEvents[r]
  BY DEF Record, Graded
<1>4. sent'[r] = IF Graded(r, new) /\ opens THEN Note("triggered", {"primary"})
                 ELSE IF Graded(r, new) /\ Closes(r, new[c])
                      THEN Note("resolved", Audience(Head(openEvents[r])))
                 ELSE sent[r]
  BY DEF Record, Graded
<1>5. Graded(r, new) => c \in D \ maintenance
  BY <1>2 DEF Graded
<1>6. c \in D \ maintenance =>
        /\ counted'[c] = Push(counted[c], new[c], MaxFailures)
        /\ flapping'[c] = Flaps(c, recent'[c])
        /\ recent'[c] = Push(recent[c], new[c], FlapWindow)
  <2>1. ChecksRecorded(D, new)
    BY RecordChecks
  <2> QED BY <2>1 DEF ChecksRecorded
<1>7. Graded(r, new) => opens = Opens(r, counted'[c], flapping'[c])
  BY <1>5, <1>6
<1> HIDE DEF opens
<1> QED BY <1>3, <1>4, <1>7 DEF OpenedBy, ClosedBy, LeftBy

(***************************************************************************)
(* recordCheckResult is such a recording, whatever is reported; and a      *)
(* check it records a failing result for is the reported check, alone.     *)
(***************************************************************************)
LEMMA ResultIsRecord ==
  ASSUME NEW c \in Checks, NEW report \in Report, RecordCheckResult(c, report)
  PROVE  /\ Record(NewStatus(c, report))
         /\ DOMAIN NewStatus(c, report) = Recorded(c, report)
         /\ NewStatus(c, report)[c] = JudgeTimeout(c, report)
         /\ JudgeTimeout(c, report) # "up" => Recorded(c, report) = {c}
         /\ UNCHANGED <<maintenance, enabled>>
BY DEF RecordCheckResult, NewStatus, Recorded, Followers

-----------------------------------------------------------------------------
(***************************************************************************)
(* Disabling a rule freezes its incident, so OpenIsFailing is about the    *)
(* rules that stay enabled; that they do is the one strengthening the      *)
(* invariants need beyond each other.                                      *)
(***************************************************************************)
AlwaysEnabled == Rules \ Switchable \subseteq enabled

IInv ==
  /\ TypeOK
  /\ AtMostOneIncident
  /\ OpenIsFailing
  /\ FlapHysteresis
  /\ AlwaysEnabled

LEMMA InitIInv == Init => IInv
<1> SUFFICES ASSUME Init PROVE IInv
  OBVIOUS
<1>1. TypeOK
  <2>1. \A r \in Rules : sent[r] = [kind |-> "none", to |-> {}]
    BY DEF Init, Note
  <2>2. <<>> \in Seq(Status) /\ <<>> \in Seq(BOOLEAN) /\ Len(<<>>) = 0
    OBVIOUS
  <2> QED BY <2>1, <2>2, FlapAssumption, RulesAssumption, ChecksAssumption DEF Init, TypeOK, Note
<1>2. Changes(<<>>) = 0
  <2>1. {i \in 2 .. Len(<<>>) : <<>>[i] # <<>>[i-1]} = {}
    OBVIOUS
  <2> QED BY <2>1, FS_EmptySet DEF Changes
<1>3. FlapHysteresis
  BY <1>2, FlapAssumption DEF Init, FlapHysteresis
<1> QED BY <1>1, <1>3 DEF Init, IInv, AtMostOneIncident, OpenIsFailing, AlwaysEnabled

LEMMA RecordIInv ==
  ASSUME IInv, NEW c \in Checks, NEW report \in Report, RecordCheckResult(c, report)
  PROVE  IInv'
<1> DEFINE D == Recorded(c, report)
           new == NewStatus(c, report)
<1>1. /\ TypeOK
      /\ Record(new)
      /\ D \in SUBSET Checks
      /\ new \in [D -> Status]
      /\ DOMAIN new = D
      /\ UNCHANGED <<maintenance, enabled>>
  BY ResultIsRecord, RecordedType DEF IInv
<1> HIDE DEF D, new
<1>2. \A r \in Rules : OpenedBy(r, new) \/ ClosedBy(r, new) \/ LeftBy(r, new)
  BY <1>1, RecordRules
<1>3. ChecksRecorded(D, new)
  BY <1>1, RecordChecks, Zenon
<1>4. TypeOK'
  <2>1. timeoutRun' \in [Checks -> Nat] /\ \A x \in Checks : timeoutRun'[x] < TimeoutsBeforeDown[x]
    BY <1>1, ChecksAssumption DEF TypeOK, RecordCheckResult, NextTimeoutRun
  <2>2. \A r \in Rules : openEvents'[r] \in Seq(BOOLEAN)
    <3> SUFFICES ASSUME NEW r \in Rules PROVE openEvents'[r] \in Seq(BOOLEAN)
      OBVIOUS
    <3>1. openEvents[r] \in Seq(BOOLEAN)
      BY <1>1 DEF TypeOK
    <3>2. CASE OpenedBy(r, new)
      <4>1. <<FALSE>> \o openEvents[r] \in Seq(BOOLEAN)
        BY <3>1
      <4> QED BY <3>2, <4>1 DEF OpenedBy
    <3>3. CASE ClosedBy(r, new)
      <4>1. openEvents[r] # <<>> /\ openEvents'[r] = Tail(openEvents[r])
        BY <3>3 DEF ClosedBy, Closes
      <4>2. Tail(openEvents[r]) \in Seq(BOOLEAN)
        BY <3>1, <4>1, TailType, Zenon
      <4> QED BY <4>1, <4>2
    <3>4. CASE LeftBy(r, new)
      BY <3>1, <3>4, Zenon DEF LeftBy
    <3> QED BY <1>2, <3>2, <3>3, <3>4
  <2>3. openEvents' \in [Rules -> Seq(BOOLEAN)]
    BY <1>1, <2>2 DEF Record
  <2>4. \A r \in Rules : sent'[r] \in [kind : {"none", "triggered", "resolved", "reminder", "escalated"},
                                       to : SUBSET {"primary", "escalation"}]
    <3> DEFINE Message == [kind : {"none", "triggered", "resolved", "reminder", "escalated"},
                           to : SUBSET {"primary", "escalation"}]
    <3>1. Note("triggered", {"primary"}) \in Message
          /\ \A b : Note("resolved", Audience(b)) \in Message
      BY DEF Note, Audience
    <3>2. \A r \in Rules : sent[r] \in Message
      BY <1>1 DEF TypeOK
    <3> HIDE DEF Message
    <3>3. \A r \in Rules : sent'[r] \in Message
      BY <1>2, <3>1, <3>2, Zenon DEF OpenedBy, ClosedBy, LeftBy
    <3> QED BY <3>3 DEF Message
  <2>5. sent' \in [Rules -> [kind : {"none", "triggered", "resolved", "reminder", "escalated"},
                             to : SUBSET {"primary", "escalation"}]]
    BY <1>1, <2>4 DEF Record
  <2> QED BY <1>1, <1>3, <2>1, <2>3, <2>5 DEF TypeOK, ChecksRecorded
<1>5. AtMostOneIncident'
  <2> SUFFICES ASSUME NEW r \in Rules PROVE Len(openEvents'[r]) <= 1
    BY DEF AtMostOneIncident
  <2>1. openEvents[r] \in Seq(BOOLEAN) /\ Len(openEvents[r]) <= 1
    BY <1>1 DEF TypeOK, IInv, AtMostOneIncident
  <2>2. CASE OpenedBy(r, new)
    BY <2>1, <2>2, RowsType DEF OpenedBy, Opens
  <2>3. CASE ClosedBy(r, new)
    BY <2>1, <2>3, RowsType DEF ClosedBy, Closes
  <2>4. CASE LeftBy(r, new)
    BY <2>1, <2>4 DEF LeftBy
  <2> QED BY <1>2, <2>2, <2>3, <2>4
<1>6. OpenIsFailing'
  <2> DEFINE x(r) == CheckOf[r]
  <2> SUFFICES ASSUME NEW r \in Rules \ Switchable, openEvents'[r] # <<>>
               PROVE  /\ counted'[x(r)] # <<>>
                      /\ \/ Failing(r, Head(counted'[x(r)]))
                         \/ Head(counted'[x(r)]) = "unknown"
    BY DEF OpenIsFailing, Failing
  <2>1. /\ openEvents[r] \in Seq(BOOLEAN)
        /\ x(r) \in Checks
        /\ r \in enabled
        /\ ConsecutiveFailures[r] >= 1
    BY <1>1, RulesAssumption DEF TypeOK, IInv, AlwaysEnabled
  <2>2. CASE OpenedBy(r, new)
    <3>1. x(r) \in D \ maintenance /\ AllFailing(r, counted'[x(r)])
      BY <1>1, <2>2 DEF OpenedBy, Graded, Opens
    <3>2. Failing(r, counted'[x(r)][1])
      BY <2>1, <3>1, RulesAssumption DEF AllFailing
    <3> QED BY <1>3, <3>1, <3>2 DEF ChecksRecorded
  <2>3. CASE ClosedBy(r, new)
    BY <2>1, <2>3, RowsType DEF ClosedBy, Closes, IInv, AtMostOneIncident
  <2>4. CASE LeftBy(r, new) /\ x(r) \in D \ maintenance
    BY <1>1, <1>3, <2>1, <2>4 DEF ChecksRecorded, LeftBy, Graded, Closes
  <2>5. CASE LeftBy(r, new) /\ x(r) \notin D \ maintenance
    BY <1>3, <2>1, <2>5 DEF ChecksRecorded, LeftBy, IInv, OpenIsFailing
  <2> QED BY <1>2, <2>2, <2>3, <2>4, <2>5
<1>7. FlapHysteresis'
  <2> SUFFICES ASSUME NEW x \in Checks
               PROVE  /\ flapping'[x] => Changes(recent'[x]) > FlapStop
                      /\ ~ flapping'[x] => Changes(recent'[x]) < FlapStart
    BY DEF FlapHysteresis, Changes
  <2>1. Changes(recent'[x]) \in Nat
    BY <1>3, ChangesType DEF ChecksRecorded
  <2>2. CASE x \in D
    <3>1. flapping[x] \in BOOLEAN
      BY <1>1 DEF TypeOK
    <3>2. /\ flapping'[x] => Flaps(x, recent'[x])
          /\ ~ flapping'[x] => ~ Flaps(x, recent'[x])
      BY <1>3, <2>2, Zenon DEF ChecksRecorded
    <3> QED BY <2>1, <3>1, <3>2, FlapAssumption DEF Flaps
  <2>3. CASE x \notin D
    BY <1>3, <2>3 DEF ChecksRecorded, IInv, FlapHysteresis
  <2> QED BY <2>2, <2>3
<1>8. AlwaysEnabled'
  BY <1>1 DEF IInv, AlwaysEnabled
<1> QED BY <1>4, <1>5, <1>6, <1>7, <1>8 DEF IInv

(***************************************************************************)
(* The one-minute pass rewrites the flags of open incidents, never their   *)
(* number.                                                                 *)
(***************************************************************************)
LEMMA Rewritten ==
  ASSUME NEW S, NEW s \in Seq(S), NEW x \in S
  PROVE  /\ [i \in DOMAIN s |-> x] \in Seq(S)
         /\ Len([i \in DOMAIN s |-> x]) = Len(s)
         /\ s # <<>> => Head([i \in DOMAIN s |-> x]) = x
         /\ s = <<>> <=> [i \in DOMAIN s |-> x] = <<>>
<1> DEFINE t == [i \in DOMAIN s |-> x]
<1>1. DOMAIN s = 1 .. Len(s) /\ Len(s) \in Nat
  OBVIOUS
<1>2. t \in [1 .. Len(s) -> S]
  BY <1>1
<1>3. t \in Seq(S) /\ Len(t) = Len(s)
  BY <1>1, <1>2
<1>4. s # <<>> => Len(s) >= 1 /\ t[1] = x
  BY <1>1
<1> HIDE DEF t
<1>5. /\ s = <<>> <=> t = <<>>
      /\ s # <<>> => Head(t) = t[1]
  BY <1>3, <1>4
<1> QED BY <1>3, <1>4, <1>5 DEF t

LEMMA AllEscalated ==
  ASSUME NEW s \in Seq(BOOLEAN)
  PROVE  /\ [i \in DOMAIN s |-> TRUE] \in Seq(BOOLEAN)
         /\ Len([i \in DOMAIN s |-> TRUE]) = Len(s)
         /\ s # <<>> => Head([i \in DOMAIN s |-> TRUE]) = TRUE
         /\ s = <<>> <=> [i \in DOMAIN s |-> TRUE] = <<>>
<1>1. TRUE \in BOOLEAN
  OBVIOUS
<1> QED BY <1>1, Rewritten, ZenonT(30)

EscalatedBy(r) ==
  /\ Escalates(r)
  /\ openEvents[r] # <<>>
  /\ openEvents'[r] = [i \in DOMAIN openEvents[r] |-> TRUE]
  /\ sent'[r] = Note("escalated", {"escalation"})

RemindedBy(r) ==
  /\ openEvents[r] # <<>>
  /\ openEvents'[r] = openEvents[r]
  /\ sent'[r] = Note("reminder", Audience(Head(openEvents[r])))

SkippedBy(r) == openEvents'[r] = openEvents[r] /\ sent'[r] = sent[r]

LEMMA ProcessRules ==
  ASSUME TypeOK, NEW E \in SUBSET Rules, NEW R \in SUBSET Rules, ProcessOpenAlerts(E, R), NEW r \in Rules
  PROVE  EscalatedBy(r) \/ RemindedBy(r) \/ SkippedBy(r)
BY DEF ProcessOpenAlerts, EscalatedBy, RemindedBy, SkippedBy

LEMMA ProcessIInv ==
  ASSUME IInv, NEW E \in SUBSET Rules, NEW R \in SUBSET Rules, ProcessOpenAlerts(E, R)
  PROVE  IInv'
<1>1. TypeOK /\ \A r \in Rules : EscalatedBy(r) \/ RemindedBy(r) \/ SkippedBy(r)
  BY ProcessRules DEF IInv
<1>2. UNCHANGED <<recent, counted, timeoutRun, flapping, maintenance, enabled>>
  BY DEF ProcessOpenAlerts
<1>3. \A r \in Rules : /\ openEvents'[r] \in Seq(BOOLEAN)
                       /\ Len(openEvents'[r]) = Len(openEvents[r])
                       /\ openEvents'[r] # <<>> => openEvents[r] # <<>>
  <2> SUFFICES ASSUME NEW r \in Rules
               PROVE  /\ openEvents'[r] \in Seq(BOOLEAN)
                      /\ Len(openEvents'[r]) = Len(openEvents[r])
                      /\ openEvents'[r] # <<>> => openEvents[r] # <<>>
    OBVIOUS
  <2>1. openEvents[r] \in Seq(BOOLEAN)
    BY <1>1 DEF TypeOK
  <2>2. CASE openEvents'[r] = [i \in DOMAIN openEvents[r] |-> TRUE]
    BY <2>1, <2>2, AllEscalated, Zenon
  <2>3. CASE openEvents'[r] = openEvents[r]
    BY <2>1, <2>3
  <2> QED BY <1>1, <2>2, <2>3 DEF EscalatedBy, RemindedBy, SkippedBy
<1>4. TypeOK'
  <2> DEFINE Message == [kind : {"none", "triggered", "resolved", "reminder", "escalated"},
                         to : SUBSET {"primary", "escalation"}]
  <2>1. openEvents' \in [Rules -> Seq(BOOLEAN)]
    <3> DEFINE Rows == Seq(BOOLEAN)
    <3>1. openEvents' = [r \in Rules |-> openEvents'[r]]
      BY DEF ProcessOpenAlerts
    <3>2. \A r \in Rules : openEvents'[r] \in Rows
      BY <1>3
    <3> HIDE DEF Rows
    <3>3. openEvents' \in [Rules -> Rows]
      BY <3>1, <3>2
    <3> QED BY <3>3 DEF Rows
  <2>2. Note("escalated", {"escalation"}) \in Message /\ \A b : Note("reminder", Audience(b)) \in Message
    BY DEF Note, Audience
  <2>3. \A r \in Rules : sent[r] \in Message
    BY <1>1 DEF TypeOK
  <2> HIDE DEF Message
  <2>4. \A r \in Rules : sent'[r] \in Message
    BY <1>1, <2>2, <2>3, Zenon DEF EscalatedBy, RemindedBy, SkippedBy
  <2>5. sent' \in [Rules -> Message]
    BY <2>4 DEF ProcessOpenAlerts
  <2> QED BY <1>1, <1>2, <2>1, <2>5 DEF TypeOK, Message
<1>5. AtMostOneIncident'
  <2> SUFFICES ASSUME NEW r \in Rules PROVE Len(openEvents'[r]) <= 1
    BY DEF AtMostOneIncident
  <2>1. Len(openEvents[r]) <= 1 /\ Len(openEvents'[r]) = Len(openEvents[r])
    BY <1>3 DEF IInv, AtMostOneIncident
  <2> QED BY <2>1
<1>6. OpenIsFailing'
  <2> SUFFICES ASSUME NEW r \in Rules \ Switchable, openEvents'[r] # <<>>
               PROVE  /\ counted[CheckOf[r]] # <<>>
                      /\ \/ Failing(r, Head(counted[CheckOf[r]]))
                         \/ Head(counted[CheckOf[r]]) = "unknown"
    BY <1>2 DEF OpenIsFailing, Failing
  <2>1. openEvents[r] # <<>>
    BY <1>3
  <2> QED BY <2>1 DEF IInv, OpenIsFailing
<1>7. FlapHysteresis' /\ AlwaysEnabled'
  BY <1>2 DEF IInv, FlapHysteresis, AlwaysEnabled, Changes
<1> QED BY <1>4, <1>5, <1>6, <1>7 DEF IInv

LEMMA QuietIInv ==
  ASSUME IInv,
         UNCHANGED <<recent, counted, timeoutRun, flapping, openEvents, sent>>,
         maintenance' \subseteq Maintained,
         enabled' \subseteq Rules,
         Rules \ Switchable \subseteq enabled'
  PROVE  IInv'
<1>1. TypeOK'
  BY DEF IInv, TypeOK
<1>2. AtMostOneIncident' /\ OpenIsFailing' /\ FlapHysteresis' /\ AlwaysEnabled'
  BY DEF IInv, AtMostOneIncident, OpenIsFailing, FlapHysteresis, AlwaysEnabled, Failing, Changes
<1> QED BY <1>1, <1>2 DEF IInv

LEMMA NextIInv == IInv /\ [Next]_vars => IInv'
<1> SUFFICES ASSUME IInv, [Next]_vars PROVE IInv'
  OBVIOUS
<1>1. maintenance \subseteq Maintained /\ enabled \subseteq Rules /\ Rules \ Switchable \subseteq enabled
  BY DEF IInv, TypeOK, AlwaysEnabled
<1>2. ASSUME NEW c \in Checks, NEW report \in Reports[c], RecordCheckResult(c, report)
      PROVE  IInv'
  <2>1. report \in Report
    BY ChecksAssumption
  <2> QED BY <1>2, <2>1, RecordIInv
<1>3. ASSUME NEW c \in Checks, ResolveCheck(c)
      PROVE  IInv'
  <2>1. "up" \in Report /\ RecordCheckResult(c, "up")
    BY <1>3 DEF ResolveCheck, Report, Status
  <2> QED BY <2>1, RecordIInv
<1>4. ASSUME NEW E \in SUBSET Rules, NEW R \in SUBSET Rules, ProcessOpenAlerts(E, R)
      PROVE  IInv'
  BY <1>4, ProcessIInv
<1>5. ASSUME NEW c \in Checks, StartMaintenance(c) \/ EndMaintenance(c)
      PROVE  IInv'
  BY <1>1, <1>5, QuietIInv DEF StartMaintenance, EndMaintenance
<1>6. ASSUME NEW r \in Rules, SetEnabled(r)
      PROVE  IInv'
  BY <1>1, <1>6, QuietIInv DEF SetEnabled
<1>7. CASE UNCHANGED vars
  BY <1>1, <1>7, QuietIInv DEF vars
<1> QED BY <1>2, <1>3, <1>4, <1>5, <1>6, <1>7 DEF Next

LEMMA SpecIInv == Spec => []IInv
BY InitIInv, NextIInv, PTL DEF Spec

-----------------------------------------------------------------------------
(***************************************************************************)
(* The tables are always well typed and within their limits.               *)
(***************************************************************************)
THEOREM TypeCorrect == Spec => []TypeOK
BY SpecIInv, PTL DEF IInv

(***************************************************************************)
(* However results, resolves, timer passes, maintenance and edits of rules *)
(* follow one another, a rule has at most one open incident.               *)
(***************************************************************************)
THEOREM NeverTwoIncidents == Spec => []AtMostOneIncident
BY SpecIInv, PTL DEF IInv

(***************************************************************************)
(* An open incident of a rule that stays enabled is always backed by the   *)
(* newest result that counts: no recovery is missed.                       *)
(***************************************************************************)
THEOREM NoRecoveryMissed == Spec => []OpenIsFailing
BY SpecIInv, PTL DEF IInv

(***************************************************************************)
(* The flapping flag and the window of results agree up to the hysteresis. *)
(***************************************************************************)
THEOREM FlappingIsShown == Spec => []FlapHysteresis
BY SpecIInv, PTL DEF IInv

-----------------------------------------------------------------------------
(***************************************************************************)
(* The refinement: the handlers of this module are steps of Incident.tla,  *)
(* rule by rule.                                                           *)
(***************************************************************************)
Phase(r) == IF openEvents[r] = <<>> THEN "closed"
            ELSE IF Head(openEvents[r]) THEN "escalated" ELSE "open"

LEMMA PhaseOf ==
  ASSUME NEW r \in Rules
  PROVE  /\ [x \in Rules |-> Phase(x)][r] = Phase(r)
         /\ [x \in Rules |-> Phase(x)]'[r] = Phase(r)'
OBVIOUS

IncidentStep(r) ==
  \/ Phase(r) = "closed" /\ Phase(r)' = "open" /\ sent'[r] = Note("triggered", {"primary"})
  \/ Phase(r) = "open" /\ Phase(r)' = "escalated" /\ sent'[r] = Note("escalated", {"escalation"})
  \/ /\ Phase(r) \in {"open", "escalated"} /\ Phase(r)' = Phase(r)
     /\ sent'[r] = Note("reminder", Incidents!Audience(Phase(r)))
  \/ /\ Phase(r) \in {"open", "escalated"} /\ Phase(r)' = "closed"
     /\ sent'[r] = Note("resolved", Incidents!Audience(Phase(r)))
  \/ Phase(r)' = Phase(r) /\ sent'[r] = sent[r]

LEMMA IncidentSteps ==
  ASSUME \A r \in Rules : IncidentStep(r)
  PROVE  Incidents!IncidentNext
<1> SUFFICES ASSUME NEW r \in Rules
             PROVE  \/ Incidents!Triggered(r) \/ Incidents!Escalated(r) \/ Incidents!Reminded(r)
                    \/ Incidents!Resolved(r) \/ Incidents!Idle(r)
  BY DEF Incidents!IncidentNext
<1> QED BY PhaseOf DEF IncidentStep, Phase, Note, Incidents!Note, Incidents!Triggered,
           Incidents!Escalated, Incidents!Reminded, Incidents!Resolved, Incidents!Idle

LEMMA PhaseFacts ==
  ASSUME IInv, NEW r \in Rules
  PROVE  /\ openEvents[r] \in Seq(BOOLEAN)
         /\ Phase(r) \in {"closed", "open", "escalated"}
         /\ Phase(r) = "closed" <=> openEvents[r] = <<>>
         /\ openEvents[r] # <<>> => /\ Tail(openEvents[r]) = <<>>
                                    /\ Audience(Head(openEvents[r])) = Incidents!Audience(Phase(r))
                                    /\ Escalates(r) => Phase(r) = "open"
<1>1. openEvents[r] \in Seq(BOOLEAN) /\ Len(openEvents[r]) <= 1
  BY DEF IInv, TypeOK, AtMostOneIncident
<1>2. openEvents[r] # <<>> => /\ Tail(openEvents[r]) = <<>>
                              /\ DOMAIN openEvents[r] = {1}
                              /\ Head(openEvents[r]) = openEvents[r][1]
  BY <1>1
<1>3. openEvents[r] # <<>> => Audience(Head(openEvents[r])) = Incidents!Audience(Phase(r))
  BY DEF Phase, Audience, Incidents!Audience
<1>4. openEvents[r] # <<>> /\ Escalates(r) => Phase(r) = "open"
  BY <1>2 DEF Escalates, Phase
<1> QED BY <1>1, <1>2, <1>3, <1>4 DEF Phase

LEMMA ResultRefines ==
  ASSUME IInv, NEW c \in Checks, NEW report \in Report, RecordCheckResult(c, report), NEW r \in Rules
  PROVE  IncidentStep(r)
<1> DEFINE new == NewStatus(c, report)
<1>1. OpenedBy(r, new) \/ ClosedBy(r, new) \/ LeftBy(r, new)
  BY RecordRules, ResultIsRecord, RecordedType DEF IInv
<1> HIDE DEF new
<1>2. CASE OpenedBy(r, new)
  <2>1. openEvents[r] = <<>> /\ openEvents'[r] = <<FALSE>> \o <<>>
    BY <1>2 DEF OpenedBy, Opens
  <2>2. openEvents'[r] # <<>> /\ Head(openEvents'[r]) = FALSE
    <3>1. FALSE \in BOOLEAN /\ <<>> \in Seq(BOOLEAN)
      OBVIOUS
    <3> QED BY <2>1, <3>1, RowsType, Zenon
  <2> QED BY <1>2, <2>1, <2>2 DEF OpenedBy, IncidentStep, Phase
<1>3. CASE ClosedBy(r, new)
  <2>1. openEvents[r] # <<>> /\ openEvents'[r] = <<>>
    BY <1>3, PhaseFacts DEF ClosedBy, Closes
  <2> QED BY <1>3, <2>1, PhaseFacts DEF ClosedBy, IncidentStep, Phase
<1>4. CASE LeftBy(r, new)
  BY <1>4 DEF LeftBy, IncidentStep, Phase
<1> QED BY <1>1, <1>2, <1>3, <1>4

LEMMA ProcessRefines ==
  ASSUME IInv, NEW E \in SUBSET Rules, NEW R \in SUBSET Rules, ProcessOpenAlerts(E, R), NEW r \in Rules
  PROVE  IncidentStep(r)
<1>1. EscalatedBy(r) \/ RemindedBy(r) \/ SkippedBy(r)
  BY ProcessRules DEF IInv
<1>2. CASE EscalatedBy(r)
  <2>1. openEvents'[r] # <<>> /\ Head(openEvents'[r]) = TRUE
    BY <1>2, AllEscalated, PhaseFacts, Zenon DEF EscalatedBy
  <2> QED BY <1>2, <2>1, PhaseFacts DEF EscalatedBy, IncidentStep, Phase
<1>3. CASE RemindedBy(r)
  <2>1. Phase(r) \in {"open", "escalated"} /\ Phase(r)' = Phase(r)
    BY <1>3, PhaseFacts DEF RemindedBy, Phase
  <2> QED BY <1>3, <2>1, PhaseFacts DEF RemindedBy, IncidentStep
<1>4. CASE SkippedBy(r)
  BY <1>4 DEF SkippedBy, IncidentStep, Phase
<1> QED BY <1>1, <1>2, <1>3, <1>4

LEMMA NextRefines == IInv /\ [Next]_vars => [Incidents!IncidentNext]_<<[r \in Rules |-> Phase(r)], sent>>
<1> SUFFICES ASSUME IInv, [Next]_vars
             PROVE  [Incidents!IncidentNext]_<<[r \in Rules |-> Phase(r)], sent>>
  OBVIOUS
<1>1. ASSUME NEW c \in Checks, NEW report \in Reports[c], RecordCheckResult(c, report)
      PROVE  Incidents!IncidentNext
  <2>1. report \in Report
    BY ChecksAssumption
  <2> QED BY <1>1, <2>1, ResultRefines, IncidentSteps
<1>2. ASSUME NEW c \in Checks, ResolveCheck(c)
      PROVE  Incidents!IncidentNext
  <2>1. "up" \in Report /\ RecordCheckResult(c, "up")
    BY <1>2 DEF ResolveCheck, Report, Status
  <2> QED BY <2>1, ResultRefines, IncidentSteps
<1>3. ASSUME NEW E \in SUBSET Rules, NEW R \in SUBSET Rules, ProcessOpenAlerts(E, R)
      PROVE  Incidents!IncidentNext
  BY <1>3, ProcessRefines, IncidentSteps
<1>4. ASSUME UNCHANGED <<openEvents, sent>>
      PROVE  UNCHANGED <<[r \in Rules |-> Phase(r)], sent>>
  BY <1>4 DEF Phase
<1> QED BY <1>1, <1>2, <1>3, <1>4 DEF Next, StartMaintenance, EndMaintenance, SetEnabled, vars

(***************************************************************************)
(* recordCheckResult and processOpenAlerts keep the promises of            *)
(* Incident.tla to the subscribers of every rule: one first message, at    *)
(* most one escalation, and one end, to everybody who was told.            *)
(***************************************************************************)
THEOREM AlertingImplementsIncident == Spec => IncidentSpec
<1>1. Init => Incidents!IncidentInit
  BY DEF Init, Incidents!IncidentInit, Note, Incidents!Note
<1>2. IInv /\ [Next]_vars => [Incidents!IncidentNext]_<<[r \in Rules |-> IF openEvents[r] = <<>> THEN "closed"
            ELSE IF Head(openEvents[r]) THEN "escalated" ELSE "open"], sent>>
  BY NextRefines DEF Phase
<1> QED BY <1>1, <1>2, SpecIInv, PTL DEF Spec, IncidentSpec, Incidents!Spec

-----------------------------------------------------------------------------
(***************************************************************************)
(* A check that cannot be its own parent, and is recorded alone when it    *)
(* fails, opens incidents only for itself and only for the right reasons.  *)
(***************************************************************************)
LEMMA ResultHeldBack ==
  ASSUME IInv, NEW c \in Checks, NEW report \in Report, RecordCheckResult(c, report),
         NEW r \in Rules, openEvents[r] = <<>>, openEvents'[r] # <<>>
  PROVE  /\ \A p \in DependsOn[CheckOf[r]] : LastStatus(p)' # "down"
         /\ ~ flapping'[CheckOf[r]]
         /\ CheckOf[r] \notin maintenance
         /\ AllFailing(r, counted'[CheckOf[r]])
<1> DEFINE new == NewStatus(c, report)
           D == Recorded(c, report)
           x == CheckOf[r]
<1>1. /\ TypeOK
      /\ Record(new)
      /\ D \in SUBSET Checks
      /\ new \in [D -> Status]
      /\ DOMAIN new = D
      /\ \A y \in D : y # c => new[y] = "up"
      /\ new[c] # "up" => D = {c}
  BY ResultIsRecord, RecordedType DEF IInv
<1> HIDE DEF new, D
<1>2. OpenedBy(r, new)
  BY <1>1, RecordRules DEF ClosedBy, LeftBy, Closes
<1>3. ChecksRecorded(D, new)
  BY <1>1, RecordChecks, Zenon
<1>4. x \in D \ maintenance /\ AllFailing(r, counted'[x]) /\ ~ ParentDown(x) /\ ~ flapping'[x]
  BY <1>1, <1>2 DEF OpenedBy, Graded, Opens
<1>5. Failing(r, new[x])
  BY <1>3, <1>4, RulesAssumption DEF ChecksRecorded, AllFailing
<1>6. new[x] # "up"
  BY <1>5 DEF Failing
<1>7. x = c /\ D = {c}
  BY <1>1, <1>4, <1>6
<1>8. \A p \in DependsOn[x] : LastStatus(p)' # "down"
  <2> SUFFICES ASSUME NEW p \in DependsOn[x] PROVE LastStatus(p)' # "down"
    OBVIOUS
  <2>1. p \in Checks \ D
    BY <1>7, ChecksAssumption
  <2>2. recent'[p] = recent[p]
    BY <1>3, <2>1 DEF ChecksRecorded
  <2> QED BY <1>4, <2>2 DEF LastStatus, ParentDown
<1> QED BY <1>4, <1>8

(***************************************************************************)
(* One outage, one alert: parents, flapping, maintenance and the number of *)
(* failing results in a row hold a first message back, in every step.      *)
(***************************************************************************)
THEOREM AlertsAreHeldBack == Spec => HeldBack
<1> DEFINE Held(r) == openEvents[r] = <<>> /\ openEvents'[r] # <<>> =>
                        /\ \A p \in DependsOn[CheckOf[r]] : LastStatus(p)' # "down"
                        /\ ~ flapping'[CheckOf[r]]
                        /\ CheckOf[r] \notin maintenance
                        /\ AllFailing(r, counted'[CheckOf[r]])
<1>1. IInv /\ [Next]_vars => [\A r \in Rules : Held(r)]_vars
  <2> SUFFICES ASSUME IInv, Next, NEW r \in Rules, openEvents[r] = <<>>, openEvents'[r] # <<>>
               PROVE  Held(r)
    OBVIOUS
  <2> HIDE DEF Held
  <2>1. ASSUME NEW c \in Checks, NEW report \in Reports[c], RecordCheckResult(c, report)
        PROVE  Held(r)
    <3>1. report \in Report
      BY ChecksAssumption
    <3> QED BY <2>1, <3>1, ResultHeldBack DEF Held
  <2>2. ASSUME NEW c \in Checks, ResolveCheck(c)
        PROVE  Held(r)
    <3>1. "up" \in Report /\ RecordCheckResult(c, "up")
      BY <2>2 DEF ResolveCheck, Report, Status
    <3> QED BY <3>1, ResultHeldBack DEF Held
  <2>3. ASSUME NEW E \in SUBSET Rules, NEW R \in SUBSET Rules, ProcessOpenAlerts(E, R)
        PROVE  FALSE
    BY <2>3, ProcessRules DEF IInv, EscalatedBy, RemindedBy, SkippedBy
  <2> QED BY <2>1, <2>2, <2>3 DEF Next, StartMaintenance, EndMaintenance, SetEnabled
<1> QED BY <1>1, SpecIInv, PTL DEF Spec, HeldBack

-----------------------------------------------------------------------------
(***************************************************************************)
(* Who recovers with c is closed under "recovers together with".           *)
(***************************************************************************)
LEMMA RecoveredWithClosed ==
  ASSUME NEW c \in Checks, NEW f \in Checks \ {c},
         LastStatus(f) \in {"down", "warn"},
         RecoverWith[f] = c \/ RecoverWith[f] \in RecoveredWith(c)
  PROVE  f \in RecoveredWith(c)
<1> SUFFICES ASSUME NEW S \in SUBSET Checks, RecoversWith(c, S)
             PROVE  f \in S
  BY DEF RecoveredWith
<1>1. c \in S
  BY DEF RecoversWith
<1>2. RecoverWith[f] \in S
  BY <1>1 DEF RecoveredWith
<1> QED BY <1>2 DEF RecoversWith

LEMMA ResultRecovers ==
  ASSUME TypeOK, NEW d \in Checks, NEW report \in Report, RecordCheckResult(d, report),
         NEW c \in Checks, NEW f \in Checks, RecoverWith[f] = c,
         LastStatus(c) \in {"down", "warn"}, LastStatus(c)' = "up"
  PROVE  LastStatus(f)' \notin {"down", "warn"}
<1> DEFINE new == NewStatus(d, report)
           D == Recorded(d, report)
<1>1. /\ Record(new)
      /\ D \in SUBSET Checks
      /\ new \in [D -> Status]
      /\ d \in D
      /\ \A y \in D : y # d => new[y] = "up"
      /\ new[d] = JudgeTimeout(d, report)
      /\ new[d] # "up" => D = {d}
  BY ResultIsRecord, RecordedType
<1>2. D = {d} \cup Followers(d, new[d])
  BY <1>1 DEF Recorded
<1> HIDE DEF new, D
<1>3. ChecksRecorded(D, new)
  BY <1>1, RecordChecks, Zenon
<1>4. /\ \A y \in D : LastStatus(y)' = new[y]
      /\ \A y \in Checks \ D : LastStatus(y)' = LastStatus(y)
  BY <1>3 DEF ChecksRecorded, LastStatus
<1>5. c \in D /\ new[c] = "up"
  BY <1>4
<1>6. new[d] = "up"
  BY <1>1, <1>5
<1>7. CASE f \in D
  BY <1>1, <1>4, <1>6, <1>7
<1>8. CASE f \notin D /\ LastStatus(f) \in {"down", "warn"}
  <2>1. f # d
    BY <1>1, <1>8
  <2>2. Followers(d, "up") = RecoveredWith(d)
    <3>1. CASE c = d
      BY <3>1 DEF Followers
    <3>2. CASE c # d
      BY <1>2, <1>5, <1>6, <3>2 DEF Followers
    <3> QED BY <3>1, <3>2
  <2>3. RecoverWith[f] = d \/ RecoverWith[f] \in RecoveredWith(d)
    BY <1>2, <1>5, <1>6, <2>2
  <2>4. f \in RecoveredWith(d)
    BY <1>8, <2>1, <2>3, RecoveredWithClosed
  <2> QED BY <1>2, <1>6, <1>8, <2>2, <2>4
<1>9. CASE f \notin D /\ LastStatus(f) \notin {"down", "warn"}
  BY <1>4, <1>9
<1> QED BY <1>7, <1>8, <1>9

(***************************************************************************)
(* When a check recovers, every failing check that recovers with it        *)
(* recovers in the same handler: chains of any length, and cycles.         *)
(***************************************************************************)
THEOREM ChainsRecover == Spec => FollowersRecover
<1> DEFINE Follows(c, f) == /\ RecoverWith[f] = c
                            /\ LastStatus(c) \in {"down", "warn"} /\ LastStatus(c)' = "up"
                            => LastStatus(f)' \notin {"down", "warn"}
<1>1. IInv /\ [Next]_vars => [\A c \in Checks, f \in Checks : Follows(c, f)]_vars
  <2> SUFFICES ASSUME IInv, Next, NEW c \in Checks, NEW f \in Checks
               PROVE  Follows(c, f)
    OBVIOUS
  <2>1. ASSUME NEW d \in Checks, NEW report \in Reports[d], RecordCheckResult(d, report)
        PROVE  Follows(c, f)
    <3>1. report \in Report
      BY ChecksAssumption
    <3> QED BY <2>1, <3>1, ResultRecovers DEF IInv
  <2>2. ASSUME NEW d \in Checks, ResolveCheck(d)
        PROVE  Follows(c, f)
    <3>1. "up" \in Report /\ RecordCheckResult(d, "up")
      BY <2>2 DEF ResolveCheck, Report, Status
    <3> QED BY <3>1, ResultRecovers DEF IInv
  <2>3. ASSUME UNCHANGED recent
        PROVE  Follows(c, f)
    BY <2>3 DEF LastStatus
  <2> QED BY <2>1, <2>2, <2>3
       DEF Next, ProcessOpenAlerts, StartMaintenance, EndMaintenance, SetEnabled
<1> QED BY <1>1, SpecIInv, PTL DEF Spec, FollowersRecover
=============================================================================
