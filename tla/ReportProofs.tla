---------------------------- MODULE ReportProofs ----------------------------
\* No result is lost on its way to the engine, for any checks, buffers and failures.
EXTENDS AgentReport, SequenceTheorems, TLAPS

Bodies == [results : Seq(Results), lists : Nat, inventory : Nat]
ReportTypeOK ==
  /\ pc \in {"idle", "report", "sent"}
  /\ completed \in Seq(Results) /\ sending \in Bodies
  /\ lists \in [made : Nat, ready : Nat] /\ inventory \in [now : Nat, sent : Nat]
  /\ storing \in [Slots -> [on : BOOLEAN, heard : BOOLEAN, rest : Bodies]]
  /\ made \in Nat /\ {stored, cut, gone} \subseteq SUBSET Results

\* What the agent would have to send if the report under way failed.
Unsent == sending.results \o completed

\* Results wait in the order in which they finished, the ones cut off being the oldest.
InOrder ==
  /\ \A i, j \in 1..Len(Unsent) : i < j => Unsent[i].n < Unsent[j].n
  /\ \A i \in 1..Len(Unsent) : Unsent[i].n <= made
  /\ \A r \in cut : r.n <= made /\ \A i \in 1..Len(Unsent) : r.n < Unsent[i].n

\* The agent listens to the store of one report, the one it has sent; and what is not
\* stored of it yet is what is left to store.
OneIsHeard ==
  /\ pc # "sent" => sending = Nothing
  /\ \A s \in Slots : storing[s].heard => pc = "sent"
  /\ \A s, t \in Slots : storing[s].heard /\ storing[t].heard => s = t
RestIsLeft ==
  \A s \in Slots : storing[s].heard =>
    ToSet(sending.results) \subseteq stored \union ToSet(storing[s].rest.results)

Accounted == ToSet(Unsent) \union stored \union cut \union gone
Covered == \A n \in 1..made : \E c \in Checks : [check |-> c, n |-> n] \in Accounted

ReportInv == ReportTypeOK /\ InOrder /\ OneIsHeard /\ RestIsLeft /\ Covered

-----------------------------------------------------------------------------
(* --- sequences ------------------------------------------------------------ *)
LEMMA Members ==
  ASSUME NEW S, NEW a \in Seq(S)
  PROVE  \A x : x \in ToSet(a) <=> \E i \in 1..Len(a) : x = a[i]
BY DEF ToSet

LEMMA MembersOfBoth ==
  ASSUME NEW S, NEW a \in Seq(S), NEW b \in Seq(S)
  PROVE  ToSet(a \o b) = ToSet(a) \union ToSet(b)
<1>1. /\ a \o b \in Seq(S) /\ Len(a \o b) = Len(a) + Len(b)
      /\ \A i \in 1..Len(a \o b) : (a \o b)[i] = IF i <= Len(a) THEN a[i] ELSE b[i - Len(a)]
  BY ConcatProperties
<1>2. \A x : x \in ToSet(a \o b) <=> \E i \in 1..Len(a \o b) : x = (a \o b)[i]
  BY <1>1, Members
<1>3. ToSet(a \o b) \subseteq ToSet(a) \union ToSet(b)
  <2> SUFFICES ASSUME NEW i \in 1..Len(a \o b) PROVE (a \o b)[i] \in ToSet(a) \union ToSet(b)
    BY <1>2
  <2>1. CASE i <= Len(a)
    BY <1>1, <2>1, Members
  <2>2. CASE i > Len(a)
    <3>1. i - Len(a) \in 1..Len(b)
      BY <1>1, <2>2
    <3> QED BY <1>1, <2>2, <3>1, Members
  <2> QED BY <2>1, <2>2
<1>4. ToSet(a) \subseteq ToSet(a \o b)
  <2> SUFFICES ASSUME NEW i \in 1..Len(a) PROVE a[i] \in ToSet(a \o b)
    BY Members
  <2>1. i \in 1..Len(a \o b) /\ (a \o b)[i] = a[i]
    BY <1>1
  <2> QED BY <1>2, <2>1
<1>5. ToSet(b) \subseteq ToSet(a \o b)
  <2> SUFFICES ASSUME NEW i \in 1..Len(b) PROVE b[i] \in ToSet(a \o b)
    BY Members
  <2>1. Len(a) + i \in 1..Len(a \o b) /\ (a \o b)[Len(a) + i] = b[i]
    BY <1>1
  <2> QED BY <1>2, <2>1
<1> QED BY <1>3, <1>4, <1>5

LEMMA MembersOfTail ==
  ASSUME NEW S, NEW a \in Seq(S), a # <<>>
  PROVE  /\ Tail(a) \in Seq(S) /\ Head(a) \in S
         /\ ToSet(a) = {Head(a)} \union ToSet(Tail(a))
<1>1. /\ Head(a) \in S /\ Tail(a) \in Seq(S) /\ Head(a) = a[1]
      /\ Len(Tail(a)) = Len(a) - 1 /\ Len(a) >= 1
      /\ \A i \in 1..Len(Tail(a)) : Tail(a)[i] = a[i + 1]
  BY HeadTailProperties
<1>2. \A i \in 1..Len(a) : i = 1 \/ (i - 1 \in 1..Len(Tail(a)) /\ a[i] = Tail(a)[i - 1])
  BY <1>1
<1>3. \A i \in 1..Len(Tail(a)) : i + 1 \in 1..Len(a)
  BY <1>1
<1>4. \A x : x \in ToSet(a) <=> \E i \in 1..Len(a) : x = a[i]
  BY Members
<1>5. \A x : x \in ToSet(Tail(a)) <=> \E i \in 1..Len(Tail(a)) : x = Tail(a)[i]
  BY <1>1, Members
<1>6. 1 \in 1..Len(a)
  BY <1>1
<1>7. \A x \in ToSet(Tail(a)) : x \in ToSet(a)
  BY <1>1, <1>3, <1>4, <1>5
<1>8. \A x \in ToSet(a) : x = Head(a) \/ x \in ToSet(Tail(a))
  BY <1>1, <1>2, <1>4, <1>5, ZenonT(40)
<1>9. Head(a) \in ToSet(a)
  BY <1>1, <1>4, <1>6
<1> QED BY <1>1, <1>7, <1>8, <1>9

LEMMA AppendToBoth ==
  ASSUME NEW S, NEW a \in Seq(S), NEW b \in Seq(S), NEW e \in S
  PROVE  a \o b \in Seq(S) /\ a \o Append(b, e) = Append(a \o b, e)
<1>1. <<e>> \in Seq(S) /\ a \o b \in Seq(S)
  BY ConcatProperties
<1>2. a \o (b \o <<e>>) = (a \o b) \o <<e>>
  BY <1>1, ConcatAssociative
<1>3. Append(b, e) = b \o <<e>> /\ Append(a \o b, e) = (a \o b) \o <<e>>
  BY <1>1, AppendIsConcat
<1> QED BY <1>1, <1>2, <1>3

LEMMA CutInTwo ==
  ASSUME NEW S, NEW a \in Seq(S), NEW k \in 0..Len(a)
  PROVE  LET old == SubSeq(a, 1, k)
             new == SubSeq(a, k + 1, Len(a))
         IN  /\ old \in Seq(S) /\ new \in Seq(S)
             /\ Len(old) = k /\ Len(new) = Len(a) - k
             /\ \A i \in 1..k : old[i] = a[i]
             /\ \A i \in 1..(Len(a) - k) : new[i] = a[k + i]
             /\ ToSet(a) = ToSet(old) \union ToSet(new)
<1> DEFINE old == SubSeq(a, 1, k)
           new == SubSeq(a, k + 1, Len(a))
<1>1. old \in Seq(S) /\ Len(old) = k /\ \A i \in 1..k : old[i] = a[i]
  BY SubSeqProperties
<1>2. new \in Seq(S) /\ Len(new) = Len(a) - k /\ \A i \in 1..(Len(a) - k) : new[i] = a[k + i]
  BY SubSeqProperties
<1>3. \A i \in 1..Len(a) : i \in 1..k \/ (i - k \in 1..(Len(a) - k) /\ a[i] = new[i - k])
  BY <1>2
<1>4. \A i \in 1..(Len(a) - k) : k + i \in 1..Len(a)
  BY <1>2
<1>5. ToSet(a) = ToSet(old) \union ToSet(new)
  <2> HIDE DEF old, new
  <2>1. \A x : x \in ToSet(a) <=> \E i \in 1..Len(a) : x = a[i]
    BY Members
  <2>2. \A x : x \in ToSet(old) <=> \E i \in 1..Len(old) : x = old[i]
    BY <1>1, Members
  <2>3. \A x : x \in ToSet(new) <=> \E i \in 1..Len(new) : x = new[i]
    BY <1>2, Members
  <2>4. \A i \in 1..k : i \in 1..Len(a)
    OBVIOUS
  <2>5. ToSet(old) \subseteq ToSet(a)
    BY <1>1, <2>1, <2>2, <2>4
  <2>6. ToSet(new) \subseteq ToSet(a)
    BY <1>2, <1>4, <2>1, <2>3
  <2>7. ASSUME NEW x \in ToSet(a) PROVE x \in ToSet(old) \/ x \in ToSet(new)
    <3>1. PICK i \in 1..Len(a) : x = a[i]
      BY <2>1
    <3>2. CASE i \in 1..k
      BY <1>1, <2>2, <3>1, <3>2
    <3>3. CASE i \notin 1..k
      BY <1>2, <1>3, <2>3, <3>1, <3>3
    <3> QED BY <3>2, <3>3
  <2> QED BY <2>5, <2>6, <2>7
<1> QED BY <1>1, <1>2, <1>5

-----------------------------------------------------------------------------
(* --- the invariant --------------------------------------------------------- *)
LEMMA NothingIsABody == Nothing \in Bodies /\ Nothing.results = <<>> /\ ToSet(<<>>) = {}
BY DEF Nothing, Bodies, ToSet

LEMMA ReportStart == Init => ReportInv
<1> SUFFICES ASSUME Init PROVE ReportInv
  OBVIOUS
<1>1. Unsent = <<>>
  BY NothingIsABody, ConcatEmptySeq DEF Init, Unsent
<1>2. ReportTypeOK
  BY NothingIsABody DEF Init, ReportTypeOK, Free
<1>3. \A s \in Slots : ~storing[s].heard
  BY DEF Init, Free
<1> QED BY <1>1, <1>2, <1>3 DEF Init, ReportInv, InOrder, OneIsHeard, RestIsLeft, Covered

\* A step that leaves the results where they are, and has no other report heard.
LEMMA ResultsRest ==
  ASSUME ReportInv, ReportTypeOK', UNCHANGED <<sending, completed, made, stored, cut, gone>>,
         pc' = pc \/ (pc # "sent" /\ pc' # "sent"),
         \A s \in Slots : storing'[s].heard =>
           storing[s].heard /\ storing'[s].rest.results = storing[s].rest.results
  PROVE  ReportInv'
<1>1. InOrder' /\ Covered'
  BY DEF ReportInv, InOrder, Covered, Unsent, Accounted
<1>2. OneIsHeard' /\ RestIsLeft'
  BY DEF ReportInv, OneIsHeard, RestIsLeft
<1> QED BY <1>1, <1>2 DEF ReportInv

\* What is accounted for stays so.
LEMMA StaysCovered == ASSUME Covered, made' = made, Accounted \subseteq Accounted' PROVE Covered'
BY DEF Covered

\* A result that finishes is the newest.
LEMMA FinishedLast ==
  ASSUME ReportInv, ReportTypeOK', NEW c \in Checks, Finish(c)
  PROVE  ReportInv'
<1> DEFINE r == [check |-> c, n |-> made + 1]
<1>1. sending.results \in Seq(Results) /\ completed \in Seq(Results) /\ made \in Nat
  BY DEF ReportInv, ReportTypeOK, Bodies
<1>2. r \in Results /\ completed' = Append(completed, r) /\ made' = made + 1 /\ UNCHANGED <<sending, stored, cut, gone, pc, storing>>
  <2>1. r \in Results
    BY <1>1, AgentAssumption DEF Finish, Results
  <2> QED BY <2>1 DEF Finish, engine
<1> HIDE DEF r
<1>3. Unsent' = Append(Unsent, r) /\ Unsent \in Seq(Results)
  <2>1. \A a, b \in Seq(Results) : a \o b \in Seq(Results) /\ a \o Append(b, r) = Append(a \o b, r)
    BY <1>2, AppendToBoth
  <2> QED BY <1>1, <1>2, <2>1 DEF Unsent
<1>4. /\ Unsent' \in Seq(Results) /\ Len(Unsent') = Len(Unsent) + 1 /\ Len(Unsent) \in Nat
      /\ \A i \in 1..Len(Unsent) : Unsent'[i] = Unsent[i]
      /\ Unsent'[Len(Unsent) + 1] = r
  BY <1>2, <1>3, AppendProperties, LenProperties
<1>5. r.n = made + 1
  BY DEF r
<1>6. InOrder'
  <2>1. \A i \in 1..Len(Unsent') : i \in 1..Len(Unsent) \/ i = Len(Unsent) + 1
    BY <1>4
  <2>2. \A i \in 1..Len(Unsent) : Unsent[i].n \in Nat
    <3>1. \A i \in 1..Len(Unsent) : Unsent[i] \in Results
      BY <1>3, LenProperties
    <3> QED BY <3>1, AgentAssumption DEF Results
  <2>3. \A x \in cut : x.n \in Nat
    BY AgentAssumption, SMTT(30) DEF ReportInv, ReportTypeOK, Results
  <2>4. InOrder /\ made \in Nat /\ made' = made + 1 /\ cut' = cut
    BY <1>1, <1>2 DEF ReportInv
  <2>5. \A i, j \in 1..Len(Unsent') : i < j => Unsent'[i].n < Unsent'[j].n
    <3> SUFFICES ASSUME NEW i \in 1..Len(Unsent'), NEW j \in 1..Len(Unsent'), i < j
                 PROVE  Unsent'[i].n < Unsent'[j].n
      OBVIOUS
    <3>1. i \in 1..Len(Unsent) /\ Unsent'[i] = Unsent[i]
      BY <1>4, <2>1
    <3>2. CASE j \in 1..Len(Unsent)
      BY <1>4, <2>4, <3>1, <3>2 DEF InOrder
    <3>3. CASE j = Len(Unsent) + 1
      BY <1>5, <1>4, <2>2, <2>4, <3>1, <3>3 DEF InOrder
    <3> QED BY <2>1, <3>2, <3>3
  <2>6. \A i \in 1..Len(Unsent') : Unsent'[i].n <= made'
    BY <1>5, <1>4, <2>1, <2>2, <2>4 DEF InOrder
  <2>7. \A x \in cut' : x.n <= made' /\ \A i \in 1..Len(Unsent') : x.n < Unsent'[i].n
    BY <1>5, <1>4, <2>1, <2>3, <2>4 DEF InOrder
  <2> QED BY <2>5, <2>6, <2>7 DEF InOrder
<1>7. Covered'
  <2>1. ToSet(Unsent) \subseteq ToSet(Unsent') /\ r \in ToSet(Unsent')
    <3>1. \A x : x \in ToSet(Unsent) <=> \E i \in 1..Len(Unsent) : x = Unsent[i]
      BY <1>3, Members
    <3>2. \A x : x \in ToSet(Unsent') <=> \E i \in 1..Len(Unsent') : x = Unsent'[i]
      BY <1>4, Members
    <3> QED BY <1>4, <3>1, <3>2
  <2>2. Accounted \subseteq Accounted' /\ r \in Accounted'
    BY <1>2, <2>1 DEF Accounted
  <2> QED BY <1>1, <1>2, <2>2 DEF r, ReportInv, Covered
<1> QED BY <1>2, <1>6, <1>7 DEF ReportInv, OneIsHeard, RestIsLeft

\* What is sent is what waited.
LEMMA SentInOrder ==
  ASSUME ReportInv, ReportTypeOK', NEW s \in Slots, NEW body \in Bodies, body.results = completed,
         pc = "report", Send(s, body)
  PROVE  ReportInv'
<1>1. sending = Nothing /\ \A t \in Slots : ~storing[t].heard
  BY DEF ReportInv, OneIsHeard
<1>2. pc' = "sent" /\ sending' = body /\ completed' = <<>> /\ UNCHANGED <<made, stored, cut, gone>>
  BY DEF Send
<1>3. completed \in Seq(Results)
  BY DEF ReportInv, ReportTypeOK
<1>4. Unsent' = Unsent
  BY <1>1, <1>2, <1>3, NothingIsABody, ConcatEmptySeq DEF Unsent
<1>5. InOrder' /\ Covered'
  BY <1>2, <1>4 DEF ReportInv, InOrder, Covered, Accounted
<1>6. storing'[s].rest = body /\ \A t \in Slots : storing'[t].heard => t = s
  BY <1>1 DEF Send, ReportInv, ReportTypeOK
<1> QED BY <1>2, <1>5, <1>6 DEF ReportInv, OneIsHeard, RestIsLeft

\* A report that failed goes back in front of what has finished since; the oldest are cut.
LEMMA BackInOrder ==
  ASSUME ReportInv, ReportTypeOK', NEW taken, taken.results = sending.results, PutBack(taken), stored' = stored,
         \A s \in Slots : ~storing'[s].heard
  PROVE  ReportInv'
<1> DEFINE over == IF Len(Unsent) > MaxBuffered THEN Len(Unsent) - MaxBuffered ELSE 0
           old == SubSeq(Unsent, 1, over)
           new == SubSeq(Unsent, over + 1, Len(Unsent))
<1>1. Unsent \in Seq(Results) /\ over \in 0..Len(Unsent)
  <2>1. Unsent \in Seq(Results)
    BY ConcatProperties DEF Unsent, ReportInv, ReportTypeOK, Bodies
  <2> QED BY <2>1, AgentAssumption, LenProperties
<1>2. /\ pc' = "idle" /\ sending' = Nothing /\ completed' = new
      /\ cut' = cut \union ToSet(old) /\ UNCHANGED <<made, gone>>
  BY DEF PutBack, Kept, Unsent
<1> HIDE DEF over
<1>3. /\ old \in Seq(Results) /\ new \in Seq(Results)
      /\ Len(old) = over /\ Len(new) = Len(Unsent) - over
      /\ \A i \in 1..over : old[i] = Unsent[i]
      /\ \A i \in 1..(Len(Unsent) - over) : new[i] = Unsent[over + i]
      /\ ToSet(Unsent) = ToSet(old) \union ToSet(new)
  BY <1>1, CutInTwo
<1>4. \A x : x \in ToSet(old) <=> \E i \in 1..Len(old) : x = old[i]
  BY <1>3, Members
<1> HIDE DEF old, new
<1>5. Unsent' = new
  BY <1>2, <1>3, NothingIsABody, ConcatEmptySeq DEF Unsent
<1>6. InOrder'
  <2>1. \A i \in 1..Len(new) : over + i \in 1..Len(Unsent)
    BY <1>1, <1>3
  <2>2. \A x \in ToSet(old) : \E i \in 1..Len(Unsent) : i <= over /\ x = Unsent[i]
    BY <1>1, <1>3, <1>4
  <2>3. \A x \in ToSet(old) : x.n <= made /\ \A i \in 1..Len(new) : x.n < new[i].n
    BY <1>1, <1>3, <2>1, <2>2 DEF ReportInv, InOrder
  <2>4. ASSUME NEW i \in 1..Len(new), NEW j \in 1..Len(new), i < j PROVE new[i].n < new[j].n
    <3>1. over + i < over + j /\ new[i] = Unsent[over + i] /\ new[j] = Unsent[over + j]
      BY <1>1, <1>3, <2>4
    <3> QED BY <2>1, <3>1 DEF ReportInv, InOrder
  <2> QED BY <1>2, <1>3, <1>5, <2>1, <2>3, <2>4, ZenonT(40) DEF ReportInv, InOrder
<1>7. Covered'
  BY <1>2, <1>3, <1>5, StaysCovered DEF ReportInv, Accounted
<1> QED BY <1>2, <1>6, <1>7 DEF ReportInv, OneIsHeard, RestIsLeft

\* The engine's next await stores the first result that is left.
LEMMA StoredNext ==
  ASSUME ReportInv, ReportTypeOK', NEW s \in Slots, StoreResult(s)
  PROVE  ReportInv'
<1> DEFINE left == storing[s].rest.results
<1>1. left \in Seq(Results) /\ left # <<>>
  BY DEF StoreResult, ReportInv, ReportTypeOK, Bodies
<1>2. /\ stored' = stored \union {Head(left)} /\ UNCHANGED <<pc, sending, completed, made, cut, gone>>
      /\ \A t \in Slots : storing'[t].heard = storing[t].heard
      /\ storing'[s].rest.results = Tail(left)
      /\ \A t \in Slots : t # s => storing'[t] = storing[t]
  BY DEF StoreResult, agent, ReportInv, ReportTypeOK
<1>3. ToSet(left) = {Head(left)} \union ToSet(Tail(left))
  BY <1>1, MembersOfTail
<1>4. InOrder'
  BY <1>2 DEF ReportInv, InOrder, Unsent
<1>5. Covered'
  BY <1>2, StaysCovered DEF ReportInv, Accounted, Unsent
<1>6. OneIsHeard' /\ RestIsLeft'
  BY <1>2, <1>3 DEF ReportInv, OneIsHeard, RestIsLeft
<1> QED BY <1>4, <1>5, <1>6 DEF ReportInv

\* A report that is all stored leaves the agent with what has finished since.
LEMMA DoneIsStored ==
  ASSUME ReportInv, ReportTypeOK', NEW s \in Slots, StoreDone(s), storing[s].heard
  PROVE  ReportInv'
<1>1. /\ pc' = "idle" /\ sending' = Nothing /\ UNCHANGED <<completed, made, stored, cut, gone>>
      /\ storing[s].rest = Nothing
  BY DEF StoreDone, history
<1>2. \A t \in Slots : ~storing'[t].heard
  BY DEF StoreDone, Free, ReportInv, ReportTypeOK, OneIsHeard
<1>3. ToSet(sending.results) \subseteq stored
  BY <1>1, NothingIsABody DEF ReportInv, RestIsLeft
<1> DEFINE a == sending.results
<1>4. /\ a \in Seq(Results) /\ completed \in Seq(Results)
  BY DEF ReportInv, ReportTypeOK, Bodies
<1>5. /\ Unsent' = completed
      /\ Len(Unsent) = Len(a) + Len(completed) /\ Len(a) \in Nat /\ Len(completed) \in Nat
      /\ \A i \in 1..Len(Unsent) : Unsent[i] = IF i <= Len(a) THEN a[i] ELSE completed[i - Len(a)]
      /\ ToSet(Unsent) = ToSet(a) \union ToSet(completed)
  <2>1. \A b, c \in Seq(Results) :
          /\ Len(b \o c) = Len(b) + Len(c) /\ Len(b) \in Nat
          /\ \A i \in 1..Len(b \o c) : (b \o c)[i] = IF i <= Len(b) THEN b[i] ELSE c[i - Len(b)]
          /\ ToSet(b \o c) = ToSet(b) \union ToSet(c)
    BY ConcatProperties, LenProperties, MembersOfBoth
  <2>2. Unsent' = completed
    BY <1>1, <1>4, NothingIsABody, ConcatEmptySeq DEF Unsent
  <2> QED BY <1>4, <2>1, <2>2 DEF Unsent
<1> HIDE DEF a
<1>6. \A i \in 1..Len(completed) : Len(a) + i \in 1..Len(Unsent) /\ completed[i] = Unsent[Len(a) + i]
  BY <1>5
<1>7. InOrder'
  <2>1. \A i, j \in 1..Len(completed) : i < j => completed[i].n < completed[j].n
    <3> SUFFICES ASSUME NEW i \in 1..Len(completed), NEW j \in 1..Len(completed), i < j
                 PROVE  completed[i].n < completed[j].n
      OBVIOUS
    <3>1. Len(a) + i < Len(a) + j
      BY <1>5
    <3> QED BY <1>6, <3>1 DEF ReportInv, InOrder
  <2> QED BY <1>1, <1>5, <1>6, <2>1 DEF ReportInv, InOrder
<1>8. Covered'
  BY <1>1, <1>3, <1>5, StaysCovered DEF a, ReportInv, Accounted
<1> QED BY <1>1, <1>2, <1>7, <1>8 DEF ReportInv, OneIsHeard, RestIsLeft

\* A restart loses what the agent holds, and nothing else.
LEMMA RestartLoses ==
  ASSUME ReportInv, ReportTypeOK', Restarted
  PROVE  ReportInv'
<1>1. /\ pc' = "idle" /\ sending' = Nothing /\ completed' = <<>> /\ UNCHANGED <<made, stored, cut>>
      /\ gone' = gone \union ToSet(completed) \union ToSet(sending.results)
      /\ \A s \in Slots : ~storing'[s].heard
  BY DEF Restarted, ReportInv, ReportTypeOK
<1>2. ToSet(Unsent) = ToSet(sending.results) \union ToSet(completed)
  <2>1. \A b, c \in Seq(Results) : ToSet(b \o c) = ToSet(b) \union ToSet(c)
    BY MembersOfBoth
  <2> QED BY <2>1 DEF Unsent, ReportInv, ReportTypeOK, Bodies
<1>3. Unsent' = <<>>
  BY <1>1, NothingIsABody, ConcatEmptySeq DEF Unsent
<1>4. InOrder'
  BY <1>1, <1>3 DEF ReportInv, InOrder
<1>5. Covered'
  BY <1>1, <1>2, <1>3, StaysCovered DEF ReportInv, Accounted
<1> QED BY <1>1, <1>4, <1>5 DEF ReportInv, OneIsHeard, RestIsLeft

-----------------------------------------------------------------------------
(* --- the steps --------------------------------------------------------------- *)
LEMMA PutBackTypes ==
  ASSUME ReportTypeOK, NEW taken \in Bodies, PutBack(taken), stored' = stored,
         storing' \in [Slots -> [on : BOOLEAN, heard : BOOLEAN, rest : Bodies]]
  PROVE  ReportTypeOK'
<1> DEFINE kept == Kept(taken.results)
           over == IF Len(kept) > MaxBuffered THEN Len(kept) - MaxBuffered ELSE 0
           old == SubSeq(kept, 1, over)
           new == SubSeq(kept, over + 1, Len(kept))
<1>1. kept \in Seq(Results)
  BY ConcatProperties DEF Kept, ReportTypeOK, Bodies
<1>2. over \in 0..Len(kept)
  BY <1>1, AgentAssumption, LenProperties
<1>3. /\ pc' = "idle" /\ sending' = Nothing /\ completed' = new
      /\ cut' = cut \union ToSet(old) /\ UNCHANGED <<made, gone>>
      /\ lists' = PutBackLists(taken.lists) /\ inventory' = PutBackInventory
  BY DEF PutBack
<1> HIDE DEF kept, over
<1>4. old \in Seq(Results) /\ new \in Seq(Results)
  BY <1>1, <1>2, CutInTwo
<1>5. ToSet(old) \subseteq Results
  BY <1>4 DEF ToSet
<1> HIDE DEF old, new
<1>6. lists' \in [made : Nat, ready : Nat] /\ inventory' \in [now : Nat, sent : Nat]
  BY <1>3 DEF PutBackLists, PutBackInventory, ReportTypeOK, Bodies
<1> QED BY <1>3, <1>4, <1>5, <1>6, NothingIsABody DEF ReportTypeOK

LEMMA ReportTypes == ReportTypeOK /\ [Next]_vars => ReportTypeOK'
<1> SUFFICES ASSUME ReportTypeOK, [Next]_vars PROVE ReportTypeOK'
  OBVIOUS
<1>1. CASE RequestUpdate \/ Repair \/ PollFails \/ PollRefused \/ Poll \/ UNCHANGED vars
  BY <1>1 DEF RequestUpdate, Repair, PollFails, PollRefused, Poll, ReportTypeOK, vars, agent, engine, history
<1>2. CASE NewInventory \/ Discovered
  BY <1>2 DEF NewInventory, Discovered, ReportTypeOK, engine, history
<1>3. ASSUME NEW c \in Checks, Finish(c) PROVE ReportTypeOK'
  <2>1. [check |-> c, n |-> made + 1] \in Results /\ made + 1 \in Nat
    BY <1>3, AgentAssumption DEF Finish, ReportTypeOK, Results
  <2>2. completed' \in Seq(Results)
    BY <1>3, <2>1 DEF Finish, ReportTypeOK
  <2> QED BY <1>3, <2>1, <2>2 DEF Finish, ReportTypeOK, engine
<1>4. CASE Restarted
  <2>1. ToSet(completed) \subseteq Results /\ ToSet(sending.results) \subseteq Results
    BY DEF ReportTypeOK, Bodies, ToSet
  <2>2. storing' \in [Slots -> [on : BOOLEAN, heard : BOOLEAN, rest : Bodies]]
    BY <1>4 DEF Restarted, ReportTypeOK
  <2>3. lists' \in [made : Nat, ready : Nat] /\ inventory' \in [now : Nat, sent : Nat]
    BY <1>4 DEF Restarted, ReportTypeOK
  <2> QED BY <1>4, <2>1, <2>2, <2>3, NothingIsABody DEF Restarted, ReportTypeOK
<1>5. ASSUME NEW s \in Slots, NEW body \in Bodies, Send(s, body) PROVE ReportTypeOK'
  BY <1>5 DEF Send, TakeDiscovery, ReportTypeOK
<1>6. CASE ReportLost
  BY <1>6, NothingIsABody, PutBackTypes DEF ReportLost, ReportTypeOK
<1>7. CASE GiveUp
  <2>1. storing' \in [Slots -> [on : BOOLEAN, heard : BOOLEAN, rest : Bodies]]
    BY <1>7 DEF GiveUp, ReportTypeOK
  <2> QED BY <1>7, <2>1, PutBackTypes DEF GiveUp, ReportTypeOK
<1>8. ASSUME NEW s \in Slots, Store(s) PROVE ReportTypeOK'
  <2>1. CASE StoreRow(s)
    <3>1. [Nothing EXCEPT !.results = storing[s].rest.results] \in Bodies
      BY DEF Nothing, ReportTypeOK, Bodies
    <3>2. storing' \in [Slots -> [on : BOOLEAN, heard : BOOLEAN, rest : Bodies]]
      BY <2>1, <3>1 DEF StoreRow, ReportTypeOK
    <3> QED BY <2>1, <3>2 DEF StoreRow, ReportTypeOK, agent, history
  <2>2. CASE StoreResult(s)
    <3> DEFINE left == storing[s].rest.results
    <3>1. Tail(left) \in Seq(Results) /\ Head(left) \in Results
      BY <2>2, MembersOfTail DEF StoreResult, ReportTypeOK, Bodies
    <3>2. storing' \in [Slots -> [on : BOOLEAN, heard : BOOLEAN, rest : Bodies]]
      BY <2>2, <3>1 DEF StoreResult, ReportTypeOK, Bodies
    <3> QED BY <2>2, <3>1, <3>2 DEF StoreResult, ReportTypeOK, agent
  <2> QED BY <1>8, <2>1, <2>2 DEF Store
<1>9. ASSUME NEW s \in Slots, StoreThrows(s) \/ StoreDone(s) \/ AnswerLost(s) PROVE ReportTypeOK'
  <2>1. storing' \in [Slots -> [on : BOOLEAN, heard : BOOLEAN, rest : Bodies]]
    <3>1. storing' = [storing EXCEPT ![s] = Free]
      BY <1>9 DEF StoreThrows, StoreDone, AnswerLost
    <3>2. Free \in [on : BOOLEAN, heard : BOOLEAN, rest : Bodies]
      BY NothingIsABody DEF Free
    <3> QED BY <3>1, <3>2 DEF ReportTypeOK
  <2>2. CASE PutBack(sending) /\ stored' = stored
    BY <2>1, <2>2, PutBackTypes DEF ReportTypeOK
  <2>3. CASE StoreDone(s)
    BY <2>1, <2>3, NothingIsABody DEF StoreDone, ReportTypeOK, agent, history
  <2>4. CASE UNCHANGED <<agent, made, cut, gone, stored>>
    BY <2>1, <2>4 DEF agent, ReportTypeOK
  <2> QED BY <1>9, <2>2, <2>3, <2>4 DEF StoreThrows, AnswerLost
<1>10. Sending \in Bodies /\ [Nothing EXCEPT !.results = completed] \in Bodies
  BY DEF Sending, Nothing, Bodies, ReportTypeOK
<1> QED BY <1>1, <1>2, <1>3, <1>4, <1>5, <1>6, <1>7, <1>8, <1>9, <1>10
        DEF Next, AnyPoll, PollAndUpdate, Restart, SendReport, SendSmall

LEMMA ReportStep == ReportInv /\ [Next]_vars => ReportInv'
<1> SUFFICES ASSUME ReportInv, [Next]_vars PROVE ReportInv'
  OBVIOUS
<1> USE ReportTypes DEF ReportInv
<1>0. ReportTypeOK'
  OBVIOUS
<1>1. CASE RequestUpdate \/ Repair \/ PollFails \/ PollRefused \/ Poll \/ UNCHANGED vars
  BY <1>0, <1>1, ResultsRest DEF RequestUpdate, Repair, PollFails, PollRefused, Poll, vars, agent, engine, history
<1>2. CASE NewInventory \/ Discovered
  BY <1>0, <1>2, ResultsRest DEF NewInventory, Discovered, engine, history
<1>3. ASSUME NEW c \in Checks, Finish(c) PROVE ReportInv'
  BY <1>0, <1>3, FinishedLast
<1>4. CASE Restarted
  BY <1>0, <1>4, RestartLoses
<1>5. ASSUME NEW s \in Slots, SendReport(s) \/ SendSmall(s) PROVE ReportInv'
  <2>1. Sending \in Bodies /\ [Nothing EXCEPT !.results = completed] \in Bodies
    BY DEF Sending, Nothing, Bodies, ReportTypeOK
  <2>2. Sending.results = completed /\ [Nothing EXCEPT !.results = completed].results = completed
    BY DEF Sending, Nothing
  <2> QED BY <1>0, <1>5, <2>1, <2>2, SentInOrder DEF SendReport, SendSmall
<1>6. CASE ReportLost
  <2>1. Nothing.results = sending.results /\ \A s \in Slots : ~storing[s].heard
    BY <1>6 DEF ReportLost, OneIsHeard
  <2> QED BY <1>0, <1>6, <2>1, BackInOrder DEF ReportLost
<1>7. CASE GiveUp
  <2>1. \A s \in Slots : ~storing'[s].heard
    BY <1>7 DEF GiveUp, ReportTypeOK
  <2> QED BY <1>0, <1>7, <2>1, BackInOrder DEF GiveUp
<1>8. ASSUME NEW s \in Slots, Store(s) PROVE ReportInv'
  <2>1. CASE StoreRow(s)
    <3>1. \A t \in Slots : storing'[t].heard = storing[t].heard /\ storing'[t].rest.results = storing[t].rest.results
      BY <2>1 DEF StoreRow, Nothing, ReportTypeOK
    <3> QED BY <1>0, <2>1, <3>1, ResultsRest DEF StoreRow, agent, history
  <2> QED BY <1>0, <1>8, <2>1, StoredNext DEF Store
<1>9. ASSUME NEW s \in Slots, StoreThrows(s) \/ StoreDone(s) \/ AnswerLost(s) PROVE ReportInv'
  <2>1. storing' = [storing EXCEPT ![s] = Free]
    BY <1>9 DEF StoreThrows, StoreDone, AnswerLost
  <2>2. CASE storing[s].heard
    <3>1. \A t \in Slots : ~storing'[t].heard
      BY <2>1, <2>2 DEF Free, ReportTypeOK, OneIsHeard
    <3> QED BY <1>0, <1>9, <2>2, <3>1, BackInOrder, DoneIsStored DEF StoreThrows, AnswerLost
  <2>3. CASE ~storing[s].heard
    <3>1. \A t \in Slots : storing'[t].heard => storing'[t] = storing[t]
      BY <2>1 DEF Free, ReportTypeOK
    <3>2. UNCHANGED <<agent, made, stored, cut, gone>>
      BY <1>9, <2>3 DEF StoreThrows, StoreDone, AnswerLost, history
    <3> QED BY <1>0, <3>1, <3>2, ResultsRest DEF agent
  <2> QED BY <2>2, <2>3
<1> QED BY <1>1, <1>2, <1>3, <1>4, <1>5, <1>6, <1>7, <1>8, <1>9 DEF Next, AnyPoll, PollAndUpdate, Restart

\* runOnce, startCheck and storeReport, for every number of checks, results and reports, every
\* buffer and every failure between them: a finished result is waiting, under way or stored,
\* unless a restart took it or the limit of the buffer, which takes the oldest.
THEOREM NoResultIsLost == Spec => []NoResultLost
<1>1. ReportInv => NoResultLost
  <2> SUFFICES ASSUME ReportInv PROVE NoResultLost
    OBVIOUS
  <2>1. ToSet(Unsent) = Held /\ Unsent \in Seq(Results)
    <3>1. \A b, c \in Seq(Results) : ToSet(b \o c) = ToSet(b) \union ToSet(c) /\ b \o c \in Seq(Results)
      BY MembersOfBoth, ConcatProperties
    <3> QED BY <3>1 DEF Held, Unsent, ReportInv, ReportTypeOK, Bodies
  <2>2. \A x : x \in Held <=> \E i \in 1..Len(Unsent) : x = Unsent[i]
    BY <2>1, Members
  <2> QED BY <2>1, <2>2 DEF ReportInv, Covered, Accounted, InOrder, NoResultLost
<1> QED BY <1>1, ReportStart, ReportStep, PTL DEF Spec
=============================================================================
