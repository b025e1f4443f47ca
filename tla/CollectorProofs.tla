--------------------------- MODULE CollectorProofs ---------------------------
(***************************************************************************)
(* What a collector may count on, for any checks, batches and buffer: an   *)
(* acknowledgement takes from the buffer what was stored, and a check runs *)
(* early only when it was asked to.                                        *)
(***************************************************************************)
EXTENDS Collector, FiniteSetTheorems, WellFoundedInduction, TLAPS

-----------------------------------------------------------------------------
(* The values of the variables.                                              *)
Posts == [batch : Seq(Results), stored : Nat, cut : Nat]
Fits ==
  /\ row \in Rows /\ config \in Rows
  /\ poll \in [step : {"idle", "asked"}, rows : {<<>>}] \union [step : {"answered"}, rows : Rows]
  /\ lastRun \subseteq Checks
  /\ elapsed \in [Checks -> BOOLEAN] /\ wanted \in [Checks -> BOOLEAN]
  /\ acked \in [Checks -> {"no", "late", "asked", "early"}]
  /\ run \in [Checks -> [on : BOOLEAN, held : BOOLEAN, reading : BOOLEAN]]
  /\ pending \in Seq(Results) /\ Len(pending) <= MaxBuffered
  /\ post \in Posts /\ post.stored <= Len(post.batch) /\ post.cut <= Len(post.batch)
\* The buffer still begins with what is posted, but for what was cut from its front, and what
\* the engine has stored is saved.
Aligned ==
  /\ Len(post.batch) <= Len(pending) + post.cut
  /\ \A i \in DOMAIN pending : i + post.cut <= Len(post.batch) =>
       /\ pending[i].check = post.batch[i + post.cut].check
       /\ i + post.cut <= post.stored => pending[i].saved
BufferInv == Fits /\ Aligned

\* Two lists of results of the same checks, equally saved.
Alike(l, k) == /\ l \in Seq(Results) /\ k \in Seq(Results) /\ Len(l) = Len(k)
               /\ \A i \in 1..Len(l) : l[i].check = k[i].check /\ l[i].saved = k[i].saved

LEMMA OldAlike == ASSUME NEW l \in Seq(Results), NEW c \in Checks PROVE Alike(OldResults(l, c), l)
<1>1. /\ DOMAIN OldResults(l, c) = 1..Len(l) /\ Len(l) \in Nat
      /\ \A i \in 1..Len(l) : l[i] \in Results /\ OldResults(l, c)[i] = IF l[i].check = c THEN [l[i] EXCEPT !.state = Old(@)] ELSE l[i]
  BY DEF OldResults
<1>2. \A i \in 1..Len(l) : OldResults(l, c)[i] \in Results /\ OldResults(l, c)[i].check = l[i].check /\ OldResults(l, c)[i].saved = l[i].saved
  <2> SUFFICES ASSUME NEW i \in 1..Len(l) PROVE OldResults(l, c)[i] \in Results /\ OldResults(l, c)[i].check = l[i].check /\ OldResults(l, c)[i].saved = l[i].saved
    OBVIOUS
  <2>1. l[i] \in Results /\ l[i].state \in States /\ Old(l[i].state) \in States
    BY <1>1 DEF Results, States, Old
  <2>2. [l[i] EXCEPT !.state = Old(@)] \in Results /\ [l[i] EXCEPT !.state = Old(@)].check = l[i].check /\ [l[i] EXCEPT !.state = Old(@)].saved = l[i].saved
    BY <2>1 DEF Results
  <2> QED BY <1>1, <2>1, <2>2
<1>3. OldResults(l, c) = [i \in 1..Len(l) |-> OldResults(l, c)[i]]
  BY <1>1 DEF OldResults
<1>4. OldResults(l, c) \in Seq(Results) /\ Len(OldResults(l, c)) = Len(l)
  BY <1>1, <1>2, <1>3
<1> QED BY <1>2, <1>4 DEF Alike

LEMMA SavedFits ==
  ASSUME NEW l \in Seq(Results), NEW n \in Nat
  PROVE  /\ Saved(l, n) \in Seq(Results) /\ Len(Saved(l, n)) = Len(l)
         /\ \A i \in 1..Len(l) : Saved(l, n)[i].check = l[i].check /\ (Saved(l, n)[i].saved <=> (i <= n \/ l[i].saved))
<1>1. /\ DOMAIN Saved(l, n) = 1..Len(l) /\ Len(l) \in Nat
      /\ \A i \in 1..Len(l) : l[i] \in Results /\ Saved(l, n)[i] = IF i <= n THEN [l[i] EXCEPT !.saved = TRUE] ELSE l[i]
  <2>1. DOMAIN l = 1..Len(l) /\ Len(l) \in Nat /\ \A i \in 1..Len(l) : l[i] \in Results
    OBVIOUS
  <2> QED BY <2>1, Zenon DEF Saved
<1>2. \A i \in 1..Len(l) : /\ [l[i] EXCEPT !.saved = TRUE] \in Results /\ [l[i] EXCEPT !.saved = TRUE].check = l[i].check
                           /\ [l[i] EXCEPT !.saved = TRUE].saved
  BY <1>1 DEF Results
<1>3. \A i \in 1..Len(l) : Saved(l, n)[i] \in Results
  BY <1>1, <1>2
<1>4. Saved(l, n) \in [1..Len(l) -> Results]
  <2>1. DOMAIN l = 1..Len(l)
    OBVIOUS
  <2>2. Saved(l, n) = [i \in 1..Len(l) |-> IF i <= n THEN [l[i] EXCEPT !.saved = TRUE] ELSE l[i]]
    BY <2>1, Zenon DEF Saved
  <2>3. \A i \in 1..Len(l) : (IF i <= n THEN [l[i] EXCEPT !.saved = TRUE] ELSE l[i]) \in Results
    BY <1>1, <1>2
  <2> QED BY <2>2, <2>3
<1>5. Saved(l, n) \in Seq(Results) /\ Len(Saved(l, n)) = Len(l)
  BY <1>1, <1>4
<1> QED BY <1>1, <1>2, <1>5

\* The buffer with one more result.
LEMMA QueuedFits ==
  ASSUME NEW l \in Seq(Results), NEW r \in Results, Len(l) <= MaxBuffered
  PROVE  /\ Queued(l, r) \in Seq(Results) /\ Len(Queued(l, r)) <= MaxBuffered /\ Len(Queued(l, r)) >= 1
         /\ Queued(l, r)[Len(Queued(l, r))] = r
         /\ Len(l) = MaxBuffered => Len(Queued(l, r)) = Len(l) /\ \A i \in 1..(Len(l) - 1) : Queued(l, r)[i] = l[i + 1]
         /\ Len(l) # MaxBuffered => Len(Queued(l, r)) = Len(l) + 1 /\ \A i \in 1..Len(l) : Queued(l, r)[i] = l[i]
<1>1. MaxBuffered \in Nat \ {0} /\ Len(l) \in Nat
  BY CollectorAssumption
<1>2. CASE Len(l) = MaxBuffered
  <2>1. l # <<>> /\ Tail(l) \in Seq(Results) /\ Len(Tail(l)) = Len(l) - 1 /\ \A i \in 1..(Len(l) - 1) : Tail(l)[i] = l[i + 1]
    BY <1>1, <1>2
  <2> QED BY <1>1, <1>2, <2>1 DEF Queued
<1>3. CASE Len(l) # MaxBuffered
  BY <1>1, <1>3 DEF Queued
<1> QED BY <1>2, <1>3

\* A finished run: the new result is behind everything that is posted.
LEMMA QueueAligns ==
  ASSUME BufferInv, NEW l, Alike(l, pending), NEW r \in Results, pending' = Queued(l, r),
         NEW b, Alike(b, post.batch), post' = [batch |-> b, stored |-> post.stored, cut |-> post.cut + Cut]
  PROVE  /\ pending' \in Seq(Results) /\ Len(pending') <= MaxBuffered
         /\ post' \in Posts /\ post'.stored <= Len(post'.batch) /\ post'.cut <= Len(post'.batch)
         /\ Aligned'
         /\ Len(pending') >= 1 /\ pending'[Len(pending')] = r /\ Len(pending') + post'.cut > Len(post'.batch)
<1>1. /\ l \in Seq(Results) /\ Len(l) = Len(pending) /\ Len(l) \in Nat /\ \A i \in 1..Len(l) : l[i].check = pending[i].check /\ l[i].saved = pending[i].saved
      /\ b \in Seq(Results) /\ Len(b) = Len(post.batch) /\ Len(b) \in Nat /\ \A i \in 1..Len(b) : b[i].check = post.batch[i].check
      /\ Len(pending) <= MaxBuffered /\ MaxBuffered \in Nat
      /\ post.stored \in Nat /\ post.cut \in Nat /\ post.stored <= Len(b) /\ post.cut <= Len(b)
  BY CollectorAssumption DEF BufferInv, Fits, Alike, Posts
<1>2. /\ Len(b) <= Len(l) + post.cut
      /\ \A i \in 1..Len(l) : i + post.cut <= Len(b) => l[i].check = b[i + post.cut].check /\ (i + post.cut <= post.stored => l[i].saved)
  <2>1. Len(b) <= Len(l) + post.cut
    BY <1>1 DEF BufferInv, Aligned
  <2>2. ASSUME NEW i \in 1..Len(l), i + post.cut <= Len(b) PROVE l[i].check = b[i + post.cut].check /\ (i + post.cut <= post.stored => l[i].saved)
    <3>1. i \in DOMAIN pending /\ i + post.cut \in 1..Len(b)
      BY <1>1, <2>2 DEF BufferInv, Fits
    <3> QED BY <1>1, <2>2, <3>1 DEF BufferInv, Aligned
  <2> QED BY <2>1, <2>2
<1>3. /\ pending' \in Seq(Results) /\ Len(pending') <= MaxBuffered /\ Len(pending') >= 1 /\ pending'[Len(pending')] = r /\ Len(pending') \in Nat
      /\ Len(l) = MaxBuffered => Len(pending') = Len(l) /\ \A i \in 1..(Len(l) - 1) : pending'[i] = l[i + 1]
      /\ Len(l) # MaxBuffered => Len(pending') = Len(l) + 1 /\ \A i \in 1..Len(l) : pending'[i] = l[i]
  <2> DEFINE q == Queued(l, r)
  <2>1. Len(l) <= MaxBuffered
    BY <1>1
  <2>2. /\ q \in Seq(Results) /\ Len(q) <= MaxBuffered /\ Len(q) >= 1 /\ q[Len(q)] = r
        /\ Len(l) = MaxBuffered => Len(q) = Len(l) /\ \A i \in 1..(Len(l) - 1) : q[i] = l[i + 1]
        /\ Len(l) # MaxBuffered => Len(q) = Len(l) + 1 /\ \A i \in 1..Len(l) : q[i] = l[i]
    BY <1>1, <2>1, QueuedFits
  <2>3. Len(q) \in Nat
    BY <2>2
  <2>4. pending' = q
    OBVIOUS
  <2> HIDE DEF q
  <2> QED BY <2>2, <2>3, <2>4, Zenon
<1>4. post'.batch = b /\ post'.stored = post.stored /\ post'.cut = post.cut + Cut
  OBVIOUS
<1>5. /\ Cut \in {0, 1}
      /\ Len(l) # MaxBuffered => Cut = 0
      /\ Len(l) = MaxBuffered => Cut = IF post.cut < Len(b) THEN 1 ELSE 0
  BY <1>1 DEF Cut, Full
<1>6. post' \in Posts /\ post'.stored <= Len(post'.batch) /\ post'.cut <= Len(post'.batch)
  <2>1. post.cut + Cut \in Nat /\ post.cut + Cut <= Len(b)
    BY <1>1, <1>5
  <2> QED BY <1>1, <2>1 DEF Posts
<1>7. Len(pending') + post'.cut > Len(post'.batch)
  BY <1>1, <1>2, <1>3, <1>4, <1>5
<1>8. ASSUME NEW i \in 1..Len(pending'), i + post'.cut <= Len(b)
      PROVE  pending'[i].check = b[i + post'.cut].check /\ (i + post'.cut <= post'.stored => pending'[i].saved)
  <2>1. CASE Len(l) # MaxBuffered
    <3>1. i \in 1..Len(l) /\ post'.cut = post.cut
      BY <1>1, <1>2, <1>3, <1>4, <1>5, <1>8, <2>1
    <3> QED BY <1>2, <1>3, <1>4, <1>8, <2>1, <3>1
  <2>2. CASE Len(l) = MaxBuffered
    <3>1. post'.cut = post.cut + 1
      BY <1>1, <1>4, <1>5, <1>8, <2>2
    <3>2. i \in 1..(Len(l) - 1) /\ i + 1 \in 1..Len(l) /\ (i + 1) + post.cut = i + post'.cut
      BY <1>1, <1>2, <1>3, <1>8, <2>2, <3>1
    <3> QED BY <1>2, <1>3, <1>4, <1>8, <2>2, <3>2
  <2> QED BY <2>1, <2>2
<1>9. Aligned'
  <2>1. DOMAIN pending' = 1..Len(pending')
    BY <1>3
  <2>2. Len(post'.batch) <= Len(pending') + post'.cut
    BY <1>1, <1>3, <1>4, <1>6, <1>7 DEF Posts
  <2>3. \A i \in DOMAIN pending' : i + post'.cut <= Len(post'.batch) =>
           /\ pending'[i].check = post'.batch[i + post'.cut].check
           /\ i + post'.cut <= post'.stored => pending'[i].saved
    BY <1>4, <1>8, <2>1
  <2> QED BY <2>2, <2>3 DEF Aligned
<1> QED BY <1>3, <1>6, <1>7, <1>9

\* A bounded set of numbers has a largest.
LEMMA Largest == ASSUME NEW n \in Nat, NEW S \in SUBSET (1..n), S # {} PROVE Max(S) \in S
<1> DEFINE T == {n - i : i \in S}
<1>1. T \subseteq Nat /\ T # {}
  <2>1. PICK i : i \in S
    OBVIOUS
  <2>2. n - i \in T
    BY <2>1
  <2>3. T \subseteq Nat
    OBVIOUS
  <2> QED BY <2>2, <2>3
<1>2. PICK t \in T : \A u \in T : ~(<<u, t>> \in OpToRel(<, Nat))
  BY <1>1, WFMin, NatLessThanWellFounded
<1>3. \A u \in T : ~(u < t)
  BY <1>1, <1>2 DEF OpToRel
<1>4. PICK i \in S : t = n - i
  OBVIOUS
<1>5. \A j \in S : i >= j
  BY <1>3, <1>4
<1> QED BY <1>5 DEF Max

-----------------------------------------------------------------------------
(* Rows: a run makes old what they know, a stored result answers a request.  *)
LEMMA RowFits == ASSUME NEW x \in [asked : BOOLEAN, state : States] PROVE x.asked \in BOOLEAN /\ x.state \in States
OBVIOUS

LEMMA OldRowsFit ==
  ASSUME NEW rows \in Rows, NEW c \in Checks
  PROVE  OldRows(rows, c) \in Rows /\ \A d \in Checks : OldRows(rows, c)[d].asked = rows[d].asked
<1>1. rows[c] \in [asked : BOOLEAN, state : States] /\ Old(rows[c].state) \in States
  BY DEF Rows, Old, States
<1> QED BY <1>1 DEF OldRows, Rows

LEMMA StoredFits ==
  ASSUME NEW rows \in Rows, NEW r \in Results
  PROVE  StoredIn(rows, r) \in Rows /\ \A d \in Checks : StoredIn(rows, r)[d].asked => rows[d].asked /\ d # r.check
<1>1. r.check \in Checks /\ r.has \in BOOLEAN /\ r.state \in States /\ rows[r.check].state \in States
  BY DEF Rows, Results
<1>2. [asked |-> FALSE, state |-> IF r.has THEN r.state ELSE rows[r.check].state] \in [asked : BOOLEAN, state : States]
  BY <1>1
<1>3. StoredIn(rows, r) = [rows EXCEPT ![r.check] = [asked |-> FALSE, state |-> IF r.has THEN r.state ELSE rows[r.check].state]]
  BY Zenon DEF StoredIn
<1> QED BY <1>1, <1>2, <1>3 DEF Rows

LEMMA AllStoredFits ==
  ASSUME row \in Rows, NEW l \in Seq(Results)
  PROVE  AllStored(l) \in Rows /\ \A c \in Checks : AllStored(l)[c].asked => row[c].asked
<1> DEFINE made(c) == {i \in DOMAIN l : l[i].check = c}
           has(c) == {i \in made(c) : l[i].has}
           new(c) == IF made(c) = {} THEN row[c]
                     ELSE [asked |-> FALSE, state |-> IF has(c) = {} THEN row[c].state ELSE l[Max(has(c))].state]
<1>1. AllStored(l) = [c \in Checks |-> new(c)]
  BY Zenon DEF AllStored
<1>2. ASSUME NEW c \in Checks PROVE new(c) \in [asked : BOOLEAN, state : States] /\ (new(c).asked => row[c].asked)
  <2>1. row[c] \in [asked : BOOLEAN, state : States] /\ row[c].state \in States
    BY DEF Rows
  <2>2. has(c) # {} => l[Max(has(c))].state \in States
    <3>1. Len(l) \in Nat /\ has(c) \in SUBSET (1..Len(l)) /\ \A i \in 1..Len(l) : l[i] \in Results
      OBVIOUS
    <3> HIDE DEF has
    <3> QED BY <3>1, Largest DEF Results
  <2> HIDE DEF has, made
  <2> QED BY <2>1, <2>2
<1> HIDE DEF new
<1> QED BY <1>1, <1>2 DEF Rows

-----------------------------------------------------------------------------
LEMMA BufferStart == Init => BufferInv
<1> SUFFICES ASSUME Init PROVE BufferInv
  OBVIOUS
<1>1. row \in Rows /\ config \in Rows
  BY DEF Init, Rows, States
<1>2. pending = <<>> /\ post = [batch |-> <<>>, stored |-> 0, cut |-> 0] /\ wanted \in [Checks -> BOOLEAN]
  BY <1>1 DEF Init, NoPost, Rows
<1>3. Fits
  BY <1>1, <1>2, CollectorAssumption DEF Init, Fits, NoPoll, Idle, Posts
<1>4. Aligned
  BY <1>2 DEF Aligned
<1> QED BY <1>3, <1>4 DEF BufferInv

\* What the buffer and the post do not notice.
LEMMA BufferRests == ASSUME BufferInv, UNCHANGED <<pending, post>>, Fits' PROVE BufferInv'
BY DEF BufferInv, Aligned

\* History keeps its type.
LEMMA LostFits == ASSUME NEW m, NEW n, Lost(m, n), Fits PROVE wanted' \in [Checks -> BOOLEAN]
<1>1. \A c \in Checks : (wanted[c] \/ (~IsPending(c)' /\ \E i \in m..n : i \in DOMAIN pending /\ pending[i].check = c)) \in BOOLEAN
  BY DEF Fits
<1> QED BY <1>1 DEF Lost

\* The two ways a run ends that leave a result.
LEMMA RunEnds ==
  ASSUME BufferInv, NEW c \in Checks, Throw(c) \/ Finish(c, FALSE)
  PROVE  /\ BufferInv' /\ \E l, b, r : /\ Alike(l, pending) /\ Alike(b, post.batch) /\ r \in Results /\ r.check = c
                                       /\ pending' = Queued(l, r) /\ post' = [batch |-> b, stored |-> post.stored, cut |-> post.cut + Cut]
         /\ Len(pending') >= 1 /\ pending'[Len(pending')].check = c /\ Len(pending') + post'.cut > Len(post'.batch)
<1>1. Fits /\ pending \in Seq(Results) /\ post.batch \in Seq(Results) /\ post = [batch |-> post.batch, stored |-> post.stored, cut |-> post.cut]
  BY DEF BufferInv, Fits, Posts
<1>2. Alike(pending, pending) /\ Alike(post.batch, post.batch) /\ Alike(OldResults(pending, c), pending) /\ Alike(OldResults(post.batch, c), post.batch)
  BY <1>1, OldAlike DEF Alike
<1> DEFINE bad == Result(c, FALSE, NoState)
           good == Result(c, TRUE, [latest |-> TRUE, reading |-> TRUE])
<1>3. bad \in Results /\ good \in Results /\ bad.check = c /\ good.check = c
  BY DEF Result, Results, NoState, States
<1>4. PICK l, b, r : /\ Alike(l, pending) /\ Alike(b, post.batch) /\ r \in Results /\ r.check = c
                     /\ pending' = Queued(l, r) /\ post' = [batch |-> b, stored |-> post.stored, cut |-> post.cut + Cut]
  <2>1. CASE Throw(c)
    <3>1. pending' = Queued(pending, bad) /\ post' = [batch |-> post.batch, stored |-> post.stored, cut |-> post.cut + Cut]
      BY <1>1, <2>1 DEF Throw
    <3> HIDE DEF bad
    <3> QED BY <1>2, <1>3, <3>1
  <2>2. CASE Finish(c, FALSE)
    <3>1. pending' = Queued(OldResults(pending, c), good) /\ post' = [batch |-> OldResults(post.batch, c), stored |-> post.stored, cut |-> post.cut + Cut]
      BY <1>1, <2>2 DEF Finish
    <3> HIDE DEF good
    <3> QED BY <1>2, <1>3, <3>1
  <2> QED BY <2>1, <2>2
<1>5. /\ pending' \in Seq(Results) /\ Len(pending') <= MaxBuffered
      /\ post' \in Posts /\ post'.stored <= Len(post'.batch) /\ post'.cut <= Len(post'.batch)
      /\ Aligned'
      /\ Len(pending') >= 1 /\ pending'[Len(pending')] = r /\ Len(pending') + post'.cut > Len(post'.batch)
  BY <1>4, QueueAligns
<1>6. wanted' \in [Checks -> BOOLEAN]
  BY <1>1, LostFits DEF Throw, Finish
<1>7. /\ row' \in Rows /\ config' \in Rows /\ run' \in [Checks -> [on : BOOLEAN, held : BOOLEAN, reading : BOOLEAN]]
      /\ poll' \in [step : {"idle", "asked"}, rows : {<<>>}] \union [step : {"answered"}, rows : Rows]
  <2>1. CASE Throw(c)
    BY <1>1, <2>1 DEF Throw, Fits, Idle
  <2>2. CASE Finish(c, FALSE)
    <3>1. row' = OldRows(row, c) /\ row' \in Rows /\ OldRows(config, c) \in Rows /\ run' = [run EXCEPT ![c] = Idle]
      BY <1>1, <2>2, OldRowsFit DEF Finish, Fits
    <3>2. config' \in Rows
      <4>1. config' = IF run[c].held THEN [OldRows(config, c) EXCEPT ![c].state = [latest |-> TRUE, reading |-> TRUE]] ELSE OldRows(config, c)
        BY <2>2 DEF Finish
      <4> QED BY <3>1, <4>1 DEF Rows, States
    <3>3. poll' \in [step : {"idle", "asked"}, rows : {<<>>}] \union [step : {"answered"}, rows : Rows]
      <4>1. poll' = IF poll.step = "answered" THEN [poll EXCEPT !.rows = OldRows(@, c)] ELSE poll
        BY <2>2 DEF Finish
      <4>2. poll.step = "answered" => poll \in [step : {"answered"}, rows : Rows] /\ OldRows(poll.rows, c) \in Rows
        BY <1>1, OldRowsFit DEF Fits
      <4> QED BY <1>1, <4>1, <4>2 DEF Fits
    <3> QED BY <1>1, <3>1, <3>2, <3>3 DEF Fits, Idle
  <2> QED BY <2>1, <2>2
<1>8. UNCHANGED <<lastRun, elapsed, acked>>
  BY DEF Throw, Finish
<1>9. Fits'
  BY <1>1, <1>5, <1>6, <1>7, <1>8 DEF Fits
<1> QED BY <1>4, <1>5, <1>9 DEF BufferInv

LEMMA BufferStep == BufferInv /\ [Next]_vars => BufferInv'
<1> SUFFICES ASSUME BufferInv, [Next]_vars PROVE BufferInv'
  OBVIOUS
<1>1. Fits /\ Aligned /\ pending \in Seq(Results) /\ post.batch \in Seq(Results) /\ post \in Posts /\ Len(pending) \in Nat /\ Len(post.batch) \in Nat
      /\ post.stored \in Nat /\ post.cut \in Nat /\ post.stored <= Len(post.batch) /\ post.cut <= Len(post.batch)
  BY DEF BufferInv, Fits, Posts
<1>2. NoPost \in Posts /\ NoPost.batch = <<>> /\ NoPost.stored = 0 /\ NoPost.cut = 0 /\ Len(NoPost.batch) = 0
  BY DEF NoPost, Posts
<1>3. ASSUME NEW c \in Checks, Elapse(c) \/ RunNow(c) PROVE BufferInv'
  <2>1. Fits'
    <3>1. CASE Elapse(c)
      BY <1>1, <3>1 DEF Elapse, Fits
    <3>2. CASE RunNow(c)
      <4>1. row' = [row EXCEPT ![c].asked = TRUE] /\ wanted' = [wanted EXCEPT ![c] = TRUE] /\ row \in Rows
        BY <1>1, <3>2 DEF RunNow, Fits
      <4>2. row' \in Rows
        BY <4>1 DEF Rows
      <4> QED BY <1>1, <3>2, <4>1, <4>2 DEF RunNow, Fits
    <3> QED BY <1>3, <3>1, <3>2
  <2> QED BY <1>3, <2>1, BufferRests DEF Elapse, RunNow
<1>4. ASSUME NEW c \in Checks, StartRun(c) PROVE BufferInv'
  <2>1. config[c].state.reading \in BOOLEAN
    BY <1>1 DEF Fits, Rows, States
  <2>2. Fits'
    BY <1>1, <1>4, <2>1 DEF StartRun, Fits
  <2> QED BY <1>4, <2>2, BufferRests DEF StartRun
<1>5. ASSUME NEW c \in Checks, Throw(c) \/ Finish(c, FALSE) PROVE BufferInv'
  BY <1>5, RunEnds
<1>6. ASSUME NEW c \in Checks, Finish(c, TRUE) PROVE BufferInv'
  <2>1. pending' = OldResults(pending, c) /\ post' = [batch |-> OldResults(post.batch, c), stored |-> post.stored, cut |-> post.cut]
    BY <1>1, <1>6 DEF Finish, Posts
  <2>2. Alike(OldResults(pending, c), pending) /\ Alike(OldResults(post.batch, c), post.batch)
    BY <1>1, OldAlike
  <2>3. /\ pending' \in Seq(Results) /\ Len(pending') = Len(pending) /\ DOMAIN pending' = 1..Len(pending)
        /\ \A i \in 1..Len(pending) : pending'[i].check = pending[i].check /\ pending'[i].saved = pending[i].saved
        /\ post'.batch \in Seq(Results) /\ Len(post'.batch) = Len(post.batch) /\ \A i \in 1..Len(post.batch) : post'.batch[i].check = post.batch[i].check
        /\ post'.stored = post.stored /\ post'.cut = post.cut
    BY <2>1, <2>2 DEF Alike
  <2>4. Aligned'
    <3>1. \A i \in 1..Len(pending) : i + post.cut <= Len(post.batch) => i + post.cut \in 1..Len(post.batch)
      BY <1>1
    <3>2. DOMAIN pending = 1..Len(pending)
      BY <1>1
    <3> QED BY <1>1, <2>3, <3>1, <3>2 DEF Aligned
  <2>5. post' \in Posts
    BY <1>1, <2>1, <2>3 DEF Posts
  <2>6. row' \in Rows /\ config' \in Rows
    <3>1. row' = OldRows(row, c) /\ OldRows(config, c) \in Rows /\ OldRows(row, c) \in Rows
          /\ config' = IF run[c].held THEN [OldRows(config, c) EXCEPT ![c].state = [latest |-> TRUE, reading |-> TRUE]] ELSE OldRows(config, c)
      BY <1>1, <1>6, OldRowsFit DEF Finish, Fits
    <3> QED BY <3>1 DEF Rows, States
  <2>7. poll' \in [step : {"idle", "asked"}, rows : {<<>>}] \union [step : {"answered"}, rows : Rows]
    <3>1. poll' = IF poll.step = "answered" THEN [poll EXCEPT !.rows = OldRows(@, c)] ELSE poll
      BY <1>6 DEF Finish
    <3>2. poll.step = "answered" => poll \in [step : {"answered"}, rows : Rows] /\ OldRows(poll.rows, c) \in Rows
      BY <1>1, OldRowsFit DEF Fits
    <3> QED BY <1>1, <3>1, <3>2 DEF Fits
  <2>8. Fits'
    BY <1>1, <1>6, <2>3, <2>5, <2>6, <2>7 DEF Finish, Fits, Idle
  <2> QED BY <2>4, <2>8 DEF BufferInv
<1>7. CASE Poll \/ Answer \/ PollFails
  <2>1. poll' \in [step : {"idle", "asked"}, rows : {<<>>}] \union [step : {"answered"}, rows : Rows]
    BY <1>1, <1>7 DEF Poll, Answer, PollFails, NoPoll, Fits
  <2>2. acked' \in [Checks -> {"no", "late", "asked", "early"}]
    BY <1>1, <1>7 DEF Poll, Answer, PollFails, Fits
  <2>3. UNCHANGED <<row, config, lastRun, elapsed, run, pending, post, wanted>>
    BY <1>7 DEF Poll, Answer, PollFails
  <2>4. Fits'
    BY <1>1, <2>1, <2>2, <2>3 DEF Fits
  <2> QED BY <2>3, <2>4, BufferRests
<1>8. CASE Adopt
  <2>1. poll.rows \in Rows
    BY <1>1, <1>8 DEF Adopt, Fits
  <2>2. config' \in Rows
    <3>1. \A c \in Checks : poll.rows[c] \in [asked : BOOLEAN, state : States] /\ config[c].state \in States
      BY <1>1, <2>1 DEF Rows, Fits
    <3>2. \A c \in Checks : [poll.rows[c] EXCEPT !.state = IF IsPending(c) THEN config[c].state ELSE @] \in [asked : BOOLEAN, state : States]
      BY <3>1
    <3> QED BY <1>8, <3>2 DEF Adopt, Rows
  <2>3. poll' = NoPoll /\ UNCHANGED <<row, lastRun, elapsed, pending, post, wanted>>
    BY <1>8 DEF Adopt
  <2>4. run' \in [Checks -> [on : BOOLEAN, held : BOOLEAN, reading : BOOLEAN]]
    BY <1>1, <1>8 DEF Adopt, Fits
  <2>5. acked' \in [Checks -> {"no", "late", "asked", "early"}]
    BY <1>1, <1>8 DEF Adopt, Fits
  <2>6. Fits'
    BY <1>1, <2>2, <2>3, <2>4, <2>5 DEF Fits, NoPoll
  <2> QED BY <2>3, <2>6, BufferRests
<1>9. CASE Post
  <2> DEFINE m == IF Len(pending) < MaxBatch THEN Len(pending) ELSE MaxBatch
  <2>1. m \in Nat /\ m <= Len(pending)
    BY <1>1, CollectorAssumption
  <2>2. /\ post' = [batch |-> SubSeq(pending, 1, m), stored |-> 0, cut |-> 0]
        /\ UNCHANGED <<row, config, poll, lastRun, elapsed, acked, run, pending, wanted>>
    BY <1>9 DEF Post, NoPost
  <2> HIDE DEF m
  <2>3. SubSeq(pending, 1, m) \in Seq(Results) /\ Len(SubSeq(pending, 1, m)) = m /\ \A i \in 1..m : SubSeq(pending, 1, m)[i] = pending[i]
    BY <1>1, <2>1
  <2>4. Fits'
    BY <1>1, <2>1, <2>2, <2>3 DEF Fits, Posts
  <2>5. Aligned'
    BY <1>1, <2>1, <2>2, <2>3 DEF Aligned
  <2> QED BY <2>4, <2>5 DEF BufferInv
<1>10. CASE Store
  <2> DEFINE n == IF post.stored < post.cut THEN 0 ELSE post.stored + 1 - post.cut
  <2>1. n \in Nat /\ post.stored + 1 \in 1..Len(post.batch)
    BY <1>1, <1>10 DEF Store
  <2>2. /\ post' = [batch |-> post.batch, stored |-> post.stored + 1, cut |-> post.cut] /\ pending' = Saved(pending, n)
        /\ row' = StoredIn(row, post.batch[post.stored + 1])
        /\ UNCHANGED <<config, poll, lastRun, elapsed, acked, run, wanted>>
    BY <1>1, <1>10 DEF Store, Posts
  <2>3. \A i \in 1..Len(pending) : i + post.cut <= post.stored + 1 => i <= n
    BY <1>1
  <2> HIDE DEF n
  <2>4. /\ pending' \in Seq(Results) /\ Len(pending') = Len(pending) /\ DOMAIN pending' = DOMAIN pending /\ DOMAIN pending = 1..Len(pending)
        /\ \A i \in 1..Len(pending) : pending'[i].check = pending[i].check /\ (i <= n \/ pending[i].saved => pending'[i].saved)
    BY <1>1, <2>1, <2>2, SavedFits
  <2>5. row' \in Rows
    <3>1. post.batch[post.stored + 1] \in Results /\ row \in Rows
      BY <1>1, <2>1 DEF Fits
    <3> QED BY <2>2, <3>1, StoredFits
  <2>6. Fits'
    BY <1>1, <2>1, <2>2, <2>4, <2>5 DEF Fits, Posts
  <2>7. Aligned'
    BY <1>1, <2>2, <2>3, <2>4 DEF Aligned
  <2> QED BY <2>6, <2>7 DEF BufferInv
<1>11. CASE Ack
  <2>1. post' = NoPost /\ pending' = SubSeq(pending, Len(post.batch) + 1, Len(pending)) /\ UNCHANGED <<row, config, poll, lastRun, elapsed, run>>
    BY <1>11 DEF Ack, Unposted
  <2>2. pending' \in Seq(Results) /\ Len(pending') <= Len(pending) /\ Len(pending') \in Nat
    BY <1>1, <2>1
  <2>3. acked' \in [Checks -> {"no", "late", "asked", "early"}] /\ wanted' \in [Checks -> BOOLEAN]
    BY <1>1, <1>11, LostFits DEF Ack, Fits
  <2>4. Fits'
    <3>1. Len(pending') <= MaxBuffered
      BY <1>1, <2>2, CollectorAssumption DEF Fits
    <3>2. post' \in Posts /\ post'.stored <= Len(post'.batch) /\ post'.cut <= Len(post'.batch)
      BY <1>2, <2>1
    <3> QED BY <1>1, <2>1, <2>2, <2>3, <3>1, <3>2 DEF Fits
  <2>5. Aligned'
    <3>1. post'.cut = 0 /\ Len(post'.batch) = 0
      BY <1>2, <2>1
    <3>2. \A i \in DOMAIN pending' : i \in Nat \ {0}
      BY <2>2
    <3> QED BY <2>2, <3>1, <3>2 DEF Aligned
  <2> QED BY <2>4, <2>5 DEF BufferInv
<1>12. CASE PostFails
  <2>1. post' = NoPost /\ UNCHANGED <<config, poll, lastRun, elapsed, acked, run, wanted>>
    BY <1>12 DEF PostFails
  <2>2. /\ row' \in Rows /\ pending' \in Seq(Results) /\ Len(pending') = Len(pending)
    <3>1. CASE UNCHANGED <<row, pending>>
      BY <1>1, <3>1 DEF Fits
    <3>2. CASE ~UNCHANGED <<row, pending>>
      <4> DEFINE l == SubSeq(post.batch, post.stored + 1, Len(post.batch))
                 n == IF Len(post.batch) < post.cut THEN 0 ELSE Len(post.batch) - post.cut
      <4>1. l \in Seq(Results) /\ n \in Nat
        BY <1>1
      <4>2. row' = AllStored(l) /\ pending' = Saved(pending, n)
        BY <1>12, <3>2 DEF PostFails
      <4> HIDE DEF l, n
      <4> QED BY <1>1, <4>1, <4>2, AllStoredFits, SavedFits DEF Fits
    <3> QED BY <3>1, <3>2
  <2>3. Fits'
    BY <1>1, <1>2, <2>1, <2>2 DEF Fits
  <2>4. Aligned'
    BY <1>1, <1>2, <2>1, <2>2 DEF Aligned
  <2> QED BY <2>3, <2>4 DEF BufferInv
<1>13. CASE UNCHANGED vars
  BY <1>13 DEF vars, BufferInv, Fits, Aligned
<1>14. ASSUME NEW c \in Checks, NEW skip \in BOOLEAN, Finish(c, skip) PROVE BufferInv'
  BY <1>5, <1>6, <1>14
<1> QED BY <1>3, <1>4, <1>5, <1>7, <1>8, <1>9, <1>10, <1>11, <1>12, <1>13, <1>14 DEF Next, Runs, Flush

\* The variables have the values the code gives them, and the buffer its limit.
THEOREM CollectorTypeCorrect == Spec => []TypeOK
<1>1. BufferInv => TypeOK
  <2> SUFFICES ASSUME Fits PROVE TypeOK
    BY DEF BufferInv
  <2>1. ToSet(pending) \subseteq Results /\ ToSet(post.batch) \subseteq Results
    BY DEF Fits, Posts, ToSet
  <2> QED BY <2>1 DEF Fits, TypeOK
<1> QED BY <1>1, BufferStart, BufferStep, PTL DEF Spec

-----------------------------------------------------------------------------
(* An acknowledgement takes stored results only.                             *)
LEMMA AckTakes == ASSUME BufferInv, Ack PROVE Unsaved(pending) <= Unsaved(pending') + post.cut
<1> DEFINE n == Len(post.batch)
           size == Len(pending)
           left == {i \in DOMAIN pending : ~pending[i].saved}
           left2 == {i \in DOMAIN pending' : ~pending'[i].saved}
           behind == {i \in (n + 1)..size : ~pending[i].saved}
           k == post.cut
<1>1. n \in Nat /\ size \in Nat /\ k \in Nat /\ k <= n /\ pending \in Seq(Results) /\ DOMAIN pending = 1..size
  BY DEF BufferInv, Fits, Posts
<1>2. pending' = SubSeq(pending, n + 1, size) /\ post.stored = n
  BY DEF Ack, Unposted
<1>3. DOMAIN pending' = 1..(IF n + 1 <= size THEN size - n ELSE 0) /\ \A i \in DOMAIN pending' : pending'[i] = pending[i + n]
  <2> HIDE DEF n, size
  <2>1. CASE n + 1 <= size
    <3>1. pending' \in Seq(Results) /\ Len(pending') = size - n /\ \A i \in 1..(size - n) : pending'[i] = pending[i + n]
      BY <1>1, <1>2, <2>1 DEF size
    <3> QED BY <2>1, <3>1
  <2>2. CASE ~(n + 1 <= size)
    <3>1. pending' = <<>>
      BY <1>1, <1>2, <2>2 DEF size
    <3> QED BY <2>2, <3>1
  <2> QED BY <2>1, <2>2
<1>4. \A i \in 1..size : i + k <= n => pending[i].saved
  BY <1>1, <1>2 DEF BufferInv, Aligned
<1>5. Unsaved(pending) = Cardinality(left) /\ Unsaved(pending') = Cardinality(left2)
  BY DEF Unsaved
<1> HIDE DEF n, size, k
<1>6. left \subseteq behind \union ((n - k + 1)..n)
  BY <1>1, <1>4
<1>7. IsFiniteSet(left2) /\ Cardinality(left2) \in Nat
  <2> DEFINE top == IF n + 1 <= size THEN size - n ELSE 0
  <2>1. left2 \in SUBSET (1..top) /\ top \in Int /\ 1 \in Int
    BY <1>1, <1>3
  <2> HIDE DEF left2, top
  <2>2. IsFiniteSet(1..top)
    BY <2>1, FS_Interval
  <2>3. IsFiniteSet(left2)
    BY <2>1, <2>2, FS_Subset
  <2> QED BY <2>3, FS_CardinalityType
<1>8. IsFiniteSet(behind) /\ Cardinality(behind) \in Nat /\ Cardinality(behind) <= Cardinality(left2)
  <2> DEFINE f == [i \in behind |-> i - n]
  <2>1. f \in Injection(behind, left2)
    <3>1. \A i \in behind : i - n \in left2
      BY <1>1, <1>3
    <3>2. \A i, j \in behind : i - n = j - n => i = j
      BY <1>1
    <3> HIDE DEF behind, left2
    <3> QED BY <3>1, <3>2 DEF Injection, IsInjective
  <2> HIDE DEF f, behind, left2
  <2> QED BY <1>7, <2>1, FS_Injection, FS_CardinalityType
<1>9. IsFiniteSet((n - k + 1)..n) /\ Cardinality((n - k + 1)..n) = k
  <2>1. n - k + 1 \in Int /\ n \in Int /\ (IF n - k + 1 > n THEN 0 ELSE n - (n - k + 1) + 1) = k
    BY <1>1
  <2> QED BY <2>1, FS_Interval
<1>10. Cardinality(left) <= Cardinality(behind) + k
  <2> DEFINE both == behind \union ((n - k + 1)..n)
  <2>1. IsFiniteSet(both) /\ Cardinality(both) = Cardinality(behind) + k - Cardinality(behind \cap ((n - k + 1)..n))
    BY <1>8, <1>9, FS_Union
  <2>2. Cardinality(behind \cap ((n - k + 1)..n)) \in Nat
    <3>1. behind \cap ((n - k + 1)..n) \in SUBSET behind
      OBVIOUS
    <3> HIDE DEF behind
    <3> QED BY <1>8, <3>1, FS_Subset, FS_CardinalityType
  <2>3. Cardinality(left) <= Cardinality(both) /\ Cardinality(left) \in Nat /\ Cardinality(both) \in Nat
    <3>1. left \in SUBSET both
      BY <1>6
    <3> HIDE DEF left, both
    <3> QED BY <2>1, <3>1, FS_Subset, FS_CardinalityType
  <2> HIDE DEF both, left, behind
  <2> QED BY <1>1, <1>8, <2>1, <2>2, <2>3
<1> HIDE DEF left, left2, behind
<1>11. Cardinality(left) \in Nat
  <2>1. left \in SUBSET (behind \union ((n - k + 1)..n)) /\ IsFiniteSet(behind \union ((n - k + 1)..n))
    BY <1>6, <1>8, <1>9, FS_Union
  <2> QED BY <2>1, FS_Subset, FS_CardinalityType
<1> QED BY <1>1, <1>5, <1>7, <1>8, <1>10, <1>11 DEF k

\* For any checks, batch and buffer, and whichever polls and posts fail.
THEOREM AcksTakeStored == Spec => AckTakesStored
<1>1. BufferInv /\ [Next]_vars => [Ack => Unsaved(pending) <= Unsaved(pending') + post.cut]_vars
  BY AckTakes
<1> QED BY <1>1, BufferStart, BufferStep, PTL DEF Spec, AckTakesStored

-----------------------------------------------------------------------------
(* A check runs early only when it was asked to.                             *)
Calm(c) == c \in lastRun /\ ~wanted[c] /\ ~run[c].on
\* Of c's results the buffer has none that the post under way has not stored.
Landed(c) == \A i \in DOMAIN pending : pending[i].check = c => i + post.cut <= post.stored
\* The row of a check that has not run, or whose results have landed, asks for nothing that is
\* not wanted; and neither does a config that was asked for after the answer to the last post.
Ask(c) ==
  /\ c \notin lastRun /\ ~wanted[c] => ~row[c].asked /\ ~config[c].asked /\ (poll.step = "answered" => ~poll.rows[c].asked)
  /\ Calm(c) /\ Landed(c) => ~row[c].asked
  /\ Calm(c) /\ ~IsPending(c) => /\ acked[c] = "early" => ~config[c].asked
                                 /\ poll.step = "answered" /\ acked[c] \in {"asked", "early"} => ~poll.rows[c].asked
AskInv == \A c \in Checks : Ask(c)

LEMMA InList == ASSUME NEW l, NEW c PROVE (\E r \in ToSet(l) : r.check = c) <=> \E i \in DOMAIN l : l[i].check = c
BY DEF ToSet

LEMMA AskStart == Init => AskInv
BY DEF Init, AskInv, Ask, Calm, NoPoll

\* A step that leaves the buffer alone and clears requests at most.
LEMMA AskRests ==
  ASSUME NEW c \in Checks, Ask(c), UNCHANGED <<lastRun, pending, post, poll>>,
         wanted[c] => wanted'[c], run'[c].on = run[c].on, row'[c].asked => row[c].asked,
         config'[c].asked = config[c].asked, acked'[c] = acked[c]
  PROVE  Ask(c)'
BY DEF Ask, Calm, Landed, IsPending

\* A run that ends: what it leaves is behind the post, or is noted when it is lost.
LEMMA AskEnds ==
  ASSUME BufferInv, AskInv, NEW d \in Checks, Throw(d) \/ Finish(d, FALSE), NEW c \in Checks
  PROVE  Ask(c)'
<1>1. PICK l, b, r : /\ Alike(l, pending) /\ Alike(b, post.batch) /\ r \in Results /\ r.check = d
                     /\ pending' = Queued(l, r) /\ post' = [batch |-> b, stored |-> post.stored, cut |-> post.cut + Cut]
  BY RunEnds
<1>2. /\ Len(pending') >= 1 /\ pending'[Len(pending')].check = d /\ Len(pending') + post'.cut > Len(post'.batch)
      /\ pending' \in Seq(Results) /\ post'.stored <= Len(post'.batch) /\ Len(pending') \in Nat /\ Len(post'.batch) \in Nat
      /\ post'.stored = post.stored /\ post.stored \in Nat /\ post'.cut = post.cut + Cut /\ post.cut \in Nat /\ post.stored <= Len(post.batch)
  <2>1. Len(pending') >= 1 /\ pending'[Len(pending')].check = d /\ Len(pending') + post'.cut > Len(post'.batch) /\ BufferInv'
    BY RunEnds
  <2>2. pending' \in Seq(Results) /\ post' \in Posts /\ post'.stored <= Len(post'.batch)
    BY <2>1 DEF BufferInv, Fits
  <2>3. post.stored \in Nat /\ post.cut \in Nat /\ post.stored <= Len(post.batch)
    BY DEF BufferInv, Fits, Posts
  <2> QED BY <1>1, <2>1, <2>2, <2>3 DEF Posts
<1>3. /\ UNCHANGED <<lastRun, acked>> /\ (c # d => run'[c].on = run[c].on) /\ Lost(1, IF Full THEN 1 ELSE 0)
      /\ row'[c].asked = row[c].asked /\ config'[c].asked = config[c].asked
      /\ poll'.step = poll.step /\ (poll.step = "answered" => poll'.rows[c].asked = poll.rows[c].asked)
  <2>1. Fits
    BY DEF BufferInv
  <2>2. CASE Throw(d)
    BY <2>1, <2>2 DEF Throw, Fits
  <2>3. CASE Finish(d, FALSE)
    <3>1. OldRows(row, d)[c].asked = row[c].asked /\ OldRows(config, d) \in Rows /\ OldRows(config, d)[c].asked = config[c].asked
          /\ (poll.step = "answered" => OldRows(poll.rows, d)[c].asked = poll.rows[c].asked)
      BY <2>1, OldRowsFit DEF Fits
    <3>2. /\ row' = OldRows(row, d) /\ run' = [run EXCEPT ![d] = Idle] /\ UNCHANGED <<lastRun, acked>> /\ Lost(1, IF Full THEN 1 ELSE 0)
          /\ config' = IF run[d].held THEN [OldRows(config, d) EXCEPT ![d].state = [latest |-> TRUE, reading |-> TRUE]] ELSE OldRows(config, d)
          /\ poll' = IF poll.step = "answered" THEN [poll EXCEPT !.rows = OldRows(@, d)] ELSE poll
      BY <2>3 DEF Finish
    <3>3. config'[c].asked = OldRows(config, d)[c].asked
      BY <3>1, <3>2 DEF Rows
    <3>4. poll'.step = poll.step /\ (poll.step = "answered" => poll'.rows = OldRows(poll.rows, d))
      BY <2>1, <3>2 DEF Fits
    <3> QED BY <2>1, <3>1, <3>2, <3>3, <3>4 DEF Fits
  <2> QED BY <2>2, <2>3
<1>4. wanted'[c] <=> wanted[c] \/ (~IsPending(c)' /\ \E i \in 1..(IF Full THEN 1 ELSE 0) : i \in DOMAIN pending /\ pending[i].check = c)
  <2>1. wanted[c] \in BOOLEAN
    BY DEF BufferInv, Fits
  <2> QED BY <1>3, <2>1 DEF Lost
<1>5. Ask(c)
  BY DEF AskInv
<1>6. CASE c = d
  <2>1. Len(pending') \in DOMAIN pending'
    BY <1>2
  <2>2. IsPending(c)'
    BY <1>2, <1>6, <2>1, InList, ZenonT(40) DEF IsPending
  <2>3. ~Landed(c)'
    BY <1>2, <1>6, <2>1 DEF Landed, Cut
  <2> QED BY <1>3, <1>4, <1>5, <2>2, <2>3 DEF Ask, Calm
<1>7. CASE c # d
  \* Where c's results were.
  <2>1. Len(l) = Len(pending) /\ Len(l) \in Nat /\ DOMAIN pending = 1..Len(l) /\ DOMAIN pending' = 1..Len(pending')
        /\ \A i \in 1..Len(l) : l[i].check = pending[i].check
    BY <1>1, <1>2 DEF Alike
  <2>2. /\ Full => Len(pending') = Len(l) /\ \A i \in 1..(Len(l) - 1) : pending'[i].check = pending[i + 1].check
        /\ ~Full => Len(pending') = Len(l) + 1 /\ \A i \in 1..Len(l) : pending'[i].check = pending[i].check
    <3>1. l \in Seq(Results) /\ Len(l) <= MaxBuffered
      BY <1>1 DEF Alike, BufferInv, Fits
    <3>2. /\ Full => Len(pending') = Len(l) /\ \A i \in 1..(Len(l) - 1) : pending'[i] = l[i + 1]
          /\ ~Full => Len(pending') = Len(l) + 1 /\ \A i \in 1..Len(l) : pending'[i] = l[i]
      <4> DEFINE q == Queued(l, r)
      <4>1. /\ Len(l) = MaxBuffered => Len(q) = Len(l) /\ \A i \in 1..(Len(l) - 1) : q[i] = l[i + 1]
            /\ Len(l) # MaxBuffered => Len(q) = Len(l) + 1 /\ \A i \in 1..Len(l) : q[i] = l[i]
        BY <1>1, <3>1, QueuedFits
      <4>2. pending' = q /\ (Full <=> Len(l) = MaxBuffered)
        BY <1>1, <2>1 DEF Full
      <4> HIDE DEF q
      <4> QED BY <4>1, <4>2, Zenon
    <3>3. \A i \in 1..(Len(l) - 1) : i + 1 \in 1..Len(l)
      BY <2>1
    <3> QED BY <2>1, <3>2, <3>3, Zenon
  <2>3. Cut = IF Full /\ post.cut < Len(post.batch) THEN 1 ELSE 0
    BY DEF Cut
  <2>4. ASSUME ~wanted'[c], NEW i \in DOMAIN pending, pending[i].check = c
        PROVE  \E j \in DOMAIN pending' : pending'[j].check = c /\ (j + post'.cut <= post'.stored => i + post.cut <= post.stored)
    <3>1. i \in 1..Len(l)
      BY <2>1
    <3>2. CASE ~Full
      <4>1. i \in DOMAIN pending' /\ pending'[i].check = c
        BY <2>1, <2>2, <2>4, <3>1, <3>2
      <4>2. post'.cut = post.cut
        BY <1>2, <2>3, <3>2
      <4> QED BY <1>2, <4>1, <4>2
    <3>3. CASE Full /\ i # 1
      <4>1. i - 1 \in 1..(Len(l) - 1) /\ (i - 1) + 1 = i
        BY <2>1, <3>1, <3>3
      <4>2. i - 1 \in DOMAIN pending' /\ pending'[i - 1].check = c
        BY <2>1, <2>2, <2>4, <3>3, <4>1
      <4>3. (i - 1) + post'.cut <= post'.stored => i + post.cut <= post.stored
        BY <1>2, <2>3, <3>1, <3>3, <2>1, <4>1
      <4> QED BY <4>2, <4>3
    <3>4. CASE Full /\ i = 1
      <4>1. IsPending(c)'
        BY <1>4, <2>4, <3>4
      <4>2. PICK j \in DOMAIN pending' : pending'[j].check = c
        BY <4>1, InList DEF IsPending
      <4>3. j + post'.cut <= post'.stored => 1 + post.cut <= post.stored
        BY <1>2, <2>1, <2>3, <3>4, <4>2
      <4> QED BY <3>4, <4>2, <4>3
    <3> QED BY <3>2, <3>3, <3>4
  <2>5. ~wanted'[c] => (Landed(c)' => Landed(c)) /\ (~IsPending(c)' => ~IsPending(c))
    <3>1. ASSUME ~wanted'[c], Landed(c)' PROVE Landed(c)
      <4> SUFFICES ASSUME NEW i \in DOMAIN pending, pending[i].check = c PROVE i + post.cut <= post.stored
        BY DEF Landed
      <4>1. PICK j \in DOMAIN pending' : pending'[j].check = c /\ (j + post'.cut <= post'.stored => i + post.cut <= post.stored)
        BY <2>4, <3>1
      <4> QED BY <3>1, <4>1 DEF Landed
    <3>2. ASSUME ~wanted'[c], ~IsPending(c)', IsPending(c) PROVE FALSE
      <4>1. PICK i \in DOMAIN pending : pending[i].check = c
        BY <3>2 DEF IsPending, ToSet
      <4>2. PICK j \in DOMAIN pending' : pending'[j].check = c
        BY <2>4, <3>2, <4>1
      <4> QED BY <3>2, <4>2, InList DEF IsPending
    <3> QED BY <3>1, <3>2
  <2>6. ~wanted'[c] => ~wanted[c]
    BY <1>4
  <2> QED BY <1>3, <1>5, <1>7, <2>5, <2>6 DEF Ask, Calm
<1> QED BY <1>6, <1>7

LEMMA AskStep == BufferInv /\ AskInv /\ [Next]_vars => AskInv'
<1> SUFFICES ASSUME BufferInv, AskInv, [Next]_vars, NEW c \in Checks PROVE Ask(c)'
  BY DEF AskInv
<1>1. Fits /\ Ask(c) /\ wanted[c] \in BOOLEAN /\ pending \in Seq(Results) /\ DOMAIN pending = 1..Len(pending) /\ Len(pending) \in Nat
      /\ post.stored \in Nat /\ post.cut \in Nat /\ Len(post.batch) \in Nat /\ post.batch \in Seq(Results)
      /\ post.stored <= Len(post.batch) /\ post.cut <= Len(post.batch)
  BY DEF BufferInv, Fits, Posts, AskInv
<1>2. NoPost.batch = <<>> /\ NoPost.stored = 0 /\ NoPost.cut = 0 /\ NoPoll.step = "idle"
  BY DEF NoPost, NoPoll
<1>3. ASSUME NEW d \in Checks, Elapse(d) PROVE Ask(c)'
  BY <1>1, <1>3, AskRests DEF Elapse
<1>4. ASSUME NEW d \in Checks, RunNow(d) PROVE Ask(c)'
  <2>1. row' = [row EXCEPT ![d].asked = TRUE] /\ wanted' = [wanted EXCEPT ![d] = TRUE] /\ row \in Rows
        /\ UNCHANGED <<config, poll, lastRun, elapsed, acked, run, pending, post>> /\ wanted \in [Checks -> BOOLEAN]
    BY <1>1, <1>4 DEF RunNow, Fits
  <2>2. CASE c = d
    <3>1. wanted'[c] = TRUE
      BY <2>1, <2>2
    <3> QED BY <3>1 DEF Ask, Calm
  <2>3. CASE c # d
    <3>1. row'[c] = row[c] /\ wanted'[c] = wanted[c]
      BY <2>1, <2>3 DEF Rows
    <3> QED BY <1>1, <2>1, <3>1, AskRests
  <2> QED BY <2>2, <2>3
<1>5. ASSUME NEW d \in Checks, StartRun(d) PROVE Ask(c)'
  <2>1. /\ lastRun' = lastRun \union {d} /\ UNCHANGED <<row, config, poll, pending, post>>
        /\ \A e \in Checks : e # d => run'[e] = run[e] /\ acked'[e] = acked[e] /\ wanted'[e] = wanted[e]
        /\ run'[d].on
    BY <1>1, <1>5 DEF StartRun, Fits
  <2>2. CASE c = d
    <3>1. c \in lastRun' /\ run'[c].on
      BY <2>1, <2>2, Zenon
    <3> QED BY <3>1 DEF Ask, Calm
  <2>3. CASE c # d
    BY <1>1, <2>1, <2>3 DEF Ask, Calm, Landed, IsPending
  <2> QED BY <2>2, <2>3
<1>6. ASSUME NEW d \in Checks, Throw(d) \/ Finish(d, FALSE) PROVE Ask(c)'
  BY <1>6, AskEnds
<1>7. ASSUME NEW d \in Checks, Finish(d, TRUE) PROVE Ask(c)'
  <2>1. /\ row' = OldRows(row, d) /\ run' = [run EXCEPT ![d] = Idle] /\ UNCHANGED <<lastRun, acked>> /\ wanted' = [wanted EXCEPT ![d] = TRUE]
        /\ config' = IF run[d].held THEN [OldRows(config, d) EXCEPT ![d].state = [latest |-> TRUE, reading |-> TRUE]] ELSE OldRows(config, d)
        /\ poll' = IF poll.step = "answered" THEN [poll EXCEPT !.rows = OldRows(@, d)] ELSE poll
        /\ pending' = OldResults(pending, d) /\ post'.stored = post.stored /\ post'.cut = post.cut
    BY <1>1, <1>7 DEF Finish, Fits, Posts
  <2>2. CASE c = d
    BY <1>1, <2>1, <2>2 DEF Ask, Calm, Fits
  <2>3. CASE c # d
    <3>1. OldRows(row, d)[c].asked = row[c].asked /\ OldRows(config, d) \in Rows /\ OldRows(config, d)[c].asked = config[c].asked
          /\ (poll.step = "answered" => OldRows(poll.rows, d)[c].asked = poll.rows[c].asked)
      BY <1>1, OldRowsFit DEF Fits
    <3>2. config'[c].asked = config[c].asked /\ row'[c].asked = row[c].asked
      BY <2>1, <3>1 DEF Rows
    <3>3. poll'.step = poll.step /\ (poll.step = "answered" => poll'.rows[c].asked = poll.rows[c].asked)
      <4>1. poll.step = "answered" => poll \in [step : {"answered"}, rows : Rows]
        BY <1>1 DEF Fits
      <4> QED BY <2>1, <3>1, <4>1
    <3>4. wanted'[c] = wanted[c] /\ run'[c] = run[c]
      BY <1>1, <2>1, <2>3 DEF Fits
    <3>5. Alike(pending', pending)
      BY <1>1, <2>1, OldAlike
    <3>6. DOMAIN pending' = DOMAIN pending /\ \A i \in DOMAIN pending : pending'[i].check = pending[i].check
      BY <1>1, <3>5 DEF Alike
    <3>7. Landed(c)' <=> Landed(c)
      BY <2>1, <3>6 DEF Landed
    <3>8. IsPending(c)' <=> IsPending(c)
      BY <3>6 DEF IsPending, ToSet
    <3> QED BY <1>1, <2>1, <3>2, <3>3, <3>4, <3>7, <3>8 DEF Ask, Calm
  <2> QED BY <2>2, <2>3
<1>8. ASSUME ~IsPending(c) PROVE Landed(c)
  BY <1>8 DEF IsPending, ToSet, Landed
<1>9. CASE Poll
  <2>1. poll'.step = "asked" /\ UNCHANGED <<row, config, lastRun, elapsed, run, pending, post, wanted>> /\ (acked'[c] = "early" => acked[c] = "early")
    BY <1>1, <1>9 DEF Poll, Fits
  <2> QED BY <1>1, <2>1 DEF Ask, Calm, Landed, IsPending
<1>10. CASE Answer
  <2>1. poll'.rows = row /\ UNCHANGED <<row, config, lastRun, elapsed, acked, run, pending, post, wanted>>
    BY <1>10 DEF Answer
  <2> QED BY <1>1, <1>8, <2>1 DEF Ask, Calm, Landed, IsPending
<1>11. CASE Adopt
  <2>1. poll.step = "answered" /\ poll'.step = "idle" /\ UNCHANGED <<row, lastRun, elapsed, pending, post, wanted>>
    BY <1>2, <1>11 DEF Adopt
  <2>2. run'[c].on = run[c].on /\ config'[c].asked = poll.rows[c].asked
    <3>1. poll.rows \in Rows /\ run \in [Checks -> [on : BOOLEAN, held : BOOLEAN, reading : BOOLEAN]]
      BY <1>1, <2>1 DEF Fits
    <3> QED BY <1>11, <3>1 DEF Adopt, Rows
  <2>3. acked'[c] = "early" => acked[c] \in {"asked", "early"}
    BY <1>1, <1>11 DEF Adopt, Fits
  <2> QED BY <1>1, <2>1, <2>2, <2>3 DEF Ask, Calm, Landed, IsPending
<1>12. CASE PollFails
  <2>1. poll'.step = "idle" /\ UNCHANGED <<row, config, lastRun, elapsed, acked, run, pending, post, wanted>>
    BY <1>2, <1>12 DEF PollFails
  <2> QED BY <1>1, <2>1 DEF Ask, Calm, Landed, IsPending
<1>13. CASE Post
  <2>1. post = NoPost /\ post'.stored = 0 /\ post'.cut = 0 /\ UNCHANGED <<row, config, poll, lastRun, elapsed, acked, run, pending, wanted>>
    BY <1>2, <1>13 DEF Post, NoPost
  <2>2. Landed(c)' <=> Landed(c)
    BY <1>2, <2>1 DEF Landed
  <2> QED BY <1>1, <2>1, <2>2 DEF Ask, Calm, IsPending
<1>14. CASE Store
  <2> DEFINE r == post.batch[post.stored + 1]
  <2>1. r \in Results /\ post.stored + 1 <= Len(post.batch) /\ row \in Rows
    BY <1>1, <1>14 DEF Store, Fits
  <2>2. row'[c].asked => row[c].asked /\ c # r.check
    <3>1. row' = StoredIn(row, r)
      BY <1>14 DEF Store
    <3> HIDE DEF r
    <3> QED BY <2>1, <3>1, StoredFits
  <2>3. /\ UNCHANGED <<config, poll, lastRun, elapsed, acked, run, wanted>>
        /\ post'.stored = post.stored + 1 /\ post'.cut = post.cut
    BY <1>1, <1>14 DEF Store, Fits, Posts
  <2>4. DOMAIN pending' = DOMAIN pending /\ \A i \in DOMAIN pending : pending'[i].check = pending[i].check
    <3> DEFINE n == IF post.stored < post.cut THEN 0 ELSE post.stored + 1 - post.cut
    <3>1. pending' = Saved(pending, n) /\ n \in Nat
      BY <1>1, <1>14 DEF Store
    <3> HIDE DEF n
    <3> QED BY <1>1, <3>1, SavedFits
  <2>5. ASSUME Landed(c)', ~Landed(c) PROVE c = r.check
    <3>1. PICK i \in DOMAIN pending : pending[i].check = c /\ ~(i + post.cut <= post.stored)
      BY <2>5 DEF Landed
    <3>2. i + post.cut <= post.stored + 1
      BY <2>3, <2>4, <2>5, <3>1 DEF Landed
    <3>3. i + post.cut = post.stored + 1 /\ i + post.cut <= Len(post.batch)
      BY <1>1, <2>1, <3>1, <3>2
    <3>4. pending[i].check = post.batch[i + post.cut].check
      BY <3>3 DEF BufferInv, Aligned
    <3> QED BY <3>1, <3>3, <3>4
  <2>6. IsPending(c)' <=> IsPending(c)
    BY <2>4 DEF IsPending, ToSet
  <2> HIDE DEF r
  <2> QED BY <1>1, <2>2, <2>3, <2>5, <2>6 DEF Ask, Calm
<1>15. CASE Ack
  <2>1. /\ post.stored = Len(post.batch) /\ pending' = SubSeq(pending, Len(post.batch) + 1, Len(pending)) /\ post' = NoPost
        /\ UNCHANGED <<row, config, poll, lastRun, elapsed, run>> /\ Lost(Len(post.batch) - post.cut + 1, Len(post.batch))
        /\ acked'[c] = IF \E r \in ToSet(post.batch) : r.check = c THEN "late" ELSE acked[c]
    BY <1>15 DEF Ack, Unposted
  <2>2. wanted'[c] <=> wanted[c] \/ (~IsPending(c)' /\ \E i \in (Len(post.batch) - post.cut + 1)..Len(post.batch) : i \in DOMAIN pending /\ pending[i].check = c)
    BY <1>1, <2>1 DEF Lost
  <2>3. ASSUME NEW i \in DOMAIN pending, i > Len(post.batch) PROVE i - Len(post.batch) \in DOMAIN pending' /\ pending'[i - Len(post.batch)] = pending[i]
    <3> DEFINE n == Len(post.batch)
               size == Len(pending)
    <3>1. n \in Nat /\ size \in Nat /\ i \in 1..size /\ i > n /\ pending' = SubSeq(pending, n + 1, size) /\ pending \in Seq(Results)
      BY <1>1, <2>1, <2>3
    <3> HIDE DEF n
    <3>2. Len(pending') = size - n /\ \A j \in 1..(size - n) : pending'[j] = pending[j + n]
      BY <3>1
    <3>3. i - n \in 1..(size - n) /\ (i - n) + n = i /\ pending' \in Seq(Results)
      BY <3>1
    <3>4. DOMAIN pending' = 1..(size - n)
      BY <3>2, <3>3
    <3>5. i - n \in DOMAIN pending' /\ pending'[i - n] = pending[i]
      BY <3>2, <3>3, <3>4
    <3> QED BY <3>5 DEF n
  <2>4. ASSUME NEW i \in DOMAIN pending, pending[i].check = c, ~IsPending(c)', ~wanted'[c]
        PROVE  i + post.cut <= post.stored /\ pending[i].check = post.batch[i + post.cut].check
    <3>1. i <= Len(post.batch)
      <4>1. SUFFICES ASSUME i > Len(post.batch) PROVE FALSE
        BY <1>1
      <4>2. i - Len(post.batch) \in DOMAIN pending' /\ pending'[i - Len(post.batch)].check = c
        BY <2>3, <2>4, <4>1
      <4> QED BY <2>4, <4>2 DEF IsPending, ToSet
    <3>2. i \notin (Len(post.batch) - post.cut + 1)..Len(post.batch)
      BY <2>2, <2>4
    <3>3. i + post.cut <= Len(post.batch)
      BY <1>1, <3>1, <3>2
    <3> QED BY <2>1, <3>3 DEF BufferInv, Aligned
  <2>5. ASSUME ~IsPending(c)', ~wanted'[c] PROVE Landed(c) /\ (IsPending(c) => acked'[c] = "late")
    <3>1. Landed(c)
      BY <2>4, <2>5 DEF Landed
    <3>2. ASSUME IsPending(c) PROVE acked'[c] = "late"
      <4>1. PICK i \in DOMAIN pending : pending[i].check = c
        BY <3>2 DEF IsPending, ToSet
      <4>2. i + post.cut \in DOMAIN post.batch /\ post.batch[i + post.cut].check = c
        BY <1>1, <2>1, <2>4, <2>5, <4>1
      <4> QED BY <2>1, <4>2 DEF ToSet
    <3> QED BY <3>1, <3>2
  <2>6. Landed(c)' => ~IsPending(c)'
    <3>1. \A i \in DOMAIN pending' : i \in Nat \ {0}
      BY <1>1, <2>1
    <3>2. post'.cut = 0 /\ post'.stored = 0
      BY <1>2, <2>1
    <3> QED BY <3>1, <3>2 DEF Landed, IsPending, ToSet
  <2>7. acked'[c] \in {"late", acked[c]}
    BY <2>1
  <2> QED BY <1>1, <2>1, <2>2, <2>5, <2>6, <2>7 DEF Ask, Calm
<1>16. CASE PostFails
  <2>1. post' = NoPost /\ UNCHANGED <<config, poll, lastRun, elapsed, acked, run, wanted>>
    BY <1>16 DEF PostFails
  <2>2. (row'[c].asked => row[c].asked) /\ DOMAIN pending' = DOMAIN pending /\ \A i \in DOMAIN pending : pending'[i].check = pending[i].check
    <3>1. CASE UNCHANGED <<row, pending>>
      BY <3>1
    <3>2. CASE ~UNCHANGED <<row, pending>>
      <4> DEFINE l == SubSeq(post.batch, post.stored + 1, Len(post.batch))
                 n == IF Len(post.batch) < post.cut THEN 0 ELSE Len(post.batch) - post.cut
      <4>1. l \in Seq(Results) /\ n \in Nat
        BY <1>1
      <4>2. row' = AllStored(l) /\ pending' = Saved(pending, n)
        BY <1>16, <3>2 DEF PostFails
      <4> HIDE DEF l, n
      <4> QED BY <1>1, <4>1, <4>2, AllStoredFits, SavedFits DEF Fits
    <3> QED BY <3>1, <3>2
  <2>3. IsPending(c)' <=> IsPending(c)
    BY <2>2 DEF IsPending, ToSet
  <2>4. Landed(c)' => ~IsPending(c)'
    <3>1. \A i \in DOMAIN pending' : i \in Nat \ {0}
      BY <1>1, <2>2
    <3>2. post'.cut = 0 /\ post'.stored = 0
      BY <1>2, <2>1
    <3> QED BY <3>1, <3>2 DEF Landed, IsPending, ToSet
  <2> QED BY <1>1, <1>8, <2>1, <2>2, <2>3, <2>4 DEF Ask, Calm
<1>17. CASE UNCHANGED vars
  BY <1>1, <1>17 DEF vars, Ask, Calm, Landed, IsPending
<1>18. ASSUME NEW d \in Checks, NEW skip \in BOOLEAN, Finish(d, skip) PROVE Ask(c)'
  BY <1>6, <1>7, <1>18
<1> QED BY <1>3, <1>4, <1>5, <1>6, <1>9, <1>10, <1>11, <1>12, <1>13, <1>14, <1>15, <1>16, <1>17, <1>18 DEF Next, Runs, Flush

\* Also with posts that fail after a part was stored, and results that are cut.
THEOREM EarlyRunsAreWanted == Spec => OnlyRealRequests
<1> DEFINE Early == \A c \in Checks : ~run[c].on /\ run'[c].on => elapsed[c] \/ wanted[c]
<1>1. ASSUME BufferInv, AskInv, Next PROVE Early
  <2> SUFFICES ASSUME NEW c \in Checks, ~run[c].on, run'[c].on PROVE elapsed[c] \/ wanted[c]
    OBVIOUS
  <2>1. Fits
    BY <1>1 DEF BufferInv
  <2>2. CASE StartRun(c)
    <3>1. IsDue(c) /\ Ask(c) /\ config[c].asked \in BOOLEAN
      BY <1>1, <2>1, <2>2 DEF StartRun, AskInv, Fits, Rows
    <3> QED BY <3>1 DEF IsDue, Ask, Calm
  <2>3. ASSUME NEW d \in Checks, Elapse(d) \/ RunNow(d) \/ Throw(d) \/ (\E skip \in BOOLEAN : Finish(d, skip)) PROVE FALSE
    <3>1. run' = run \/ run' = [run EXCEPT ![d] = Idle]
      BY <2>3 DEF Elapse, RunNow, Throw, Finish
    <3> QED BY <2>1, <3>1 DEF Fits, Idle
  <2>4. ASSUME NEW d \in Checks, StartRun(d), d # c PROVE FALSE
    BY <2>1, <2>4 DEF StartRun, Fits
  <2>5. CASE Adopt
    BY <2>1, <2>5 DEF Adopt, Fits
  <2>6. CASE Poll \/ Answer \/ PollFails \/ Post \/ Store \/ Ack \/ PostFails
    BY <2>6 DEF Poll, Answer, PollFails, Post, Store, Ack, PostFails
  <2> QED BY <1>1, <2>2, <2>3, <2>4, <2>5, <2>6 DEF Next, Runs, Flush
<1>2. BufferInv /\ AskInv /\ [Next]_vars => [Early]_vars
  BY <1>1
<1>3. [][Early]_vars => OnlyRealRequests
  BY DEF OnlyRealRequests
<1> HIDE DEF Early
<1> QED BY <1>2, <1>3, BufferStart, BufferStep, AskStart, AskStep, PTL DEF Spec
=============================================================================
