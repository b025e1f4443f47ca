----------------------------- MODULE Collector -----------------------------
(***************************************************************************)
(* The site collector (engine/src/collector/main.ts) and the engine's side *)
(* of its two requests (engine/src/routes/collector.ts): the poll for the  *)
(* checks to run, and the post of their results.                           *)
(*                                                                         *)
(* Times are kept as the comparisons the code makes.  `elapsed' is "the    *)
(* interval since the last run has passed"; `acked' places the moment the  *)
(* engine acknowledged a check's result next to that check's last run and  *)
(* to the request of the config in hand.  Of a check's stored state two    *)
(* things are kept: is it what the latest run left, and does it have the   *)
(* previous reading a rate is computed from.                               *)
(***************************************************************************)
EXTENDS Naturals, FiniteSets, SequencesExt

CONSTANTS Checks,      \* the checks of the site
          Rates,       \* those that report a rate: a first reading is skipped
          MaxBatch,    \* results per post (500)
          MaxBuffered, \* MAX_BUFFERED_RESULTS
          Outages      \* TRUE: polls and posts may fail

ASSUME CollectorAssumption ==
  /\ Rates \subseteq Checks
  /\ {MaxBatch, MaxBuffered} \subseteq Nat \ {0}
  /\ Outages \in BOOLEAN

VARIABLES row,     \* checks in the database: is lastRunAt null, and the state
          config,  \* the same in the config in hand
          poll,    \* the poll under way, and the rows the engine answered with
          lastRun, \* the checks this process has run
          elapsed, acked,
          run,     \* the run of each check, and whether its check object is config's
          pending, \* pendingResults
          post,    \* the batch under way, and how much of it the engine stored
          wanted   \* history: a new check, or since its last run began "Run now" was
         \* pressed, or a result left the buffer without an answer

vars == <<row, config, poll, lastRun, elapsed, acked, run, pending, post, wanted>>

States == [latest : BOOLEAN, reading : BOOLEAN]
Rows == [Checks -> [asked : BOOLEAN, state : States]]
NoState == [latest |-> FALSE, reading |-> TRUE]
Idle == [on |-> FALSE, held |-> FALSE, reading |-> FALSE]
NoPoll == [step |-> "idle", rows |-> <<>>]
NoPost == [batch |-> <<>>, stored |-> 0, cut |-> 0]
\* `saved' is history: the engine has stored this result.
Result(c, has, state) == [check |-> c, has |-> has, state |-> state, saved |-> FALSE]
IsPending(c) == \E r \in ToSet(pending) : r.check = c

\* A run that leaves a state makes every other copy an old one.
Old(state) == [state EXCEPT !.latest = FALSE]
OldRows(rows, c) == [rows EXCEPT ![c].state = Old(@)]
OldResults(list, c) ==
  [i \in DOMAIN list |-> IF list[i].check = c THEN [list[i] EXCEPT !.state = Old(@)] ELSE list[i]]
-----------------------------------------------------------------------------
\* A collector that has polled for the first time: some checks are new.
Init ==
  /\ \E new \in SUBSET Checks :
       row = [c \in Checks |-> [asked |-> c \in new,
                                state |-> [latest |-> TRUE, reading |-> c \notin new \cap Rates]]]
  /\ config = row
  /\ poll = NoPoll
  /\ lastRun = {}
  /\ elapsed = [c \in Checks |-> FALSE]
  /\ acked = [c \in Checks |-> "no"]
  /\ run = [c \in Checks |-> Idle]
  /\ pending = <<>>
  /\ post = NoPost
  /\ wanted = [c \in Checks |-> row[c].asked]

Elapse(c) ==
  /\ ~elapsed[c]
  /\ elapsed' = [elapsed EXCEPT ![c] = TRUE]
  /\ UNCHANGED <<row, config, poll, lastRun, acked, run, pending, post, wanted>>

\* "Run now" for a collector's check: lastRunAt is cleared.
RunNow(c) ==
  /\ row' = [row EXCEPT ![c].asked = TRUE]
  /\ wanted' = [wanted EXCEPT ![c] = TRUE]
  /\ UNCHANGED <<config, poll, lastRun, elapsed, acked, run, pending, post>>

\* Mutated form of IsDue: a null lastRunAt is always a request.
IsDueWhenAsked(c) == config[c].asked \/ elapsed[c]

IsDue(c) ==
  IF config[c].asked
    THEN c \in lastRun => acked[c] = "early" /\ ~IsPending(c)
    ELSE elapsed[c]

\* A tick of runDueChecks starts c.  The limits on runs at once, the ones of the
\* engine's scheduler, only delay it to a later tick.
StartRun(c) ==
  /\ ~run[c].on /\ IsDue(c)
  /\ run' = [run EXCEPT ![c] = [on |-> TRUE, held |-> TRUE, reading |-> config[c].state.reading]]
  /\ lastRun' = lastRun \union {c}
  /\ elapsed' = [elapsed EXCEPT ![c] = FALSE]
  /\ acked' = [acked EXCEPT ![c] = "no"]
  /\ wanted' = [wanted EXCEPT ![c] = FALSE]
  /\ UNCHANGED <<row, config, poll, pending, post>>

\* queueResult: only the newest MaxBuffered results are kept.
Queued(list, r) ==
  IF Len(list) = MaxBuffered THEN Append(Tail(list), r) ELSE Append(list, r)
Full == Len(pending) = MaxBuffered
\* What history notes of results that leave the buffer from place m to n.
Lost(m, n) ==
  wanted' = [c \in Checks |-> wanted[c] \/ (~IsPending(c)' /\ \E i \in m..n : i \in DOMAIN pending /\ pending[i].check = c)]
Cut == IF Full /\ post.cut < Len(post.batch) THEN 1 ELSE 0

\* The probe answers: the state goes into the check object the run began with,
\* which a poll may have replaced meanwhile.  A skipped outcome is not queued.
Finish(c, skip) ==
  LET state == [latest |-> TRUE, reading |-> TRUE]
      aged  == OldRows(config, c)
  IN
  /\ run[c].on
  /\ skip => c \in Rates
  /\ c \in Rates /\ ~run[c].reading => skip
  /\ run' = [run EXCEPT ![c] = Idle]
  /\ config' = IF run[c].held THEN [aged EXCEPT ![c].state = state] ELSE aged
  /\ row' = OldRows(row, c)
  /\ poll' = IF poll.step = "answered" THEN [poll EXCEPT !.rows = OldRows(@, c)] ELSE poll
  /\ LET list == OldResults(pending, c)
     IN pending' = IF skip THEN list ELSE Queued(list, Result(c, TRUE, state))
  /\ post' = [post EXCEPT !.batch = OldResults(@, c), !.cut = IF skip THEN @ ELSE @ + Cut]
  /\ IF skip THEN wanted' = [wanted EXCEPT ![c] = TRUE] ELSE Lost(1, IF Full THEN 1 ELSE 0)
  /\ UNCHANGED <<lastRun, elapsed, acked>>

\* Mutated form of Throw: the check stays among the running ones.
ThrowKeeps(c) ==
  /\ run[c].on
  /\ run' = run
  /\ pending' = Queued(pending, Result(c, FALSE, NoState))
  /\ post' = [post EXCEPT !.cut = @ + Cut]
  /\ Lost(1, IF Full THEN 1 ELSE 0)
  /\ UNCHANGED <<row, config, poll, lastRun, elapsed, acked>>

\* The probe throws: an unknown result, without a state.
Throw(c) ==
  /\ run[c].on
  /\ run' = [run EXCEPT ![c] = Idle]
  /\ pending' = Queued(pending, Result(c, FALSE, NoState))
  /\ post' = [post EXCEPT !.cut = @ + Cut]
  /\ Lost(1, IF Full THEN 1 ELSE 0)
  /\ UNCHANGED <<row, config, poll, lastRun, elapsed, acked>>
-----------------------------------------------------------------------------
\* poll: the request is stamped and sent ...
Poll ==
  /\ poll.step = "idle"
  /\ poll' = [poll EXCEPT !.step = "asked"]
  /\ acked' = [c \in Checks |-> IF acked[c] = "late" THEN "asked" ELSE acked[c]]
  /\ UNCHANGED <<row, config, lastRun, elapsed, run, pending, post, wanted>>

\* ... GET /config reads the rows ...
Answer ==
  /\ poll.step = "asked"
  /\ poll' = [step |-> "answered", rows |-> row]
  /\ UNCHANGED <<row, config, lastRun, elapsed, acked, run, pending, post, wanted>>

\* ... and the answer becomes the config, but for the states of unposted results.
Adopt ==
  /\ poll.step = "answered"
  /\ config' = [c \in Checks |->
                  [poll.rows[c] EXCEPT !.state = IF IsPending(c) THEN config[c].state ELSE @]]
  /\ run' = [c \in Checks |-> [run[c] EXCEPT !.held = FALSE]]
  /\ acked' = [c \in Checks |-> IF acked[c] = "asked" THEN "early" ELSE acked[c]]
  /\ poll' = NoPoll
  /\ UNCHANGED <<row, lastRun, elapsed, pending, post, wanted>>

PollFails ==
  /\ Outages /\ poll # NoPoll
  /\ poll' = NoPoll
  /\ UNCHANGED <<row, config, lastRun, elapsed, acked, run, pending, post, wanted>>

\* flush: the oldest results are posted; `flushing' keeps a second flush out.
Post ==
  /\ post = NoPost /\ pending # <<>>
  /\ post' = [NoPost EXCEPT !.batch = SubSeq(pending, 1, IF Len(pending) < MaxBatch THEN Len(pending) ELSE MaxBatch)]
  /\ UNCHANGED <<row, config, poll, lastRun, elapsed, acked, run, pending, wanted>>

\* POST /results: the results are stored in their order, each with its row.
StoredIn(rows, r) ==
  [rows EXCEPT ![r.check] = [asked |-> FALSE, state |-> IF r.has THEN r.state ELSE @.state]]
Saved(list, n) == [i \in DOMAIN list |-> IF i <= n THEN [list[i] EXCEPT !.saved = TRUE] ELSE list[i]]

\* The same of several results: the state is that of the last one that has one.
AllStored(list) ==
  [c \in Checks |->
     LET of == {i \in DOMAIN list : list[i].check = c}
         has == {i \in of : list[i].has}
     IN IF of = {} THEN row[c]
        ELSE [asked |-> FALSE, state |-> IF has = {} THEN row[c].state ELSE list[Max(has)].state]]

Store ==
  /\ post.stored < Len(post.batch)
  /\ row' = StoredIn(row, post.batch[post.stored + 1])
  /\ post' = [post EXCEPT !.stored = @ + 1]
  /\ pending' = Saved(pending, IF post.stored < post.cut THEN 0 ELSE post.stored + 1 - post.cut)
  /\ UNCHANGED <<config, poll, lastRun, elapsed, acked, run, wanted>>

\* Mutated form of Unposted: the buffer is emptied.
UnpostedNone(n) == <<>>
Unposted(n) == SubSeq(pending, n + 1, Len(pending))

\* The engine's answer arrives: the batch is acknowledged and leaves the buffer.
Ack ==
  /\ post # NoPost /\ post.stored = Len(post.batch)
  /\ acked' = [c \in Checks |-> IF \E r \in ToSet(post.batch) : r.check = c THEN "late" ELSE acked[c]]
  /\ pending' = Unposted(Len(post.batch))
  /\ post' = NoPost
  /\ Lost(Len(post.batch) - post.cut + 1, Len(post.batch))
  /\ UNCHANGED <<row, config, poll, lastRun, elapsed, run>>

\* The post fails or times out, with a part of it stored; the rest of it is lost,
\* or the engine goes on and stores it too.
PostFails ==
  /\ Outages /\ post # NoPost
  /\ \/ UNCHANGED <<row, pending>>
     \/ /\ row' = AllStored(SubSeq(post.batch, post.stored + 1, Len(post.batch)))
        /\ pending' = Saved(pending, IF Len(post.batch) < post.cut THEN 0 ELSE Len(post.batch) - post.cut)
  /\ post' = NoPost
  /\ UNCHANGED <<config, poll, lastRun, elapsed, acked, run, wanted>>

Runs(c) == StartRun(c) \/ (\E skip \in BOOLEAN : Finish(c, skip)) \/ Throw(c)
Flush == Post \/ Store \/ Ack
Next == \/ \E c \in Checks : Elapse(c) \/ RunNow(c) \/ Runs(c)
        \/ Poll \/ Answer \/ Adopt \/ PollFails \/ Flush \/ PostFails

Spec == Init /\ [][Next]_vars

\* The intervals of main fire, and probes and requests end.
FairSpec == /\ Spec /\ \A c \in Checks : WF_vars(Runs(c))
            /\ WF_vars(Poll \/ Answer \/ Adopt) /\ WF_vars(Flush)
-----------------------------------------------------------------------------
Results == [check : Checks, has : BOOLEAN, state : States, saved : BOOLEAN]

\* The variables have the values the code gives them, and the buffer its limit.
TypeOK ==
  /\ row \in Rows /\ config \in Rows
  /\ poll \in [step : {"idle", "asked"}, rows : {<<>>}] \union [step : {"answered"}, rows : Rows]
  /\ lastRun \subseteq Checks
  /\ elapsed \in [Checks -> BOOLEAN] /\ wanted \in [Checks -> BOOLEAN]
  /\ acked \in [Checks -> {"no", "late", "asked", "early"}]
  /\ run \in [Checks -> [on : BOOLEAN, held : BOOLEAN, reading : BOOLEAN]]
  /\ ToSet(pending) \subseteq Results /\ Len(pending) <= MaxBuffered
  /\ ToSet(post.batch) \subseteq Results /\ post.stored <= Len(post.batch)

\* While the server is unreachable "the collector keeps running from its last
\* configuration" (user-guide.md:993): a check that is not new, and has no request
\* in hand, runs again once its interval has passed, whichever polls and posts fail.
KnownChecksRun == \A c \in Checks : elapsed[c] ~> ~elapsed[c] \/ config[c].asked

\* The same of every check, a new one too.
DueChecksRun == \A c \in Checks : elapsed[c] ~> ~elapsed[c]

\* "together they tell a real "Run now" (a null lastRunAt) from a result that
\* just hadn't landed yet" (main.ts:73-75): a check runs before its interval has
\* passed only when it is new or, after its last run began, "Run now" was pressed
\* or a result of it was lost.
OnlyRealRequests ==
  [][ \A c \in Checks : ~run[c].on /\ run'[c].on => elapsed[c] \/ wanted[c] ]_vars

\* An acknowledgement takes stored results only: an unstored one stays in the
\* buffer, but for as many as were cut from its front during the post.
Unsaved(list) == Cardinality({i \in DOMAIN list : ~list[i].saved})
AckTakesStored == [][ Ack => Unsaved(pending) <= Unsaved(pending') + post.cut ]_vars
=============================================================================
