---------------------------- MODULE AgentReport ----------------------------
(***************************************************************************)
(* One agent's cycle (agent/main.go, internal/checks, internal/report) and *)
(* the engine's two handlers of it (engine/src/routes/agent.ts): the poll  *)
(* for the checks to run, and the report of their results, stored one      *)
(* await at a time.                                                        *)
(*                                                                         *)
(* A result is its check and the order in which it finished.  The process  *)
(* and service lists, which go out with the first report after they are    *)
(* ready, are a version number; so is the inventory, which goes out when   *)
(* its hash is not the one last sent.  A report the agent has given up on  *)
(* may still be stored: each lives in a slot of its own at the engine.     *)
(***************************************************************************)
EXTENDS Naturals, SequencesExt

CONSTANTS Checks,      \* the checks that may be assigned to this agent
          Slots,       \* reports the engine may be storing at once: one at most given up
          MaxBuffered, \* results kept after a report that failed (500)
          Interval, MaxBackoff, BackoffAfter, \* interval, maxAuthBackoff, authFailuresBeforeBackoff
          MaxResults, MaxRefused, MaxVersion  \* bounds on results, refusals in a row, versions

ASSUME AgentAssumption ==
  /\ {MaxBuffered, Interval, MaxBackoff, BackoffAfter, MaxResults, MaxRefused, MaxVersion}
       \subseteq Nat \ {0}
  /\ Interval <= MaxBackoff

VARIABLES pc,        \* where runOnce is
          inFlight, completed,
          sending,   \* what the report under way took: results, lists, inventory
          lists,     \* lists collected last, and those waiting in discReady (0: none)
          inventory, \* version at hand, and the one whose hash was sent last (0: none)
          refused,   \* authFailures
          update,    \* endpoints.updateRequested
          storing,   \* the reports the engine is storing
          row,       \* the endpoint's row: lists and inventory; the last result of each check
          subject,   \* what changes in this behaviour, beside the results
          timely,    \* reports are stored within the agent's 30 seconds
          calm,      \* from now on nothing fails
          made, stored, cut, gone, \* history: results finished, stored, cut, lost in a restart
          shed       \* history: lists and inventory given up by a restart or a 413

agent == <<pc, inFlight, completed, sending, lists, inventory, refused>>
engine == <<update, storing, row>>
history == <<made, stored, cut, gone, shed>>
setting == <<subject, timely>>
vars == <<agent, engine, setting, calm, history>>

Results == [check : Checks, n : 1..MaxResults]
Nothing == [results |-> <<>>, lists |-> 0, inventory |-> 0]
Free == [on |-> FALSE, heard |-> FALSE, rest |-> Nothing]
GivenUp(s) == storing[s].on /\ ~storing[s].heard
Newer(a, b) == IF a > b THEN a ELSE b
-----------------------------------------------------------------------------
Init ==
  /\ pc = "idle" /\ refused = 0 /\ inFlight = {} /\ completed = <<>>
  /\ sending = Nothing
  /\ lists = [made |-> 0, ready |-> 0]
  /\ inventory = [now |-> 0, sent |-> 0]
  /\ update = FALSE
  /\ storing = [s \in Slots |-> Free]
  /\ row = [lists |-> 0, inventory |-> 0, last |-> [c \in Checks |-> 0]]
  /\ subject \in {"lists", "inventory", "requests"}
  /\ timely \in BOOLEAN /\ calm = FALSE
  /\ made = 0 /\ stored = {} /\ cut = {} /\ gone = {}
  /\ shed = [lists |-> 0, inventory |-> 0]

\* Mutated form of Accepted: refusals are not forgotten.
AcceptedNot(n) == n
\* authFailures after a poll that worked.
Accepted(n) == 0

\* authBackoff: the wait before the next cycle doubles with each refusal.
Backoff(n) ==
  IF n < BackoffAfter THEN Interval
  ELSE LET d == Interval * 2 ^ (n - BackoffAfter + 1)
       IN  IF d > MaxBackoff THEN MaxBackoff ELSE d

\* GET /config answers: the flag is cleared whether or not the agent can update itself.
ConsumeFlag == update' = FALSE

(* --- the world ------------------------------------------------------- *)
RequestUpdate ==
  /\ subject = "requests" /\ ~calm /\ ~update /\ update' = TRUE
  /\ UNCHANGED <<agent, storing, row, setting, calm, history>>
NewInventory ==
  /\ subject = "inventory" /\ inventory.now < MaxVersion
  /\ inventory' = [inventory EXCEPT !.now = @ + 1]
  /\ UNCHANGED <<pc, inFlight, completed, sending, lists, refused,
                 engine, setting, calm, history>>
\* What was wrong with the engine or the network is repaired for good.
Repair == ~calm /\ calm' = TRUE /\ UNCHANGED <<agent, engine, setting, history>>

(* --- the agent's background work ------------------------------------- *)
\* startCheck's goroutine ends: the result waits for the next report.
Finish(c) ==
  /\ c \in inFlight /\ made < MaxResults
  /\ inFlight' = inFlight \ {c}
  /\ made' = made + 1
  /\ completed' = Append(completed, [check |-> c, n |-> made + 1])
  /\ UNCHANGED <<pc, sending, lists, inventory, refused,
                 engine, setting, calm, stored, cut, gone, shed>>

\* startDiscovery's goroutine ends: its lists replace any that wait.
Discovered ==
  /\ subject = "lists" /\ lists.made < MaxVersion
  /\ lists' = [made |-> lists.made + 1, ready |-> lists.made + 1]
  /\ UNCHANGED <<pc, inFlight, completed, sending, inventory, refused,
                 engine, setting, calm, history>>

(* --- the poll -------------------------------------------------------- *)
\* GET /config did not answer, or its answer was lost (the flag is cleared then).
PollFails ==
  /\ pc = "idle" /\ ~calm
  /\ update' \in {update, FALSE}
  /\ pc' = "report"
  /\ UNCHANGED <<inFlight, completed, sending, lists, inventory, refused,
                 storing, row, setting, calm, history>>

\* 401 or 403: noteRefused, and no report in this cycle.
PollRefused ==
  /\ pc = "idle" /\ subject = "requests" /\ ~calm /\ refused < MaxRefused
  /\ refused' = refused + 1
  /\ UNCHANGED <<pc, inFlight, completed, sending, lists, inventory,
                 engine, setting, calm, history>>

\* The config: the update flag is consumed, and the checks whose interval has passed
\* start, those in flight excepted.  If an update was due it could not be installed.
Poll ==
  /\ pc = "idle"
  /\ pc' = "report"
  /\ refused' = Accepted(refused)
  /\ ConsumeFlag
  /\ \E due \in SUBSET Checks : inFlight' = inFlight \union due
  /\ UNCHANGED <<completed, sending, lists, inventory, storing, row, setting, calm, history>>

\* The process starts anew: nothing it held is left.
Restarted ==
  /\ pc' = "idle" /\ refused' = 0 /\ inFlight' = {} /\ completed' = <<>>
  /\ sending' = Nothing
  /\ lists' = [lists EXCEPT !.ready = 0]
  /\ inventory' = [inventory EXCEPT !.sent = 0]
  /\ storing' = [s \in Slots |-> [storing[s] EXCEPT !.heard = FALSE]]
  /\ gone' = gone \union ToSet(completed) \union ToSet(sending.results)
  /\ shed' = [shed EXCEPT !.lists = lists.made]
  /\ UNCHANGED <<row, setting, calm, made, stored, cut>>

\* The update is installed before the checks start, and the process exits.
PollAndUpdate == pc = "idle" /\ update /\ ConsumeFlag /\ Restarted
\* A restart takes longer than the engine needs for a report in time.
Restart ==
  /\ ~calm
  /\ pc = "sent" => ~timely /\ \A s \in Slots : ~GivenUp(s)
  /\ Restarted /\ UNCHANGED update

(* --- the report ------------------------------------------------------ *)
\* drain, takeDiscovery, and the inventory if it is not the one sent last.
Sending ==
  [results |-> completed, lists |-> lists.ready,
   inventory |-> IF inventory.sent # inventory.now THEN inventory.now ELSE 0]

\* takeDiscovery: the lists that wait are taken.
TakeDiscovery == [lists EXCEPT !.ready = 0]

Send(s, body) ==
  /\ ~storing[s].on
  /\ pc' = "sent" /\ sending' = body
  /\ storing' = [storing EXCEPT ![s] = [on |-> TRUE, heard |-> TRUE, rest |-> body]]
  /\ completed' = <<>>
  /\ lists' = TakeDiscovery
  /\ inventory' = [inventory EXCEPT !.sent = inventory.now]
  /\ UNCHANGED <<inFlight, refused, update, row, setting, calm, made, stored, cut, gone>>

SendReport(s) == pc = "report" /\ Send(s, Sending) /\ UNCHANGED shed
\* 413: the report is sent again without its large parts, which count as sent.
SendSmall(s) ==
  /\ pc = "report"
  /\ Send(s, [Nothing EXCEPT !.results = completed])
  /\ shed' = [lists |-> Newer(lists.ready, shed.lists),
              inventory |-> Newer(Sending.inventory, shed.inventory)]

\* Mutated form of Kept: not kept at all.
KeptNot(results) == completed
\* What the agent has to send after a report with these results failed.
Kept(results) == results \o completed

PutBackLists(taken) == IF lists.ready = 0 THEN [lists EXCEPT !.ready = taken] ELSE lists
PutBackInventory == [inventory EXCEPT !.sent = 0]

\* The report failed: the newest results and the lists wait for the next one.
PutBack(taken) ==
  LET kept == Kept(taken.results)
      over == IF Len(kept) > MaxBuffered THEN Len(kept) - MaxBuffered ELSE 0
  IN
  /\ pc' = "idle" /\ sending' = Nothing
  /\ completed' = SubSeq(kept, over + 1, Len(kept))
  /\ cut' = cut \union ToSet(SubSeq(kept, 1, over))
  /\ lists' = PutBackLists(taken.lists)
  /\ inventory' = PutBackInventory
  /\ UNCHANGED <<inFlight, update, setting, calm, made, gone, shed>>

\* The report does not arrive; or it is refused, like a poll.
ReportLost ==
  /\ pc = "report" /\ ~calm
  /\ PutBack(Nothing)
  /\ \/ UNCHANGED refused
     \/ subject = "requests" /\ refused < MaxRefused /\ refused' = refused + 1
  /\ UNCHANGED <<storing, row, stored>>

\* The agent has waited for 30 seconds; the engine goes on.
GiveUp ==
  /\ pc = "sent" /\ ~timely /\ ~calm /\ \A s \in Slots : ~GivenUp(s)
  /\ storing' = [s \in Slots |-> [storing[s] EXCEPT !.heard = FALSE]]
  /\ PutBack(sending)
  /\ UNCHANGED <<refused, row, stored>>

(* --- the engine ------------------------------------------------------ *)
\* storeReport's update of the endpoint: only what the report contains.
StoreRow(s) ==
  LET rest == storing[s].rest IN
  /\ storing[s].on
  /\ rest.lists # 0 \/ rest.inventory # 0
  /\ row' = [row EXCEPT !.lists = IF rest.lists # 0 THEN rest.lists ELSE @,
                        !.inventory = IF rest.inventory # 0 THEN rest.inventory ELSE @]
  /\ storing' = [storing EXCEPT ![s].rest = [Nothing EXCEPT !.results = rest.results]]
  /\ UNCHANGED <<agent, update, setting, calm, history>>

\* The next result: it becomes the check's latest, whatever was recorded before.
StoreResult(s) ==
  LET rest == storing[s].rest
      r    == Head(rest.results)
  IN
  /\ storing[s].on
  /\ rest.lists = 0 /\ rest.inventory = 0 /\ rest.results # <<>>
  /\ row' = [row EXCEPT !.last[r.check] = r.n]
  /\ stored' = stored \union {r}
  /\ storing' = [storing EXCEPT ![s].rest.results = Tail(@)]
  /\ UNCHANGED <<agent, update, setting, calm, made, cut, gone, shed>>

\* An await of the handler throws and the answer is 500 (the error kept in the endpoint's
\* row, which is only shown, is left out).
StoreThrows(s) ==
  /\ storing[s].on /\ ~calm
  /\ storing' = [storing EXCEPT ![s] = Free]
  /\ IF storing[s].heard
       THEN PutBack(sending) /\ UNCHANGED refused
       ELSE UNCHANGED <<agent, update, setting, calm, made, cut, gone, shed>>
  /\ UNCHANGED <<row, stored>>

\* Everything is stored: 200, if the agent still listens and the answer arrives.
StoreDone(s) ==
  /\ storing[s].on /\ storing[s].rest = Nothing
  /\ storing' = [storing EXCEPT ![s] = Free]
  /\ IF storing[s].heard
       THEN /\ pc' = "idle" /\ sending' = Nothing
            /\ UNCHANGED <<inFlight, completed, lists, inventory, refused>>
       ELSE UNCHANGED agent
  /\ UNCHANGED <<update, row, setting, calm, history>>
AnswerLost(s) ==
  /\ storing[s].on /\ storing[s].rest = Nothing /\ storing[s].heard /\ ~calm
  /\ storing' = [storing EXCEPT ![s] = Free]
  /\ PutBack(sending)
  /\ UNCHANGED <<refused, row, stored>>
-----------------------------------------------------------------------------
Store(s) == StoreRow(s) \/ StoreResult(s)
AnyPoll == Poll \/ PollAndUpdate
Next ==
  \/ \E c \in Checks : Finish(c)
  \/ RequestUpdate \/ NewInventory \/ Repair \/ Discovered
  \/ PollFails \/ PollRefused \/ AnyPoll \/ Restart
  \/ ReportLost \/ GiveUp
  \/ \E s \in Slots : SendReport(s) \/ SendSmall(s)
  \/ \E s \in Slots : Store(s) \/ StoreThrows(s) \/ StoreDone(s) \/ AnswerLost(s)

Spec == Init /\ [][Next]_vars

\* The loop polls and reports; the engine's awaits return.
ReportFairness ==
  /\ WF_vars(AnyPoll)
  /\ WF_vars(\E s \in Slots : SendReport(s))
  /\ \A s \in Slots : WF_vars(Store(s)) /\ WF_vars(StoreDone(s))
FairSpec == Spec /\ ReportFairness
-----------------------------------------------------------------------------
TypeOK ==
  /\ pc \in {"idle", "report", "sent"}
  /\ inFlight \subseteq Checks
  /\ completed \in Seq(Results) /\ sending.results \in Seq(Results)
  /\ refused \in 0..MaxRefused /\ made \in 0..MaxResults
  /\ {stored, cut, gone} \subseteq SUBSET Results
  /\ {update, timely, calm} \subseteq BOOLEAN

Held == ToSet(completed) \union ToSet(sending.results)

\* A finished result is always somewhere: waiting, in the report under way, or stored.
\* Only a restart and the limit of the buffer may drop it, and the limit drops the
\* oldest; a report that fails anywhere between the agent and the last await of the
\* engine loses nothing (runOnce, startCheck).
NoResultLost ==
  /\ \A n \in 1..made : \E c \in Checks :
       [check |-> c, n |-> n] \in Held \union stored \union cut \union gone
  /\ \A r \in cut, h \in Held : r.n < h.n

\* Once nothing fails any more, every result arrives, unless an update of the agent takes
\* it away (PollAndUpdate), and the agent is back at its interval, however often it was
\* refused (authBackoff, the loop of main).
ArrivesInTheEnd ==
  /\ \A r \in Results : calm /\ r \in Held ~> r \in stored \union gone
  /\ calm ~> Backoff(refused) = Interval
=============================================================================
