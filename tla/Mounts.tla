------------------------------- MODULE Mounts -------------------------------
(***************************************************************************)
(* How the agent asks its filesystems for their usage,                     *)
(* src/agent/internal/metrics/metrics.go: collectDisks, and                *)
(* usageWithTimeout with the goroutine it leaves behind.  Asking a dead    *)
(* network mount blocks for ever; a query is given up after 3 seconds and  *)
(* its mount marked as hung, so that the cycles to come leave it alone     *)
(* until the query returns after all.                                      *)
(***************************************************************************)
EXTENDS Naturals, FiniteSets

CONSTANTS Filesystems,  \* the mounts asked
          DiskPath,     \* the one whose percentage is a field of its own
          Queries       \* the goroutines there can be at once

ASSUME MountsAssumption == DiskPath \in Filesystems

VARIABLES todo,     \* the mounts this cycle still asks
          fresh,    \* those whose usage it has
          again,    \* has it asked for the disk path a second time?
          wait,     \* the collector: at "rest", "between" two mounts, "waiting" for mine, "gaveUp"
          mine,     \* the query it waits for
          query,    \* each goroutine: its mount, and whether it is asking, has answered or has sent
          hung,     \* c.hung
          dead      \* the mounts that do not answer now

mvars == <<todo, fresh, again, wait, mine, query, hung, dead>>

Unused == [mount |-> DiskPath, at |-> "unused"]

MountsInit ==
  /\ todo = {} /\ fresh = {} /\ again = FALSE /\ wait = "rest"
  /\ mine \in Queries /\ query = [q \in Queries |-> Unused]
  /\ hung = {} /\ dead = {}

Dies(m) == /\ m \notin dead /\ dead' = dead \union {m}
           /\ UNCHANGED <<todo, fresh, again, wait, mine, query, hung>>
Revives(m) == /\ m \in dead /\ dead' = dead \ {m}
              /\ UNCHANGED <<todo, fresh, again, wait, mine, query, hung>>

\* The filesystems are listed; a listing that takes more than 10 seconds gives none.
CollectDisks ==
  /\ wait = "rest" /\ wait' = "between"
  /\ todo' \in {Filesystems, {}} /\ fresh' = {} /\ again' = FALSE
  /\ UNCHANGED <<mine, query, hung, dead>>

\* The last part of Collect: the disk path by itself if it has no percentage yet.
AskDiskPath ==
  /\ wait = "between" /\ todo = {} /\ DiskPath \notin fresh /\ ~again
  /\ todo' = {DiskPath} /\ again' = TRUE
  /\ UNCHANGED <<fresh, wait, mine, query, hung, dead>>

CycleDone ==
  /\ wait = "between" /\ todo = {} /\ (DiskPath \in fresh \/ again)
  /\ wait' = "rest"
  /\ UNCHANGED <<todo, fresh, again, mine, query, hung, dead>>

-----------------------------------------------------------------------------
\* usageWithTimeout
LeaveAlone(m) ==
  /\ wait = "between" /\ m \in todo /\ m \in hung
  /\ todo' = todo \ {m}
  /\ UNCHANGED <<fresh, again, wait, mine, query, hung, dead>>

Ask(m) ==
  /\ wait = "between" /\ m \in todo /\ m \notin hung
  /\ wait' = "waiting"
  /\ \E q \in Queries :
       /\ query[q].at = "unused"
       /\ query' = [query EXCEPT ![q] = [mount |-> m, at |-> "asking"]]
       /\ mine' = q
  /\ UNCHANGED <<todo, fresh, again, hung, dead>>

Receive ==
  /\ wait = "waiting" /\ query[mine].at = "sent"
  /\ wait' = "between"
  /\ todo' = todo \ {query[mine].mount}
  /\ fresh' \in {fresh, fresh \union {query[mine].mount}}  \* the usage, or an error
  /\ query' = [query EXCEPT ![mine] = Unused]
  /\ UNCHANGED <<again, mine, hung, dead>>

TimesOut ==
  /\ wait = "waiting" /\ wait' = "gaveUp"
  /\ UNCHANGED <<todo, fresh, again, mine, query, hung, dead>>

\* Mutated form of MarkHung: the timeout is not remembered.
MarkHungNot ==
  /\ wait = "gaveUp" /\ wait' = "between"
  /\ todo' = todo \ {query[mine].mount}
  /\ UNCHANGED <<fresh, again, mine, query, hung, dead>>

\* A goroutine that was given up keeps the mount it asks, its channel nobody reads.
MarkHung ==
  /\ wait = "gaveUp" /\ wait' = "between"
  /\ todo' = todo \ {query[mine].mount} /\ hung' = hung \union {query[mine].mount}
  /\ UNCHANGED <<fresh, again, mine, query, dead>>

-----------------------------------------------------------------------------
\* The goroutine: the mount answers, which takes the mark away; then its channel has it.
Answered(q) ==
  /\ query[q].at = "asking" /\ query[q].mount \notin dead
  /\ query' = [query EXCEPT ![q].at = "answered"]
  /\ hung' = hung \ {query[q].mount}
  /\ UNCHANGED <<todo, fresh, again, wait, mine, dead>>

Sent(q) ==
  /\ query[q].at = "answered"
  /\ query' = [query EXCEPT ![q].at = "sent"]
  /\ UNCHANGED <<todo, fresh, again, wait, mine, hung, dead>>

\* What was sent to nobody is gone with its channel.
Forgotten(q) ==
  /\ query[q].at = "sent" /\ ~(wait \in {"waiting", "gaveUp"} /\ mine = q)
  /\ query' = [query EXCEPT ![q] = Unused]
  /\ UNCHANGED <<todo, fresh, again, wait, mine, hung, dead>>

MountsNext ==
  \/ CollectDisks \/ AskDiskPath \/ CycleDone
  \/ \E m \in Filesystems : Dies(m) \/ Revives(m) \/ LeaveAlone(m) \/ Ask(m)
  \/ Receive \/ TimesOut \/ MarkHung
  \/ \E q \in Queries : Answered(q) \/ Sent(q) \/ Forgotten(q)

MountsSpec == MountsInit /\ [][MountsNext]_mvars

-----------------------------------------------------------------------------
Asking(m) == {q \in Queries : query[q] = [mount |-> m, at |-> "asking"]}

\* A mount that hangs has one goroutine blocked in it, however many cycles come
\* (metrics.go:166-168: one bad mount can't pile up blocked goroutines).
NoPileUp == \A m \in Filesystems : Cardinality(Asking(m)) <= 1

\* A mount is shown as stale without being asked only while an earlier query of it is still
\* stuck (metrics.go:501-503).  False: a query that answers right after it was given up
\* takes the mark away before it is set, and nobody takes it away again.
StaleMeansStuck == wait = "rest" => \A m \in hung : Asking(m) # {}
=============================================================================
