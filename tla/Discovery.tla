------------------------------ MODULE Discovery ------------------------------
(* One-off work: network scans, which the engine runs itself or a site's     *)
(* collector runs for it, and jobs for a collector (Wake-on-LAN, SNMP        *)
(* walks).  A row is queued by a request, handed out with the collector's    *)
(* next poll of its configuration, and ended by what the collector posts.    *)
(* A call may be lost or be handled after its caller gave up on it (30 s),   *)
(* and both processes may restart.                                           *)
EXTENDS Nothing, Naturals, FiniteSets, TLC
CONSTANTS Networks,   \* the sites
          Collectors, \* endpoints that may collect for them
          Works       \* the rows, scans and jobs, that may come to be: a bound
ASSUME CollectorsAssumption == None \notin Collectors

VARIABLES collector, \* site -> the endpoint that collects for it, or None
          work,      \* existing row of discovery_scans or collector_jobs
          asking,    \* requests that may queue a row: a scan when none runs, a job
          polls,     \* endpoint -> the sites its poll in progress is for
          doing,     \* work under way: what, where, and how far
          posts,     \* reports on their way to the engine
          begun      \* work -> how often it was begun (history)
dvars == <<collector, work, asking, polls, doing, posts, begun>>

Finished(w) == work[w].status \in {"done", "error"}
Free == Works \ DOMAIN work
Change(w, status, results) == work' = [work EXCEPT ![w].status = status, ![w].results = results]
Begin(w, by) == [work |-> w, by |-> by, at |-> "working"]
Count(W) == begun' = [w \in Works |-> begun[w] + (IF w \in W THEN 1 ELSE 0)]

-----------------------------------------------------------------------------
(* Requests.  A scan runs on its site's network if a collector serves it,    *)
(* else on the engine's; one that is 30 minutes old is not waited for.       *)
ScanRunning(s) == \E w \in DOMAIN work : LET x == work[w] IN
  /\ x.kind = "scan" /\ x.status \in {"running", "queued"} /\ x.fresh
  /\ IF s # None /\ collector[s] # None THEN x.site = s ELSE x.site = None \/ collector[x.site] = None
AskScan(s) ==
  /\ Cardinality(asking) < Cardinality(Free) /\ ~ScanRunning(s)
  /\ asking' = asking \cup {[kind |-> "scan", site |-> s, via |-> s # None /\ collector[s] # None]}
  /\ UNCHANGED <<collector, work, polls, doing, posts, begun>>
InsertScan(a, w) ==
  /\ a.kind = "scan" /\ w \in Free /\ asking' = asking \ {a}
  /\ work' = With(work, w, [kind |-> "scan", site |-> a.site, status |-> IF a.via THEN "queued" ELSE "running", results |-> "none", fresh |-> TRUE])
  /\ IF a.via THEN UNCHANGED <<doing, begun>> ELSE doing' = doing \cup {Begin(w, None)} /\ Count({w})
  /\ UNCHANGED <<collector, polls, posts>>
(* A walk, or waking an endpoint, is a job if the site has a collector; else *)
(* the engine does it on the spot, and keeps nothing.  The site may have lost *)
(* its collector when the row is written.                                    *)
siteCollectorFor(s) == collector[s]
AskJob(s) ==
  /\ Cardinality(asking) < Cardinality(Free) /\ siteCollectorFor(s) # None
  /\ asking' = asking \cup {[kind |-> "job", site |-> s, via |-> TRUE]}
  /\ UNCHANGED <<collector, work, polls, doing, posts, begun>>
snmpWalk(s) == AskJob(s)
wake(s) == AskJob(s)
queueCollectorJob(a, w) ==
  /\ a.kind = "job" /\ w \in Free /\ asking' = asking \ {a}
  /\ work' = With(work, w, [kind |-> "job", site |-> a.site, status |-> "queued", results |-> "none", fresh |-> TRUE])
  /\ UNCHANGED <<collector, polls, doing, posts, begun>>
HalfHourPasses == work' = [w \in DOMAIN work |-> [work[w] EXCEPT !.fresh = FALSE]] /\ UNCHANGED <<collector, asking, polls, doing, posts, begun>>
SetCollector(s, e) == collector' = [collector EXCEPT ![s] = e] /\ UNCHANGED <<work, asking, polls, doing, posts, begun>>

-----------------------------------------------------------------------------
(* A poll: the middleware finds the sites, the route hands their work out.   *)
Poll(e) ==
  LET sites == {s \in Networks : collector[s] = e} IN
  /\ polls[e] = {} /\ sites # {} /\ polls' = [polls EXCEPT ![e] = sites]
  /\ UNCHANGED <<collector, work, asking, doing, posts, begun>>
\* A mutant: what is running or sent is handed out again.
Unfinished(e) == {w \in DOMAIN work : work[w].site \in polls[e] /\ ~Finished(w)}
Queued(e) == {w \in DOMAIN work : work[w].site \in polls[e] /\ work[w].status = "queued"}
HandOut(e, lost) ==
  /\ polls[e] # {} /\ polls' = [polls EXCEPT ![e] = {}]
  /\ work' = [w \in DOMAIN work |-> IF w \in Queued(e) THEN [work[w] EXCEPT !.status = IF work[w].kind = "scan" THEN "running" ELSE "sent"] ELSE work[w]]
  /\ IF lost THEN UNCHANGED <<doing, begun>>
     ELSE doing' = doing \cup {Begin(w, e) : w \in Queued(e)} /\ Count(Queued(e))
  /\ UNCHANGED <<collector, asking, posts>>

-----------------------------------------------------------------------------
(* The scan the engine runs: each change is awaited.                         *)
failScan(w) == work' = [work EXCEPT ![w].status = "error"]
completeScan(w) == Change(w, "done", "full")
runDiscoveryScan(d) ==
  /\ d.by = None
  /\ \/ work' = [work EXCEPT ![d.work].results = "partial"] /\ UNCHANGED doing
     \/ (completeScan(d.work) \/ failScan(d.work)) /\ doing' = doing \ {d}
  /\ UNCHANGED <<collector, asking, polls, posts, begun>>

(* The collector's: a progress is posted and not looked after; a finished    *)
(* list that is not acknowledged is followed by an error.  A job's outcome   *)
(* is posted once.                                                           *)
Post(d, what) == [work |-> d.work, from |-> d.by, what |-> what]
Send(d, what) == posts' = posts \cup {Post(d, what)}
runScan(d) ==
  /\ d.by # None /\ work[d.work].kind = "scan" /\ d.at = "working"
  /\ \/ Send(d, "progress") /\ UNCHANGED doing
     \/ Send(d, "done") /\ doing' = (doing \ {d}) \cup {[d EXCEPT !.at = "reporting"]}
     \/ Send(d, "error") /\ doing' = doing \ {d}
  /\ UNCHANGED <<collector, work, asking, polls, begun>>
GivesUp(d) ==
  /\ d.at = "reporting" /\ Send(d, "error") /\ doing' = doing \ {d}
  /\ UNCHANGED <<collector, work, asking, polls, begun>>
runJob(d) ==
  /\ work[d.work].kind = "job" /\ (Send(d, "done") \/ Send(d, "error")) /\ doing' = doing \ {d}
  /\ UNCHANGED <<collector, work, asking, polls, begun>>

(* What a post does: nothing unless the site is still the sender's.          *)
Acknowledged(p) == {d \in doing : d.work = p.work /\ d.at = "reporting" /\ p.what = "done"}
TakesPost(p) ==
  /\ posts' = posts \ {p}
  /\ IF collector[work[p.work].site] # p.from THEN UNCHANGED <<work, doing>>
     ELSE /\ CASE p.what = "error" /\ work[p.work].kind = "scan" -> failScan(p.work)
               [] p.what = "done" /\ work[p.work].kind = "scan" -> completeScan(p.work)
               [] p.what = "progress" -> work' = [work EXCEPT ![p.work].results = "partial"]
               [] work[p.work].kind = "job" -> Change(p.work, p.what, IF p.what = "done" THEN "full" ELSE "text")
          /\ doing' = doing \ Acknowledged(p)
  /\ UNCHANGED <<collector, asking, polls, begun>>
Lost(p) == posts' = posts \ {p} /\ UNCHANGED <<collector, work, asking, polls, doing, begun>>
RestartCollector(e) == doing' = {d \in doing : d.by # e} /\ UNCHANGED <<collector, work, asking, polls, posts, begun>>
RestartEngine == /\ doing' = {d \in doing : d.by # None} /\ asking' = {} /\ polls' = [e \in Collectors |-> {}]
                 /\ UNCHANGED <<collector, work, posts, begun>>

DiscoveryInit ==
  /\ collector \in [Networks -> Collectors \cup {None}] /\ work = <<>> /\ asking = {} /\ polls = [e \in Collectors |-> {}]
  /\ doing = {} /\ posts = {} /\ begun = [w \in Works |-> 0]
DiscoveryNext ==
  \/ \E s \in Networks : AskScan(s) \/ snmpWalk(s) \/ wake(s) \/ \E e \in Collectors \cup {None} : SetCollector(s, e)
  \/ AskScan(None) \/ HalfHourPasses \/ RestartEngine
  \/ \E w \in Works, a \in asking : InsertScan(a, w) \/ queueCollectorJob(a, w)
  \/ \E e \in Collectors : Poll(e) \/ (\E lost \in BOOLEAN : HandOut(e, lost)) \/ RestartCollector(e)
  \/ \E d \in doing : runDiscoveryScan(d) \/ runScan(d) \/ GivesUp(d) \/ runJob(d)
  \/ \E p \in posts : TakesPost(p) \/ Lost(p)

-----------------------------------------------------------------------------
(* GET /snmp-walk/:jobId: what the page that asked is told.                  *)
Answer(w) == CASE work[w].status \in {"queued", "sent"} -> "pending" [] work[w].status = "error" -> "failed" [] OTHER -> "rows"

(* One-off work is done at most once (a second magic packet, or a second     *)
(* scan under one row), whatever is lost, repeated or handled late, also     *)
(* when the site's collector changes under it; a scan that has ended stays   *)
(* ended, also for a progress that comes after it (collector.ts:199); and    *)
(* the answer to a walk does not change once there is one.                   *)
OneOffsOnce == [][\A w \in DOMAIN work :
  /\ begun'[w] <= 1
  /\ Finished(w) => Finished(w)'
  /\ work[w].kind = "job" /\ Answer(w) # "pending" => Answer(w)' = Answer(w)]_dvars
=============================================================================
