------------------------------ MODULE Receivers ------------------------------
(* What devices send unasked: syslog lines and traps (events), and flow      *)
(* exports.  The engine stores what it receives; a site's collector keeps    *)
(* what it receives until the engine has taken it (services/receivers/,      *)
(* siteNetworks.ts, collector/main.ts, the events route).  Addresses,        *)
(* messages and packets are told apart by what is done with them.            *)
EXTENDS Nothing, Integers, FiniteSets, SequencesExt
CONSTANTS Devices,       \* senders
          Private,       \* those in RECEIVER_ALLOWED_SOURCES
          RangeLists,    \* the address ranges of the sites, in the table's order: see Range
          PublicIps,     \* site -> the devices that are its public addresses
          Served,        \* the collector's sites, the first one first
          Conversations, \* what flows are summed by, each with its exporter
          FLOW_TOP_N, MAX_BUFFERED_EVENTS, MAX_EVENTS_PER_SOURCE_PER_SEC, MaxPosted,
          MaxEvents, MaxBytes, MaxRepeats \* bounds on what is sent, and on the posts that are made again

VARIABLES ranges,    \* the address ranges of the sites
          rate,      \* device -> its events in this second
          from,      \* the senders of the events accepted, by number
          templates, \* exporters whose template is known
          sums,      \* conversation -> bytes since the last minute
          buffered,  \* the collector's pendingEvents and pendingFlows
          post,      \* the request being answered, or None
          late,      \* requests the collector has given up on that the engine may yet handle
          siteIps,   \* the engine's cached lookup, or None
          inserting, \* events the engine has received and not stored
          stored,    \* stored events, each with its site, and the bytes stored of each conversation
          story      \* (history) what was cut off, counted and repeated
ASSUME ReceiversAssumption ==
  /\ MAX_BUFFERED_EVENTS \in Nat /\ MaxPosted \in Nat /\ IsFiniteSet(Conversations)
  /\ \A rs \in RangeLists : rs \in Seq(Range(rs)) /\ \A r \in Range(rs) : r.prefix \in Nat
  /\ None \notin [events : Seq(Nat), flows : Seq([of : Conversations, bytes : Nat]), answer : {"none", "ok", "error"}]

rvars == <<ranges, rate, from, templates, sums, buffered, post, late, siteIps, inserting, stored, story>>

-----------------------------------------------------------------------------
(* siteForAddress: range after range, one replaces the best so far only by a *)
(* longer prefix.                                                            *)
Better(best, r, ip) == IF ip \notin r.holds \/ r.prefix <= best.prefix THEN best ELSE r
siteForAddress(ip, rs) ==
  LET best[k \in 0..Len(rs)] == IF k = 0 THEN [site |-> None, holds |-> {}, prefix |-> -1] ELSE Better(best[k - 1], rs[k], ip)
  IN best[Len(rs)].site
InSites(S) == SelectSeq(ranges, LAMBDA r : r.site \in S)
siteOf(ip) == LET s == siteForAddress(ip, InSites(Range(Served))) IN IF s = None THEN Served[1] ELSE s
siteFor(lookup, ip) == IF \E s \in DOMAIN lookup.map : ip \in lookup.map[s] THEN CHOOSE s \in DOMAIN lookup.map : ip \in lookup.map[s]
                       ELSE siteForAddress(ip, lookup.ranges)
siteLookup == [map |-> PublicIps, ranges |-> SelectSeq(ranges, LAMBDA r : r.site \notin Range(Served)), fresh |-> TRUE]
sourceAllowed(ip) == ip \in Private

(* emit: more than the cap in one second are dropped. *)
underRateLimit(d) == rate[d] < MAX_EVENTS_PER_SOURCE_PER_SEC
Counts(d) == rate' = [rate EXCEPT ![d] = @ + 1]
SecondPasses == rate' = [d \in Devices |-> 0] /\ rate' # rate
                /\ UNCHANGED <<ranges, from, templates, sums, buffered, post, late, siteIps, inserting, stored, story>>

-----------------------------------------------------------------------------
(* The engine's own listeners.  What cannot be stored is lost.               *)
EngineReceives(d) ==
  LET fresh == IF siteIps = None THEN FALSE ELSE siteIps.fresh IN
  /\ Len(from) < MaxEvents
  /\ sourceAllowed(d) \/ \E s \in DOMAIN PublicIps : d \in PublicIps[s]
  /\ underRateLimit(d) /\ Counts(d) /\ from' = Append(from, d)
  /\ inserting' = inserting \cup {[event |-> Len(from) + 1, lookup |-> IF fresh THEN siteIps ELSE siteLookup, refreshed |-> ~fresh]}
  /\ UNCHANGED <<ranges, templates, sums, buffered, post, late, siteIps, stored, story>>
storeEvents(i, fails) ==
  /\ inserting' = inserting \ {i}
  /\ siteIps' = IF i.refreshed THEN i.lookup ELSE siteIps
  /\ stored' = IF fails THEN stored ELSE [stored EXCEPT !.events = @ \cup {<<i.event, siteFor(i.lookup, from[i.event])>>}]
  /\ UNCHANGED <<ranges, rate, from, templates, sums, buffered, post, late, story>>
MinutePasses == siteIps # None /\ siteIps' = [siteIps EXCEPT !.fresh = FALSE] /\ siteIps' # siteIps
                /\ UNCHANGED <<ranges, rate, from, templates, sums, buffered, post, late, inserting, stored, story>>
SaveRanges == \E rs \in RangeLists : rs # ranges /\ ranges' = rs /\ siteIps' = None
              /\ UNCHANGED <<rate, from, templates, sums, buffered, post, late, inserting, stored, story>>

-----------------------------------------------------------------------------
(* The collector's listeners: a full buffer drops its oldest. *)
Trimmed(q) == SubSeq(q, IF Len(q) > MAX_BUFFERED_EVENTS THEN Len(q) - MAX_BUFFERED_EVENTS + 1 ELSE 1, Len(q))
CollectorReceives(d) ==
  LET q == Append(buffered.events, Len(from) + 1) IN
  /\ Len(from) < MaxEvents /\ sourceAllowed(d) /\ underRateLimit(d) /\ Counts(d) /\ from' = Append(from, d)
  /\ buffered' = [buffered EXCEPT !.events = Trimmed(q)]
  /\ story' = [story EXCEPT !.accepted = @ \cup {Len(from) + 1}, !.cut = @ + Len(q) - Len(Trimmed(q))]
  /\ UNCHANGED <<ranges, templates, sums, post, late, siteIps, inserting, stored>>

(* An export is v5, sFlow, a template, or data for one, which is dropped     *)
(* until its template has come.                                              *)
handlePacket(c, kind) ==
  /\ sourceAllowed(c.exporter)
  /\ \/ kind = "template" /\ templates' = templates \cup {c.exporter} /\ UNCHANGED <<sums, story>>
     \/ kind = "data" /\ c.exporter \notin templates /\ UNCHANGED <<templates, sums, story>>
     \/ /\ kind \in {"v5", "sflow"} \/ (kind = "data" /\ c.exporter \in templates)
        /\ story.bytes < MaxBytes
        /\ sums' = [sums EXCEPT ![c] = @ + 1] /\ story' = [story EXCEPT !.bytes = @ + 1] /\ UNCHANGED templates
  /\ UNCHANGED <<ranges, rate, from, buffered, post, late, siteIps, inserting, stored>>
(* Once a minute: the biggest conversations of each exporter are kept.       *)
Bytes(f, S) == FoldSet(LAMBDA c, n : f[c] + n, 0, S)
SizesOf(flows) == [i \in DOMAIN flows |-> flows[i].bytes]
Peers(c) == {d \in Conversations : d.exporter = c.exporter /\ sums[d] > 0}
drain == \E top \in SUBSET {c \in Conversations : sums[c] > 0} :
  /\ \E c \in Conversations : sums[c] > 0
  /\ \A c \in Conversations : sums[c] > 0 =>
       /\ Cardinality(Peers(c) \cap top) = (IF Cardinality(Peers(c)) < FLOW_TOP_N THEN Cardinality(Peers(c)) ELSE FLOW_TOP_N)
       /\ c \in top => \A d \in Peers(c) \ top : sums[d] <= sums[c]
  /\ sums' = [c \in Conversations |-> 0]
  /\ buffered' = [buffered EXCEPT !.flows = @ \o SetToSeq({[of |-> c, bytes |-> sums[c]] : c \in top})]
  /\ story' = [story EXCEPT !.small = @ + Bytes(sums, {c \in Conversations : c \notin top})]
  /\ UNCHANGED <<ranges, rate, from, templates, post, late, siteIps, inserting, stored>>

-----------------------------------------------------------------------------
(* flush posts the oldest of what is buffered (of the flows, up to 10000:    *)
(* all of them here), and takes as many off the front once it is             *)
(* acknowledged.                                                             *)
Oldest(q) == SubSeq(q, 1, IF Len(q) > MaxPosted THEN MaxPosted ELSE Len(q))
flush ==
  /\ post = None /\ buffered.events \o buffered.flows # <<>> /\ story.repeats <= MaxRepeats
  /\ post' = [events |-> Oldest(buffered.events), flows |-> buffered.flows, answer |-> "none"]
  /\ UNCHANGED <<ranges, rate, from, templates, sums, buffered, late, siteIps, inserting, stored, story>>
(* The route stores the events of one site, then of the next, then flows;    *)
(* one that throws leaves the rest.                                          *)
EventSites(p, k) == {siteOf(from[p.events[n]]) : n \in 1..k}
FlowSites(p, k) == {siteOf(p.flows[n].of.exporter) : n \in 1..k}
BytesOf(p, c, S) == Bytes(SizesOf(p.flows), {i \in DOMAIN p.flows : p.flows[i].of = c /\ siteOf(c.exporter) \in S})
Stores(p, eventSites, flowSites) ==
  stored' = [events |-> stored.events \cup {<<e, siteOf(from[e])>> : e \in {e \in Range(p.events) : siteOf(from[e]) \in eventSites}},
             bytes |-> [c \in Conversations |-> stored.bytes[c] + BytesOf(p, c, flowSites)]]
(* The sites are in the order in which they turn up: those handled are the   *)
(* sites of the first i events, and of the first j flows.                    *)
Handle(p, i, j) ==
  /\ EventSites(p, i) # EventSites(p, Len(p.events)) => j = 0
  /\ Stores(p, EventSites(p, i), FlowSites(p, j))
All(p, i, j) == EventSites(p, i) = EventSites(p, Len(p.events)) /\ FlowSites(p, j) = FlowSites(p, Len(p.flows))
EngineHandles ==
  /\ post # None /\ post.answer = "none"
  /\ \E i \in 0..Len(post.events), j \in 0..Len(post.flows), lost \in BOOLEAN :
       /\ Handle(post, i, j)
       /\ post' = [post EXCEPT !.answer = IF All(post, i, j) /\ ~lost THEN "ok" ELSE "error"]
  /\ UNCHANGED <<ranges, rate, from, templates, sums, buffered, late, siteIps, inserting, story>>
GivesUpOnPost ==
  /\ post # None /\ post.answer = "none" /\ late = {}
  /\ post' = [post EXCEPT !.answer = "error"] /\ late' = {[events |-> post.events, flows |-> post.flows]}
  /\ UNCHANGED <<ranges, rate, from, templates, sums, buffered, siteIps, inserting, stored, story>>
EngineHandlesLate(p) ==
  /\ \E i \in 0..Len(p.events), j \in 0..Len(p.flows) : Handle(p, i, j)
  /\ late' = late \ {p}
  /\ UNCHANGED <<ranges, rate, from, templates, sums, buffered, post, siteIps, inserting, story>>
\* A mutant: what was buffered while the post was answered goes with it.
ClearAll(q, n) == <<>>
Drop(q, n) == SubSeq(q, n + 1, Len(q))
Acknowledge ==
  /\ post # None /\ post.answer # "none" /\ post' = None
  /\ IF post.answer = "ok" THEN
       /\ buffered' = [events |-> Drop(buffered.events, Len(post.events)), flows |-> Drop(buffered.flows, Len(post.flows))]
       /\ UNCHANGED story
     ELSE UNCHANGED buffered /\ story' = [story EXCEPT !.repeats = @ + 1]
  /\ UNCHANGED <<ranges, rate, from, templates, sums, late, siteIps, inserting, stored>>

ReceiversInit ==
  /\ ranges \in RangeLists /\ rate = [d \in Devices |-> 0] /\ from = <<>> /\ templates = {} /\ sums = [c \in Conversations |-> 0]
  /\ buffered = [events |-> <<>>, flows |-> <<>>] /\ post = None /\ late = {} /\ siteIps = None /\ inserting = {}
  /\ stored = [events |-> {}, bytes |-> [c \in Conversations |-> 0]]
  /\ story = [accepted |-> {}, cut |-> 0, bytes |-> 0, small |-> 0, repeats |-> 0]
ReceiversNext ==
  \/ SecondPasses \/ MinutePasses \/ SaveRanges \/ drain \/ flush \/ EngineHandles \/ GivesUpOnPost \/ Acknowledge
  \/ \E d \in Devices : EngineReceives(d) \/ CollectorReceives(d)
  \/ \E c \in Conversations, kind \in {"v5", "sflow", "template", "data"} : handlePacket(c, kind)
  \/ \E i \in inserting, fails \in BOOLEAN : storeEvents(i, fails)
  \/ \E p \in late : EngineHandlesLate(p)

-----------------------------------------------------------------------------
(* What the collector has accepted is stored or still buffered, whatever is  *)
(* lost or answered late, except as many events as a full buffer has cut     *)
(* off; the bytes of the flows add up in the same way, and exceed what was   *)
(* sent only if a post was made twice.  An event is filed under the site     *)
(* with the most specific range, or the first site.                          *)
Stored == {x[1] : x \in stored.events}
Missing == story.accepted \ (Stored \cup Range(buffered.events))
EventsKept == Cardinality(Missing) <= story.cut
Waiting == Bytes(SizesOf(buffered.flows), DOMAIN buffered.flows)
BytesAddUp ==
  LET there == Bytes(stored.bytes, Conversations) + Bytes(sums, Conversations) + story.small + Waiting IN
  there >= story.bytes /\ (story.repeats = 0 /\ late = {} /\ post = None => there = story.bytes)
MostSpecific(d, rs) == {r \in Range(rs) : d \in r.holds /\ \A q \in Range(rs) : d \in q.holds => q.prefix <= r.prefix}
RightSite == \A d \in Devices : LET best == MostSpecific(d, ranges) IN siteForAddress(d, ranges) \in IF best = {} THEN {None} ELSE {r.site : r \in best}
ReceivedIsKept == EventsKept /\ BytesAddUp /\ RightSite
=============================================================================
