----------------------------- MODULE Maintenance -----------------------------
(* Maintenance windows (services/maintenance.ts): whether one is in effect   *)
(* at an instant, which checks it covers, and the copy of the windows kept   *)
(* for 15 s, under the routes that write windows, groups and the inventory   *)
(* (maintenance.ts, groups.ts, locations.ts and the bulk actions).  A        *)
(* refresh of the copy and a page of groups read in several steps.           *)
EXTENDS Groups
CONSTANTS Universes, \* the inventories to begin with
          GroupIds, Groupings, \* groups, and what they may be
          WindowIds, Timings,  \* windows, and when they may be
          MaxReads, MaxWrites, \* bounds on the refreshes at a time and the requests that write
          Instants             \* the minutes looked at, counted from a Sunday's midnight UTC
VARIABLES u,        \* the inventory
          groups,   \* existing group -> its row and members
          windows,  \* existing window -> its row
          now,
          cache,    \* the windows in memory, or None
          refreshing,  \* the refreshes under way; behind and asOf (history): whether a window was written since, and what had been before
          page,     \* the universe a page of groups is being answered from, or None
          writes    \* requests handled that write
(* A group has members, or it has rules.                                     *)
ASSUME MaintenanceAssumption ==
  /\ \A v \in Universes : IsUniverse(v)
  /\ \A row \in Groupings : IsGroup(row)
mvars == <<u, groups, windows, now, cache, refreshing, page, writes>>

Day == 1440
Week == 7 * Day
-----------------------------------------------------------------------------
(* The wall clock of a zone; a clock change is an other offset. *)
wallClock(at, offset) == [weekday |-> ((at + offset) \div Day) % 7, minuteOfDay |-> (at + offset) % Day]
OneOff(w) == w.startsAt # None /\ w.endsAt # None
Elapsed(w, at, daysAgo) == wallClock(at, w.offset).minuteOfDay + daysAgo * Day - w.startMinute
WeeklyIsActive(w, at) == \E daysAgo \in 0..6 :
  /\ (wallClock(at, w.offset).weekday - daysAgo + 7) % 7 \in w.daysOfWeek
  /\ Elapsed(w, at, daysAgo) >= 0 /\ Elapsed(w, at, daysAgo) < w.durationMinutes
windowIsActive(w, at) ==
  /\ w.enabled
  /\ IF OneOff(w) THEN at >= w.startsAt /\ at < w.endsAt ELSE WeeklyIsActive(w, at)
(* target.probe is the endpoint whose agent runs the check. *)
windowAppliesTo(w, c, target, groupChecks) ==
  CASE w.scope = "all" -> TRUE
    [] w.scope = "site" -> target.site \in w.targets
    [] w.scope = "endpoint" -> w.targets \cap ({target.endpoint, target.probe} \ {None}) # {}
    [] w.scope = "group" -> \E g \in w.targets \cap DOMAIN groupChecks : c \in groupChecks[g]
    [] w.scope = "check" -> c \in w.targets
    [] OTHER -> FALSE
Enabled(ws) == {ws[w] : w \in {w \in DOMAIN ws : ws[w].enabled}}
GroupsOf(rows) == DOMAIN groups \cap UNION {w.targets : w \in {w \in rows : w.scope = "group"}}
checkIdsForGroups(G, v) == [g \in G |-> Covered(v, groups[g])]
InWindows(rows, groupChecks, c, target, at) == \E w \in rows : windowAppliesTo(w, c, target, groupChecks) /\ windowIsActive(w, at)
(* Asked of the database (lists), and of the copy (results). *)
activeMaintenance(c) == LET rows == {w \in Enabled(windows) : windowIsActive(w, now)} IN
  InWindows(rows, checkIdsForGroups(GroupsOf(rows), u), c, u.checks[c], now)
isInMaintenance(c) == InWindows(cache.rows, cache.groupChecks, c, u.checks[c], now)

-----------------------------------------------------------------------------
(* A refresh reads the windows, then the inventory, then the members of one  *)
(* group after the other; each result that finds the copy old begins one.    *)
Stale == IF cache = None THEN TRUE ELSE ~cache.fresh
RefreshStarts ==
  /\ Stale /\ Cardinality(refreshing) < MaxReads
  /\ refreshing' = refreshing \cup {[rows |-> Enabled(windows), u |-> None, behind |-> FALSE, asOf |-> writes]}
  /\ UNCHANGED <<u, groups, windows, now, cache, page, writes>>
RefreshReadsInventory(r) ==
  /\ r.u = None /\ refreshing' = (refreshing \ {r}) \cup {[r EXCEPT !.u = u]}
  /\ UNCHANGED <<u, groups, windows, now, cache, page, writes>>
Tidied(v, G) == [g \in DOMAIN groups |-> IF g \in G /\ groups[g].kind = "manual" THEN [groups[g] EXCEPT !.members = @ \ Gone(v, @)] ELSE groups[g]]
RefreshEnds(r) ==
  /\ r.u # None /\ refreshing' = refreshing \ {r}
  /\ cache' = [rows |-> r.rows, groupChecks |-> checkIdsForGroups(GroupsOf(r.rows), r.u), fresh |-> TRUE, behind |-> r.behind, asOf |-> r.asOf]
  /\ groups' = Tidied(r.u, GroupsOf(r.rows))
  /\ UNCHANGED <<u, windows, now, page, writes>>
RefreshFails(r) == refreshing' = refreshing \ {r} /\ UNCHANGED <<u, groups, windows, now, cache, page, writes>>
Expires == ~Stale /\ cache' = [cache EXCEPT !.fresh = FALSE] /\ UNCHANGED <<u, groups, windows, now, refreshing, page, writes>>
TimePasses == \E t \in Instants : t > now /\ now' = t /\ UNCHANGED <<u, groups, windows, cache, refreshing, page, writes>>

(* GET /api/groups and GET /api/tree. *)
PageStarts == page = None /\ page' = u /\ UNCHANGED <<u, groups, windows, now, cache, refreshing, writes>>
PageEnds == page # None /\ page' = None /\ groups' = Tidied(page, DOMAIN groups) /\ UNCHANGED <<u, windows, now, cache, refreshing, writes>>

-----------------------------------------------------------------------------
(* Writing a window and dropping the copy, in each of the routes. *)
Put(f, x, row) == [y \in DOMAIN f \cup {x} |-> IF y = x THEN row ELSE f[y]]
Without(f, X) == [y \in DOMAIN f \ X |-> f[y]]
Counts == writes < MaxWrites /\ writes' = writes + 1
\* A mutant: an edit leaves the copy until it expires.
KeepCache == UNCHANGED cache
invalidateMaintenanceCache == cache' = None
Write(ws) == Counts /\ windows' = ws /\ invalidateMaintenanceCache /\ refreshing' = {[r EXCEPT !.behind = TRUE] : r \in refreshing} /\ UNCHANGED <<u, groups, now, page>>
Shortcut(w, scope, targets) == w \notin DOMAIN windows /\ targets # {} /\ Write(Put(windows, w,
  [scope |-> scope, targets |-> targets, enabled |-> TRUE, startsAt |-> now, endsAt |-> now + 60, daysOfWeek |-> {}, startMinute |-> 0, durationMinutes |-> 0, offset |-> 0]))
Targets(scope) == CASE scope = "group" -> GroupIds [] scope = "check" -> DOMAIN u.checks [] scope = "endpoint" -> DOMAIN u.endpoints [] scope = "site" -> DOMAIN u.sites [] OTHER -> {}
CreateWindow(w) == \E t \in Timings, scope \in {"all", "group", "site", "endpoint"}, on \in BOOLEAN :
  w \notin DOMAIN windows /\ Write(Put(windows, w, [t EXCEPT !.scope = scope, !.targets = Targets(scope), !.enabled = on]))
PatchWindow(w) == \E on \in BOOLEAN, scope \in {"all", "group"} : Write([windows EXCEPT ![w].enabled = on, ![w].scope = scope, ![w].targets = Targets(scope)])
EndWindow(w) == Write([windows EXCEPT ![w].endsAt = now, ![w].enabled = FALSE])
DeleteWindow(w) == Write(Without(windows, {w}))
BulkMaintenance(w) == \E scope \in {"check", "endpoint", "site"} : Shortcut(w, scope, Targets(scope))
LocationMaintenance(w) == \E l \in u.locations : Shortcut(w, "site", {s \in DOMAIN u.sites : u.sites[s].location = l})

(* Groups and the inventory. *)
WriteGroups(gs) == Counts /\ groups' = gs /\ UNCHANGED <<u, windows, now, cache, refreshing, page>>
CreateGroup(g) == \E row \in Groupings : g \notin DOMAIN groups /\ (row.kind = "filter" => validateRules(row.target, row.rules)) /\ WriteGroups(Put(groups, g, row))
DeleteGroup(g) == WriteGroups(Without(groups, {g}))
ChangeMembers(g) == \E t \in MemberTypes : \E x \in Pool(u, t) :
  groups[g].kind = "manual" /\ \E M \in {groups[g].members \cup {<<t, x>>}, groups[g].members \ {<<t, x>>}} : WriteGroups([groups EXCEPT ![g].members = M])
WriteInventory(v) == Counts /\ u' = v /\ UNCHANGED <<groups, windows, now, cache, refreshing, page>>
DeleteObject == \/ \E c \in DOMAIN u.checks : WriteInventory([u EXCEPT !.checks = Without(@, {c})])
                \/ \E l \in u.locations : WriteInventory([u EXCEPT !.locations = @ \ {l}, !.sites = [s \in DOMAIN u.sites |-> [u.sites[s] EXCEPT !.location = IF @ = l THEN None ELSE @]]])
NewStatus == \E c \in DOMAIN u.checks, status \in {"up", "down"} : WriteInventory([u EXCEPT !.checks[c].status = status])
EnableCheck == \E c \in DOMAIN u.checks, on \in BOOLEAN : WriteInventory([u EXCEPT !.checks[c].enabled = on])
(* The bulk action move, with the checks or without. *)
MoveEndpoint == \E e \in DOMAIN u.endpoints, s \in DOMAIN u.sites, moveChecks \in BOOLEAN : WriteInventory([u EXCEPT !.endpoints[e].site = s,
  !.checks = [c \in DOMAIN @ |-> IF moveChecks /\ @[c].endpoint = e THEN [@[c] EXCEPT !.site = s] ELSE @[c]]])
(* A location's sites are set together, "the complete membership list".      *)
Placed(s, l, S) == [u.sites[s] EXCEPT !.location = IF s \in S THEN l ELSE IF @ = l THEN None ELSE @]
SetLocation == \E l \in u.locations, S \in SUBSET DOMAIN u.sites : WriteInventory([u EXCEPT !.sites = [s \in DOMAIN u.sites |-> Placed(s, l, S)]])

MaintenanceInit == /\ u \in Universes /\ groups \in UNION {[G -> Groupings] : G \in SUBSET GroupIds} /\ windows \in UNION {[W -> Timings] : W \in SUBSET WindowIds}
                   /\ now = CHOOSE t \in Instants : \A x \in Instants : t <= x
                   /\ cache = None /\ refreshing = {} /\ page = None /\ writes = 0
MaintenanceNext ==
  \/ RefreshStarts \/ (\E r \in refreshing : RefreshReadsInventory(r) \/ RefreshEnds(r) \/ RefreshFails(r)) \/ Expires \/ TimePasses \/ PageStarts \/ PageEnds
  \/ \E w \in WindowIds : CreateWindow(w) \/ BulkMaintenance(w) \/ LocationMaintenance(w)
  \/ \E w \in DOMAIN windows : PatchWindow(w) \/ EndWindow(w) \/ DeleteWindow(w)
  \/ \E g \in GroupIds : CreateGroup(g)
  \/ \E g \in DOMAIN groups : DeleteGroup(g) \/ ChangeMembers(g)
  \/ DeleteObject \/ NewStatus \/ EnableCheck \/ MoveEndpoint \/ SetLocation

-----------------------------------------------------------------------------
(* "So an edit takes effect immediately" (maintenance.ts:29): whichever of   *)
(* the routes wrote a window, the copy that results are judged by is the     *)
(* windows there are, unless the write fell between a refresh's reading of   *)
(* the windows and its end; and as long as nothing else changed either, a    *)
(* result is in maintenance exactly if the lists show its check so.          *)
NotBehind == IF cache = None THEN FALSE ELSE ~cache.behind
NoWriteSince == IF cache = None THEN FALSE ELSE cache.asOf = writes
EditsApply == NotBehind => cache.rows = Enabled(windows)
ResultsAsListed == NoWriteSince => \A c \in DOMAIN u.checks : isInMaintenance(c) <=> activeMaintenance(c)
(* And a site's problems are the same ones in the tree (by endpoint), in a   *)
(* filter (by the check's site), and in a group that holds the site, if its  *)
(* endpoints have not been moved without their checks.                       *)
Whole(s) == [kind |-> "manual", members |-> {<<"site", s>>}]
Together(s) == \A c \in DOMAIN u.checks : LET e == u.checks[c].endpoint IN e # None => (u.checks[c].site = s <=> u.endpoints[e].site = s)
TreeAgrees == \A s \in {s \in DOMAIN u.sites : Together(s)} :
  /\ SiteNode(u, s).status = siteStatus(u, s)
  /\ SiteNode(u, s) = GroupNode(u, Whole(s))
  /\ u.sites[s].location # None => SiteNode(u, s).problems \subseteq LocationNode(u, u.sites[s].location).problems
PagesAgree == EditsApply /\ ResultsAsListed /\ TreeAgrees
=============================================================================
