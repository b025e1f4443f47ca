-------------------------------- MODULE Groups --------------------------------
(* What a group holds and covers, and the statuses summed up over sites,     *)
(* locations and groups (services/groups.ts, routes/tree.ts).  Everything    *)
(* is worked out from a universe, one reading of the inventory: its          *)
(* locations, site -> location, endpoint -> site, and its checks.            *)
EXTENDS Nothing, Integers, FiniteSets

MemberTypes == {"location", "site", "endpoint", "check"}
Pool(u, t) == CASE t = "location" -> u.locations [] t = "site" -> DOMAIN u.sites [] t = "endpoint" -> DOMAIN u.endpoints [] t = "check" -> DOMAIN u.checks

STATUS_RANK == [up |-> 0, unknown |-> 1, warn |-> 2, down |-> 3]
Ranked == DOMAIN STATUS_RANK
ASSUME NullAssumption == None \notin Ranked

(* What the foreign keys make sure of: a check is in a site, an endpoint in  *)
(* one, and what they refer to is there.                                     *)
IsUniverse(u) ==
  /\ u = [locations |-> u.locations, sites |-> u.sites, endpoints |-> u.endpoints, checks |-> u.checks]
  /\ None \notin u.locations /\ None \notin DOMAIN u.endpoints
  /\ u.sites \in [DOMAIN u.sites -> [location : u.locations \cup {None}, collector : BOOLEAN]]
  /\ u.endpoints \in [DOMAIN u.endpoints -> [site : DOMAIN u.sites, tags : SUBSET STRING]]
  /\ u.checks \in [DOMAIN u.checks -> [site : DOMAIN u.sites, endpoint : DOMAIN u.endpoints \cup {None}, probe : DOMAIN u.endpoints \cup {None},
       tags : SUBSET STRING, status : Ranked \cup {None}, enabled : BOOLEAN]]

worseStatus(a, b) == IF None \in {a, b} THEN (IF a = None THEN b ELSE a) ELSE IF STATUS_RANK[b] > STATUS_RANK[a] THEN b ELSE a
(* A list of statuses folded with worseStatus. *)
WorstOf(S) == CASE S \ {None} = {} -> None
              [] OTHER -> CHOOSE a \in S \ {None} : \A b \in S : worseStatus(a, b) = a
StatusOf(c) == IF c.status = None THEN "unknown" ELSE c.status
Counted(u) == {c \in DOMAIN u.checks : u.checks[c].enabled}
siteStatus(u, s) == WorstOf({StatusOf(u.checks[c]) : c \in {c \in Counted(u) : u.checks[c].site = s}})
endpointStatus(u, e) == WorstOf({StatusOf(u.checks[c]) : c \in {c \in Counted(u) : u.checks[c].endpoint = e}})

-----------------------------------------------------------------------------
(* Filters.  Objects are told apart by their names alone. *)
YesNo(b) == IF b THEN "yes" ELSE "no"
OrUnknown(status) == IF status = None THEN "unknown" ELSE status
OrEmpty(S) == IF S = {} THEN {""} ELSE S
LocationOf(u, s) == IF u.sites[s].location = None THEN "" ELSE u.sites[s].location
fieldValues(u, t, x, field) ==
  CASE field = "name" -> {x}
    [] t = "site" /\ field = "location" -> {LocationOf(u, x)}
    [] t = "site" /\ field = "collector" -> {YesNo(u.sites[x].collector)}
    [] t = "site" /\ field = "status" -> {OrUnknown(siteStatus(u, x))}
    [] t = "endpoint" /\ field = "tag" -> OrEmpty(u.endpoints[x].tags)
    [] t = "endpoint" /\ field = "site" -> {u.endpoints[x].site}
    [] t = "endpoint" /\ field = "location" -> {LocationOf(u, u.endpoints[x].site)}
    [] t = "endpoint" /\ field = "status" -> {OrUnknown(endpointStatus(u, x))}
    [] t = "check" /\ field = "tag" -> OrEmpty(u.checks[x].tags)
    [] t = "check" /\ field = "status" -> {StatusOf(u.checks[x])}
    [] t = "check" /\ field = "enabled" -> {YesNo(u.checks[x].enabled)}
    [] t = "check" /\ field = "endpoint" -> {IF u.checks[x].endpoint = None THEN "" ELSE u.checks[x].endpoint}
    [] t = "check" /\ field = "site" -> {u.checks[x].site}
    [] t = "check" /\ field = "location" -> {LocationOf(u, u.checks[x].site)}
    [] OTHER -> {""}
(* A negative operator holds if no value of the field has it; the operators  *)
(* that look for part of a text are left out.                                *)
Holds(u, t, x, c) == IF c.op = "is_not" THEN c.value \notin fieldValues(u, t, x, c.field) ELSE c.value \in fieldValues(u, t, x, c.field)
matchesRules(u, t, x, rules) ==
  /\ rules.conditions # {}
  /\ IF rules.match = "any" THEN \E c \in rules.conditions : Holds(u, t, x, c) ELSE \A c \in rules.conditions : Holds(u, t, x, c)
FILTER_FIELDS == [location |-> {"name", "description"}, site |-> {"name", "description", "location", "collector", "status"},
  endpoint |-> {"name", "hostname", "os", "tag", "site", "location", "agent", "agentVersion", "status"},
  check |-> {"name", "type", "tag", "status", "enabled", "endpoint", "site", "location"}]
validateRules(t, rules) == t \in MemberTypes /\ Cardinality(rules.conditions) <= 20 /\ \A c \in rules.conditions : c.field \in FILTER_FIELDS[t]

-----------------------------------------------------------------------------
(* Members and what they bring along; members <<type, object>> that are no   *)
(* longer in the universe are skipped, and their rows are deleted.           *)
IsGroup(g) ==
  /\ g = [kind |-> g.kind, members |-> g.members, target |-> g.target, rules |-> g.rules]
  /\ \A m \in g.members : m[1] \in MemberTypes
Gone(u, members) == {m \in members : m[2] \notin Pool(u, m[1])}
resolveGroup(u, g) ==
  IF g.kind = "filter" THEN {<<g.target, x>> : x \in {x \in Pool(u, g.target) : matchesRules(u, g.target, x, g.rules)}}
  ELSE g.members \ Gone(u, g.members)
SitesIn(u, members) == {s \in DOMAIN u.sites : <<"site", s>> \in members \/ <<"location", u.sites[s].location>> \in members}
expandToChecks(u, members) ==
  {c \in DOMAIN u.checks : \/ <<"check", c>> \in members
                           \/ u.checks[c].site \in SitesIn(u, members)
                           \/ <<"endpoint", u.checks[c].endpoint>> \in members}
expandToEndpoints(u, members) == {e \in DOMAIN u.endpoints : <<"endpoint", e>> \in members \/ u.endpoints[e].site \in SitesIn(u, members)}
Covered(u, g) == expandToChecks(u, resolveGroup(u, g))
MemberOf(u, groups, t, x) == {g \in DOMAIN groups : <<t, x>> \in resolveGroup(u, groups[g])}

(* The navigation tree. *)
summarize(u, C) == LET on == C \cap Counted(u) IN
  [status |-> WorstOf({StatusOf(u.checks[c]) : c \in on}), problems |-> {c \in on : u.checks[c].status \in {"down", "warn"}}, checks |-> on]
combine(S) == [status |-> WorstOf({s.status : s \in S}), problems |-> UNION {s.problems : s \in S}, checks |-> UNION {s.checks : s \in S}]
EndpointNode(u, e) == summarize(u, {c \in DOMAIN u.checks : u.checks[c].endpoint = e})
SiteNode(u, s) == combine({EndpointNode(u, e) : e \in {e \in DOMAIN u.endpoints : u.endpoints[e].site = s}}
                          \cup {summarize(u, {c \in DOMAIN u.checks : u.checks[c].endpoint = None /\ u.checks[c].site = s})})
LocationNode(u, l) == combine({SiteNode(u, s) : s \in {s \in DOMAIN u.sites : u.sites[s].location = l}})
GroupNode(u, g) == summarize(u, Covered(u, g))
=============================================================================
