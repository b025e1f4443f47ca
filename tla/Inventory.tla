------------------------------ MODULE Inventory ------------------------------
(* The rows of sites, endpoints and checks under the routes that write them  *)
(* (checks.ts, endpoints.ts, sites.ts, snmpTemplates.ts, insights.ts), the   *)
(* deletes the foreign keys cascade, and the queries by which the engine, a  *)
(* site's collector and the agents each find the checks that are theirs.     *)
(* A request is one action, except a merge of sites: three queries, between  *)
(* which other requests come.                                                *)
EXTENDS Nothing, CheckTypes, Naturals, FiniteSets, TLC
CONSTANTS Sites, Endpoints, CheckIds,
          Types,    \* the check types in use, one or more of each kind
          MaxChecks \* bound on the checks; a copy may be one more
ASSUME TypesAssumption == Types \subseteq CheckType
ASSUME NoneAssumption == None \notin Endpoints

VARIABLES site,       \* existing site -> the endpoint that collects for it, or None
          endpoint,   \* existing endpoint -> its site and whether it has an agent key
          check,      \* existing check -> its row
          merge,      \* the merge of sites under way, or None
          arrived        \* what has been put into a site being merged (history)
ivars == <<site, endpoint, check, merge, arrived>>

Live(row) == row.site \in DOMAIN site /\ {row.endpoint, row.probe} \subseteq DOMAIN endpoint \cup {None}
Keep(f, S) == [x \in DOMAIN f \cap S |-> f[x]]

-----------------------------------------------------------------------------
(* The foreign keys: a site takes its endpoints and checks with it, an       *)
(* endpoint its checks; a collector or a probe that is gone becomes null.    *)
OrNull(e, gone) == IF e \in gone THEN None ELSE e
CascadeChecks(gone, sitesGone) ==
  [c \in {c \in DOMAIN check : check[c].site \notin sitesGone /\ check[c].endpoint \notin gone} |-> [check[c] EXCEPT !.probe = OrNull(@, gone)]]
CascadeSites(gone, sitesGone) == [s \in DOMAIN site \ sitesGone |-> OrNull(site[s], gone)]
RemoveEndpoints(gone) ==
  /\ endpoint' = Keep(endpoint, Endpoints \ gone)
  /\ site' = CascadeSites(gone, {})
  /\ check' = CascadeChecks(gone, {})
RemoveSites(gone) ==
  LET inside == {e \in DOMAIN endpoint : endpoint[e].site \in gone} IN
  /\ endpoint' = Keep(endpoint, Endpoints \ inside)
  /\ site' = CascadeSites(inside, gone)
  /\ check' = CascadeChecks(inside, gone)

(* What a request puts into a site that a merge is emptying. *)
InMerged(s) == merge # None /\ s \in merge.from
Watch == arrived' = IF None \in {merge, merge'} THEN {} ELSE (arrived \cup
  {e \in DOMAIN endpoint' : endpoint'[e].site \in merge'.from /\ (e \in DOMAIN endpoint => ~InMerged(endpoint[e].site))} \cup
  {c \in DOMAIN check' : check'[c].site \in merge'.from /\ (c \in DOMAIN check => ~InMerged(check[c].site))}) \cap (DOMAIN endpoint' \cup DOMAIN check')

-----------------------------------------------------------------------------
(* What the fields of a check must look like together. *)
Validate(t, e, p) == (t \in EndpointScoped => e # None) /\ (p # None => t \in Pinnable)
Row(t, s, e, p, on) == [type |-> t, site |-> s, endpoint |-> e, probe |-> p, enabled |-> on, token |-> t \in PushTypes]
Plain(t, s, e) == [type |-> t, site |-> s, endpoint |-> e, probe |-> None, enabled |-> TRUE, token |-> FALSE]
InsertCheck(c, row) ==
  /\ c \in CheckIds \ DOMAIN check /\ Live(row) /\ Cardinality(DOMAIN check) < MaxChecks
  /\ check' = With(check, c, row)
  /\ UNCHANGED <<site, endpoint, merge>>
Put(c, row) == check' = [check EXCEPT ![c] = row] /\ UNCHANGED <<site, endpoint, merge>>

CreateCheck(c) == \E t \in Types, s \in Sites, e, p \in Endpoints \cup {None}, on \in BOOLEAN :
  Validate(t, e, p) /\ InsertCheck(c, Row(t, s, e, p, on))
(* One target of a batch: an endpoint brings its site. *)
BatchTarget(c) == \E t \in Types, p \in Endpoints \cup {None}, on \in BOOLEAN :
  \/ \E e \in DOMAIN endpoint : Validate(t, e, p) /\ InsertCheck(c, Row(t, endpoint[e].site, e, p, on))
  \/ \E s \in DOMAIN site : Validate(t, None, p) /\ InsertCheck(c, Row(t, s, None, p, on))
(* Suggested checks, role templates and SNMP templates are not validated:    *)
(* each makes only the types that suit it.                                   *)
ApplySuggestion(c) == \E t \in Types \cap Suggested, e \in DOMAIN endpoint, s \in Sites :
  InsertCheck(c, Plain(t, s, e))
ApplyRoleTemplate(c) == \E t \in Types \cap Suggested, e \in DOMAIN endpoint :
  InsertCheck(c, Plain(t, endpoint[e].site, e))
ApplySiteSuggestion(c) == \E t \in Types \cap SiteSuggested, s \in DOMAIN site, e \in DOMAIN endpoint \cup {None} :
  /\ e # None => endpoint[e].site = s
  /\ t = "agent_heartbeat" => e # None /\ endpoint[e].key
  /\ InsertCheck(c, Plain(t, s, e))
ApplySnmpTemplate(c) == \E t \in Types \cap TemplateTypes, s \in DOMAIN site, e \in DOMAIN endpoint \cup {None} :
  (e # None => endpoint[e].site = s) /\ InsertCheck(c, Plain(t, s, e))
(* A device found by a scan: an endpoint for it if wished, then its checks. *)
AddDevice(c) == \E t \in Types \cap DeviceTypes, s \in DOMAIN site, e \in DOMAIN endpoint \cup {None} :
  InsertCheck(c, Plain(t, s, e))

PatchCheck(c) == \E s \in Sites, e, p \in Endpoints \cup {None}, on \in BOOLEAN :
  LET row == [check[c] EXCEPT !.site = s, !.endpoint = e, !.probe = p, !.enabled = on] IN
  Validate(row.type, e, p) /\ Live(row) /\ row # check[c] /\ Put(c, row)
SetEndpoint(c) == \E e \in DOMAIN endpoint \cup {None} :
  Validate(check[c].type, e, check[c].probe) /\ Put(c, [check[c] EXCEPT !.endpoint = e])
SetProbeEndpoint(c) == \E p \in DOMAIN endpoint \cup {None} :
  Validate(check[c].type, check[c].endpoint, p) /\ Put(c, [check[c] EXCEPT !.probe = p])
MoveChecks(c) == \E s \in DOMAIN site : Put(c, [check[c] EXCEPT !.site = s])
RegenerateToken(c) == Put(c, [check[c] EXCEPT !.token = TRUE])
RemoveToken(c) == check[c].type \notin PushTypes /\ Put(c, [check[c] EXCEPT !.token = FALSE])
DeleteCheck(c) == check' = Keep(check, CheckIds \ {c}) /\ UNCHANGED <<site, endpoint, merge>>
(* A copy goes to an endpoint and its site, to a site (with the endpoint if  *)
(* it is there), or where the check is.                                      *)
DuplicateTo(row, s, e) == [row EXCEPT !.site = s, !.endpoint = e, !.token = row.type \in PushTypes]
Duplicate(c) == \E d \in CheckIds : LET row == check[c] IN
  \E to \in {<<endpoint[e].site, e>> : e \in DOMAIN endpoint}
       \cup {<<s, IF row.endpoint # None /\ endpoint[row.endpoint].site = s THEN row.endpoint ELSE None>> : s \in DOMAIN site}
       \cup {<<row.site, row.endpoint>>} :
    /\ Validate(row.type, to[2], row.probe) /\ d \notin DOMAIN check
    /\ check' = With(check, d, DuplicateTo(row, to[1], to[2])) /\ UNCHANGED <<site, endpoint, merge>>
(* Enabling and disabling: chosen checks, those of endpoints, those of sites. *)
ChecksOfEndpoints(E) == {c \in DOMAIN check : E \cap {check[c].endpoint, check[c].probe} # {}}
ChecksOfSites(T) == {c \in DOMAIN check : check[c].site \in T}
EnableChecks == \E on \in BOOLEAN, S \in (SUBSET DOMAIN check)
    \cup {ChecksOfEndpoints(E) : E \in SUBSET DOMAIN endpoint} \cup {ChecksOfSites(T) : T \in SUBSET DOMAIN site} :
  /\ check' = [c \in DOMAIN check |-> IF c \in S THEN [check[c] EXCEPT !.enabled = on] ELSE check[c]]
  /\ UNCHANGED <<site, endpoint, merge>>

-----------------------------------------------------------------------------
(* Endpoints and their agents. *)
CreateEndpoint(e) == \E s \in DOMAIN site :
  /\ e \notin DOMAIN endpoint
  /\ endpoint' = With(endpoint, e, [site |-> s, key |-> FALSE]) /\ UNCHANGED <<site, check, merge>>
PatchEndpoint(e) == \E s \in DOMAIN site :
  endpoint' = [endpoint EXCEPT ![e].site = s] /\ UNCHANGED <<site, check, merge>>
IssueAgentKey(e) == endpoint' = [endpoint EXCEPT ![e].key = TRUE] /\ UNCHANGED <<site, check, merge>>
DeleteEndpoint(e) == RemoveEndpoints({e}) /\ UNCHANGED merge
(* The chosen endpoints move, and with moveChecks the checks on them. *)
MoveEndpoints == \E E \in SUBSET DOMAIN endpoint \ {{}}, s \in DOMAIN site, moveChecks \in BOOLEAN :
  /\ endpoint' = [e \in DOMAIN endpoint |-> IF e \in E THEN [endpoint[e] EXCEPT !.site = s] ELSE endpoint[e]]
  /\ check' = [c \in DOMAIN check |-> IF moveChecks /\ check[c].endpoint \in E THEN [check[c] EXCEPT !.site = s] ELSE check[c]]
  /\ UNCHANGED <<site, merge>>
CollectorSites(e) == \E S \in SUBSET DOMAIN site :
  /\ S # {} => endpoint[e].key
  /\ site' = [s \in DOMAIN site |-> IF s \in S THEN e ELSE OrNull(site[s], {e})]
  /\ UNCHANGED <<endpoint, check, merge>>

-----------------------------------------------------------------------------
(* Sites. *)
(* siteFields: its other fields, locations, addresses and ranges, are those  *)
(* of other modules.                                                         *)
MayCollect(e) == e = None \/ (e \in DOMAIN endpoint /\ endpoint[e].key)
CreateSite(s) == \E e \in Endpoints \cup {None} :
  s \notin DOMAIN site /\ MayCollect(e) /\ site' = With(site, s, e) /\ UNCHANGED <<endpoint, check, merge>>
PatchSite(s) == \E e \in Endpoints \cup {None} :
  MayCollect(e) /\ site' = [site EXCEPT ![s] = e] /\ UNCHANGED <<endpoint, check, merge>>
DeleteSite(s) == RemoveSites({s}) /\ UNCHANGED merge

StartMerge == \E S \in SUBSET DOMAIN site \ {{}}, t \in DOMAIN site :
  /\ merge = None /\ t \notin S
  /\ merge' = [from |-> S, to |-> t, step |-> "endpoints"] /\ UNCHANGED <<site, endpoint, check>>
(* A target that is gone fails the query, if it has a row to change. *)
MergeEndpoints ==
  LET moving == {e \in DOMAIN endpoint : endpoint[e].site \in merge.from} IN
  /\ merge # None /\ merge.step = "endpoints"
  /\ IF moving # {} /\ merge.to \notin DOMAIN site THEN merge' = None /\ UNCHANGED endpoint
     ELSE merge' = [merge EXCEPT !.step = "checks"]
          /\ endpoint' = [e \in DOMAIN endpoint |-> IF e \in moving THEN [endpoint[e] EXCEPT !.site = merge.to] ELSE endpoint[e]]
  /\ UNCHANGED <<site, check>>
\* A mutant: only the checks of the site itself move.
MergeSiteChecks ==
  LET moving == {c \in DOMAIN check : check[c].site \in merge.from /\ check[c].endpoint = None} IN
  /\ merge # None /\ merge.step = "checks" /\ merge' = [merge EXCEPT !.step = "delete"]
  /\ check' = [c \in DOMAIN check |-> IF c \in moving THEN [check[c] EXCEPT !.site = merge.to] ELSE check[c]]
  /\ UNCHANGED <<site, endpoint>>
MergeChecks ==
  LET moving == {c \in DOMAIN check : check[c].site \in merge.from} IN
  /\ merge # None /\ merge.step = "checks"
  /\ IF moving # {} /\ merge.to \notin DOMAIN site THEN merge' = None /\ UNCHANGED check
     ELSE merge' = [merge EXCEPT !.step = "delete"]
          /\ check' = [c \in DOMAIN check |-> IF c \in moving THEN [check[c] EXCEPT !.site = merge.to] ELSE check[c]]
  /\ UNCHANGED <<site, endpoint>>
MergeDelete == merge # None /\ merge.step = "delete" /\ merge' = None /\ RemoveSites(merge.from)

-----------------------------------------------------------------------------
(* Who runs a check. *)
CollectorOf(c) == IF check[c].type \in CollectorTypes /\ check[c].probe = None THEN site[check[c].site] ELSE None
DueOnEngine == {c \in DOMAIN check : check[c].enabled /\ check[c].probe = None /\ check[c].type \in EngineTypes}
(* takeCollectorChecks leaves the engine those without a collector. *)
EngineRuns == {c \in DueOnEngine : site[check[c].site] = None \/ check[c].type \notin CollectorTypes \/ check[c].probe # None}
\* A mutant: the checks an agent is named for are not left out.
PinnedToo(e) == {c \in DOMAIN check : site[check[c].site] = e /\ check[c].type \in CollectorTypes /\ check[c].enabled}
CollectorConfig(e) == {c \in DOMAIN check : site[check[c].site] = e /\ check[c].type \in CollectorTypes /\ check[c].enabled /\ check[c].probe = None}
AgentConfig(e) ==
  {c \in DOMAIN check : check[c].endpoint = e /\ check[c].type \in AgentTypes /\ check[c].enabled /\ check[c].probe \in {None, e}}
  \cup {c \in DOMAIN check : check[c].probe = e /\ check[c].type \in Pinnable /\ check[c].enabled}
ReportedBy(e) == {c \in DOMAIN check : check[c].endpoint = e /\ check[c].type \in ReportTypes /\ check[c].enabled}
Runners(c) == {<<"engine", None>> : x \in EngineRuns \cap {c}}
  \cup {<<"collector", e>> : e \in {e \in DOMAIN endpoint : c \in CollectorConfig(e)}}
  \cup {<<"agent", e>> : e \in {e \in DOMAIN endpoint : c \in AgentConfig(e)}}
  \cup {<<"report", e>> : e \in {e \in DOMAIN endpoint : c \in ReportedBy(e)}}
(* What Run now does with a check: refused where an agent runs it. *)
RunNow(c) == IF check[c].type \notin EngineTypes \/ check[c].probe # None THEN "refused"
             ELSE IF CollectorOf(c) # None THEN "collector" ELSE "engine"

InventoryInit == site = <<>> /\ endpoint = <<>> /\ check = <<>> /\ merge = None /\ arrived = {}
InventoryNext ==
  /\ \/ \E c \in CheckIds : \/ CreateCheck(c) \/ BatchTarget(c) \/ ApplySuggestion(c) \/ ApplyRoleTemplate(c) \/ ApplySiteSuggestion(c)
                            \/ ApplySnmpTemplate(c) \/ AddDevice(c)
     \/ \E c \in DOMAIN check : \/ PatchCheck(c) \/ SetEndpoint(c) \/ SetProbeEndpoint(c) \/ MoveChecks(c) \/ RegenerateToken(c) \/ RemoveToken(c)
                                \/ DeleteCheck(c) \/ Duplicate(c)
     \/ EnableChecks \/ MoveEndpoints
     \/ \E e \in Endpoints : CreateEndpoint(e)
     \/ \E e \in DOMAIN endpoint : PatchEndpoint(e) \/ IssueAgentKey(e) \/ DeleteEndpoint(e) \/ CollectorSites(e)
     \/ \E s \in Sites : CreateSite(s)
     \/ \E s \in DOMAIN site : PatchSite(s) \/ DeleteSite(s)
     \/ StartMerge \/ MergeEndpoints \/ MergeChecks \/ MergeDelete
  /\ Watch

-----------------------------------------------------------------------------
(* Every enabled check is run from exactly one place, whatever was moved,    *)
(* merged or deleted around it: the four queries that hand checks out        *)
(* (scheduler.ts, collector.ts, agent.ts twice) leave none out and share     *)
(* none.  Run now goes to that place, and a check that is pushed to keeps    *)
(* the URL it is pushed to.                                                  *)
HasOneRunner == \A c \in DOMAIN check : check[c].enabled => Cardinality(Runners(c)) = 1
RunNowReachesIt == \A c \in DOMAIN check : check[c].enabled =>
  \A r \in Runners(c) : RunNow(c) = IF r[1] \in {"agent", "report"} THEN "refused" ELSE r[1]
KeepsItsUrl == \A c \in DOMAIN check : check[c].type \in PushTypes => check[c].token
OneRunner == HasOneRunner /\ RunNowReachesIt /\ KeepsItsUrl

(* "Moves every host and check ..., then deletes the emptied ones"           *)
(* (sites.ts:106): a merge's delete takes nothing with it, except what other *)
(* requests put into those sites while it ran (and the checks on it).        *)
MergeKeepsAll == [][MergeDelete =>
  /\ DOMAIN endpoint \ DOMAIN endpoint' \subseteq arrived
  /\ \A c \in DOMAIN check \ DOMAIN check' : c \in arrived \/ check[c].endpoint \in arrived]_ivars
=============================================================================
