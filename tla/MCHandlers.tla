----------------------------- MODULE MCHandlers -----------------------------
(* Requests, results and posts that the engine handles at once: of a check   *)
(* under an alert rule, for the inventory, for one-off work, from devices,   *)
(* and of the form that makes a check.  Each part alone, the others at rest. *)
EXTENDS AlertRace, Inventory, Discovery, Receivers, CheckForm

Kinds6 == {"ping", "snmp", "heartbeat", "agent_service", "agent_script", "host_metric"}
\* Bounds on one state: see README.
Copied == Cardinality(DOMAIN check) <= MaxChecks /\ Cardinality(arrived) <= 1

\* Two sites overlap in q; only the order of the table differs.
SomeRanges ==
  LET wide == [site |-> "a", holds |-> {"p", "q"}, prefix |-> 16]
      narrow == [site |-> "b", holds |-> {"q"}, prefix |-> 24]
  IN {<<wide, narrow>>, <<narrow, wide>>}
OfSiteC == [s \in {"c"} |-> {"x"}]
SitesServed == <<"a", "b">>
TwoNames == [exporter : {"q"}, name : {1, 2}]
\* The engine's listeners and the collector's, apart.
EngineListens == siteIps # None \/ inserting # {}
CollectorListens == post # None \/ late # {} \/ story.bytes > 0 \/ story.accepted # {}
Small == Len(from) + story.bytes <= 2 /\ ~(EngineListens /\ CollectorListens)

-----------------------------------------------------------------------------
VARIABLE part
Parts == {"results", "inventory", "work", "devices", "form"}
hvars == <<part, vars, ivars, dvars, rvars, fmvars>>

HandlersInit ==
  /\ part \in Parts
  /\ Init
  /\ InventoryInit
  /\ DiscoveryInit /\ (part # "work" => collector = [s \in Networks |-> None])
  /\ ReceiversInit /\ (part # "devices" => ranges = CHOOSE rs \in RangeLists : TRUE)
  /\ FormInit /\ (part # "form" => fmType = CHOOSE t \in DOMAIN CHECK_TYPES : TRUE)
HandlersNext ==
  \/ part = "results" /\ Next /\ UNCHANGED <<part, ivars, dvars, rvars, fmvars>>
  \/ part = "inventory" /\ InventoryNext /\ UNCHANGED <<part, vars, dvars, rvars, fmvars>>
  \/ part = "work" /\ DiscoveryNext /\ UNCHANGED <<part, vars, ivars, rvars, fmvars>>
  \/ part = "devices" /\ ReceiversNext /\ UNCHANGED <<part, vars, ivars, dvars, fmvars>>
  \/ part = "form" /\ FormNext /\ UNCHANGED <<part, vars, ivars, dvars, rvars>>
HandlersSpec == HandlersInit /\ [][HandlersNext]_hvars

Bounded == Copied /\ Small
\* The handlers and the works have the names of the checks, the collectors those of the endpoints:
\* fewer permutations, as no two of them are of one part.
Symmetry == UNION {Permutations(S) : S \in {Sites, Endpoints, CheckIds}}
=============================================================================
