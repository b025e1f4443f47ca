---------------------------- MODULE HandlerProofs ----------------------------
(***************************************************************************)
(* What the engine's routes keep, whichever requests are made and however  *)
(* they interleave: every check has one process that runs it, a merge of   *)
(* endpoints keeps every check, one-off work is done at most once, no      *)
(* incident is left that nobody was told of; and, where results and passes *)
(* do not overlap, none is left open that the newest result says is over.  *)
(* Last, the form of a check: what it saves is what the next one shows.    *)
(***************************************************************************)
EXTENDS AlertRace, Inventory, Discovery, CheckForm, FiniteSetTheorems, SequenceTheorems, WellFoundedInduction, TLAPS

-----------------------------------------------------------------------------
(* The rows agree with one another: what they refer to is there, and the     *)
(* fields of a check fit its type.                                           *)
Rows == [type : CheckType, site : Sites, endpoint : Endpoints \cup {None}, probe : Endpoints \cup {None}, enabled : BOOLEAN, token : BOOLEAN]
FitsIn(entry, sites, ends) ==
  /\ entry \in Rows /\ entry.site \in sites /\ entry.endpoint \in ends \cup {None} /\ entry.probe \in ends \cup {None}
  /\ Validate(entry.type, entry.endpoint, entry.probe) /\ (entry.type \in PushTypes => entry.token)
SitesOK == DOMAIN site \subseteq Sites /\ site \in [DOMAIN site -> DOMAIN endpoint \cup {None}]
EndpointsOK == DOMAIN endpoint \subseteq Endpoints /\ endpoint \in [DOMAIN endpoint -> [site : DOMAIN site, key : BOOLEAN]]
ChecksOK == check \in [DOMAIN check -> Rows] /\ \A c \in DOMAIN check : FitsIn(check[c], DOMAIN site, DOMAIN endpoint)
RowsInv == SitesOK /\ EndpointsOK /\ ChecksOK

\* The types fall into those of the engine, of agents and of reports (checkTypes.ts).
LEMMA TypesApart ==
  /\ EngineTypes \cap AgentTypes = {} /\ EngineTypes \cap ReportTypes = {} /\ AgentTypes \cap ReportTypes = {}
  /\ RemoteProbeTypes \subseteq EngineTypes /\ RemoteProbeTypes \cap LocalTypes = {}
  /\ LocalTypes \subseteq EngineTypes /\ OtherAgentTypes \subseteq AgentTypes
<1>1. EngineTypes \cap AgentTypes = {}
  BY DEF EngineTypes, RemoteProbeTypes, LocalTypes, AgentTypes, OtherAgentTypes
<1>2. EngineTypes \cap ReportTypes = {}
  BY DEF EngineTypes, RemoteProbeTypes, LocalTypes, ReportTypes
<1>3. AgentTypes \cap ReportTypes = {}
  BY DEF AgentTypes, OtherAgentTypes, ReportTypes
<1>4. RemoteProbeTypes \cap LocalTypes = {}
  BY DEF RemoteProbeTypes, LocalTypes
<1>5. RemoteProbeTypes \subseteq EngineTypes /\ LocalTypes \subseteq EngineTypes /\ OtherAgentTypes \subseteq AgentTypes
  BY DEF EngineTypes, AgentTypes
<1> QED BY <1>1, <1>2, <1>3, <1>4, <1>5

\* What is made without being validated suits its place.
LEMMA MadeToFit ==
  /\ Suggested \cap PushTypes = {} /\ SiteSuggested \cap PushTypes = {} /\ TemplateTypes \cap PushTypes = {} /\ DeviceTypes \cap PushTypes = {}
  /\ SiteSuggested \cap EndpointScoped \subseteq {"agent_heartbeat"} /\ TemplateTypes \cap EndpointScoped = {} /\ DeviceTypes \cap EndpointScoped = {}
<1>1. Suggested \cap PushTypes = {}
  BY DEF Suggested, ReportTypes, PushTypes
<1>2. SiteSuggested \cap PushTypes = {} /\ TemplateTypes \cap PushTypes = {} /\ DeviceTypes \cap PushTypes = {}
  BY DEF SiteSuggested, TemplateTypes, DeviceTypes, PushTypes
<1>3. SiteSuggested \cap EndpointScoped \subseteq {"agent_heartbeat"}
  BY DEF SiteSuggested, EndpointScoped, AgentTypes, OtherAgentTypes, ReportTypes
<1>4. TemplateTypes \cap EndpointScoped = {}
  BY DEF TemplateTypes, EndpointScoped, AgentTypes, OtherAgentTypes, ReportTypes
<1>5. DeviceTypes \cap EndpointScoped = {}
  BY DEF DeviceTypes, EndpointScoped, AgentTypes, OtherAgentTypes, ReportTypes
<1> QED BY <1>1, <1>2, <1>3, <1>4, <1>5

(* Who runs a check, by the kind of its type and by the agent it names. *)
LEMMA OnePlace ==
  ASSUME RowsInv, NEW c \in DOMAIN check, check[c].enabled
  PROVE  \E r : Runners(c) = {r} /\ RunNow(c) = IF r[1] \in {"agent", "report"} THEN "refused" ELSE r[1]
<1> DEFINE entry == check[c]  collects == site[entry.site]
<1>1. /\ entry.type \in CheckType /\ entry.site \in DOMAIN site /\ collects \in DOMAIN endpoint \cup {None}
      /\ entry.endpoint \in DOMAIN endpoint \cup {None} /\ entry.probe \in DOMAIN endpoint \cup {None}
      /\ Validate(entry.type, entry.endpoint, entry.probe) /\ None \notin DOMAIN endpoint
  BY NoneAssumption DEF RowsInv, ChecksOK, FitsIn, Rows, SitesOK, EndpointsOK
<1>2. /\ c \in EngineRuns <=> entry.probe = None /\ entry.type \in EngineTypes /\ (collects = None \/ entry.type \notin CollectorTypes)
      /\ \A e : c \in CollectorConfig(e) <=> collects = e /\ entry.type \in CollectorTypes /\ entry.probe = None
      /\ \A e : c \in AgentConfig(e) <=> \/ entry.endpoint = e /\ entry.type \in AgentTypes /\ entry.probe \in {None, e}
                                         \/ entry.probe = e /\ entry.type \in Pinnable
      /\ \A e : c \in ReportedBy(e) <=> entry.endpoint = e /\ entry.type \in ReportTypes
      /\ RunNow(c) = IF entry.type \notin EngineTypes \/ entry.probe # None THEN "refused"
                     ELSE IF entry.type \in CollectorTypes /\ collects # None THEN "collector" ELSE "engine"
  BY <1>1 DEF EngineRuns, DueOnEngine, CollectorConfig, AgentConfig, ReportedBy, RunNow, CollectorOf
<1> HIDE DEF entry, collects
<1>3. \A r : r \in Runners(c) <=> \/ r = <<"engine", None>> /\ c \in EngineRuns
                                 \/ \E e \in DOMAIN endpoint : \/ r = <<"collector", e>> /\ c \in CollectorConfig(e)
                                                               \/ r = <<"agent", e>> /\ c \in AgentConfig(e)
                                                               \/ r = <<"report", e>> /\ c \in ReportedBy(e)
  BY DEF Runners
<1>4. /\ CollectorTypes = EngineTypes \ LocalTypes /\ Pinnable = RemoteProbeTypes \cup OtherAgentTypes
      /\ entry.type \in EngineTypes \/ entry.type \in AgentTypes \/ entry.type \in ReportTypes
      /\ entry.type \in AgentTypes \cup ReportTypes => entry.endpoint # None
      /\ entry.probe # None => entry.type \in Pinnable
  BY <1>1 DEF CollectorTypes, Pinnable, CheckType, EndpointScoped, Validate
<1>5. CASE entry.probe # None
  <2>1. \A r : r \in Runners(c) <=> r = <<"agent", entry.probe>>
    BY <1>1, <1>2, <1>3, <1>4, <1>5, TypesApart
  <2>2. Runners(c) = {<<"agent", entry.probe>>} /\ RunNow(c) = "refused"
    BY <2>1, <1>2, <1>5
  <2> WITNESS <<"agent", entry.probe>>
  <2> QED BY <2>2
<1>6. CASE entry.probe = None /\ entry.type \in ReportTypes
  <2>1. \A r : r \in Runners(c) <=> r = <<"report", entry.endpoint>>
    BY <1>1, <1>2, <1>3, <1>4, <1>6, TypesApart
  <2>2. Runners(c) = {<<"report", entry.endpoint>>} /\ RunNow(c) = "refused"
    BY <2>1, <1>2, <1>6, TypesApart
  <2> WITNESS <<"report", entry.endpoint>>
  <2> QED BY <2>2
<1>7. CASE entry.probe = None /\ entry.type \in AgentTypes
  <2>1. \A r : r \in Runners(c) <=> r = <<"agent", entry.endpoint>>
    BY <1>1, <1>2, <1>3, <1>4, <1>7, TypesApart
  <2>2. Runners(c) = {<<"agent", entry.endpoint>>} /\ RunNow(c) = "refused"
    BY <2>1, <1>2, <1>7, TypesApart
  <2> WITNESS <<"agent", entry.endpoint>>
  <2> QED BY <2>2
<1>8. CASE entry.probe = None /\ entry.type \in CollectorTypes /\ collects # None
  <2>1. \A r : r \in Runners(c) <=> r = <<"collector", collects>>
    BY <1>1, <1>2, <1>3, <1>4, <1>8, TypesApart
  <2>2. Runners(c) = {<<"collector", collects>>} /\ RunNow(c) = "collector"
    BY <2>1, <1>2, <1>4, <1>8
  <2> WITNESS <<"collector", collects>>
  <2> QED BY <2>2
<1>9. CASE entry.probe = None /\ entry.type \in EngineTypes /\ (collects = None \/ entry.type \notin CollectorTypes)
  <2>1. \A r : r \in Runners(c) <=> r = <<"engine", None>>
    BY <1>1, <1>2, <1>3, <1>4, <1>9, TypesApart
  <2>2. Runners(c) = {<<"engine", None>>} /\ RunNow(c) = "engine"
    BY <2>1, <1>2, <1>4, <1>9
  <2> WITNESS <<"engine", None>>
  <2> QED BY <2>2
<1> QED BY <1>4, <1>5, <1>6, <1>7, <1>8, <1>9

LEMMA RowsRunOnce == RowsInv => OneRunner
<1> SUFFICES ASSUME RowsInv PROVE OneRunner
  OBVIOUS
<1>1. HasOneRunner
  BY OnePlace, FS_Singleton DEF HasOneRunner
<1>2. RunNowReachesIt
  BY OnePlace DEF RunNowReachesIt
<1>3. KeepsItsUrl
  BY DEF RowsInv, ChecksOK, FitsIn, KeepsItsUrl
<1> QED BY <1>1, <1>2, <1>3 DEF OneRunner

-----------------------------------------------------------------------------
(* How each request leaves the rows. *)
Ends == DOMAIN endpoint \cup {None}

LEMMA RowsStart == InventoryInit => RowsInv
<1> SUFFICES ASSUME InventoryInit PROVE RowsInv
  OBVIOUS
<1>1. DOMAIN site = {} /\ DOMAIN endpoint = {} /\ DOMAIN check = {}
  BY DEF InventoryInit
<1>2. site \in [DOMAIN site -> DOMAIN endpoint \cup {None}] /\ endpoint \in [DOMAIN endpoint -> [site : DOMAIN site, key : BOOLEAN]]
      /\ check \in [DOMAIN check -> Rows]
  BY DEF InventoryInit
<1> QED BY <1>1, <1>2 DEF RowsInv, SitesOK, EndpointsOK, ChecksOK

\* A check is added, or its entry is written: the entry has to fit.
LEMMA RowAdded ==
  ASSUME RowsInv, NEW c, c \notin DOMAIN check, NEW entry, FitsIn(entry, DOMAIN site, DOMAIN endpoint),
         check' = With(check, c, entry), UNCHANGED <<site, endpoint>>
  PROVE  RowsInv'
<1>1. /\ DOMAIN check' = DOMAIN check \cup {c}
      /\ \A d \in DOMAIN check' : check'[d] = IF d = c THEN entry ELSE check[d]
      /\ check' = [d \in DOMAIN check \cup {c} |-> IF d \in DOMAIN check THEN check[d] ELSE entry]
  BY DEF With
<1>2. entry \in Rows
  BY DEF FitsIn
<1>3. check' \in [DOMAIN check' -> Rows]
  BY <1>1, <1>2 DEF RowsInv, ChecksOK
<1>4. \A d \in DOMAIN check' : FitsIn(check'[d], DOMAIN site, DOMAIN endpoint)
  BY <1>1 DEF RowsInv, ChecksOK
<1>5. ChecksOK'
  BY <1>3, <1>4 DEF ChecksOK, FitsIn
<1> QED BY <1>5 DEF RowsInv, SitesOK, EndpointsOK

LEMMA RowPut ==
  ASSUME RowsInv, NEW c \in DOMAIN check, NEW entry, FitsIn(entry, DOMAIN site, DOMAIN endpoint), Put(c, entry)
  PROVE  RowsInv'
<1>1. UNCHANGED <<site, endpoint>> /\ check' = [check EXCEPT ![c] = entry] /\ entry \in Rows
  BY DEF Put, FitsIn
<1>2. DOMAIN check' = DOMAIN check /\ \A d \in DOMAIN check : check'[d] = IF d = c THEN entry ELSE check[d]
  BY <1>1
<1>3. check' \in [DOMAIN check' -> Rows]
  BY <1>1 DEF RowsInv, ChecksOK
<1>4. \A d \in DOMAIN check' : FitsIn(check'[d], DOMAIN site, DOMAIN endpoint)
  BY <1>2 DEF RowsInv, ChecksOK
<1>5. ChecksOK'
  BY <1>1, <1>3, <1>4 DEF ChecksOK, FitsIn
<1> QED BY <1>1, <1>5 DEF RowsInv, SitesOK, EndpointsOK

\* What the ways of making a check make.
LEMMA FieldsFit ==
  ASSUME NEW t \in CheckType, NEW s \in Sites, NEW e \in Endpoints \cup {None}, NEW p \in Endpoints \cup {None}, NEW on \in BOOLEAN, NEW tok \in BOOLEAN,
         Validate(t, e, p), t \in PushTypes => tok, s \in DOMAIN site, {e, p} \subseteq Ends
  PROVE  FitsIn([type |-> t, site |-> s, endpoint |-> e, probe |-> p, enabled |-> on, token |-> tok], DOMAIN site, DOMAIN endpoint)
<1> DEFINE entry == [type |-> t, site |-> s, endpoint |-> e, probe |-> p, enabled |-> on, token |-> tok]
<1>1. entry \in Rows
  BY DEF Rows
<1>2. entry.type = t /\ entry.site = s /\ entry.endpoint = e /\ entry.probe = p
  OBVIOUS
<1>3. t \in PushTypes => entry.token
  <2>1. entry.token = tok
    BY Zenon
  <2> QED BY <2>1, Zenon
<1> HIDE DEF entry
<1>4. FitsIn(entry, DOMAIN site, DOMAIN endpoint)
  BY <1>1, <1>2, <1>3 DEF FitsIn, Ends
<1> QED BY <1>4 DEF entry

LEMMA RowMade ==
  ASSUME NEW t \in CheckType, NEW s \in Sites, NEW e \in Endpoints \cup {None}, NEW p \in Endpoints \cup {None}, NEW on \in BOOLEAN,
         Validate(t, e, p), Live(Row(t, s, e, p, on))
  PROVE  FitsIn(Row(t, s, e, p, on), DOMAIN site, DOMAIN endpoint)
<1>1. Row(t, s, e, p, on).site = s /\ Row(t, s, e, p, on).endpoint = e /\ Row(t, s, e, p, on).probe = p
  BY DEF Row
<1>2. s \in DOMAIN site /\ {e, p} \subseteq Ends
  BY <1>1 DEF Live, Ends
<1>3. CASE t \in PushTypes
  <2>1. (t \in PushTypes) = TRUE
    BY <1>3
  <2>2. Row(t, s, e, p, on) = [type |-> t, site |-> s, endpoint |-> e, probe |-> p, enabled |-> on, token |-> TRUE]
    BY <2>1, Zenon DEF Row
  <2> QED BY <1>2, <2>2, FieldsFit
<1>4. CASE t \notin PushTypes
  <2>1. (t \in PushTypes) = FALSE
    BY <1>4
  <2>2. Row(t, s, e, p, on) = [type |-> t, site |-> s, endpoint |-> e, probe |-> p, enabled |-> on, token |-> FALSE]
    BY <2>1, Zenon DEF Row
  <2>3. FitsIn([type |-> t, site |-> s, endpoint |-> e, probe |-> p, enabled |-> on, token |-> FALSE], DOMAIN site, DOMAIN endpoint)
    BY <1>2, <1>4, FieldsFit
  <2> QED BY <2>2, <2>3, Zenon
<1> QED BY <1>3, <1>4

LEMMA RowSuggested ==
  ASSUME NEW t \in CheckType \ PushTypes, NEW s \in Sites, NEW e \in Endpoints \cup {None},
         t \in EndpointScoped => e # None, Live(Plain(t, s, e))
  PROVE  FitsIn(Plain(t, s, e), DOMAIN site, DOMAIN endpoint)
<1>1. s \in DOMAIN site /\ {e, None} \subseteq Ends
  BY DEF Plain, Live, Ends
<1>2. Validate(t, e, None)
  BY DEF Validate
<1>3. FitsIn([type |-> t, site |-> s, endpoint |-> e, probe |-> None, enabled |-> TRUE, token |-> FALSE], DOMAIN site, DOMAIN endpoint)
  BY <1>1, <1>2, FieldsFit
<1> QED BY <1>3 DEF Plain

LEMMA CreatesFit ==
  ASSUME RowsInv, NEW c \in CheckIds,
         \/ CreateCheck(c) \/ BatchTarget(c) \/ ApplySuggestion(c) \/ ApplyRoleTemplate(c) \/ ApplySiteSuggestion(c)
         \/ ApplySnmpTemplate(c) \/ AddDevice(c)
  PROVE  RowsInv'
<1>1. ASSUME NEW entry, FitsIn(entry, DOMAIN site, DOMAIN endpoint), InsertCheck(c, entry) PROVE RowsInv'
  BY <1>1, RowAdded DEF InsertCheck
<1>2. /\ Types \subseteq CheckType /\ DOMAIN endpoint \subseteq Endpoints /\ DOMAIN site \subseteq Sites /\ None \notin Endpoints
      /\ \A e \in DOMAIN endpoint : endpoint[e].site \in DOMAIN site
  BY TypesAssumption, NoneAssumption DEF RowsInv, SitesOK, EndpointsOK
<1>3. ASSUME NEW t \in CheckType \ PushTypes, NEW s \in Sites, NEW e \in Endpoints \cup {None}, t \in EndpointScoped => e # None,
             InsertCheck(c, Plain(t, s, e))
      PROVE  RowsInv'
  BY <1>1, <1>3, RowSuggested DEF InsertCheck
<1>4. CASE CreateCheck(c)
  BY <1>1, <1>2, <1>4, RowMade DEF CreateCheck, InsertCheck
<1>5. CASE BatchTarget(c)
  BY <1>1, <1>2, <1>5, RowMade DEF BatchTarget, InsertCheck
<1>6. CASE ApplySuggestion(c)
  BY <1>2, <1>3, <1>6, MadeToFit DEF ApplySuggestion
<1>7. CASE ApplyRoleTemplate(c)
  BY <1>2, <1>3, <1>7, MadeToFit DEF ApplyRoleTemplate
<1>8. CASE ApplySiteSuggestion(c)
  BY <1>2, <1>3, <1>8, MadeToFit DEF ApplySiteSuggestion
<1>9. CASE ApplySnmpTemplate(c)
  BY <1>2, <1>3, <1>9, MadeToFit DEF ApplySnmpTemplate
<1>10. CASE AddDevice(c)
  BY <1>2, <1>3, <1>10, MadeToFit DEF AddDevice
<1> QED BY <1>4, <1>5, <1>6, <1>7, <1>8, <1>9, <1>10

\* An entry whose place or switch is changed, if it is validated where that matters.
LEMMA RowChanged ==
  ASSUME NEW entry, FitsIn(entry, DOMAIN site, DOMAIN endpoint), NEW s \in DOMAIN site, NEW e \in Ends, NEW p \in Ends,
         DOMAIN endpoint \subseteq Endpoints, DOMAIN site \subseteq Sites, Validate(entry.type, e, p), NEW on \in BOOLEAN
  PROVE  FitsIn([entry EXCEPT !.site = s, !.endpoint = e, !.probe = p, !.enabled = on], DOMAIN site, DOMAIN endpoint)
<1> DEFINE new == [entry EXCEPT !.site = s, !.endpoint = e, !.probe = p, !.enabled = on]
<1>1. entry \in Rows /\ (entry.type \in PushTypes => entry.token)
  BY DEF FitsIn
<1>2. new \in Rows
  BY <1>1 DEF Rows, Ends
<1>3. new.type = entry.type /\ new.site = s /\ new.endpoint = e /\ new.probe = p /\ new.token = entry.token
  BY <1>1 DEF Rows
<1> HIDE DEF new
<1>4. FitsIn(new, DOMAIN site, DOMAIN endpoint)
  BY <1>1, <1>2, <1>3 DEF FitsIn, Ends
<1> QED BY <1>4 DEF new

LEMMA ChangesFit ==
  ASSUME RowsInv, NEW c \in DOMAIN check,
         PatchCheck(c) \/ SetEndpoint(c) \/ SetProbeEndpoint(c) \/ MoveChecks(c) \/ RegenerateToken(c) \/ RemoveToken(c)
  PROVE  RowsInv'
<1> DEFINE entry == check[c]
<1>1. ASSUME NEW new, FitsIn(new, DOMAIN site, DOMAIN endpoint), Put(c, new) PROVE RowsInv'
  BY <1>1, RowPut
<1>2. /\ DOMAIN endpoint \subseteq Endpoints /\ DOMAIN site \subseteq Sites /\ FitsIn(entry, DOMAIN site, DOMAIN endpoint)
  BY DEF RowsInv, SitesOK, EndpointsOK, ChecksOK
<1>3. entry \in Rows /\ entry.site \in DOMAIN site /\ entry.endpoint \in Ends /\ entry.probe \in Ends /\ entry.enabled \in BOOLEAN
      /\ Validate(entry.type, entry.endpoint, entry.probe) /\ (entry.type \in PushTypes => entry.token)
  BY <1>2 DEF FitsIn, Rows, Ends
<1> HIDE DEF entry
<1>4. ASSUME NEW s \in DOMAIN site, NEW e \in Ends, NEW p \in Ends, NEW on \in BOOLEAN, Validate(entry.type, e, p)
      PROVE  FitsIn([entry EXCEPT !.site = s, !.endpoint = e, !.probe = p, !.enabled = on], DOMAIN site, DOMAIN endpoint)
  BY <1>2, <1>4, RowChanged
<1>5. CASE PatchCheck(c)
  <2>1. PICK s \in Sites, e \in Endpoints \cup {None}, p \in Endpoints \cup {None}, on \in BOOLEAN :
          LET new == [entry EXCEPT !.site = s, !.endpoint = e, !.probe = p, !.enabled = on]
          IN Validate(new.type, e, p) /\ Live(new) /\ Put(c, new)
    BY <1>5 DEF PatchCheck, entry
  <2> DEFINE new == [entry EXCEPT !.site = s, !.endpoint = e, !.probe = p, !.enabled = on]
  <2>2. new.type = entry.type /\ new.site = s /\ new.endpoint = e /\ new.probe = p
    BY <1>3 DEF Rows
  <2>3. Validate(entry.type, e, p) /\ s \in DOMAIN site /\ e \in Ends /\ p \in Ends
    BY <2>1, <2>2 DEF Live, Ends
  <2>4. FitsIn(new, DOMAIN site, DOMAIN endpoint)
    BY <1>4, <2>3
  <2>5. Put(c, new)
    BY <2>1
  <2> QED BY <1>1, <2>4, <2>5
<1>6. CASE SetEndpoint(c)
  <2>1. PICK e \in Ends : Validate(entry.type, e, entry.probe) /\ Put(c, [entry EXCEPT !.endpoint = e])
    BY <1>6 DEF SetEndpoint, entry, Ends
  <2>2. [entry EXCEPT !.endpoint = e] = [entry EXCEPT !.site = entry.site, !.endpoint = e, !.probe = entry.probe, !.enabled = entry.enabled]
    BY <1>3 DEF Rows
  <2>3. FitsIn([entry EXCEPT !.site = entry.site, !.endpoint = e, !.probe = entry.probe, !.enabled = entry.enabled], DOMAIN site, DOMAIN endpoint)
    BY <1>3, <1>4, <2>1
  <2>4. FitsIn([entry EXCEPT !.endpoint = e], DOMAIN site, DOMAIN endpoint)
    BY <2>2, <2>3, Zenon
  <2> QED BY <1>1, <2>1, <2>4
<1>7. CASE SetProbeEndpoint(c)
  <2>1. PICK p \in Ends : Validate(entry.type, entry.endpoint, p) /\ Put(c, [entry EXCEPT !.probe = p])
    BY <1>7 DEF SetProbeEndpoint, entry, Ends
  <2>2. [entry EXCEPT !.probe = p] = [entry EXCEPT !.site = entry.site, !.endpoint = entry.endpoint, !.probe = p, !.enabled = entry.enabled]
    BY <1>3 DEF Rows
  <2>3. FitsIn([entry EXCEPT !.site = entry.site, !.endpoint = entry.endpoint, !.probe = p, !.enabled = entry.enabled], DOMAIN site, DOMAIN endpoint)
    BY <1>3, <1>4, <2>1
  <2>4. FitsIn([entry EXCEPT !.probe = p], DOMAIN site, DOMAIN endpoint)
    BY <2>2, <2>3, Zenon
  <2> QED BY <1>1, <2>1, <2>4
<1>8. CASE MoveChecks(c)
  <2>1. PICK s \in DOMAIN site : Put(c, [entry EXCEPT !.site = s])
    BY <1>8 DEF MoveChecks, entry
  <2>2. [entry EXCEPT !.site = s] = [entry EXCEPT !.site = s, !.endpoint = entry.endpoint, !.probe = entry.probe, !.enabled = entry.enabled]
    BY <1>3 DEF Rows
  <2>3. FitsIn([entry EXCEPT !.site = s, !.endpoint = entry.endpoint, !.probe = entry.probe, !.enabled = entry.enabled], DOMAIN site, DOMAIN endpoint)
    BY <1>3, <1>4, <2>1
  <2>4. FitsIn([entry EXCEPT !.site = s], DOMAIN site, DOMAIN endpoint)
    BY <2>2, <2>3, Zenon
  <2> QED BY <1>1, <2>1, <2>4
<1>9. ASSUME NEW tok \in BOOLEAN, entry.type \in PushTypes => tok, Put(c, [entry EXCEPT !.token = tok]) PROVE RowsInv'
  <2> DEFINE new == [entry EXCEPT !.token = tok]
  <2>1. new \in Rows
    BY <1>3 DEF Rows
  <2>2. new.type = entry.type /\ new.site = entry.site /\ new.endpoint = entry.endpoint /\ new.probe = entry.probe
    BY <1>3 DEF Rows
  <2>3. new.type \in PushTypes => new.token
    <3>1. "token" \in DOMAIN entry
      BY <1>3 DEF Rows
    <3>2. new.token = tok
      BY <3>1, Zenon
    <3> QED BY <3>2, <1>9, <2>2, Zenon
  <2>4. Put(c, new)
    BY <1>9
  <2> HIDE DEF new
  <2>5. FitsIn(new, DOMAIN site, DOMAIN endpoint)
    BY <1>3, <2>1, <2>2, <2>3 DEF FitsIn, Ends
  <2> QED BY <1>1, <2>4, <2>5
<1>10. CASE RegenerateToken(c)
  BY <1>9, <1>10 DEF RegenerateToken, entry
<1>11. CASE RemoveToken(c)
  BY <1>9, <1>11 DEF RemoveToken, entry
<1> QED BY <1>5, <1>6, <1>7, <1>8, <1>10, <1>11

LEMMA DuplicateFits ==
  ASSUME RowsInv, NEW c \in DOMAIN check, Duplicate(c)
  PROVE  RowsInv'
<1> DEFINE entry == check[c]
<1>1. /\ DOMAIN endpoint \subseteq Endpoints /\ DOMAIN site \subseteq Sites /\ FitsIn(entry, DOMAIN site, DOMAIN endpoint)
      /\ \A e \in DOMAIN endpoint : endpoint[e].site \in DOMAIN site
  BY DEF RowsInv, SitesOK, EndpointsOK, ChecksOK
<1>2. entry \in Rows /\ entry.site \in DOMAIN site /\ entry.endpoint \in Ends /\ entry.probe \in Ends
  BY <1>1 DEF FitsIn, Ends
<1>3. PICK d \in CheckIds, to \in (DOMAIN site) \X Ends :
        /\ Validate(entry.type, to[2], entry.probe) /\ d \notin DOMAIN check
        /\ check' = With(check, d, DuplicateTo(entry, to[1], to[2])) /\ UNCHANGED <<site, endpoint, merge>>
  <2>1. PICK d \in CheckIds, to \in {<<endpoint[e].site, e>> : e \in DOMAIN endpoint}
            \cup {<<s, IF entry.endpoint # None /\ endpoint[entry.endpoint].site = s THEN entry.endpoint ELSE None>> : s \in DOMAIN site}
            \cup {<<entry.site, entry.endpoint>>} :
          /\ Validate(entry.type, to[2], entry.probe) /\ d \notin DOMAIN check
          /\ check' = With(check, d, DuplicateTo(entry, to[1], to[2])) /\ UNCHANGED <<site, endpoint, merge>>
    BY DEF Duplicate
  <2>2. to \in (DOMAIN site) \X Ends
    BY <1>1, <1>2 DEF Ends
  <2> QED BY <2>1, <2>2
<1> HIDE DEF entry
<1> DEFINE new == DuplicateTo(entry, to[1], to[2])  push == entry.type \in PushTypes
<1>4. to[1] \in DOMAIN site /\ to[2] \in Ends
  BY <1>3
<1>5. entry.type \in CheckType /\ entry.enabled \in BOOLEAN /\ entry.probe \in Endpoints \cup {None}
  BY <1>2 DEF Rows
<1>6. ASSUME NEW tok \in BOOLEAN, push = tok PROVE FitsIn(new, DOMAIN site, DOMAIN endpoint)
  <2>1. new = [entry EXCEPT !.site = to[1], !.endpoint = to[2], !.token = tok]
    BY <1>6, Zenon DEF DuplicateTo
  <2>2. [entry EXCEPT !.site = to[1], !.endpoint = to[2], !.token = tok] \in Rows
    BY <1>1, <1>2, <1>4 DEF Rows, Ends
  <2>3. /\ [entry EXCEPT !.site = to[1], !.endpoint = to[2], !.token = tok].type = entry.type
        /\ [entry EXCEPT !.site = to[1], !.endpoint = to[2], !.token = tok].site = to[1]
        /\ [entry EXCEPT !.site = to[1], !.endpoint = to[2], !.token = tok].endpoint = to[2]
        /\ [entry EXCEPT !.site = to[1], !.endpoint = to[2], !.token = tok].probe = entry.probe
    BY <1>2 DEF Rows
  <2>4. "token" \in DOMAIN entry /\ "site" \in DOMAIN entry /\ "endpoint" \in DOMAIN entry
    BY <1>2 DEF Rows
  <2>5. [entry EXCEPT !.site = to[1], !.endpoint = to[2], !.token = tok].token = tok
    BY <2>4, Zenon
  <2>6. new.type \in PushTypes => new.token
    BY <2>1, <2>3, <2>5, <1>6, Zenon
  <2>7. new \in Rows /\ new.type = entry.type /\ new.site = to[1] /\ new.endpoint = to[2] /\ new.probe = entry.probe
    BY <2>1, <2>2, <2>3, Zenon
  <2> HIDE DEF new
  <2> QED BY <1>2, <1>3, <1>4, <2>6, <2>7 DEF FitsIn, Ends
<1>7. FitsIn(new, DOMAIN site, DOMAIN endpoint)
  <2>1. CASE push
    <3>1. push = TRUE
      BY <2>1
    <3> QED BY <3>1, <1>6, Zenon
  <2>2. CASE ~push
    <3>1. push = FALSE
      BY <2>2
    <3> QED BY <3>1, <1>6, Zenon
  <2> QED BY <2>1, <2>2
<1> QED BY <1>3, <1>7, RowAdded

\* What touches several rows: each is left as it fits, in what is left of sites and endpoints.
LEMMA SwitchedOnly ==
  ASSUME NEW entry, NEW on, "token" \in DOMAIN entry
  PROVE  [entry EXCEPT !.enabled = on].token = entry.token
OBVIOUS

LEMMA EnableFits ==
  ASSUME RowsInv, EnableChecks
  PROVE  RowsInv'
<1>1. PICK on \in BOOLEAN, S \in SUBSET DOMAIN check : check' = [c \in DOMAIN check |-> IF c \in S THEN [check[c] EXCEPT !.enabled = on] ELSE check[c]]
  BY DEF EnableChecks, ChecksOfEndpoints, ChecksOfSites
<1>2. UNCHANGED <<site, endpoint>>
  BY DEF EnableChecks
<1>3. ASSUME NEW c \in DOMAIN check PROVE FitsIn(check'[c], DOMAIN site, DOMAIN endpoint)
  <2>1. FitsIn(check[c], DOMAIN site, DOMAIN endpoint) /\ check[c] \in Rows
    BY DEF RowsInv, ChecksOK, FitsIn
  <2>2. CASE c \notin S
    BY <1>1, <2>1, <2>2
  <2>3. CASE c \in S
    <3> DEFINE new == [check[c] EXCEPT !.enabled = on]
    <3>1. new \in Rows /\ new.type = check[c].type /\ new.site = check[c].site /\ new.endpoint = check[c].endpoint
          /\ new.probe = check[c].probe
      BY <2>1 DEF Rows
    <3>2. "token" \in DOMAIN check[c]
      BY <2>1 DEF Rows
    <3>3. new.token = check[c].token
      BY <3>2, SwitchedOnly
    <3>4. check'[c] = new
      BY <1>1, <2>3
    <3> HIDE DEF new
    <3> QED BY <2>1, <3>1, <3>3, <3>4 DEF FitsIn
  <2> QED BY <2>2, <2>3
<1>4. ChecksOK'
  BY <1>1, <1>2, <1>3 DEF ChecksOK, FitsIn
<1> QED BY <1>2, <1>4 DEF RowsInv, SitesOK, EndpointsOK

LEMMA PlacedOnly ==
  ASSUME NEW entry, NEW s, NEW p, "token" \in DOMAIN entry
  PROVE  [entry EXCEPT !.site = s, !.probe = p].token = entry.token
OBVIOUS

\* Rows of which nothing but the place is changed, to places that are left.
LEMMA PlacesFit ==
  ASSUME RowsInv, SitesOK', EndpointsOK', NEW keep \in SUBSET DOMAIN check, DOMAIN check' = keep, check' = [c \in keep |-> check'[c]],
         \A c \in keep : \E s \in DOMAIN site', p \in DOMAIN endpoint' \cup {None} :
           check[c].endpoint \in DOMAIN endpoint' \cup {None} /\ p \in {None, check[c].probe} /\ check'[c] = [check[c] EXCEPT !.site = s, !.probe = p]
  PROVE  RowsInv'
<1>1. ASSUME NEW c \in keep PROVE FitsIn(check'[c], DOMAIN site', DOMAIN endpoint')
  <2>1. FitsIn(check[c], DOMAIN site, DOMAIN endpoint) /\ check[c] \in Rows
    BY DEF RowsInv, ChecksOK, FitsIn
  <2>2. PICK s \in DOMAIN site', p \in DOMAIN endpoint' \cup {None} :
          check[c].endpoint \in DOMAIN endpoint' \cup {None} /\ p \in {None, check[c].probe} /\ check'[c] = [check[c] EXCEPT !.site = s, !.probe = p]
    OBVIOUS
  <2> DEFINE new == [check[c] EXCEPT !.site = s, !.probe = p]
  <2>3. s \in Sites /\ p \in Endpoints \cup {None}
    BY DEF SitesOK, EndpointsOK
  <2>4. new \in Rows /\ new.type = check[c].type /\ new.site = s /\ new.endpoint = check[c].endpoint /\ new.probe = p
    BY <2>1, <2>3 DEF Rows
  <2>5. "token" \in DOMAIN check[c]
    BY <2>1 DEF Rows
  <2>6. new.token = check[c].token
    BY <2>5, PlacedOnly
  <2>7. check'[c] = new
    BY <2>2
  <2> HIDE DEF new
  <2>8. Validate(check[c].type, check[c].endpoint, p)
    BY <2>1, <2>2 DEF FitsIn, Validate
  <2> QED BY <2>1, <2>2, <2>4, <2>6, <2>7, <2>8 DEF FitsIn
<1>2. check' \in [DOMAIN check' -> Rows]
  BY <1>1 DEF FitsIn
<1>3. \A c \in DOMAIN check' : FitsIn(check'[c], DOMAIN site', DOMAIN endpoint')
  BY <1>1
<1>4. ChecksOK'
  BY <1>2, <1>3 DEF ChecksOK, FitsIn
<1> QED BY <1>4 DEF RowsInv

\* Removing sites and endpoints takes along what refers to them.
LEMMA CascadesFit ==
  ASSUME RowsInv, NEW gone, NEW sitesGone,
         site' = CascadeSites(gone, sitesGone), endpoint' = Keep(endpoint, Endpoints \ gone), check' = CascadeChecks(gone, sitesGone),
         \A e \in DOMAIN endpoint : endpoint[e].site \in sitesGone => e \in gone
  PROVE  RowsInv'
<1>1. /\ DOMAIN endpoint' = DOMAIN endpoint \ gone /\ \A e \in DOMAIN endpoint' : endpoint'[e] = endpoint[e]
      /\ endpoint' = [e \in DOMAIN endpoint' |-> endpoint'[e]]
  BY DEF Keep, RowsInv, EndpointsOK
<1>2. /\ DOMAIN site' = DOMAIN site \ sitesGone /\ \A s \in DOMAIN site' : site'[s] = OrNull(site[s], gone)
      /\ site' = [s \in DOMAIN site' |-> site'[s]]
  BY DEF CascadeSites
<1>3. SitesOK'
  BY <1>1, <1>2 DEF RowsInv, SitesOK, OrNull
<1>4. ASSUME NEW e \in DOMAIN endpoint' PROVE endpoint'[e] \in [site : DOMAIN site', key : BOOLEAN]
  <2>1. endpoint[e] \in [site : DOMAIN site, key : BOOLEAN] /\ endpoint[e].site \in DOMAIN site'
    BY <1>1, <1>2 DEF RowsInv, EndpointsOK
  <2>2. endpoint[e] \in [site : DOMAIN site', key : BOOLEAN]
    BY <2>1
  <2> QED BY <1>1, <2>2
<1>5. EndpointsOK'
  BY <1>1, <1>4 DEF RowsInv, EndpointsOK
<1> DEFINE keep == {c \in DOMAIN check : check[c].site \notin sitesGone /\ check[c].endpoint \notin gone}
<1>6. DOMAIN check' = keep /\ check' = [c \in keep |-> check'[c]]
      /\ \A c \in keep : check'[c] = [check[c] EXCEPT !.probe = OrNull(check[c].probe, gone)]
  BY DEF CascadeChecks
<1>7. ASSUME NEW c \in keep
      PROVE  \E s \in DOMAIN site', p \in DOMAIN endpoint' \cup {None} :
               check[c].endpoint \in DOMAIN endpoint' \cup {None} /\ p \in {None, check[c].probe} /\ check'[c] = [check[c] EXCEPT !.site = s, !.probe = p]
  <2>1. FitsIn(check[c], DOMAIN site, DOMAIN endpoint) /\ check[c] \in Rows
    BY DEF RowsInv, ChecksOK, FitsIn
  <2> DEFINE p == OrNull(check[c].probe, gone)
  <2>2. p \in {None, check[c].probe} /\ p \in DOMAIN endpoint' \cup {None}
    BY <1>1, <2>1 DEF FitsIn, OrNull
  <2>3. check[c].site \in DOMAIN site' /\ check[c].endpoint \in DOMAIN endpoint' \cup {None}
    BY <1>1, <1>2, <2>1 DEF FitsIn
  <2> HIDE DEF p
  <2>4. [check[c] EXCEPT !.site = check[c].site, !.probe = p] = [check[c] EXCEPT !.probe = p]
    BY <2>1 DEF Rows
  <2>5. check'[c] = [check[c] EXCEPT !.probe = p]
    BY <1>6 DEF p
  <2>6. check'[c] = [check[c] EXCEPT !.site = check[c].site, !.probe = p]
    BY <2>4, <2>5, Zenon
  <2> QED BY <2>2, <2>3, <2>6
<1>8. keep \in SUBSET DOMAIN check
  OBVIOUS
<1> HIDE DEF keep
<1> QED BY <1>3, <1>5, <1>6, <1>7, <1>8, PlacesFit

\* Endpoints move to a site that is there, with the checks on them or without.
LEMMA MovesFit ==
  ASSUME RowsInv, NEW s \in DOMAIN site, NEW E, NEW C, UNCHANGED site,
         endpoint' = [e \in DOMAIN endpoint |-> IF e \in E THEN [endpoint[e] EXCEPT !.site = s] ELSE endpoint[e]],
         check' = [c \in DOMAIN check |-> IF c \in C THEN [check[c] EXCEPT !.site = s] ELSE check[c]]
  PROVE  RowsInv'
<1>1. EndpointsOK' /\ DOMAIN endpoint' = DOMAIN endpoint
  BY DEF RowsInv, EndpointsOK
<1>2. SitesOK'
  BY <1>1 DEF RowsInv, SitesOK
<1>3. ASSUME NEW c \in DOMAIN check
      PROVE  \E r \in DOMAIN site', p \in DOMAIN endpoint' \cup {None} :
               check[c].endpoint \in DOMAIN endpoint' \cup {None} /\ p \in {None, check[c].probe} /\ check'[c] = [check[c] EXCEPT !.site = r, !.probe = p]
  <2>1. FitsIn(check[c], DOMAIN site, DOMAIN endpoint) /\ check[c] \in Rows
    BY DEF RowsInv, ChecksOK, FitsIn
  <2>2. check[c].probe \in DOMAIN endpoint' \cup {None} /\ check[c].endpoint \in DOMAIN endpoint' \cup {None} /\ check[c].site \in DOMAIN site'
    BY <1>1, <2>1 DEF FitsIn
  <2>3. CASE c \in C
    <3>1. check'[c] = [check[c] EXCEPT !.site = s]
      BY <2>3
    <3>2. [check[c] EXCEPT !.site = s] = [check[c] EXCEPT !.site = s, !.probe = check[c].probe]
      BY <2>1 DEF Rows
    <3>3. check'[c] = [check[c] EXCEPT !.site = s, !.probe = check[c].probe]
      BY <3>1, <3>2, Zenon
    <3> QED BY <2>2, <3>3
  <2>4. CASE c \notin C
    <3>1. check'[c] = check[c]
      BY <2>4
    <3>2. check[c] = [check[c] EXCEPT !.site = check[c].site, !.probe = check[c].probe]
      BY <2>1 DEF Rows
    <3>3. check'[c] = [check[c] EXCEPT !.site = check[c].site, !.probe = check[c].probe]
      BY <3>1, <3>2, Zenon
    <3> QED BY <2>2, <3>3
  <2> QED BY <2>3, <2>4
<1>4. DOMAIN check' = DOMAIN check /\ check' = [c \in DOMAIN check |-> check'[c]]
  OBVIOUS
<1> QED BY <1>1, <1>2, <1>3, <1>4, PlacesFit

\* The rows of sites and endpoints change and the checks do not.
LEMMA ChecksStay ==
  ASSUME RowsInv, SitesOK', EndpointsOK', DOMAIN site \subseteq DOMAIN site', DOMAIN endpoint \subseteq DOMAIN endpoint', UNCHANGED check
  PROVE  RowsInv'
BY DEF RowsInv, ChecksOK, FitsIn

LEMMA EndpointsFit ==
  ASSUME RowsInv,
         \/ MoveEndpoints \/ (\E e \in Endpoints : CreateEndpoint(e))
         \/ \E e \in DOMAIN endpoint : PatchEndpoint(e) \/ IssueAgentKey(e) \/ DeleteEndpoint(e) \/ CollectorSites(e)
  PROVE  RowsInv'
<1> USE DEF RowsInv
<1>1. CASE MoveEndpoints
  <2>1. PICK E \in SUBSET DOMAIN endpoint, s \in DOMAIN site, moveChecks \in BOOLEAN :
          /\ endpoint' = [e \in DOMAIN endpoint |-> IF e \in E THEN [endpoint[e] EXCEPT !.site = s] ELSE endpoint[e]]
          /\ check' = [c \in DOMAIN check |-> IF moveChecks /\ check[c].endpoint \in E THEN [check[c] EXCEPT !.site = s] ELSE check[c]]
          /\ UNCHANGED <<site, merge>>
    BY <1>1 DEF MoveEndpoints
  <2> DEFINE C == {c \in DOMAIN check : moveChecks /\ check[c].endpoint \in E}
  <2>2. check' = [c \in DOMAIN check |-> IF c \in C THEN [check[c] EXCEPT !.site = s] ELSE check[c]]
    BY <2>1
  <2> HIDE DEF C
  <2> QED BY <2>1, <2>2, MovesFit
<1>2. ASSUME NEW e \in Endpoints, CreateEndpoint(e) PROVE RowsInv'
  <2>1. PICK s \in DOMAIN site : endpoint' = With(endpoint, e, [site |-> s, key |-> FALSE]) /\ UNCHANGED <<site, check>>
    BY <1>2 DEF CreateEndpoint
  <2>2. [site |-> s, key |-> FALSE] \in [site : DOMAIN site, key : BOOLEAN]
    OBVIOUS
  <2>3. EndpointsOK' /\ DOMAIN endpoint \subseteq DOMAIN endpoint'
    BY <2>1, <2>2 DEF EndpointsOK, With
  <2>4. SitesOK'
    BY <2>1, <2>3 DEF SitesOK
  <2> QED BY <2>1, <2>3, <2>4, ChecksStay
<1>3. ASSUME NEW e \in DOMAIN endpoint, PatchEndpoint(e) \/ IssueAgentKey(e) PROVE RowsInv'
  <2>1. EndpointsOK' /\ DOMAIN endpoint' = DOMAIN endpoint /\ UNCHANGED <<site, check>>
    BY <1>3 DEF PatchEndpoint, IssueAgentKey, EndpointsOK
  <2>2. SitesOK'
    BY <2>1 DEF SitesOK
  <2> QED BY <2>1, <2>2, ChecksStay
<1>4. ASSUME NEW e \in DOMAIN endpoint, DeleteEndpoint(e) PROVE RowsInv'
  BY <1>4, CascadesFit DEF DeleteEndpoint, RemoveEndpoints
<1>5. ASSUME NEW e \in DOMAIN endpoint, CollectorSites(e) PROVE RowsInv'
  <2>1. SitesOK' /\ DOMAIN site' = DOMAIN site /\ UNCHANGED <<endpoint, check>>
    BY <1>5 DEF CollectorSites, SitesOK, OrNull
  <2>2. EndpointsOK'
    BY <2>1 DEF EndpointsOK
  <2> QED BY <2>1, <2>2, ChecksStay
<1> QED BY <1>1, <1>2, <1>3, <1>4, <1>5

LEMMA SitesFit ==
  ASSUME RowsInv,
         \/ \E s \in Sites : CreateSite(s)
         \/ \E s \in DOMAIN site : PatchSite(s) \/ DeleteSite(s)
  PROVE  RowsInv'
<1> USE DEF RowsInv
<1>1. ASSUME NEW s \in Sites, CreateSite(s) PROVE RowsInv'
  <2>1. SitesOK' /\ DOMAIN site \subseteq DOMAIN site' /\ UNCHANGED <<endpoint, check>>
    BY <1>1 DEF CreateSite, MayCollect, SitesOK, With
  <2>2. EndpointsOK'
    BY <2>1 DEF EndpointsOK
  <2> QED BY <2>1, <2>2, ChecksStay
<1>2. ASSUME NEW s \in DOMAIN site, PatchSite(s) PROVE RowsInv'
  <2>1. SitesOK' /\ DOMAIN site' = DOMAIN site /\ UNCHANGED <<endpoint, check>>
    BY <1>2 DEF PatchSite, MayCollect, SitesOK
  <2>2. EndpointsOK'
    BY <2>1 DEF EndpointsOK
  <2> QED BY <2>1, <2>2, ChecksStay
<1>3. ASSUME NEW s \in DOMAIN site, DeleteSite(s) PROVE RowsInv'
  BY <1>3, CascadesFit DEF DeleteSite, RemoveSites
<1> QED BY <1>1, <1>2, <1>3

\* The three queries of a merge: a target that is gone fails those with an entry to change.
LEMMA MergesFit ==
  ASSUME RowsInv, StartMerge \/ MergeEndpoints \/ MergeChecks \/ MergeDelete
  PROVE  RowsInv'
<1>1. CASE StartMerge \/ UNCHANGED <<site, endpoint, check>>
  BY <1>1 DEF StartMerge, RowsInv, SitesOK, EndpointsOK, ChecksOK, FitsIn
<1>2. CASE MergeEndpoints
  <2> DEFINE moving == {e \in DOMAIN endpoint : endpoint[e].site \in merge.from}
  <2>1. CASE moving # {} /\ merge.to \notin DOMAIN site
    BY <1>1, <1>2, <2>1 DEF MergeEndpoints
  <2>2. CASE moving = {}
    <3>1. endpoint' = [e \in DOMAIN endpoint |-> endpoint[e]] /\ UNCHANGED <<site, check>>
      BY <1>2, <2>2 DEF MergeEndpoints
    <3>2. UNCHANGED <<site, endpoint, check>>
      BY <3>1 DEF RowsInv, EndpointsOK
    <3> QED BY <3>2, <1>1
  <2>3. CASE moving # {} /\ merge.to \in DOMAIN site
    <3>1. /\ endpoint' = [e \in DOMAIN endpoint |-> IF e \in moving THEN [endpoint[e] EXCEPT !.site = merge.to] ELSE endpoint[e]]
          /\ UNCHANGED <<site, check>>
      BY <1>2, <2>3 DEF MergeEndpoints
    <3> DEFINE none == {}
    <3>2. check' = [c \in DOMAIN check |-> IF c \in none THEN [check[c] EXCEPT !.site = merge.to] ELSE check[c]]
      BY <3>1 DEF RowsInv, ChecksOK
    <3>3. merge.to \in DOMAIN site /\ UNCHANGED site
      BY <2>3, <3>1
    <3> HIDE DEF moving, none
    <3> QED BY <3>1, <3>2, <3>3, MovesFit
  <2> QED BY <2>1, <2>2, <2>3
<1>3. CASE MergeChecks
  <2> DEFINE moving == {c \in DOMAIN check : check[c].site \in merge.from}
  <2>1. CASE moving # {} /\ merge.to \notin DOMAIN site
    BY <1>1, <1>3, <2>1 DEF MergeChecks
  <2>2. CASE moving = {}
    <3>1. check' = [c \in DOMAIN check |-> check[c]] /\ UNCHANGED <<site, endpoint>>
      BY <1>3, <2>2 DEF MergeChecks
    <3>2. UNCHANGED <<site, endpoint, check>>
      BY <3>1 DEF RowsInv, ChecksOK
    <3> QED BY <3>2, <1>1
  <2>3. CASE moving # {} /\ merge.to \in DOMAIN site
    <3>1. /\ check' = [c \in DOMAIN check |-> IF c \in moving THEN [check[c] EXCEPT !.site = merge.to] ELSE check[c]]
          /\ UNCHANGED <<site, endpoint>>
      BY <1>3, <2>3 DEF MergeChecks
    <3> DEFINE none == {}
    <3>2. endpoint' = [e \in DOMAIN endpoint |-> IF e \in none THEN [endpoint[e] EXCEPT !.site = merge.to] ELSE endpoint[e]]
      BY <3>1 DEF RowsInv, EndpointsOK
    <3>3. merge.to \in DOMAIN site /\ UNCHANGED site
      BY <2>3, <3>1
    <3> HIDE DEF moving, none
    <3> QED BY <3>1, <3>2, <3>3, MovesFit
  <2> QED BY <2>1, <2>2, <2>3
<1>4. CASE MergeDelete
  BY <1>4, CascadesFit DEF MergeDelete, RemoveSites
<1> QED BY <1>1, <1>2, <1>3, <1>4

LEMMA RowsKept == RowsInv /\ [InventoryNext]_ivars => RowsInv'
<1> SUFFICES ASSUME RowsInv, [InventoryNext]_ivars PROVE RowsInv'
  OBVIOUS
<1>1. CASE UNCHANGED ivars
  BY <1>1 DEF ivars, RowsInv, SitesOK, EndpointsOK, ChecksOK, FitsIn
<1>2. ASSUME NEW c \in DOMAIN check, DeleteCheck(c) PROVE RowsInv'
  BY <1>2 DEF DeleteCheck, Keep, RowsInv, SitesOK, EndpointsOK, ChecksOK, FitsIn
<1>3. CASE InventoryNext
  BY <1>2, <1>3, CreatesFit, ChangesFit, DuplicateFits, EnableFits, EndpointsFit, SitesFit, MergesFit DEF InventoryNext
<1> QED BY <1>1, <1>3

\* Every enabled check is run from exactly one place, and Run now goes there, for any
\* number of sites, endpoints and checks and whatever requests come between a merge's.
THEOREM EveryCheckHasOneRunner == InventoryInit /\ [][InventoryNext]_ivars => []OneRunner
BY RowsStart, RowsKept, RowsRunOnce, PTL

-----------------------------------------------------------------------------
(* A merge empties its sites before it deletes them: who is still there when *)
(* it does was put there by others.                                          *)
Emptied ==
  merge # None =>
    /\ merge.to \notin merge.from
    /\ merge = [from |-> merge.from, to |-> merge.to, step |-> merge.step]
    /\ merge.step \in {"checks", "delete"} => \A e \in DOMAIN endpoint : endpoint[e].site \in merge.from => e \in arrived
    /\ merge.step = "delete" => \A c \in DOMAIN check : check[c].site \in merge.from => c \in arrived
MergeInv == RowsInv /\ Emptied

\* Whoever is in a site that is being merged was there before, or has arrived.
LEMMA ArrivalsWatched ==
  ASSUME Watch, merge # None, merge' # None
  PROVE  /\ \A e \in DOMAIN endpoint' : endpoint'[e].site \in merge'.from =>
              e \in arrived' \/ (e \in DOMAIN endpoint /\ endpoint[e].site \in merge.from /\ e \notin arrived)
         /\ \A c \in DOMAIN check' : check'[c].site \in merge'.from =>
              c \in arrived' \/ (c \in DOMAIN check /\ check[c].site \in merge.from /\ c \notin arrived)
BY DEF Watch, InMerged

LEMMA EmptiedKept == MergeInv /\ [InventoryNext]_ivars => MergeInv'
<1> SUFFICES ASSUME MergeInv, [InventoryNext]_ivars PROVE MergeInv'
  OBVIOUS
<1>1. RowsInv'
  BY RowsKept DEF MergeInv
<1>2. CASE UNCHANGED ivars
  BY <1>1, <1>2 DEF ivars, MergeInv, Emptied
<1>3. CASE InventoryNext /\ merge' = merge
  BY <1>1, <1>3, ArrivalsWatched DEF InventoryNext, MergeInv, Emptied
<1>4. CASE StartMerge
  <2>1. PICK S, t : t \notin S /\ merge' = [from |-> S, to |-> t, step |-> "endpoints"]
    BY <1>4 DEF StartMerge
  <2> QED BY <1>1, <2>1 DEF MergeInv, Emptied
<1>5. CASE merge' = None
  BY <1>1, <1>5 DEF MergeInv, Emptied
<1>6. CASE MergeEndpoints /\ Watch /\ merge' # None
  <2>1. /\ merge # None /\ merge.step = "endpoints" /\ merge' = [merge EXCEPT !.step = "checks"]
        /\ endpoint' = [e \in DOMAIN endpoint |-> IF endpoint[e].site \in merge.from THEN [endpoint[e] EXCEPT !.site = merge.to] ELSE endpoint[e]]
    BY <1>6 DEF MergeEndpoints
  <2>2. merge'.from = merge.from /\ merge'.to = merge.to /\ merge'.step = "checks" /\ merge.to \notin merge.from
        /\ merge' = [from |-> merge'.from, to |-> merge'.to, step |-> merge'.step]
    BY <2>1 DEF MergeInv, Emptied
  <2>3. \A e \in DOMAIN endpoint' : endpoint'[e].site \notin merge.from
    BY <2>1, <2>2 DEF MergeInv, RowsInv, EndpointsOK
  <2> QED BY <1>1, <2>2, <2>3 DEF MergeInv, Emptied
<1>7. CASE MergeChecks /\ Watch /\ merge' # None
  <2>1. /\ merge # None /\ merge.step = "checks" /\ merge' = [merge EXCEPT !.step = "delete"] /\ UNCHANGED endpoint
        /\ check' = [c \in DOMAIN check |-> IF check[c].site \in merge.from THEN [check[c] EXCEPT !.site = merge.to] ELSE check[c]]
    BY <1>7 DEF MergeChecks
  <2>2. merge'.from = merge.from /\ merge'.to = merge.to /\ merge'.step = "delete" /\ merge.to \notin merge.from
        /\ merge' = [from |-> merge'.from, to |-> merge'.to, step |-> merge'.step]
    BY <2>1 DEF MergeInv, Emptied
  <2>3. \A c \in DOMAIN check' : check'[c].site \notin merge.from
    BY <2>1, <2>2 DEF MergeInv, RowsInv, ChecksOK, Rows
  <2>4. \A e \in DOMAIN endpoint' : endpoint'[e].site \in merge'.from => e \in arrived'
    BY <1>7, <2>1, <2>2, ArrivalsWatched DEF MergeInv, Emptied
  <2> QED BY <1>1, <2>2, <2>3, <2>4 DEF MergeInv, Emptied
<1>8. ASSUME NEW c \in CheckIds,
             \/ CreateCheck(c) \/ BatchTarget(c) \/ ApplySuggestion(c) \/ ApplyRoleTemplate(c) \/ ApplySiteSuggestion(c)
             \/ ApplySnmpTemplate(c) \/ AddDevice(c)
      PROVE  merge' = merge
  BY <1>8 DEF CreateCheck, BatchTarget, ApplySuggestion, ApplyRoleTemplate, ApplySiteSuggestion, ApplySnmpTemplate, AddDevice, InsertCheck
<1>9. ASSUME NEW c \in DOMAIN check,
             \/ PatchCheck(c) \/ SetEndpoint(c) \/ SetProbeEndpoint(c) \/ MoveChecks(c) \/ RegenerateToken(c) \/ RemoveToken(c)
             \/ DeleteCheck(c) \/ Duplicate(c)
      PROVE  merge' = merge
  BY <1>9 DEF PatchCheck, SetEndpoint, SetProbeEndpoint, MoveChecks, RegenerateToken, RemoveToken, Put, DeleteCheck, Duplicate
<1>10. EnableChecks \/ MoveEndpoints \/ (\E e \in Endpoints : CreateEndpoint(e)) \/ (\E s \in Sites : CreateSite(s))
       \/ (\E e \in DOMAIN endpoint : PatchEndpoint(e) \/ IssueAgentKey(e) \/ DeleteEndpoint(e) \/ CollectorSites(e))
       \/ (\E s \in DOMAIN site : PatchSite(s) \/ DeleteSite(s)) => merge' = merge
  BY DEF EnableChecks, MoveEndpoints, CreateEndpoint, CreateSite, PatchEndpoint, IssueAgentKey, DeleteEndpoint, CollectorSites, PatchSite, DeleteSite
<1>11. MergeDelete => merge' = None
  BY DEF MergeDelete
<1>12. InventoryNext => (merge' = merge \/ merge' = None \/ StartMerge \/ MergeEndpoints \/ MergeChecks) /\ Watch
  BY <1>8, <1>9, <1>10, <1>11 DEF InventoryNext
<1> QED BY <1>2, <1>3, <1>4, <1>5, <1>6, <1>7, <1>12

LEMMA DeletesWhatArrived ==
  ASSUME MergeInv, MergeDelete
  PROVE  /\ DOMAIN endpoint \ DOMAIN endpoint' \subseteq arrived
         /\ \A c \in DOMAIN check \ DOMAIN check' : c \in arrived \/ check[c].endpoint \in arrived
<1> DEFINE inside == {e \in DOMAIN endpoint : endpoint[e].site \in merge.from}
<1>1. /\ inside \subseteq arrived /\ \A c \in DOMAIN check : check[c].site \in merge.from => c \in arrived
  BY DEF MergeInv, Emptied, MergeDelete
<1>2. /\ DOMAIN endpoint \ DOMAIN endpoint' \subseteq inside
      /\ DOMAIN check' = {c \in DOMAIN check : check[c].site \notin merge.from /\ check[c].endpoint \notin inside}
  BY DEF MergeDelete, RemoveSites, Keep, CascadeChecks, MergeInv, RowsInv, EndpointsOK
<1> QED BY <1>1, <1>2

\* What a merge deletes was put into its sites by other requests while it ran.
THEOREM MergesKeepAll == InventoryInit /\ [][InventoryNext]_ivars => MergeKeepsAll
<1>1. InventoryInit => MergeInv
  BY RowsStart DEF InventoryInit, MergeInv, Emptied
<1>2. MergeInv /\ [InventoryNext]_ivars => [MergeDelete =>
        /\ DOMAIN endpoint \ DOMAIN endpoint' \subseteq arrived
        /\ \A c \in DOMAIN check \ DOMAIN check' : c \in arrived \/ check[c].endpoint \in arrived]_ivars
  BY DeletesWhatArrived
<1> QED BY <1>1, <1>2, EmptiedKept, PTL DEF MergeKeepsAll

-----------------------------------------------------------------------------
(* One-off work.  An entry that is queued has not been begun; a job is in    *)
(* one place: waiting, under way, or reported.                               *)
WorkRow == [kind : {"scan", "job"}, site : Networks \cup {None}, status : {"queued", "running", "sent", "done", "error"},
         results : {"none", "partial", "full", "text"}, fresh : BOOLEAN]
Doings == [work : DOMAIN work, by : Collectors \cup {None}, at : {"working", "reporting"}]
JobReports == [work : DOMAIN work, from : Collectors \cup {None}, what : {"progress", "done", "error"}]
AskedHere == \A a \in asking : a.site \in Networks \cup {None}
WorkTypeOK ==
  /\ DOMAIN work \subseteq Works /\ work \in [DOMAIN work -> WorkRow] /\ begun \in [Works -> Nat]
  /\ doing \subseteq Doings
  /\ posts \subseteq JobReports
BegunOnce == \A w \in Works : begun[w] <= 1 /\ (w \notin DOMAIN work \/ work[w].status = "queued" => begun[w] = 0)
IsJob(w) == work[w].kind = "job"
Scans == /\ \A d \in doing : d.by = None \/ d.at = "reporting" => ~IsJob(d.work)
         /\ \A p \in posts : p.what = "progress" => ~IsJob(p.work)
JobsApart ==
  /\ \A d, e \in doing : d.work = e.work /\ IsJob(d.work) => d = e
  /\ \A p, q \in posts : p.work = q.work /\ IsJob(p.work) => p = q
  /\ \A d \in doing, p \in posts : IsJob(d.work) => d.work # p.work
  /\ \A d \in doing : IsJob(d.work) => work[d.work].status = "sent"
  /\ \A p \in posts : IsJob(p.work) => work[p.work].status = "sent"
WorkInv == WorkTypeOK /\ BegunOnce /\ Scans /\ JobsApart

LEMMA WorkStart == DiscoveryInit => WorkInv
<1> SUFFICES ASSUME DiscoveryInit PROVE WorkInv
  OBVIOUS
<1>1. DOMAIN work = {} /\ work \in [DOMAIN work -> WorkRow] /\ doing = {} /\ posts = {} /\ begun = [w \in Works |-> 0]
  BY DEF DiscoveryInit
<1> QED BY <1>1 DEF Doings, JobReports, WorkInv, WorkTypeOK, BegunOnce, Scans, JobsApart

\* An entry is added.
LEMMA WorkAdded ==
  ASSUME WorkInv, NEW w \in Works \ DOMAIN work, NEW entry \in WorkRow, work' = With(work, w, entry), UNCHANGED posts,
         \/ UNCHANGED <<doing, begun>>
         \/ entry.kind = "scan" /\ entry.status = "running" /\ doing' = doing \cup {Begin(w, None)} /\ Count({w})
  PROVE  WorkInv'
<1>1. /\ DOMAIN work' = DOMAIN work \cup {w} /\ \A v \in DOMAIN work' : work'[v] = IF v = w THEN entry ELSE work[v]
      /\ work' = [v \in DOMAIN work' |-> work'[v]]
  BY DEF With
<1>2. WorkTypeOK'
  BY <1>1 DEF Doings, JobReports, WorkInv, WorkTypeOK, Count, Begin
<1>3. BegunOnce'
  BY <1>1 DEF Doings, JobReports, WorkInv, WorkTypeOK, BegunOnce, Count
<1>4. \A d \in doing : d.work \in DOMAIN work /\ d.work # w
  BY DEF Doings, JobReports, WorkInv, WorkTypeOK
<1>5. \A p \in posts : p.work \in DOMAIN work /\ p.work # w
  BY DEF Doings, JobReports, WorkInv, WorkTypeOK
<1>6. \A d \in doing' : d \in doing \/ (d.work = w /\ entry.kind = "scan")
  BY DEF Begin
<1>7. Scans'
  BY <1>1, <1>4, <1>5, <1>6 DEF WorkInv, Scans, IsJob
<1>8. JobsApart'
  BY <1>1, <1>4, <1>5, <1>6 DEF WorkInv, JobsApart, IsJob
<1> QED BY <1>2, <1>3, <1>7, <1>8 DEF WorkInv

\* What may become of an entry: a scan or job that has ended stays ended, and a job its outcome.
Progress ==
  \A w \in DOMAIN work :
    /\ w \in DOMAIN work' /\ work'[w].kind = work[w].kind
    /\ work'[w].status \in {work[w].status, "done", "error"} \/ work[w].status = "queued"
    /\ IsJob(w) /\ work[w].status \notin {"queued", "sent"} => work'[w].status = work[w].status

\* An entry is written, and nothing is begun.
LEMMA RowWritten ==
  ASSUME WorkInv, NEW w \in DOMAIN work, NEW new \in WorkRow, work' = [work EXCEPT ![w] = new], new.kind = work[w].kind,
         new.status \in {work[w].status, "done", "error"},
         \/ ~IsJob(w)
         \/ /\ \A d \in doing' : d.work # w
            /\ \A p \in posts' : p.work # w
            /\ work[w].status = "sent",
         doing' \subseteq doing, posts' \subseteq posts, UNCHANGED begun
  PROVE  WorkInv' /\ Progress
<1>1. DOMAIN work' = DOMAIN work /\ \A v \in DOMAIN work : work'[v] = IF v = w THEN new ELSE work[v]
  OBVIOUS
<1>2. WorkTypeOK'
  BY <1>1 DEF Doings, JobReports, WorkInv, WorkTypeOK
<1>3. new.status = "queued" => work[w].status = "queued"
  OBVIOUS
<1>4. BegunOnce'
  BY <1>1, <1>3 DEF WorkInv, BegunOnce
<1>5. (\A d \in doing : d.work \in DOMAIN work) /\ \A p \in posts : p.work \in DOMAIN work
  BY DEF Doings, JobReports, WorkInv, WorkTypeOK
<1>6. Scans'
  BY <1>1, <1>5 DEF WorkInv, Scans, IsJob
<1>7. JobsApart'
  BY <1>1, <1>5 DEF WorkInv, JobsApart, IsJob
<1>8. Progress
  BY <1>1 DEF Progress, IsJob
<1> QED BY <1>2, <1>4, <1>6, <1>7, <1>8 DEF WorkInv

\* The fields the code writes.
LEMMA FieldsWritten ==
  ASSUME NEW x \in WorkRow, NEW status \in {"queued", "running", "sent", "done", "error"}, NEW after \in {"none", "partial", "full", "text"}
  PROVE  /\ [x EXCEPT !.status = status, !.results = after] \in WorkRow
         /\ [x EXCEPT !.status = status, !.results = after].kind = x.kind
         /\ [x EXCEPT !.status = status, !.results = after].status = status
         /\ [x EXCEPT !.status = status] = [x EXCEPT !.status = status, !.results = x.results]
         /\ [x EXCEPT !.results = after] = [x EXCEPT !.status = x.status, !.results = after]
         /\ x.status \in {"queued", "running", "sent", "done", "error"} /\ x.results \in {"none", "partial", "full", "text"}
BY DEF WorkRow

\* failScan, completeScan, progress and Change, of an entry that may be changed.
LEMMA Written ==
  ASSUME WorkInv, NEW w \in DOMAIN work, NEW status \in {"done", "error"}, NEW after \in {"none", "partial", "full", "text"},
         \/ work' = [work EXCEPT ![w].status = status]
         \/ work' = [work EXCEPT ![w].results = after]
         \/ Change(w, status, after),
         \/ ~IsJob(w)
         \/ /\ \A d \in doing' : d.work # w
            /\ \A p \in posts' : p.work # w
            /\ work[w].status = "sent",
         doing' \subseteq doing, posts' \subseteq posts, UNCHANGED begun
  PROVE  WorkInv' /\ Progress
<1> DEFINE x == work[w]
<1>1. x \in WorkRow
  BY DEF Doings, JobReports, WorkInv, WorkTypeOK
<1>2. \/ work' = [work EXCEPT ![w] = [x EXCEPT !.status = status]]
      \/ work' = [work EXCEPT ![w] = [x EXCEPT !.results = after]]
      \/ work' = [work EXCEPT ![w] = [x EXCEPT !.status = status, !.results = after]]
  <2>1. CASE work' = [work EXCEPT ![w].status = status]
    BY <2>1
  <2>2. CASE work' = [work EXCEPT ![w].results = after]
    BY <2>2
  <2>3. CASE Change(w, status, after)
    BY <2>3 DEF Change
  <2> QED BY <2>1, <2>2, <2>3
<1> HIDE DEF x
<1>4. x.status \in {"queued", "running", "sent", "done", "error"} /\ x.results \in {"none", "partial", "full", "text"}
  BY <1>1, FieldsWritten
<1>3. ASSUME NEW st \in {x.status, "done", "error"}, NEW re \in {"none", "partial", "full", "text"}, NEW new,
             new = [x EXCEPT !.status = st, !.results = re], work' = [work EXCEPT ![w] = new]
      PROVE  WorkInv' /\ Progress
  <2>1. st \in {"queued", "running", "sent", "done", "error"}
    BY <1>4
  <2>2. new \in WorkRow /\ new.kind = x.kind /\ new.status = st
    <3> DEFINE y == [x EXCEPT !.status = st, !.results = re]
    <3>1. y \in WorkRow /\ y.kind = x.kind /\ y.status = st
      BY <2>1, <1>1, <1>3 DEF WorkRow
    <3>2. new = y
      BY <1>3
    <3> HIDE DEF y
    <3> QED BY <3>1, <3>2
  <2>3. new.kind = work[w].kind /\ new.status \in {work[w].status, "done", "error"}
    BY <2>2 DEF x
  <2> QED BY <2>2, <2>3, <1>3, RowWritten
<1>6. /\ [x EXCEPT !.status = status] = [x EXCEPT !.status = status, !.results = x.results]
      /\ [x EXCEPT !.results = after] = [x EXCEPT !.status = x.status, !.results = after]
  <2>1. status \in {"queued", "running", "sent", "done", "error"}
    OBVIOUS
  <2> QED BY <2>1, <1>1, <1>4 DEF WorkRow
<1>5. \/ work' = [work EXCEPT ![w] = [x EXCEPT !.status = status, !.results = x.results]]
      \/ work' = [work EXCEPT ![w] = [x EXCEPT !.status = x.status, !.results = after]]
      \/ work' = [work EXCEPT ![w] = [x EXCEPT !.status = status, !.results = after]]
  BY <1>2, <1>6, Zenon
<1> QED BY <1>3, <1>4, <1>5

\* What is under way and reported changes, and no entry.
LEMMA RowsRest ==
  ASSUME WorkInv, UNCHANGED <<work, begun>>,
         doing' \subseteq Doings,
         posts' \subseteq JobReports,
         \A d \in doing' : d \in doing \/ ~IsJob(d.work),
         NEW old, old \in doing \/ old = None,
         \A p \in posts' : p \in posts \/ ~IsJob(p.work) \/ (old \in doing /\ old \notin doing' /\ p.work = old.work /\ p.what # "progress"),
         \A p, q \in posts' : p \notin posts /\ q \notin posts => p = q
  PROVE  WorkInv' /\ Progress
<1>1. Scans'
  BY DEF WorkInv, Scans, IsJob
<1>2. JobsApart'
  BY DEF WorkInv, JobsApart, IsJob
<1>3. WorkTypeOK' /\ BegunOnce' /\ Progress
  BY DEF Doings, JobReports, WorkInv, WorkTypeOK, BegunOnce, Progress
<1> QED BY <1>1, <1>2, <1>3 DEF WorkInv

LEMMA Handed ==
  ASSUME WorkInv, NEW e \in Collectors, NEW lost \in BOOLEAN, HandOut(e, lost)
  PROVE  WorkInv' /\ Progress
<1>1. /\ DOMAIN work' = DOMAIN work /\ UNCHANGED posts
      /\ \A w \in DOMAIN work : work'[w] = IF w \in Queued(e) THEN [work[w] EXCEPT !.status = IF work[w].kind = "scan" THEN "running" ELSE "sent"]
                                            ELSE work[w]
      /\ work' = [w \in DOMAIN work |-> work'[w]]
  BY DEF HandOut
<1>2. \A w \in Queued(e) : w \in DOMAIN work /\ work[w].status = "queued"
  BY DEF Queued
<1>3. \A w \in DOMAIN work : /\ work'[w] \in WorkRow /\ work'[w].kind = work[w].kind
                             /\ work'[w].status = IF w \in Queued(e) THEN (IF work[w].kind = "scan" THEN "running" ELSE "sent") ELSE work[w].status
  BY <1>1, <1>2 DEF Doings, JobReports, WorkInv, WorkTypeOK, WorkRow
<1>4. CASE UNCHANGED <<doing, begun>>
  <2>1. WorkTypeOK'
    BY <1>1, <1>3, <1>4 DEF Doings, JobReports, WorkInv, WorkTypeOK
  <2>2. BegunOnce'
    BY <1>1, <1>2, <1>3, <1>4 DEF WorkInv, BegunOnce
  <2>3. Scans' /\ JobsApart'
    BY <1>1, <1>2, <1>3, <1>4 DEF Doings, JobReports, WorkInv, WorkTypeOK, Scans, JobsApart, IsJob
  <2> QED BY <1>1, <1>2, <1>3, <2>1, <2>2, <2>3 DEF WorkInv, Progress, IsJob
<1>5. CASE doing' = doing \cup {Begin(w, e) : w \in Queued(e)} /\ Count(Queued(e))
  <2>1. \A w \in Works : begun'[w] = begun[w] + (IF w \in Queued(e) THEN 1 ELSE 0)
    BY <1>5 DEF Count
  <2>2. begun' \in [Works -> Nat]
    BY <1>5 DEF Doings, JobReports, Count, WorkInv, WorkTypeOK
  <2>3. BegunOnce'
    BY <1>1, <1>2, <1>3, <2>1 DEF Doings, JobReports, WorkInv, WorkTypeOK, BegunOnce
  <2>4. \A d \in doing' : d \in doing \/ (d.work \in Queued(e) /\ d.by = e /\ d.at = "working" /\ d = Begin(d.work, e))
    BY <1>5 DEF Begin
  <2>5. WorkTypeOK'
    BY <1>1, <1>2, <1>3, <1>5, <2>2 DEF Doings, JobReports, WorkInv, WorkTypeOK, Begin
  <2>6. Scans'
    BY <1>1, <1>3, <2>4, CollectorsAssumption DEF Doings, JobReports, WorkInv, WorkTypeOK, Scans, IsJob
  <2>7. JobsApart'
    BY <1>1, <1>2, <1>3, <2>4 DEF Doings, JobReports, WorkInv, WorkTypeOK, WorkRow, JobsApart, IsJob
  <2> QED BY <1>1, <1>2, <1>3, <2>3, <2>5, <2>6, <2>7 DEF WorkInv, Progress, IsJob
<1> QED BY <1>4, <1>5 DEF HandOut

LEMMA RowAges ==
  ASSUME NEW x \in WorkRow
  PROVE  /\ [x EXCEPT !.fresh = FALSE] \in WorkRow
         /\ [x EXCEPT !.fresh = FALSE].kind = x.kind /\ [x EXCEPT !.fresh = FALSE].status = x.status
BY DEF WorkRow

LEMMA WorkStep == WorkInv /\ AskedHere /\ [DiscoveryNext]_dvars => WorkInv' /\ Progress
<1> SUFFICES ASSUME WorkInv, AskedHere, [DiscoveryNext]_dvars PROVE WorkInv' /\ Progress
  OBVIOUS
<1>1. ASSUME UNCHANGED <<work, begun>>, doing' \subseteq doing, posts' \subseteq posts PROVE WorkInv' /\ Progress
  BY <1>1, RowsRest DEF Doings, JobReports, WorkInv, WorkTypeOK
<1>2. CASE \/ UNCHANGED dvars \/ RestartEngine
           \/ \E s \in Networks : AskScan(s) \/ snmpWalk(s) \/ wake(s) \/ \E e \in Collectors \cup {None} : SetCollector(s, e)
           \/ AskScan(None)
           \/ \E e \in Collectors : Poll(e) \/ RestartCollector(e)
           \/ \E p \in posts : Lost(p)
  BY <1>1, <1>2 DEF dvars, RestartEngine, AskScan, snmpWalk, wake, AskJob, SetCollector, Poll, RestartCollector, Lost
<1>3. ASSUME NEW w \in Works, NEW a \in asking, InsertScan(a, w) PROVE WorkInv' /\ Progress
  <2>1. w \in Works \ DOMAIN work
    BY <1>3 DEF InsertScan, Free
  <2> DEFINE new == [kind |-> "scan", site |-> a.site, status |-> IF a.via THEN "queued" ELSE "running", results |-> "none", fresh |-> TRUE]
  <2>2. new \in WorkRow /\ new.kind = "scan" /\ new.status = IF a.via THEN "queued" ELSE "running"
    BY DEF WorkRow, AskedHere
  <2>3. work' = With(work, w, new)
    BY <1>3 DEF InsertScan
  <2>4. UNCHANGED posts /\ (UNCHANGED <<doing, begun>> \/ (new.status = "running" /\ doing' = doing \cup {Begin(w, None)} /\ Count({w})))
    BY <1>3, <2>2 DEF InsertScan
  <2> HIDE DEF new
  <2>5. WorkInv'
    BY <2>1, <2>2, <2>3, <2>4, WorkAdded
  <2>6. Progress
    BY <2>1, <2>3 DEF With, Progress, IsJob
  <2> QED BY <2>5, <2>6
<1>4. ASSUME NEW w \in Works, NEW a \in asking, queueCollectorJob(a, w) PROVE WorkInv' /\ Progress
  <2>1. w \in Works \ DOMAIN work
    BY <1>4 DEF queueCollectorJob, Free
  <2> DEFINE new == [kind |-> "job", site |-> a.site, status |-> "queued", results |-> "none", fresh |-> TRUE]
  <2>2. new \in WorkRow
    BY DEF WorkRow, AskedHere
  <2>3. work' = With(work, w, new) /\ UNCHANGED <<posts, doing, begun>>
    BY <1>4 DEF queueCollectorJob
  <2> HIDE DEF new
  <2>4. WorkInv'
    BY <2>1, <2>2, <2>3, WorkAdded
  <2>5. Progress
    BY <2>1, <2>3 DEF With, Progress, IsJob
  <2> QED BY <2>4, <2>5
<1>5. CASE HalfHourPasses
  <2>1. /\ DOMAIN work' = DOMAIN work /\ UNCHANGED <<doing, posts, begun>> /\ work' = [w \in DOMAIN work |-> work'[w]]
        /\ \A w \in DOMAIN work : work'[w] = [work[w] EXCEPT !.fresh = FALSE]
    BY <1>5 DEF HalfHourPasses
  <2>2. \A w \in DOMAIN work : work'[w] \in WorkRow /\ work'[w].kind = work[w].kind /\ work'[w].status = work[w].status
    BY <2>1, RowAges DEF Doings, JobReports, WorkInv, WorkTypeOK
  <2>3. WorkTypeOK'
    BY <2>1, <2>2 DEF Doings, JobReports, WorkInv, WorkTypeOK
  <2>4. BegunOnce'
    BY <2>1, <2>2 DEF WorkInv, BegunOnce
  <2>5. Scans' /\ JobsApart'
    BY <2>1, <2>2 DEF Doings, JobReports, WorkInv, WorkTypeOK, Scans, JobsApart, IsJob
  <2> QED BY <2>1, <2>2, <2>3, <2>4, <2>5 DEF WorkInv, Progress
<1>6. ASSUME NEW e \in Collectors, NEW lost \in BOOLEAN, HandOut(e, lost) PROVE WorkInv' /\ Progress
  BY <1>6, Handed
<1>7. ASSUME NEW d \in doing, runDiscoveryScan(d) PROVE WorkInv' /\ Progress
  <2>1. d.work \in DOMAIN work /\ ~IsJob(d.work)
    BY <1>7 DEF Doings, JobReports, runDiscoveryScan, WorkInv, WorkTypeOK, Scans
  <2>2. doing' \subseteq doing /\ UNCHANGED <<posts, begun>>
    BY <1>7 DEF runDiscoveryScan
  <2>3. \/ work' = [work EXCEPT ![d.work].results = "partial"]
        \/ Change(d.work, "done", "full")
        \/ work' = [work EXCEPT ![d.work].status = "error"]
    BY <1>7 DEF runDiscoveryScan, completeScan, failScan
  <2> QED BY <2>1, <2>2, <2>3, Written
<1>8. ASSUME NEW d \in doing, runScan(d) \/ GivesUp(d) PROVE WorkInv' /\ Progress
  <2>1. d.work \in DOMAIN work /\ ~IsJob(d.work) /\ d.by \in Collectors \cup {None} /\ d.at \in {"working", "reporting"} /\ d \in Doings
    BY <1>8 DEF Doings, JobReports, runScan, GivesUp, WorkInv, WorkTypeOK, Scans, IsJob
  <2>2. PICK what \in {"progress", "done", "error"} : posts' = posts \cup {Post(d, what)}
    BY <1>8 DEF runScan, GivesUp, Send
  <2>3. Post(d, what) \in JobReports /\ Post(d, what).work = d.work
    BY <2>1 DEF Post, JobReports
  <2>4. UNCHANGED <<work, begun>> /\ doing' \subseteq doing \cup {[d EXCEPT !.at = "reporting"]}
    BY <1>8 DEF runScan, GivesUp
  <2>5. [d EXCEPT !.at = "reporting"].work = d.work /\ [d EXCEPT !.at = "reporting"] \in Doings
    BY <2>1 DEF Doings
  <2>6. /\ doing' \subseteq Doings
        /\ posts' \subseteq JobReports
    BY <2>2, <2>3, <2>4, <2>5 DEF Doings, JobReports, WorkInv, WorkTypeOK
  <2>7. \A x \in doing' : x \in doing \/ ~IsJob(x.work)
    BY <2>1, <2>4, <2>5
  <2>8. /\ \A p \in posts' : p \in posts \/ ~IsJob(p.work)
        /\ \A p, q \in posts' : p \notin posts /\ q \notin posts => p = q
    BY <2>1, <2>2, <2>3
  <2> QED BY <2>4, <2>6, <2>7, <2>8, RowsRest
<1>9. ASSUME NEW d \in doing, runJob(d) PROVE WorkInv' /\ Progress
  <2>1. d.work \in DOMAIN work /\ IsJob(d.work) /\ d.by \in Collectors \cup {None}
    BY <1>9 DEF Doings, JobReports, runJob, WorkInv, WorkTypeOK, IsJob
  <2>2. PICK what \in {"done", "error"} : posts' = posts \cup {Post(d, what)} /\ doing' = doing \ {d}
    BY <1>9 DEF runJob, Send
  <2>3. Post(d, what) \in JobReports
        /\ Post(d, what).work = d.work /\ Post(d, what).what = what
    BY <2>1 DEF Post, JobReports
  <2>4. UNCHANGED <<work, begun>>
    BY <1>9 DEF runJob
  <2>5. /\ doing' \subseteq Doings
        /\ posts' \subseteq JobReports
    BY <2>2, <2>3 DEF Doings, JobReports, WorkInv, WorkTypeOK
  <2>6. /\ \A p \in posts' : p \in posts \/ (d \in doing /\ d \notin doing' /\ p.work = d.work /\ p.what # "progress")
        /\ \A p, q \in posts' : p \notin posts /\ q \notin posts => p = q
    BY <2>2, <2>3
  <2> QED BY <2>2, <2>4, <2>5, <2>6, RowsRest
<1>10. ASSUME NEW p \in posts, TakesPost(p) PROVE WorkInv' /\ Progress
  <2>1. p.work \in DOMAIN work /\ p.what \in {"progress", "done", "error"} /\ work[p.work].kind \in {"scan", "job"}
        /\ (p.what = "progress" => ~IsJob(p.work)) /\ (IsJob(p.work) <=> work[p.work].kind = "job")
    BY DEF Doings, JobReports, WorkInv, WorkTypeOK, Scans, WorkRow, IsJob
  <2>2. posts' = posts \ {p} /\ UNCHANGED begun /\ doing' \subseteq doing
    BY <1>10 DEF TakesPost
  <2>3. CASE UNCHANGED work
    BY <1>1, <2>2, <2>3
  <2>4. IsJob(p.work) => (\A d \in doing' : d.work # p.work) /\ (\A q \in posts' : q.work # p.work) /\ work[p.work].status = "sent"
    BY <2>2 DEF WorkInv, JobsApart
  <2>5. \/ UNCHANGED work
        \/ work' = [work EXCEPT ![p.work].status = "error"]
        \/ Change(p.work, "done", "full")
        \/ work' = [work EXCEPT ![p.work].results = "partial"]
        \/ Change(p.work, "error", "text")
    BY <1>10, <2>1 DEF TakesPost, failScan, completeScan, IsJob
  <2> QED BY <2>1, <2>2, <2>3, <2>4, <2>5, Written
<1> QED BY <1>2, <1>3, <1>4, <1>5, <1>6, <1>7, <1>8, <1>9, <1>10 DEF DiscoveryNext

LEMMA AskedAtNetworks == AskedHere /\ [DiscoveryNext]_dvars => AskedHere'
<1> SUFFICES ASSUME AskedHere, [DiscoveryNext]_dvars PROVE AskedHere'
  OBVIOUS
<1>1. \/ asking' \subseteq asking
      \/ \E kind \in {"scan", "job"}, s \in Networks \cup {None}, via \in BOOLEAN : asking' = asking \cup {[kind |-> kind, site |-> s, via |-> via]}
  BY DEF DiscoveryNext, dvars, AskScan, snmpWalk, wake, AskJob, SetCollector, HalfHourPasses, RestartEngine, InsertScan, queueCollectorJob, Poll, HandOut, RestartCollector,
         runDiscoveryScan, runScan, GivesUp, runJob, TakesPost, Lost
<1> QED BY <1>1 DEF AskedHere

\* One-off work is begun once, what has ended stays ended, and the answer to a job is final,
\* for any sites, collectors and works and any calls lost or handled late.
THEOREM WorkIsDoneOnce == DiscoveryInit /\ [][DiscoveryNext]_dvars => OneOffsOnce
<1> DEFINE I == WorkInv /\ AskedHere
<1>1. DiscoveryInit => I
  BY WorkStart DEF DiscoveryInit, AskedHere
<1>2. I /\ [DiscoveryNext]_dvars => I'
  BY WorkStep, AskedAtNetworks
<1>3. I /\ [DiscoveryNext]_dvars => \A w \in DOMAIN work :
        /\ begun'[w] <= 1
        /\ Finished(w) => Finished(w)'
        /\ work[w].kind = "job" /\ Answer(w) # "pending" => Answer(w)' = Answer(w)
  <2> SUFFICES ASSUME I, [DiscoveryNext]_dvars, NEW w \in DOMAIN work
               PROVE  /\ begun'[w] <= 1
                      /\ Finished(w) => Finished(w)'
                      /\ work[w].kind = "job" /\ Answer(w) # "pending" => Answer(w)' = Answer(w)
    OBVIOUS
  <2>1. WorkInv' /\ Progress
    BY WorkStep
  <2>2. begun'[w] <= 1
    BY <2>1 DEF Doings, JobReports, WorkInv, WorkTypeOK, BegunOnce
  <2>3. Finished(w) => Finished(w)'
    BY <2>1 DEF Progress, Finished
  <2>4. work[w].kind = "job" /\ Answer(w) # "pending" => Answer(w)' = Answer(w)
    BY <2>1 DEF Progress, IsJob, Answer
  <2> QED BY <2>2, <2>3, <2>4
<1>4. I /\ [DiscoveryNext]_dvars => [\A w \in DOMAIN work :
        /\ begun'[w] <= 1
        /\ Finished(w) => Finished(w)'
        /\ work[w].kind = "job" /\ Answer(w) # "pending" => Answer(w)' = Answer(w)]_dvars
  BY <1>3
<1> HIDE DEF I
<1> QED BY <1>1, <1>2, <1>4, PTL DEF OneOffsOnce
-----------------------------------------------------------------------------
(* Results that are handled while others are, and while a pass escalates.    *)
\* A handler at work has stamped a result, and one that is about to tell has its event.
AtWork == \A h \in Handlers :
  /\ pc[h] # "idle" => job[h].at \in 1 .. clock /\ job[h].status \in Reports
  /\ pc[h] \in {"triggered", "resolved"} => job[h].event # 0
RaceTypes == TypeOK /\ AtWork /\ IsFiniteSet(results)

EventRows == [open : BOOLEAN, escalated : BOOLEAN,
              heard : [Audiences -> {"nothing", "triggered", "escalated", "reminder", "resolved"}]]

-----------------------------------------------------------------------------
(* The latest open event. *)

\* A set of numbers up to n that is not empty has a largest one.
LEMMA LargestExists ==
  ASSUME NEW n \in Nat, NEW S \in SUBSET (1 .. n), S # {}
  PROVE  \E i \in S : \A j \in S : j <= i
<1> DEFINE left == { k \in Nat : \E i \in S : k = n - i }
<1>1. left \subseteq Nat /\ left # {}
  <2>1. PICK i \in S : TRUE
    OBVIOUS
  <2>2. n - i \in left
    BY <2>1
  <2> QED BY <2>2
<1>2. PICK least \in left : \A k \in left : <<k, least>> \notin OpToRel(<, Nat)
  BY <1>1, WFMin, NatLessThanWellFounded, Zenon
<1>3. \A k \in left : ~ (k < least)
  BY <1>2, <1>1, Zenon DEF OpToRel
<1>4. PICK i \in S : least = n - i
  BY <1>2
<1>5. \A j \in S : n - j \in left
  OBVIOUS
<1> QED BY <1>3, <1>4, <1>5

LEMMA LatestIsOpen ==
  ASSUME TypeOK
  PROVE  /\ LatestOpen \in 0 .. Len(events)
         /\ LatestOpen = 0 <=> OpenEvents = {}
         /\ LatestOpen # 0 => LatestOpen \in OpenEvents
<1>1. OpenEvents \subseteq 1 .. Len(events) /\ Len(events) \in Nat
  BY LenProperties DEF TypeOK, OpenEvents
<1>2. CASE OpenEvents = {}
  BY <1>1, <1>2 DEF LatestOpen
<1>3. CASE OpenEvents # {}
  <2>1. \E i \in OpenEvents : \A j \in OpenEvents : j <= i
    BY <1>1, <1>3, LargestExists
  <2>2. LatestOpen \in OpenEvents
    BY <1>3, <2>1 DEF LatestOpen
  <2> QED BY <1>1, <1>3, <2>2
<1> QED BY <1>2, <1>3

-----------------------------------------------------------------------------
(* Types. *)

LEMMA RowsTyped ==
  ASSUME RaceTypes
  PROVE  /\ events \in Seq(EventRows) /\ Len(events) \in Nat
         /\ \A i \in 1 .. Len(events) : events[i] \in EventRows
<1>1. events \in Seq(EventRows)
  BY DEF RaceTypes, TypeOK, EventRows
<1> QED BY <1>1, ElementOfSeq, LenProperties

LEMMA StartTypes == Init => RaceTypes
BY FS_EmptySet, RaceAssumption DEF Init, RaceTypes, TypeOK, AtWork, NoJob

\* The job of a handler at time now, when there are n events.
Jobs(now, n) == [at : 0 .. now, status : Reports \cup {"none"}, failing : BOOLEAN,
                 event : 0 .. n, escalated : BOOLEAN]
Steps == {"idle", "insert", "update", "judge", "find", "act", "triggered", "resolved"}

LEMMA ReceiveTypes ==
  ASSUME RaceTypes, NEW h \in Handlers, NEW status \in Reports, Receive(h, status)
  PROVE  RaceTypes'
<1> DEFINE j == [NoJob EXCEPT !.at = clock + 1, !.status = status]
<1>1. clock \in Nat /\ clock' = clock + 1 /\ clock' \in 0 .. MaxResults /\ Len(events) \in Nat
  BY RaceAssumption, LenProperties DEF RaceTypes, TypeOK, Receive
<1>2. j \in Jobs(clock', Len(events)) /\ j.at = clock' /\ j.status = status
  <2>1. clock + 1 \in 0 .. clock' /\ 0 \in 0 .. clock' /\ 0 \in 0 .. Len(events)
    BY <1>1
  <2>2. NoJob \in Jobs(clock', Len(events))
    BY <2>1 DEF NoJob, Jobs
  <2> QED BY <1>1, <2>1, <2>2 DEF Jobs
<1>3. job' = [job EXCEPT ![h] = j]
  BY DEF Receive
<1> HIDE DEF j
<1>4. job' \in [Handlers -> Jobs(clock', Len(events))]
  BY <1>1, <1>2, <1>3 DEF RaceTypes, TypeOK, Jobs
<1>5. AtWork'
  BY <1>1, <1>2, <1>3 DEF RaceTypes, TypeOK, AtWork, Receive, Goto
<1>6. results' \subseteq [at : 1 .. clock', status : Reports] /\ row' \in [at : 0 .. clock', status : Reports \cup {"none"}]
  BY <1>1 DEF RaceTypes, TypeOK, Receive
<1> QED BY <1>1, <1>4, <1>5, <1>6 DEF RaceTypes, TypeOK, Jobs, Receive, Goto

LEMMA InsertTypes ==
  ASSUME RaceTypes, NEW h \in Handlers, Insert(h)
  PROVE  RaceTypes'
<1>1. IsFiniteSet(results')
  BY FS_AddElement DEF Insert, RaceTypes
<1>2. [at |-> job[h].at, status |-> job[h].status] \in [at : 1 .. clock, status : Reports]
  BY DEF Insert, RaceTypes, AtWork
<1>3. results' \subseteq [at : 1 .. clock, status : Reports]
  BY <1>2 DEF Insert, RaceTypes, TypeOK
<1>4. AtWork'
  BY DEF Insert, Goto, RaceTypes, TypeOK, AtWork
<1> QED BY <1>1, <1>3, <1>4 DEF Insert, Goto, RaceTypes, TypeOK

LEMMA UpdateTypes ==
  ASSUME RaceTypes, NEW h \in Handlers, UpdateCheck(h)
  PROVE  RaceTypes'
<1>1. row' \in [at : 0 .. clock, status : Reports \cup {"none"}]
  BY DEF UpdateCheck, RaceTypes, TypeOK
<1> QED BY <1>1 DEF UpdateCheck, Goto, RaceTypes, TypeOK, AtWork

\* A handler that only looks at the tables learns what fits in its job.
LEMMA JobRewritten ==
  ASSUME RaceTypes, NEW h \in Handlers, NEW step \in Steps \ {"triggered", "resolved"}, Goto(h, step), pc[h] # "idle",
         NEW j \in Jobs(clock, Len(events)), j.at = job[h].at, j.status = job[h].status,
         job' = [job EXCEPT ![h] = j],
         UNCHANGED <<clock, results, row, events, passPc, todo>>
  PROVE  RaceTypes'
<1>1. AtWork'
  BY DEF Goto, RaceTypes, TypeOK, AtWork
<1>2. job' \in [Handlers -> Jobs(clock, Len(events))]
  BY DEF RaceTypes, TypeOK, Jobs
<1> QED BY <1>1, <1>2 DEF Goto, RaceTypes, TypeOK, Jobs, Steps

LEMMA JudgeTypes ==
  ASSUME RaceTypes, NEW h \in Handlers, Judge(h)
  PROVE  RaceTypes' /\ job' = [job EXCEPT ![h] = [job[h] EXCEPT !.failing = AllFailing]]
<1>1. AllFailing \in BOOLEAN
  BY DEF AllFailing
<1>2. job[h] \in Jobs(clock, Len(events))
  BY DEF RaceTypes, TypeOK, Jobs
<1>3. job' = [job EXCEPT ![h] = [job[h] EXCEPT !.failing = AllFailing]]
  BY DEF Judge, RaceTypes, TypeOK
<1> DEFINE j == [job[h] EXCEPT !.failing = AllFailing]
<1>4. j \in Jobs(clock, Len(events)) /\ j.at = job[h].at /\ j.status = job[h].status
  BY <1>1, <1>2 DEF Jobs
<1> HIDE DEF j
<1>5. RaceTypes'
  BY <1>3, <1>4, JobRewritten DEF Judge, Steps, j
<1> QED BY <1>3, <1>5

LEMMA FindTypes ==
  ASSUME RaceTypes, NEW h \in Handlers, FindOpen(h)
  PROVE  /\ RaceTypes'
         /\ \E esc \in BOOLEAN : job' = [job EXCEPT ![h] = [job[h] EXCEPT !.event = LatestOpen, !.escalated = esc]]
<1> DEFINE esc == LatestOpen # 0 /\ events[LatestOpen].escalated
           j == [job[h] EXCEPT !.event = LatestOpen, !.escalated = esc]
<1>1. esc \in BOOLEAN /\ LatestOpen \in 0 .. Len(events)
  BY LatestIsOpen DEF RaceTypes
<1>2. job[h] \in Jobs(clock, Len(events))
  BY DEF RaceTypes, TypeOK, Jobs
<1>3. job' = [job EXCEPT ![h] = j]
  BY DEF FindOpen, RaceTypes, TypeOK
<1> HIDE DEF esc
<1>4. j \in Jobs(clock, Len(events)) /\ j.at = job[h].at /\ j.status = job[h].status
  BY <1>1, <1>2 DEF Jobs
<1>5. RaceTypes'
  BY <1>3, <1>4, JobRewritten DEF FindOpen, Steps
<1> QED BY <1>1, <1>3, <1>5

LEMMA OpenTypes ==
  ASSUME RaceTypes, NEW h \in Handlers, OpenEvent(h)
  PROVE  /\ RaceTypes' /\ Len(events') = Len(events) + 1
         /\ \A i \in 1 .. Len(events) : events'[i] = events[i]
<1> DEFINE new == [open |-> TRUE, escalated |-> FALSE, heard |-> [a \in Audiences |-> "nothing"]]
<1>1. new \in EventRows
  BY DEF EventRows
<1>2. events \in Seq(EventRows) /\ Len(events) \in Nat
  BY LenProperties DEF RaceTypes, TypeOK, EventRows
<1>3. events' = Append(events, new)
  BY DEF OpenEvent
<1> HIDE DEF new
<1>4. /\ events' \in Seq(EventRows) /\ Len(events') = Len(events) + 1
      /\ \A i \in 1 .. Len(events) : events'[i] = events[i]
  BY <1>1, <1>2, <1>3, AppendProperties
<1> DEFINE j == [job[h] EXCEPT !.event = Len(events) + 1]
<1>5. job[h] \in Jobs(clock, Len(events)) /\ job' = [job EXCEPT ![h] = j]
  BY DEF OpenEvent, RaceTypes, TypeOK, Jobs
<1>6. j \in Jobs(clock, Len(events')) /\ j.at = job[h].at /\ j.status = job[h].status /\ j.event # 0
  <2>1. j = [at |-> job[h].at, status |-> job[h].status, failing |-> job[h].failing,
             event |-> Len(events) + 1, escalated |-> job[h].escalated]
    BY <1>5 DEF Jobs
  <2>2. Len(events) + 1 \in 0 .. Len(events') /\ Len(events) + 1 # 0
    BY <1>2, <1>4
  <2>3. job[h].at \in 0 .. clock /\ job[h].status \in Reports \cup {"none"}
        /\ job[h].failing \in BOOLEAN /\ job[h].escalated \in BOOLEAN
    BY <1>5 DEF Jobs
  <2> QED BY <2>1, <2>2, <2>3 DEF Jobs
<1> HIDE DEF j
<1>7. job' \in [Handlers -> Jobs(clock, Len(events'))]
  BY <1>2, <1>4, <1>5, <1>6 DEF RaceTypes, TypeOK, Jobs
<1>8. AtWork'
  BY <1>5, <1>6 DEF OpenEvent, Goto, RaceTypes, TypeOK, AtWork
<1>9. todo' \subseteq [event : 1 .. Len(events'), escalated : BOOLEAN]
  BY <1>2, <1>4 DEF OpenEvent, RaceTypes, TypeOK
<1> QED BY <1>4, <1>7, <1>8, <1>9 DEF OpenEvent, Goto, RaceTypes, TypeOK, Jobs, EventRows

\* A row is rewritten: the table keeps its length and its other rows.
LEMMA RowRewritten ==
  ASSUME NEW S, events \in Seq(S), NEW i \in 1 .. Len(events), NEW r \in S, events' = [events EXCEPT ![i] = r]
  PROVE  /\ events' \in Seq(S) /\ Len(events') = Len(events)
         /\ \A k \in 1 .. Len(events) : events'[k] = IF k = i THEN r ELSE events[k]
<1>1. DOMAIN events = 1 .. Len(events) /\ events = [k \in 1 .. Len(events) |-> events[k]]
  BY LenProperties
<1>2. \A k \in 1 .. Len(events) : events'[k] = IF k = i THEN r ELSE events[k]
  BY <1>1
<1>3. events' \in Seq(S) /\ Len(events') = Len(events)
  BY ExceptSeq
<1> QED BY <1>2, <1>3
LEMMA RowTypes ==
  ASSUME RaceTypes, NEW i \in 1 .. Len(events), NEW r \in EventRows, events' = [events EXCEPT ![i] = r],
         pc' \in [Handlers -> Steps], AtWork', UNCHANGED <<clock, results, row, job>>,
         passPc' \in {"idle", "next", "escalated", "reminder"}, todo' \subseteq todo
  PROVE  /\ RaceTypes' /\ Len(events') = Len(events)
         /\ \A k \in 1 .. Len(events) : events'[k] = IF k = i THEN r ELSE events[k]
<1>1. events \in Seq(EventRows)
  BY DEF RaceTypes, TypeOK, EventRows
<1>2. /\ events' \in Seq(EventRows) /\ Len(events') = Len(events)
      /\ \A k \in 1 .. Len(events) : events'[k] = IF k = i THEN r ELSE events[k]
  BY <1>1, RowRewritten
<1> QED BY <1>2 DEF RaceTypes, TypeOK, EventRows, Steps

LEMMA ResolveTypes ==
  ASSUME RaceTypes, NEW h \in Handlers, ResolveEvent(h)
  PROVE  /\ RaceTypes' /\ Len(events') = Len(events) /\ job[h].event \in 1 .. Len(events)
         /\ \A k \in 1 .. Len(events) :
              events'[k] = IF k = job[h].event THEN [events[k] EXCEPT !.open = FALSE] ELSE events[k]
<1> DEFINE i == job[h].event
           r == [events[i] EXCEPT !.open = FALSE]
<1>1. Len(events) \in Nat /\ i \in 1 .. Len(events)
  BY LenProperties DEF ResolveEvent, Recovered, RaceTypes, TypeOK
<1>2. events[i] \in EventRows /\ events' = [events EXCEPT ![i] = r]
  BY <1>1, RowsTyped DEF ResolveEvent
<1>3. r \in EventRows
  BY <1>2 DEF EventRows
<1>4. AtWork' /\ pc' \in [Handlers -> Steps]
  BY <1>1 DEF ResolveEvent, Goto, RaceTypes, TypeOK, AtWork, Steps
<1>5. UNCHANGED <<clock, results, row, job>> /\ passPc' \in {"idle", "next", "escalated", "reminder"} /\ todo' \subseteq todo
  BY DEF ResolveEvent, RaceTypes, TypeOK
<1> HIDE DEF r
<1>6. /\ RaceTypes' /\ Len(events') = Len(events)
      /\ \A k \in 1 .. Len(events) : events'[k] = IF k = i THEN r ELSE events[k]
  BY <1>1, <1>2, <1>3, <1>4, <1>5, RowTypes
<1> QED BY <1>1, <1>6 DEF r

\* A message to some of the audiences of an event.
HeardBy(i, to, kind) ==
  [events[i] EXCEPT !.heard = [a \in Audiences |-> IF a \in to THEN kind ELSE events[i].heard[a]]]

LEMMA HeardTypes ==
  ASSUME RaceTypes, NEW i \in 1 .. Len(events), NEW to,
         NEW kind \in {"triggered", "escalated", "reminder", "resolved"}
  PROVE  /\ HeardBy(i, to, kind) \in EventRows
         /\ HeardBy(i, to, kind).open = events[i].open
         /\ HeardBy(i, to, kind).heard["primary"] = IF "primary" \in to THEN kind ELSE events[i].heard["primary"]
<1>1. events[i] \in EventRows
  BY RowsTyped
<1> DEFINE heard == [a \in Audiences |-> IF a \in to THEN kind ELSE events[i].heard[a]]
<1>2. heard \in [Audiences -> {"nothing", "triggered", "escalated", "reminder", "resolved"}]
  BY <1>1 DEF EventRows
<1>3. heard["primary"] = IF "primary" \in to THEN kind ELSE events[i].heard["primary"]
  BY DEF Audiences
<1>4. HeardBy(i, to, kind) = [events[i] EXCEPT !.heard = heard]
  BY DEF HeardBy
<1> HIDE DEF heard
<1> QED BY <1>1, <1>2, <1>3, <1>4 DEF EventRows

LEMMA NotifyTypes ==
  ASSUME RaceTypes, NEW h \in Handlers, Notify(h)
  PROVE  /\ RaceTypes' /\ Len(events') = Len(events) /\ job[h].event \in 1 .. Len(events)
         /\ \A k \in 1 .. Len(events) :
              events'[k] = IF k = job[h].event THEN HeardBy(k, Audience(job[h].escalated), pc[h]) ELSE events[k]
<1> DEFINE i == job[h].event
           r == HeardBy(i, Audience(job[h].escalated), pc[h])
<1>1. Len(events) \in Nat /\ i \in 1 .. Len(events)
  BY LenProperties DEF Notify, RaceTypes, TypeOK, AtWork
<1>2. r \in EventRows
  BY <1>1, HeardTypes DEF Notify
<1>3. events' = [events EXCEPT ![i] = r]
  BY DEF Notify, Heard, HeardBy
<1>4. AtWork' /\ pc' \in [Handlers -> Steps]
  BY <1>1 DEF Notify, Goto, RaceTypes, TypeOK, AtWork, Steps
<1>5. UNCHANGED <<clock, results, row, job>> /\ passPc' \in {"idle", "next", "escalated", "reminder"} /\ todo' \subseteq todo
  BY DEF Notify, RaceTypes, TypeOK
<1> HIDE DEF r
<1>6. /\ RaceTypes' /\ Len(events') = Len(events)
      /\ \A k \in 1 .. Len(events) : events'[k] = IF k = i THEN r ELSE events[k]
  BY <1>1, <1>2, <1>3, <1>4, <1>5, RowTypes
<1> QED BY <1>1, <1>6 DEF r

LEMMA MarkTypes ==
  ASSUME RaceTypes, NEW e \in todo, MarkEscalated(e)
  PROVE  /\ RaceTypes' /\ Len(events') = Len(events) /\ e.event \in 1 .. Len(events)
         /\ \A k \in 1 .. Len(events) :
              events'[k] = IF k = e.event THEN [events[k] EXCEPT !.escalated = TRUE] ELSE events[k]
<1> DEFINE i == e.event
           r == [events[i] EXCEPT !.escalated = TRUE]
<1>1. Len(events) \in Nat /\ i \in 1 .. Len(events)
  BY LenProperties DEF RaceTypes, TypeOK
<1>2. events[i] \in EventRows /\ events' = [events EXCEPT ![i] = r]
  BY <1>1, RowsTyped DEF MarkEscalated
<1>3. r \in EventRows
  BY <1>2 DEF EventRows
<1>4. AtWork' /\ pc' \in [Handlers -> Steps] /\ todo' \subseteq todo /\ passPc' = "escalated"
      /\ UNCHANGED <<clock, results, row, job>>
  BY DEF MarkEscalated, handling, RaceTypes, TypeOK, AtWork, Steps
<1> HIDE DEF r
<1>5. /\ RaceTypes' /\ Len(events') = Len(events)
      /\ \A k \in 1 .. Len(events) : events'[k] = IF k = i THEN r ELSE events[k]
  BY <1>1, <1>2, <1>3, <1>4, RowTypes
<1> QED BY <1>1, <1>5 DEF r

LEMMA NotifyOpenTypes ==
  ASSUME RaceTypes, NEW e \in todo, NotifyOpen(e)
  PROVE  /\ RaceTypes' /\ Len(events') = Len(events) /\ e.event \in 1 .. Len(events)
         /\ \E to : \A k \in 1 .. Len(events) :
              events'[k] = IF k = e.event THEN HeardBy(k, to, passPc) ELSE events[k]
<1> DEFINE i == e.event
           to == IF passPc = "escalated" THEN {"escalation"} ELSE Audience(e.escalated)
           r == HeardBy(i, to, passPc)
<1>1. Len(events) \in Nat /\ i \in 1 .. Len(events)
  BY LenProperties DEF RaceTypes, TypeOK
<1>2. r \in EventRows
  BY <1>1, HeardTypes DEF NotifyOpen
<1>3. events' = [events EXCEPT ![i] = r]
  BY DEF NotifyOpen, Heard, HeardBy
<1>4. AtWork' /\ pc' \in [Handlers -> Steps] /\ todo' \subseteq todo /\ passPc' = "next"
      /\ UNCHANGED <<clock, results, row, job>>
  BY DEF NotifyOpen, handling, RaceTypes, TypeOK, AtWork, Steps
<1> HIDE DEF r
<1>5. /\ RaceTypes' /\ Len(events') = Len(events)
      /\ \A k \in 1 .. Len(events) : events'[k] = IF k = i THEN r ELSE events[k]
  BY <1>1, <1>2, <1>3, <1>4, RowTypes
<1> QED BY <1>1, <1>5 DEF r

\* What the pass itself keeps leaves the handlers and the events alone.
LEMMA PassTypes ==
  ASSUME RaceTypes, ReadOpen \/ EndPass \/ (\E e \in todo : MarkReminded(e)) \/ UNCHANGED vars
  PROVE  RaceTypes' /\ UNCHANGED <<clock, results, events, pc, job>>
<1>1. { [event |-> i, escalated |-> events[i].escalated] : i \in OpenEvents }
        \subseteq [event : 1 .. Len(events), escalated : BOOLEAN]
  BY RowsTyped, LenProperties DEF OpenEvents, EventRows
<1>2. /\ UNCHANGED <<clock, results, row, events, pc, job>>
      /\ passPc' \in {"idle", "next", "escalated", "reminder"}
      /\ todo' \subseteq [event : 1 .. Len(events), escalated : BOOLEAN]
  BY <1>1 DEF ReadOpen, EndPass, MarkReminded, handling, vars, RaceTypes, TypeOK
<1> QED BY <1>2 DEF RaceTypes, TypeOK, AtWork

LEMMA LeaveTypes ==
  ASSUME RaceTypes, NEW h \in Handlers, LeaveEvents(h)
  PROVE  RaceTypes'
BY DEF LeaveEvents, Goto, RaceTypes, TypeOK, AtWork

LEMMA RaceStepTypes == RaceTypes /\ [Next]_vars => RaceTypes'
BY ReceiveTypes, InsertTypes, UpdateTypes, JudgeTypes, FindTypes, OpenTypes, ResolveTypes, LeaveTypes,
   NotifyTypes, MarkTypes, NotifyOpenTypes, PassTypes DEF Next

\* Every table and every handler is always well typed (recordCheckResult, evaluateAlertRules,
\* processOpenAlerts): the latest open event a handler finds is one of the table.
THEOREM RaceTypeCorrect == Spec => []TypeOK
<1>1. RaceTypes => TypeOK
  BY DEF RaceTypes
<1> QED BY <1>1, StartTypes, RaceStepTypes, PTL DEF Spec

-----------------------------------------------------------------------------
(* Nobody is forgotten. *)

\* An incident's first audience has heard of it, or the handler that opened it is about to tell.
Told(i) == events[i].heard["primary"] # "nothing"
ToldOrAboutTo == \A i \in 1 .. Len(events) : Told(i) \/ \E h \in Handlers : pc[h] = "triggered" /\ job[h].event = i
ToldInv == RaceTypes /\ ToldOrAboutTo

LEMMA StaysTold ==
  ASSUME ToldOrAboutTo, Len(events') = Len(events),
         \A i \in 1 .. Len(events) : Told(i) => Told(i)',
         \A h \in Handlers : pc[h] = "triggered" =>
           \/ pc'[h] = "triggered" /\ job'[h].event = job[h].event
           \/ \A i \in 1 .. Len(events) : job[h].event = i => Told(i)'
  PROVE  ToldOrAboutTo'
BY DEF ToldOrAboutTo

LEMMA OpenTells ==
  ASSUME ToldInv, NEW h \in Handlers, OpenEvent(h)
  PROVE  ToldOrAboutTo'
<1>1. /\ Len(events') = Len(events) + 1 /\ Len(events) \in Nat
      /\ \A i \in 1 .. Len(events) : events'[i] = events[i]
  BY OpenTypes, RowsTyped DEF ToldInv
<1>2. /\ pc[h] = "act" /\ pc'[h] = "triggered" /\ job'[h].event = Len(events) + 1
      /\ \A g \in Handlers : g # h => pc'[g] = pc[g] /\ job'[g] = job[g]
  BY DEF OpenEvent, Goto, ToldInv, RaceTypes, TypeOK
<1>3. \A i \in 1 .. Len(events') : i \in 1 .. Len(events) \/ i = Len(events) + 1
  BY <1>1
<1> QED BY <1>1, <1>2, <1>3 DEF ToldInv, ToldOrAboutTo, Told

LEMMA NotifyTells ==
  ASSUME ToldInv, NEW h \in Handlers, Notify(h)
  PROVE  ToldOrAboutTo'
<1> DEFINE e == job[h].event
           r == HeardBy(e, Audience(job[h].escalated), pc[h])
<1>1. /\ Len(events') = Len(events) /\ e \in 1 .. Len(events)
      /\ \A k \in 1 .. Len(events) : events'[k] = IF k = e THEN r ELSE events[k]
  BY NotifyTypes DEF ToldInv
<1>2. "primary" \in Audience(job[h].escalated)
  BY DEF Audience, Audiences
<1>3. r.heard["primary"] = pc[h] /\ pc[h] # "nothing"
  BY <1>1, <1>2, HeardTypes DEF ToldInv, Notify
<1> HIDE DEF r
<1>4. \A k \in 1 .. Len(events) : (Told(k) => Told(k)') /\ (k = e => Told(k)')
  BY <1>1, <1>3 DEF Told
<1>5. job' = job /\ \A g \in Handlers : g # h => pc'[g] = pc[g]
  BY DEF Notify, Goto, ToldInv, RaceTypes, TypeOK
<1> QED BY <1>1, <1>4, <1>5, StaysTold DEF ToldInv

LEMMA PassTells ==
  ASSUME ToldInv, NEW e \in todo, MarkEscalated(e) \/ NotifyOpen(e)
  PROVE  ToldOrAboutTo'
<1>1. UNCHANGED <<pc, job>>
  BY DEF MarkEscalated, NotifyOpen, handling
<1>2. CASE MarkEscalated(e)
  <2>1. \A k \in 1 .. Len(events) : events[k] \in EventRows
    BY RowsTyped DEF ToldInv
  <2>2. /\ Len(events') = Len(events)
        /\ \A k \in 1 .. Len(events) :
             events'[k] = IF k = e.event THEN [events[k] EXCEPT !.escalated = TRUE] ELSE events[k]
    BY <1>2, MarkTypes DEF ToldInv
  <2>3. \A k \in 1 .. Len(events) : Told(k) => Told(k)'
    BY <2>1, <2>2 DEF Told, EventRows
  <2> QED BY <1>1, <2>2, <2>3, StaysTold DEF ToldInv
<1>3. CASE NotifyOpen(e)
  <2>1. PICK to : \A k \in 1 .. Len(events) : events'[k] = IF k = e.event THEN HeardBy(k, to, passPc) ELSE events[k]
    BY <1>3, NotifyOpenTypes DEF ToldInv
  <2>2. Len(events') = Len(events)
    BY <1>3, NotifyOpenTypes DEF ToldInv
  <2>3. \A k \in 1 .. Len(events) :
          HeardBy(k, to, passPc).heard["primary"] = IF "primary" \in to THEN passPc ELSE events[k].heard["primary"]
    BY <1>3, HeardTypes DEF ToldInv, NotifyOpen
  <2>4. passPc # "nothing"
    BY <1>3 DEF NotifyOpen
  <2>5. \A k \in 1 .. Len(events) : Told(k) => Told(k)'
    BY <2>1, <2>3, <2>4 DEF Told
  <2> QED BY <1>1, <2>2, <2>5, StaysTold DEF ToldInv
<1> QED BY <1>2, <1>3

LEMMA ResolveTells ==
  ASSUME ToldInv, NEW h \in Handlers, ResolveEvent(h)
  PROVE  ToldOrAboutTo'
<1>1. \A k \in 1 .. Len(events) : events[k] \in EventRows
  BY RowsTyped DEF ToldInv
<1>2. /\ Len(events') = Len(events)
      /\ \A k \in 1 .. Len(events) :
           events'[k] = IF k = job[h].event THEN [events[k] EXCEPT !.open = FALSE] ELSE events[k]
  BY ResolveTypes DEF ToldInv
<1>3. \A k \in 1 .. Len(events) : Told(k) => Told(k)'
  BY <1>1, <1>2 DEF Told, EventRows
<1>4. job' = job /\ \A g \in Handlers : pc[g] = "triggered" => pc'[g] = "triggered"
  BY DEF ResolveEvent, Goto, ToldInv, RaceTypes, TypeOK
<1> QED BY <1>2, <1>3, <1>4, StaysTold DEF ToldInv

\* The other steps of a handler tell nobody, and are not those of one that should.
LEMMA OthersTell ==
  ASSUME ToldInv, NEW h \in Handlers,
         \/ \E status \in Reports : Receive(h, status)
         \/ Insert(h) \/ UpdateCheck(h) \/ Judge(h) \/ FindOpen(h) \/ LeaveEvents(h)
  PROVE  ToldOrAboutTo'
<1>1. \A g \in Handlers : pc[g] = "triggered" => pc'[g] = "triggered" /\ job'[g] = job[g]
  BY DEF Receive, Insert, UpdateCheck, Judge, FindOpen, LeaveEvents, Goto, ToldInv, RaceTypes, TypeOK
<1>2. events' = events
  BY DEF Receive, Insert, UpdateCheck, Judge, FindOpen, LeaveEvents
<1> QED BY <1>1, <1>2, StaysTold DEF ToldInv, Told

LEMMA ToldStep == ToldInv /\ [Next]_vars => ToldInv'
<1> SUFFICES ASSUME ToldInv, [Next]_vars PROVE ToldInv'
  OBVIOUS
<1>1. RaceTypes'
  BY RaceStepTypes DEF ToldInv
<1>2. CASE ReadOpen \/ EndPass \/ (\E e \in todo : MarkReminded(e)) \/ UNCHANGED vars
  <2>1. UNCHANGED <<events, pc, job>>
    BY <1>2, PassTypes DEF ToldInv
  <2> QED BY <1>1, <2>1 DEF ToldInv, ToldOrAboutTo, Told
<1> QED BY <1>1, <1>2, OpenTells, NotifyTells, PassTells, ResolveTells, OthersTell DEF Next, ToldInv

\* Whatever results, passes and people overlap, for every number of handlers and every rule: at
\* rest, each incident's first audience has been told of it (evaluateAlertRules).
THEOREM NoIncidentIsSilent == Spec => []NoSilentIncident
<1>1. Init => ToldInv
  <2>1. Init => Len(events) = 0
    BY DEF Init
  <2> QED BY <2>1, StartTypes DEF ToldInv, ToldOrAboutTo
<1>2. ToldInv => NoSilentIncident
  <2>1. ToldInv => DOMAIN events = 1 .. Len(events)
    BY LenProperties DEF ToldInv, RaceTypes, TypeOK
  <2> QED BY <2>1 DEF ToldInv, ToldOrAboutTo, Told, NoSilentIncident, Quiet
<1> QED BY <1>1, <1>2, ToldStep, PTL DEF Spec

-----------------------------------------------------------------------------
(* The engine on its own: no result arrives while another is handled. *)

Alone == \A g, h \in Handlers : pc[g] # "idle" /\ pc[h] # "idle" => g = h
AllIdle == \A h \in Handlers : pc[h] = "idle"
OneResultAtATime == \A x, y \in results : x.at = y.at => x = y
OneOpen == \A i, j \in OpenEvents : i = j
NewestIsDown == \A x \in results : x.at = clock => x.status = "down"
NewestIsBad == \A x \in results : x.at = clock => x.status \in {"down", "unknown"}

\* A handler at work has the newest result, and what it read of the tables still holds.
UpToDate(h) ==
  /\ job[h].at = clock
  /\ pc[h] = "insert" => \A x \in results : x.at < clock
  /\ pc[h] # "insert" => [at |-> clock, status |-> job[h].status] \in results
  /\ pc[h] \in {"find", "act"} /\ job[h].failing => NewestIsDown
  /\ pc[h] = "act" => OpenEvents = IF job[h].event = 0 THEN {} ELSE {job[h].event}
  /\ pc[h] = "triggered" => NewestIsDown
  /\ pc[h] = "resolved" => OpenEvents = {}

\* At rest the newest result is stored, and it does not say that an open incident is over.
AtRest ==
  /\ clock > 0 => \E x \in results : x.at = clock
  /\ OpenEvents # {} => NewestIsBad

ClosedInv ==
  /\ RaceTypes /\ Alone /\ OneResultAtATime /\ OneOpen
  /\ \A h \in Handlers : pc[h] # "idle" => UpToDate(h)
  /\ AllIdle => AtRest

\* The handler at work is the only one, before and after its step.
LEMMA Moves ==
  ASSUME RaceTypes, Alone, NEW h \in Handlers, pc[h] # "idle", NEW step, Goto(h, step)
  PROVE  /\ pc'[h] = step /\ Alone' /\ \A g \in Handlers : pc'[g] # "idle" => g = h
         /\ step # "idle" => ~AllIdle'
BY DEF Goto, RaceTypes, TypeOK, Alone, AllIdle

LEMMA ArriveClosed ==
  ASSUME Overlapping = FALSE, ClosedInv, NEW h \in Handlers, NEW status \in Reports, Receive(h, status)
  PROVE  ClosedInv'
<1>1. RaceTypes' /\ clock \in Nat
  <2>1. RaceTypes
    BY DEF ClosedInv
  <2>2. RaceTypes'
    BY <2>1, ReceiveTypes
  <2> QED BY <2>1, <2>2, RaceAssumption DEF RaceTypes, TypeOK
<1>2. /\ \A g \in Handlers : pc'[g] # "idle" => g = h
      /\ pc'[h] = "insert" /\ job'[h].at = clock' /\ clock' = clock + 1
  BY DEF Receive, Goto, ClosedInv, RaceTypes, TypeOK, NoJob
<1>3. results' = results /\ \A x \in results : x.at \in 1 .. clock
  BY DEF Receive, ClosedInv, RaceTypes, TypeOK
<1>4. OpenEvents' = OpenEvents
  BY DEF Receive, OpenEvents
<1>5. UpToDate(h)'
  BY <1>1, <1>2, <1>3 DEF UpToDate
<1> QED BY <1>1, <1>2, <1>3, <1>4, <1>5 DEF ClosedInv, Alone, AllIdle, OneResultAtATime, OneOpen

LEMMA InsertClosed ==
  ASSUME ClosedInv, NEW h \in Handlers, Insert(h)
  PROVE  ClosedInv'
<1>1. RaceTypes' /\ UpToDate(h) /\ pc[h] = "insert"
  BY InsertTypes DEF ClosedInv, Insert
<1>2. pc'[h] = "update" /\ Alone' /\ ~AllIdle' /\ \A g \in Handlers : pc'[g] # "idle" => g = h
  BY <1>1, Moves DEF ClosedInv, Insert
<1> DEFINE new == [at |-> clock, status |-> job[h].status]
<1>3. results' = results \cup {new} /\ UNCHANGED <<clock, events, job>>
  BY <1>1 DEF Insert, UpToDate
<1>4. OneResultAtATime'
  BY <1>1, <1>3 DEF UpToDate, ClosedInv, OneResultAtATime, RaceTypes, TypeOK
<1>5. UpToDate(h)' /\ OneOpen'
  BY <1>1, <1>2, <1>3 DEF UpToDate, ClosedInv, OneOpen, OpenEvents
<1> QED BY <1>1, <1>2, <1>4, <1>5 DEF ClosedInv

LEMMA UpdateClosed ==
  ASSUME ClosedInv, NEW h \in Handlers, UpdateCheck(h)
  PROVE  ClosedInv'
<1>1. RaceTypes' /\ UpToDate(h) /\ pc[h] = "update"
  BY UpdateTypes DEF ClosedInv, UpdateCheck
<1>2. pc'[h] = "judge" /\ Alone' /\ ~AllIdle' /\ \A g \in Handlers : pc'[g] # "idle" => g = h
  BY <1>1, Moves DEF ClosedInv, UpdateCheck
<1>3. UNCHANGED <<clock, results, events, job>>
  BY DEF UpdateCheck
<1> QED BY <1>1, <1>2, <1>3 DEF UpToDate, ClosedInv, OneResultAtATime, OneOpen, OpenEvents

\* Among the last results there is the newest.
LEMMA FailingNewest ==
  ASSUME RaceTypes, AllFailing
  PROVE  NewestIsDown
<1> SUFFICES ASSUME NEW x \in results, x.at = clock PROVE x.status = "down"
  BY DEF NewestIsDown
<1>1. { y \in results : y.at > x.at } = {}
  BY DEF RaceTypes, TypeOK
<1>2. Cardinality({ y \in results : y.at > x.at }) = 0
  BY <1>1, FS_EmptySet
<1>3. 0 < ConsecutiveFailures
  BY RaceAssumption
<1> QED BY <1>2, <1>3 DEF AllFailing, Newest

LEMMA JudgeClosed ==
  ASSUME ClosedInv, NEW h \in Handlers, Judge(h)
  PROVE  ClosedInv'
<1>1. RaceTypes' /\ UpToDate(h) /\ pc[h] = "judge"
  BY JudgeTypes DEF ClosedInv, Judge
<1>2. pc'[h] = "find" /\ Alone' /\ ~AllIdle' /\ \A g \in Handlers : pc'[g] # "idle" => g = h
  BY <1>1, Moves DEF ClosedInv, Judge
<1>3. UNCHANGED <<clock, results, events>>
  BY DEF Judge
<1>4. job[h] \in Jobs(clock, Len(events)) /\ job' = [job EXCEPT ![h] = [job[h] EXCEPT !.failing = AllFailing]]
  BY JudgeTypes DEF ClosedInv, RaceTypes, TypeOK, Jobs
<1>5. AllFailing \in BOOLEAN
  BY DEF AllFailing
<1>6. job'[h].at = job[h].at /\ job'[h].status = job[h].status /\ (job'[h].failing => AllFailing)
  BY <1>4, <1>5 DEF Jobs, ClosedInv, RaceTypes, TypeOK
<1>7. job'[h].failing => NewestIsDown
  BY <1>6, FailingNewest DEF ClosedInv
<1>8. UpToDate(h)'
  BY <1>1, <1>2, <1>3, <1>6, <1>7 DEF UpToDate, NewestIsDown
<1> QED BY <1>1, <1>2, <1>3, <1>8 DEF ClosedInv, OneResultAtATime, OneOpen, OpenEvents

LEMMA FindClosed ==
  ASSUME ClosedInv, NEW h \in Handlers, FindOpen(h)
  PROVE  ClosedInv'
<1>1. RaceTypes' /\ UpToDate(h) /\ pc[h] = "find"
  BY FindTypes DEF ClosedInv, FindOpen
<1>2. pc'[h] = "act" /\ Alone' /\ ~AllIdle' /\ \A g \in Handlers : pc'[g] # "idle" => g = h
  BY <1>1, Moves DEF ClosedInv, FindOpen
<1>3. UNCHANGED <<clock, results, events>>
  BY DEF FindOpen
<1>4. job[h] \in Jobs(clock, Len(events)) /\ job \in [Handlers -> Jobs(clock, Len(events))]
  BY DEF ClosedInv, RaceTypes, TypeOK, Jobs
<1>5. PICK esc \in BOOLEAN : job' = [job EXCEPT ![h] = [job[h] EXCEPT !.event = LatestOpen, !.escalated = esc]]
  BY FindTypes DEF ClosedInv
<1>6. /\ job'[h].at = job[h].at /\ job'[h].status = job[h].status
      /\ job'[h].failing = job[h].failing /\ job'[h].event = LatestOpen
  BY <1>4, <1>5 DEF Jobs
<1>7. OpenEvents = IF LatestOpen = 0 THEN {} ELSE {LatestOpen}
  BY LatestIsOpen DEF ClosedInv, RaceTypes, OneOpen
<1>8. OpenEvents' = OpenEvents
  BY <1>3 DEF OpenEvents
<1>9. UpToDate(h)'
  BY <1>1, <1>2, <1>3, <1>6, <1>7, <1>8 DEF UpToDate, NewestIsDown
<1> QED BY <1>1, <1>2, <1>3, <1>8, <1>9 DEF ClosedInv, OneResultAtATime, OneOpen

LEMMA OpenClosed ==
  ASSUME ClosedInv, NEW h \in Handlers, OpenEvent(h)
  PROVE  ClosedInv'
<1>1. RaceTypes' /\ UpToDate(h) /\ pc[h] = "act" /\ job[h].failing /\ job[h].event = 0
  BY OpenTypes DEF ClosedInv, OpenEvent
<1>2. pc'[h] = "triggered" /\ Alone' /\ ~AllIdle' /\ \A g \in Handlers : pc'[g] # "idle" => g = h
  BY <1>1, Moves DEF ClosedInv, OpenEvent
<1>3. UNCHANGED <<clock, results>>
  BY DEF OpenEvent
<1>4. job[h] \in Jobs(clock, Len(events)) /\ job' = [job EXCEPT ![h] = [job[h] EXCEPT !.event = Len(events) + 1]]
  BY DEF OpenEvent, ClosedInv, RaceTypes, TypeOK, Jobs
<1>5. job'[h].at = job[h].at /\ job'[h].status = job[h].status
  BY <1>4 DEF Jobs, ClosedInv, RaceTypes, TypeOK
<1>6. NewestIsDown /\ OpenEvents = {}
  BY <1>1 DEF UpToDate
<1>7. /\ Len(events') = Len(events) + 1 /\ Len(events) \in Nat
      /\ \A i \in 1 .. Len(events) : events'[i] = events[i]
      /\ DOMAIN events = 1 .. Len(events) /\ DOMAIN events' = 1 .. Len(events')
  BY <1>1, OpenTypes, RowsTyped, LenProperties DEF ClosedInv, RaceTypes, TypeOK
<1>8. OpenEvents' \subseteq {Len(events) + 1}
  BY <1>6, <1>7 DEF OpenEvents
<1>9. UpToDate(h)'
  BY <1>1, <1>2, <1>3, <1>5, <1>6 DEF UpToDate, NewestIsDown
<1> QED BY <1>1, <1>2, <1>3, <1>8, <1>9 DEF ClosedInv, OneResultAtATime, OneOpen

LEMMA ResolveClosed ==
  ASSUME ClosedInv, NEW h \in Handlers, ResolveEvent(h)
  PROVE  ClosedInv'
<1>1. RaceTypes' /\ UpToDate(h) /\ pc[h] = "act" /\ job[h].event # 0
  BY ResolveTypes DEF ClosedInv, ResolveEvent, Recovered
<1>2. pc'[h] = "resolved" /\ Alone' /\ ~AllIdle' /\ \A g \in Handlers : pc'[g] # "idle" => g = h
  BY <1>1, Moves DEF ClosedInv, ResolveEvent
<1>3. UNCHANGED <<clock, results, job>>
  BY DEF ResolveEvent
<1> DEFINE e == job[h].event
<1>4. /\ Len(events') = Len(events)
      /\ \A k \in 1 .. Len(events) : events'[k] = IF k = e THEN [events[k] EXCEPT !.open = FALSE] ELSE events[k]
  BY ResolveTypes DEF ClosedInv
<1>5. /\ DOMAIN events = 1 .. Len(events) /\ DOMAIN events' = 1 .. Len(events')
      /\ \A k \in 1 .. Len(events) : events[k] \in EventRows
  BY <1>1, RowsTyped, LenProperties DEF ClosedInv, RaceTypes, TypeOK
<1>6. OpenEvents = {e}
  BY <1>1 DEF UpToDate
<1>7. \A k \in 1 .. Len(events) : events'[k].open => k # e /\ events[k].open
  BY <1>4, <1>5 DEF EventRows
<1>8. OpenEvents' = {}
  BY <1>4, <1>5, <1>6, <1>7 DEF OpenEvents
<1>9. UpToDate(h)'
  BY <1>1, <1>2, <1>3, <1>8 DEF UpToDate
<1> QED BY <1>1, <1>2, <1>3, <1>8, <1>9 DEF ClosedInv, OneResultAtATime, OneOpen

LEMMA LeaveClosed ==
  ASSUME ClosedInv, NEW h \in Handlers, LeaveEvents(h)
  PROVE  ClosedInv'
<1>1. RaceTypes' /\ UpToDate(h) /\ pc[h] = "act"
  BY LeaveTypes DEF ClosedInv, LeaveEvents
<1>2. pc'[h] = "idle" /\ Alone' /\ \A g \in Handlers : pc'[g] # "idle" => g = h
  BY <1>1, Moves DEF ClosedInv, LeaveEvents
<1>3. UNCHANGED <<clock, results, events, job>>
  BY DEF LeaveEvents
<1> DEFINE mine == [at |-> clock, status |-> job[h].status]
<1>4. mine \in results /\ \A x \in results : x.at = clock => x = mine
  BY <1>1 DEF UpToDate, ClosedInv, OneResultAtATime
<1>5. OpenEvents # {} => job[h].status \in {"down", "unknown"}
  BY <1>1 DEF UpToDate, LeaveEvents, Recovered
<1>6. AtRest
  BY <1>4, <1>5 DEF AtRest, NewestIsBad
<1>7. AtRest'
  BY <1>3, <1>6 DEF AtRest, NewestIsBad, OpenEvents
<1> QED BY <1>1, <1>2, <1>3, <1>7 DEF ClosedInv, OneResultAtATime, OneOpen, OpenEvents

\* Messages and escalations open and close nothing.
LEMMA SameOpen ==
  ASSUME RaceTypes, RaceTypes', Len(events') = Len(events),
         \A k \in 1 .. Len(events) : events'[k].open = events[k].open
  PROVE  OpenEvents' = OpenEvents
<1>1. DOMAIN events = 1 .. Len(events) /\ DOMAIN events' = 1 .. Len(events')
  BY LenProperties DEF RaceTypes, TypeOK
<1> QED BY <1>1 DEF OpenEvents

LEMMA NotifyClosed ==
  ASSUME ClosedInv, NEW h \in Handlers, Notify(h)
  PROVE  ClosedInv'
<1>1. RaceTypes' /\ UpToDate(h) /\ pc[h] \in {"triggered", "resolved"}
  BY NotifyTypes DEF ClosedInv, Notify
<1>2. pc'[h] = "idle" /\ Alone' /\ \A g \in Handlers : pc'[g] # "idle" => g = h
  BY <1>1, Moves DEF ClosedInv, Notify
<1>3. UNCHANGED <<clock, results>>
  BY DEF Notify
<1>4. \A k \in 1 .. Len(events) : events'[k].open = events[k].open
  BY <1>1, NotifyTypes, HeardTypes DEF ClosedInv
<1>5. OpenEvents' = OpenEvents
  BY <1>1, <1>4, NotifyTypes, SameOpen DEF ClosedInv
<1>6. AtRest
  BY <1>1 DEF UpToDate, AtRest, NewestIsBad, NewestIsDown
<1>7. AtRest'
  BY <1>3, <1>5, <1>6 DEF AtRest, NewestIsBad
<1> QED BY <1>1, <1>2, <1>3, <1>5, <1>7 DEF ClosedInv, OneResultAtATime, OneOpen

LEMMA PassClosed ==
  ASSUME ClosedInv, RaceTypes', UNCHANGED <<clock, results, pc, job>>, OpenEvents' = OpenEvents
  PROVE  ClosedInv'
BY DEF ClosedInv, Alone, AllIdle, OneResultAtATime, OneOpen, UpToDate, AtRest, NewestIsDown, NewestIsBad

LEMMA ClosedStep ==
  ASSUME Overlapping = FALSE
  PROVE  ClosedInv /\ [Next]_vars => ClosedInv'
<1> SUFFICES ASSUME ClosedInv, [Next]_vars PROVE ClosedInv'
  OBVIOUS
<1>1. RaceTypes /\ RaceTypes'
  BY RaceStepTypes DEF ClosedInv
<1>2. CASE ReadOpen \/ EndPass \/ (\E e \in todo : MarkReminded(e)) \/ UNCHANGED vars
  <2>1. UNCHANGED <<clock, results, events, pc, job>>
    BY <1>1, <1>2, PassTypes
  <2> QED BY <1>1, <2>1, PassClosed DEF OpenEvents
<1>3. ASSUME NEW e \in todo, MarkEscalated(e) PROVE ClosedInv'
  <2>1. \A k \in 1 .. Len(events) : events[k] \in EventRows
    BY <1>1, RowsTyped
  <2>2. \A k \in 1 .. Len(events) : events'[k].open = events[k].open
    BY <1>1, <1>3, <2>1, MarkTypes DEF EventRows
  <2>3. OpenEvents' = OpenEvents
    BY <1>1, <1>3, <2>2, MarkTypes, SameOpen
  <2> QED BY <1>1, <1>3, <2>3, PassClosed DEF MarkEscalated, handling
<1>4. ASSUME NEW e \in todo, NotifyOpen(e) PROVE ClosedInv'
  <2>1. PICK to : \A k \in 1 .. Len(events) : events'[k] = IF k = e.event THEN HeardBy(k, to, passPc) ELSE events[k]
    BY <1>1, <1>4, NotifyOpenTypes
  <2>2. \A k \in 1 .. Len(events) : HeardBy(k, to, passPc).open = events[k].open
    BY <1>1, <1>4, HeardTypes DEF NotifyOpen
  <2>3. OpenEvents' = OpenEvents
    BY <1>1, <1>4, <2>1, <2>2, NotifyOpenTypes, SameOpen
  <2> QED BY <1>1, <1>4, <2>3, PassClosed DEF NotifyOpen, handling
<1> QED BY <1>2, <1>3, <1>4, ArriveClosed, InsertClosed, UpdateClosed, JudgeClosed, FindClosed, OpenClosed,
           ResolveClosed, LeaveClosed, NotifyClosed DEF Next

LEMMA StartClosed == Init => ClosedInv
<1> SUFFICES ASSUME Init PROVE ClosedInv
  OBVIOUS
<1>1. RaceTypes
  BY StartTypes
<1>2. OpenEvents = {} /\ results = {} /\ clock = 0 /\ \A h \in Handlers : pc[h] = "idle"
  BY DEF Init, OpenEvents
<1> QED BY <1>1, <1>2 DEF ClosedInv, Alone, OneResultAtATime, OneOpen, AtRest

\* The newest results are those of the newest time.
LEMMA NewestOne ==
  ASSUME RaceTypes, NEW x \in Newest(1), NEW y \in results, y.at = clock
  PROVE  x \in results /\ x.at = clock
<1> DEFINE later == { z \in results : z.at > x.at }
<1>1. x \in results /\ Cardinality(later) < 1
  BY DEF Newest
<1>2. IsFiniteSet(later) /\ Cardinality(later) \in Nat
  BY FS_Subset, FS_CardinalityType DEF RaceTypes
<1>3. later = {}
  BY <1>1, <1>2, FS_EmptySet
<1> QED BY <1>1, <1>3 DEF RaceTypes, TypeOK

\* When the engine handles one result at a time, whatever the pass over the open incidents does
\* meanwhile: at rest, an incident of the rule is open only if the newest result does not say
\* that the check recovered (evaluateAlertRules).
THEOREM IncidentsCloseOnRecovery ==
  ASSUME Overlapping = FALSE
  PROVE  Spec => []ClosedAfterRecovery
<1>1. ClosedInv => ClosedAfterRecovery
  <2> SUFFICES ASSUME ClosedInv, Quiet, results # {}, OpenEvents # {}, NEW x \in Newest(1)
               PROVE  x.status \in {"down", "unknown"}
    BY DEF ClosedAfterRecovery
  <2>1. clock > 0
    BY DEF ClosedInv, RaceTypes, TypeOK
  <2>2. AtRest
    BY DEF ClosedInv, Quiet, AllIdle
  <2>3. PICK y \in results : y.at = clock
    BY <2>1, <2>2 DEF AtRest
  <2> QED BY <2>2, <2>3, NewestOne DEF AtRest, NewestIsBad, ClosedInv
<1> QED BY <1>1, StartClosed, ClosedStep, PTL DEF Spec

-----------------------------------------------------------------------------
(* The form of a check.  Of the tables it matters that what decides which    *)
(* fields are shown is itself always shown and no secret: a set C of fields. *)
(* The one exception is an SNMP check's mode, shown without a preset; what   *)
(* it decides asks for no preset as well, or is shown with one.              *)
Whole(x) == x = [required |-> x.required, secret |-> x.secret, mayBeEmpty |-> x.mayBeEmpty, default |-> x.default, options |-> x.options, showIf |-> x.showIf]
Sane(form) ==
  /\ form = [k \in DOMAIN form |-> form[k]]
  /\ \A k \in DOMAIN form : Whole(form[k]) /\ form[k].default # MASK /\ MASK \notin form[k].options
Open(form, C) == \A c \in C : c \in DOMAIN form /\ c \notin SECRET_KEYS /\ form[c].showIf = {{}}
Layered(form, C) == Open(form, C) /\ \A k \in DOMAIN form : \A A \in form[k].showIf : \A c \in A : c.key \in C
NoPreset == Is("preset", {""})
ByMode(form, k, A, c) == c.key = "mode" /\ (NoPreset \in A \/ {Given("preset")} \in form[k].showIf)
Moded(form, C) ==
  /\ Open(form, C) /\ "preset" \in C /\ "mode" \in DOMAIN form /\ form["mode"].showIf = {{NoPreset}}
  /\ \A k \in DOMAIN form : \A A \in form[k].showIf : \A c \in A : c.key \in C \/ ByMode(form, k, A, c)

\* A field is whole, and is shown until the table says otherwise.
LEMMA FieldIs ==
  ASSUME NEW filled, NEW empty
  PROVE  /\ Whole(Field(filled, empty)) /\ Field(filled, empty).default # MASK /\ MASK \notin Field(filled, empty).options
         /\ Field(filled, empty).showIf = {{}}
  BY DEF Field, Whole, MASK

\* A table as Form makes it: the fields it is given, all shown.
AllShown(form, all, required) ==
  Sane(form) /\ DOMAIN form = all /\ \A k \in DOMAIN form : form[k].showIf = {{}} /\ form[k].required = (k \in required)

\* Form makes a table that is sane, with every field shown.
LEMMA FormIs ==
  ASSUME NEW required, NEW texts, NEW filled, NEW choices, NEW boxes
  PROVE  AllShown(Form(required, texts, filled, choices, boxes), required \cup texts \cup filled \cup choices \cup boxes, required)
<1> DEFINE all == required \cup texts \cup filled \cup choices \cup boxes
           one(k) == Field(k \in filled \cup choices, k \notin choices \cup boxes)
           field(k) == [one(k) EXCEPT !.required = k \in required, !.secret = k \in SECRET_KEYS]
<1> DEFINE form == Form(required, texts, filled, choices, boxes)
<1>1. form = [k \in all |-> field(k)]
  BY DEF Form
<1>2. ASSUME NEW k PROVE /\ Whole(field(k)) /\ field(k).default # MASK /\ MASK \notin field(k).options
                         /\ field(k).showIf = {{}} /\ field(k).required = (k \in required)
  <2> DEFINE x == one(k)
  <2>1. Whole(x) /\ x.default # MASK /\ MASK \notin x.options /\ x.showIf = {{}}
    BY FieldIs
  <2> HIDE DEF x
  <2> DEFINE r == k \in required  secret == k \in SECRET_KEYS  y == [x EXCEPT !.required = r, !.secret = secret]
  <2>2. field(k) = y
    BY DEF x
  <2> HIDE DEF field, r, secret
  <2>3. y = [required |-> r, secret |-> secret, mayBeEmpty |-> x.mayBeEmpty, default |-> x.default, options |-> x.options, showIf |-> x.showIf]
    <3> DEFINE a == x.required  b == x.secret  c == x.mayBeEmpty  d == x.default  e == x.options  f == x.showIf
    <3>1. x = [required |-> a, secret |-> b, mayBeEmpty |-> c, default |-> d, options |-> e, showIf |-> f]
      BY <2>1 DEF Whole
    <3> HIDE DEF a, b, c, d, e, f
    <3> DEFINE z == [x EXCEPT !.required = r]
    <3>2. y = [z EXCEPT !.secret = secret]
      BY Zenon
    <3>3. z = [required |-> r, secret |-> b, mayBeEmpty |-> c, default |-> d, options |-> e, showIf |-> f]
      BY <3>1
    <3> HIDE DEF y, z
    <3>4. y = [required |-> r, secret |-> secret, mayBeEmpty |-> c, default |-> d, options |-> e, showIf |-> f]
      BY <3>2, <3>3
    <3> QED BY <3>4 DEF c, d, e, f
  <2> HIDE DEF y
  <2>4. Whole(y) /\ y.default = x.default /\ y.options = x.options /\ y.showIf = x.showIf /\ y.required = r
    BY <2>3 DEF Whole
  <2> HIDE DEF y
  <2> QED BY <2>1, <2>2, <2>4 DEF r
<1> HIDE DEF field, form, all
<1>3. Sane(form) /\ DOMAIN form = all /\ \A k \in all : form[k] = field(k)
  BY <1>1, <1>2 DEF Sane
<1>4. AllShown(form, all, required)
  BY <1>2, <1>3, Zenon DEF AllShown
<1> QED BY <1>4 DEF form, all

\* An option of a field changes nothing of when fields are shown.
LEMMA OptionsAre ==
  ASSUME NEW form, Sane(form), NEW key \in DOMAIN form, NEW default, default # MASK, NEW others, MASK \notin others
  PROVE  LET new == Options(form, key, default, others) IN
         /\ Sane(new) /\ DOMAIN new = DOMAIN form
         /\ \A k \in DOMAIN form : new[k].showIf = form[k].showIf /\ new[k].required = form[k].required
<1> DEFINE opts == ({default} \cup others) \ {""}  x == form[key]  y == [x EXCEPT !.default = default, !.options = opts]
           new == Options(form, key, default, others)
<1>1. new = [form EXCEPT ![key] = y]
  BY DEF Options, Sane
<1>2. MASK \notin opts
  OBVIOUS
<1> HIDE DEF opts
<1>3. Whole(y) /\ y.default = default /\ y.options = opts /\ y.showIf = x.showIf /\ y.required = x.required
  <2>1. Whole(x)
    BY DEF Sane
  <2> HIDE DEF x
  <2>2. y = [required |-> x.required, secret |-> x.secret, mayBeEmpty |-> x.mayBeEmpty, default |-> default, options |-> opts, showIf |-> x.showIf]
    <3> DEFINE a == x.required  b == x.secret  c == x.mayBeEmpty  d == x.default  e == x.options  f == x.showIf
    <3>1. x = [required |-> a, secret |-> b, mayBeEmpty |-> c, default |-> d, options |-> e, showIf |-> f]
      BY <2>1 DEF Whole
    <3> HIDE DEF a, b, c, d, e, f
    <3> DEFINE z == [x EXCEPT !.default = default]
    <3>2. y = [z EXCEPT !.options = opts]
      BY Zenon
    <3>3. z = [required |-> a, secret |-> b, mayBeEmpty |-> c, default |-> default, options |-> e, showIf |-> f]
      BY <3>1
    <3> HIDE DEF y, z
    <3>4. y = [required |-> a, secret |-> b, mayBeEmpty |-> c, default |-> default, options |-> opts, showIf |-> f]
      BY <3>2, <3>3
    <3> QED BY <3>4 DEF a, b, c, f
  <2> HIDE DEF y
  <2> QED BY <2>2 DEF Whole
<1> HIDE DEF y
<1> QED BY <1>1, <1>2, <1>3 DEF Sane

\* ShowIf changes when its fields are shown, and no more.
LEMMA ShowIfIs ==
  ASSUME NEW form, Sane(form), NEW keys, NEW alternatives
  PROVE  LET new == ShowIf(form, keys, alternatives) IN
         /\ Sane(new) /\ DOMAIN new = DOMAIN form
         /\ \A k \in DOMAIN form : /\ new[k].showIf = IF k \in keys THEN alternatives ELSE form[k].showIf
                                   /\ new[k].required = form[k].required
<1> DEFINE with(k) == [form[k] EXCEPT !.showIf = alternatives]  new == ShowIf(form, keys, alternatives)
<1>1. new = [k \in DOMAIN form |-> IF k \in keys THEN with(k) ELSE form[k]]
  BY DEF ShowIf
<1>2. ASSUME NEW k \in DOMAIN form
      PROVE  Whole(with(k)) /\ with(k).default = form[k].default /\ with(k).options = form[k].options /\ with(k).showIf = alternatives /\ with(k).required = form[k].required
  BY DEF Whole, Sane
<1> HIDE DEF with
<1> QED BY <1>1, <1>2 DEF Sane

-----------------------------------------------------------------------------
\* A table and what decides in it, C being chosen for the whole table.
Fine(form, C) == Sane(form) /\ Layered(form, C)

\* In a table as Form makes it any fields that are no secrets may decide.
LEMMA FormFine ==
  ASSUME NEW required, NEW texts, NEW filled, NEW choices, NEW boxes, NEW C,
         \A c \in C : c \in required \cup texts \cup filled \cup choices \cup boxes /\ c \notin SECRET_KEYS
  PROVE  Fine(Form(required, texts, filled, choices, boxes), C)
<1> DEFINE form == Form(required, texts, filled, choices, boxes)  all == required \cup texts \cup filled \cup choices \cup boxes
<1>1. Sane(form) /\ DOMAIN form = all /\ \A k \in DOMAIN form : form[k].showIf = {{}}
  <2>1. AllShown(form, all, required)
    BY FormIs
  <2> QED BY <2>1, Zenon DEF AllShown
<1>2. \A c \in C : c \in all /\ c \notin SECRET_KEYS
  OBVIOUS
<1> HIDE DEF form, all
<1>3. Layered(form, C)
  BY <1>1, <1>2 DEF Layered, Open
<1> QED BY <1>1, <1>3 DEF form, Fine

\* A field that decides may have options.
LEMMA OptionsFine ==
  ASSUME NEW form, NEW C, Fine(form, C), NEW key, key \in C, NEW default, default # MASK, NEW others, MASK \notin others
  PROVE  Fine(Options(form, key, default, others), C)
<1> DEFINE new == Options(form, key, default, others)
<1>1. Sane(form) /\ Layered(form, C) /\ key \in DOMAIN form
  BY DEF Fine, Layered, Open
<1>2. Sane(new) /\ DOMAIN new = DOMAIN form /\ \A k \in DOMAIN form : new[k].showIf = form[k].showIf
  BY <1>1, OptionsAre
<1> HIDE DEF new
<1>3. Layered(new, C)
  BY <1>1, <1>2 DEF Layered, Open
<1> QED BY <1>2, <1>3 DEF new, Fine

\* Fields that decide nothing may depend on those that do.
LEMMA ShowIfFine ==
  ASSUME NEW form, NEW C, Fine(form, C), NEW keys, NEW alternatives, \A c \in C : c \notin keys,
         \A A \in alternatives : \A c \in A : c.key \in C
  PROVE  Fine(ShowIf(form, keys, alternatives), C)
<1> DEFINE new == ShowIf(form, keys, alternatives)
<1>1. Sane(form) /\ Layered(form, C)
  BY DEF Fine
<1>2. Sane(new) /\ DOMAIN new = DOMAIN form /\ \A k \in DOMAIN form : new[k].showIf = IF k \in keys THEN alternatives ELSE form[k].showIf
  BY <1>1, ShowIfIs
<1> HIDE DEF new
<1>3. Layered(new, C)
  BY <1>1, <1>2 DEF Layered, Open
<1> QED BY <1>2, <1>3 DEF new, Fine

\* So they may on one condition.
LEMMA OnlyIfFine ==
  ASSUME NEW form, NEW C, Fine(form, C), NEW keys, \A c \in C : c \notin keys, NEW condition, condition.key \in C
  PROVE  Fine(OnlyIf(form, keys, condition), C)
<1>1. \A A \in {{condition}} : \A c \in A : c.key \in C
  OBVIOUS
<1> QED BY <1>1, ShowIfFine DEF OnlyIf

\* The setting a condition asks.
LEMMA ConditionKeys ==
  ASSUME NEW key, NEW options PROVE Is(key, options).key = key /\ Not(key, options).key = key /\ Given(key).key = key
  BY DEF Is, Not, Given

\* OnlyIf, of each way to write a condition.
LEMMA IsFine ==
  ASSUME NEW form, NEW C, Fine(form, C), NEW keys, \A c \in C : c \notin keys, NEW key, key \in C, NEW options
  PROVE  Fine(OnlyIf(form, keys, Is(key, options)), C) /\ Fine(OnlyIf(form, keys, Not(key, options)), C) /\ Fine(OnlyIf(form, keys, Given(key)), C)
  BY OnlyIfFine, ConditionKeys

\* What the tables of each type must be for the proof.
Fits(type, form) ==
  /\ Sane(form)
  /\ \E C : Layered(form, C) \/ Moded(form, C)
  /\ type \in Legacy => \A k \in DOMAIN form : ~form[k].required
  /\ type = "snmp" => {"preset", "oid", "asRate", "unit", "scale", "extraOids"} \subseteq DOMAIN form
Others(type) == type \notin Legacy /\ type # "snmp"

\* A table in which fields that are always shown decide is what the proof needs.
LEMMA FineFits == ASSUME NEW type, Others(type), NEW form, NEW C, Fine(form, C) PROVE Fits(type, form)
  BY DEF Fits, Fine, Others

\* So is one in which all fields are shown.
LEMMA PlainFits ==
  ASSUME NEW type, Others(type), NEW required, NEW texts, NEW filled, NEW choices, NEW boxes
  PROVE  Fits(type, Form(required, texts, filled, choices, boxes))
<1>1. Fine(Form(required, texts, filled, choices, boxes), {})
  BY FormFine
<1> QED BY <1>1, FineFits

\* What decides in an HTTP check's form.
LEMMA HttpFine == \E C : Fine(HttpForm, C)
<1> DEFINE C == {"method", "jsonPath"}
<1>1. \A c : c \in C <=> c = "method" \/ c = "jsonPath"
  OBVIOUS
<1> HIDE DEF C
<1> QED BY <1>1, FormFine, OptionsFine, IsFine, ZenonT(40) DEF HttpForm, SECRET_KEYS, MASK

\* What decides in a DNS zone's form.
LEMMA DnsZoneFine == \E C : Fine(DnsZoneForm, C)
<1> DEFINE C == {"mode"}
<1>1. \A c : c \in C <=> c = "mode"
  OBVIOUS
<1> HIDE DEF C
<1> QED BY <1>1, FormFine, OptionsFine, IsFine, ZenonT(40) DEF DnsZoneForm, SECRET_KEYS, MASK

\* What decides in a protocol's form.
LEMMA ProtocolFine == \E C : Fine(ProtocolForm, C)
<1> DEFINE C == {"protocol"}
<1>1. \A c : c \in C <=> c = "protocol"
  OBVIOUS
<1> HIDE DEF C
<1> QED BY <1>1, FormFine, OptionsFine, IsFine, ZenonT(40) DEF ProtocolForm, SECRET_KEYS, MASK

\* What decides in a database's form.
LEMMA DatabaseFine == \E C : Fine(DatabaseForm, C)
<1> DEFINE C == {"engine", "metric"}
<1>1. \A c : c \in C <=> c = "engine" \/ c = "metric"
  OBVIOUS
<1> HIDE DEF C
<1>2. PICK engines : Fine(engines, C) /\ DatabaseForm =
       OnlyIf(OnlyIf(Options(engines, "metric", "connect", {"query_value", "long_queries", "memory_mb"}), {"query"}, Is("metric", {"connect", "query_value"})),
            {"longQuerySeconds"}, Is("metric", {"long_queries"}))
  BY <1>1, FormFine, OptionsFine, IsFine DEF DatabaseForm, SECRET_KEYS, MASK
<1> QED BY <1>1, <1>2, OptionsFine, IsFine DEF MASK

\* What decides in an application's form.
LEMMA AppFine == \E C : Fine(AppForm, C)
<1> DEFINE C == {"app"}
<1>1. \A c : c \in C <=> c = "app"
  OBVIOUS
<1> HIDE DEF C
<1>2. PICK home : Fine(home, C) /\ AppForm =
       OnlyIf(OnlyIf(home, {"path", "jsonPath"}, Is("app", {"custom_json"})), {"metric"}, Not("app", {"home_assistant", "custom_json"}))
  BY <1>1, FormFine, OptionsFine, IsFine DEF AppForm, SECRET_KEYS, MASK
<1> QED BY <1>1, <1>2, OptionsFine, IsFine DEF MASK

\* What decides in the form of an SNMP device's interfaces.
LEMMA SnmpInterfacesFine == \E C : Fine(SnmpInterfacesForm, C)
<1> DEFINE C == {"version"}
<1>1. \A c : c \in C <=> c = "version"
  OBVIOUS
<1> HIDE DEF C
<1> QED BY <1>1, FormFine, OptionsFine, IsFine, ZenonT(40) DEF SnmpInterfacesForm, SECRET_KEYS, MASK, snmpAuth, snmpAuthKeys

\* What decides in a BMC's form.
LEMMA BmcFine == \E C : Fine(BmcForm, C)
<1> DEFINE C == {"protocol"}
<1>1. \A c : c \in C <=> c = "protocol"
  OBVIOUS
<1> HIDE DEF C
<1> QED BY <1>1, FormFine, OptionsFine, IsFine DEF BmcForm, SECRET_KEYS, MASK

\* What decides in a Proxmox check's form.
LEMMA ProxmoxFine == \E C : Fine(ProxmoxForm, C)
<1> DEFINE C == {"target"}
<1>1. \A c : c \in C <=> c = "target"
  OBVIOUS
<1> HIDE DEF C
<1>2. PICK named : Fine(named, C) /\ ProxmoxForm =
       OnlyIf(OnlyIf(OnlyIf(named, {"metric"}, Is("target", {"node"})), {"expectedStatus"}, Is("target", {"vm"})), {"maxAgeHours"}, Is("target", {"backups"}))
  BY <1>1, FormFine, OptionsFine, IsFine DEF ProxmoxForm, SECRET_KEYS, MASK
<1> QED BY <1>1, <1>2, OptionsFine, IsFine DEF MASK

\* What decides in a script's form.
LEMMA ScriptFine == \E C : Fine(ScriptForm, C)
<1> DEFINE C == {"expectMode", "expectExitCode", "warnIfMatches", "downIfMatches"}
<1>1. \A c : c \in C <=> c = "expectMode" \/ c = "expectExitCode" \/ c = "warnIfMatches" \/ c = "downIfMatches"
  OBVIOUS
<1> HIDE DEF C
<1>2. PICK all : Fine(all, C) /\ ScriptForm =
       ShowIf(ShowIf(OnlyIf(all, {"expectText", "expectIgnoreCase"}, Given("expectMode")), {"expectSeverity"}, {{Given("expectMode")}, {Given("expectExitCode")}}),
            {"alertMatchMode", "alertIgnoreCase"}, {{Given("warnIfMatches")}, {Given("downIfMatches")}})
  BY <1>1, FormFine, ShowIfFine, IsFine, ConditionKeys DEF ScriptForm, SECRET_KEYS, MASK
<1> DEFINE expected == OnlyIf(all, {"expectText", "expectIgnoreCase"}, Given("expectMode"))
           severe == {{Given("expectMode")}, {Given("expectExitCode")}}
           judged == ShowIf(expected, {"expectSeverity"}, severe)
           matched == {{Given("warnIfMatches")}, {Given("downIfMatches")}}
<1>3. Fine(expected, C)
  BY <1>1, <1>2, IsFine
<1>4. Fine(judged, C)
  <2>1. \A A \in severe : \A c \in A : c.key \in C
    BY <1>1, ConditionKeys
  <2> HIDE DEF expected, severe
  <2> QED BY <1>1, <1>3, <2>1, ShowIfFine
<1>5. \A A \in matched : \A c \in A : c.key \in C
  BY <1>1, ConditionKeys
<1>6. ScriptForm = ShowIf(judged, {"alertMatchMode", "alertIgnoreCase"}, matched)
  BY <1>2
<1> HIDE DEF judged, matched
<1> QED BY <1>1, <1>4, <1>5, <1>6, ShowIfFine

\* What decides in a file's form.
LEMMA FileFine == \E C : Fine(FileForm, C)
<1> DEFINE C == {"mode"}
<1>1. \A c : c \in C <=> c = "mode"
  OBVIOUS
<1> HIDE DEF C
<1>2. PICK many : Fine(many, C) /\ FileForm =
       OnlyIf(OnlyIf(OnlyIf(OnlyIf(OnlyIf(many, {"maxAgeMinutes"}, Is("mode", {"age"})), {"events"}, Is("mode", {"watchdog"})), {"expectedChecksum"},
                            Is("mode", {"checksum"})), {"severity"}, Is("mode", {"watchdog", "checksum", "not_exists"})), {"holdMinutes"}, Is("mode", {"watchdog", "checksum"}))
  BY <1>1, FormFine, OptionsFine, IsFine DEF FileForm, SECRET_KEYS, MASK
<1> QED BY <1>1, <1>2, IsFine

\* What decides in a VPN's form.
LEMMA VpnFine == \E C : Fine(VpnForm, C)
<1> DEFINE C == {"kind"}
<1>1. \A c : c \in C <=> c = "kind"
  OBVIOUS
<1> HIDE DEF C
<1> QED BY <1>1, FormFine, OptionsFine, IsFine DEF VpnForm, SECRET_KEYS, MASK

\* What decides in a UPS's form.
LEMMA UpsFine == \E C : Fine(UpsForm, C)
<1> DEFINE C == {"driver"}
<1>1. \A c : c \in C <=> c = "driver"
  OBVIOUS
<1> HIDE DEF C
<1> QED BY <1>1, FormFine, OptionsFine, IsFine DEF UpsForm, SECRET_KEYS, MASK

\* What decides in a backup's form.
LEMMA BackupFine == \E C : Fine(BackupForm, C)
<1> DEFINE C == {"tool"}
<1>1. \A c : c \in C <=> c = "tool"
  OBVIOUS
<1> HIDE DEF C
<1> QED BY <1>1, FormFine, OptionsFine, IsFine DEF BackupForm, SECRET_KEYS, MASK

\* The tables of reachability.
LEMMA ReachabilityFits == \A t \in DOMAIN Reachability : Fits(t, Reachability[t])
<1>1. \A t \in DOMAIN Reachability : Others(t)
  BY DEF Reachability, Others, Legacy
<1> QED BY <1>1, PlainFits, FineFits, HttpFine, DnsZoneFine DEF Reachability

\* The tables of the web.
LEMMA WebFits == \A t \in DOMAIN Web : Fits(t, Web[t])
<1>1. \A t \in DOMAIN Web : Others(t)
  BY DEF Web, Others, Legacy
<1> QED BY <1>1, PlainFits, FineFits DEF Web

\* The tables of network services.
LEMMA NetworkServicesFits == \A t \in DOMAIN NetworkServices : Fits(t, NetworkServices[t])
<1>1. \A t \in DOMAIN NetworkServices : Others(t)
  BY DEF NetworkServices, Others, Legacy
<1> QED BY <1>1, PlainFits, FineFits, ProtocolFine DEF NetworkServices

\* The tables of databases and applications.
LEMMA ApplicationsFits == \A t \in DOMAIN Applications : Fits(t, Applications[t])
<1>1. \A t \in DOMAIN Applications : Others(t)
  BY DEF Applications, Others, Legacy
<1> QED BY <1>1, PlainFits, FineFits, DatabaseFine, AppFine DEF Applications

\* The tables of virtualization and containers.
LEMMA VirtualizationFits == \A t \in DOMAIN Virtualization : Fits(t, Virtualization[t])
<1>1. \A t \in DOMAIN Virtualization : Others(t)
  BY DEF Virtualization, Others, Legacy
<1> QED BY <1>1, PlainFits, FineFits, ProxmoxFine DEF Virtualization

\* The tables of services and processes.
LEMMA ServicesAndProcessesFits == \A t \in DOMAIN ServicesAndProcesses : Fits(t, ServicesAndProcesses[t])
<1>1. \A t \in DOMAIN ServicesAndProcesses : Others(t)
  BY DEF ServicesAndProcesses, Others, Legacy
<1> QED BY <1>1, PlainFits, FineFits, ScriptFine DEF ServicesAndProcesses

\* The tables of files and logs.
LEMMA FilesAndLogsFits == \A t \in DOMAIN FilesAndLogs : Fits(t, FilesAndLogs[t])
<1>1. \A t \in DOMAIN FilesAndLogs : Others(t)
  BY DEF FilesAndLogs, Others, Legacy
<1> QED BY <1>1, PlainFits, FineFits, FileFine DEF FilesAndLogs

\* The tables of the system and its hardware.
LEMMA SystemAndHardwareFits == \A t \in DOMAIN SystemAndHardware : Fits(t, SystemAndHardware[t])
<1>1. \A t \in DOMAIN SystemAndHardware : Others(t)
  BY DEF SystemAndHardware, Others, Legacy
<1> QED BY <1>1, PlainFits, FineFits, VpnFine, UpsFine, BackupFine DEF SystemAndHardware

\* The tables of pushes, software and smart checks.
LEMMA PushSoftwareAndSmartFits == \A t \in DOMAIN PushSoftwareAndSmart : Fits(t, PushSoftwareAndSmart[t])
<1>1. \A t \in DOMAIN PushSoftwareAndSmart : Others(t)
  BY DEF PushSoftwareAndSmart, Others, Legacy
<1> QED BY <1>1, PlainFits, FineFits, SMTT(30) DEF PushSoftwareAndSmart

\* An SNMP check: its mode is shown without a preset.
Needed == {"preset", "oid", "asRate", "unit", "scale", "extraOids"}
ByPreset(form, C) == Sane(form) /\ Moded(form, C) /\ Needed \subseteq DOMAIN form

\* A field that decides in one reading of the table may have options in another.
LEMMA OptionsOfOne ==
  ASSUME NEW form, NEW C, Fine(form, C), NEW D, Fine(form, D), NEW key, key \in D, NEW default, default # MASK, NEW others, MASK \notin others
  PROVE  Fine(Options(form, key, default, others), C)
<1> DEFINE new == Options(form, key, default, others)
<1>1. Sane(form) /\ Layered(form, C) /\ key \in DOMAIN form
  BY DEF Fine, Layered, Open
<1>2. Sane(new) /\ DOMAIN new = DOMAIN form /\ \A k \in DOMAIN form : new[k].showIf = form[k].showIf
  BY <1>1, OptionsAre
<1> HIDE DEF new
<1>3. Layered(new, C)
  BY <1>1, <1>2 DEF Layered, Open
<1> QED BY <1>2, <1>3 DEF new, Fine

\* The mode is made to depend on the preset.
LEMMA ByPresetStarts ==
  ASSUME NEW form, NEW C, Fine(form, C), "preset" \in C, NEW D, Fine(form, D), "mode" \in D, Needed \subseteq D, NEW keys, "mode" \in keys, \A c \in C : c \notin keys
  PROVE  ByPreset(OnlyIf(form, keys, NoPreset), C)
<1> DEFINE new == OnlyIf(form, keys, NoPreset)
<1>1. Sane(form) /\ Layered(form, C) /\ Needed \subseteq DOMAIN form /\ "mode" \in DOMAIN form
  BY DEF Fine, Layered, Open
<1>2. /\ Sane(new) /\ DOMAIN new = DOMAIN form
      /\ \A k \in DOMAIN form : new[k].showIf = IF k \in keys THEN {{NoPreset}} ELSE form[k].showIf
  BY <1>1, ShowIfIs DEF OnlyIf
<1>3. NoPreset.key \in C
  BY ConditionKeys DEF NoPreset
<1> HIDE DEF new
<1>4. Open(new, C)
  BY <1>1, <1>2 DEF Layered, Open
<1>5. \A k \in DOMAIN new : \A A \in new[k].showIf : \A c \in A : c.key \in C
  BY <1>1, <1>2, <1>3 DEF Layered
<1>6. Moded(new, C)
  BY <1>1, <1>2, <1>4, <1>5 DEF Moded
<1> QED BY <1>1, <1>2, <1>6 DEF new, ByPreset

\* Fields may then depend on the mode if they ask for no preset too, or are shown with one.
LEMMA ShowIfByPreset ==
  ASSUME NEW form, NEW C, ByPreset(form, C), NEW keys, \A c \in C : c \notin keys, "mode" \notin keys, NEW alternatives,
         \A A \in alternatives : \A c \in A : c.key \in C \/ (c.key = "mode" /\ (NoPreset \in A \/ {Given("preset")} \in alternatives))
  PROVE  ByPreset(ShowIf(form, keys, alternatives), C)
<1> DEFINE new == ShowIf(form, keys, alternatives)
<1>1. Sane(form) /\ Moded(form, C) /\ Needed \subseteq DOMAIN form
  BY DEF ByPreset
<1>2. Sane(new) /\ DOMAIN new = DOMAIN form /\ \A k \in DOMAIN form : new[k].showIf = IF k \in keys THEN alternatives ELSE form[k].showIf
  BY <1>1, ShowIfIs
<1> HIDE DEF new
<1>3. Open(new, C)
  BY <1>1, <1>2 DEF Moded, Open
<1>4. ASSUME NEW k \in DOMAIN new, NEW A \in new[k].showIf, NEW c \in A PROVE c.key \in C \/ ByMode(new, k, A, c)
  <2>1. CASE k \in keys
    BY <1>2, <2>1 DEF ByMode
  <2>2. CASE k \notin keys
    BY <1>1, <1>2, <2>2 DEF ByMode, Moded
  <2> QED BY <2>1, <2>2
<1>5. Moded(new, C)
  BY <1>1, <1>2, <1>3, <1>4 DEF Moded
<1> QED BY <1>1, <1>2, <1>5 DEF new, ByPreset

\* Or on a condition of what is always shown.
LEMMA IsByPreset ==
  ASSUME NEW form, NEW C, ByPreset(form, C), NEW keys, \A c \in C : c \notin keys, "mode" \notin keys, NEW key, key \in C, NEW options
  PROVE  ByPreset(OnlyIf(form, keys, Is(key, options)), C)
<1>1. \A A \in {{Is(key, options)}} : \A c \in A : c.key \in C
  BY ConditionKeys
<1> QED BY <1>1, ShowIfByPreset DEF OnlyIf

\* The form of an SNMP check, layer by layer.
LEMMA SnmpFine == \E C : ByPreset(SnmpForm, C)
<1> DEFINE C == {"preset", "version", "expression"}  D == C \cup Needed \cup {"mode"}
<1>1. \A c : c \in C <=> c = "preset" \/ c = "version" \/ c = "expression"
  OBVIOUS
<1>2. \A c : c \in D <=> c \in C \/ c \in Needed \/ c = "mode"
  OBVIOUS
<1> HIDE DEF C, D
<1>3. PICK known : /\ Fine(known, C) /\ Fine(known, D)
        /\ SnmpForm =
             LET preset == Options(Options(Options(known, "preset", "", {"hr_storage", "printer_jobs", "uptime_reboot", "ups_battery"}),
                                           "mode", "get", {"walk_avg", "walk_all"}), "expression", "", {"value", "ref"})
                 custom == ShowIf(OnlyIf(preset, {"oid", "mode", "asRate", "scale", "unit", "expectString"}, NoPreset),
                                  {"aggregate", "maxRows"}, {{NoPreset, Is("mode", {"walk_all"})}})
                 walked == ShowIf(ShowIf(custom, {"indexFilter"}, {{NoPreset, Not("mode", {"", "get"})}}), {"exclude"}, {{Given("preset")}, {Not("mode", {"", "get"})}})
             IN OnlyIf(OnlyIf(OnlyIf(OnlyIf(walked, {"refCheckId"}, Is("expression", {"ref"})), {"instance"}, Is("preset", {"hr_storage"})),
                              {"countCanceled", "severity"}, Is("preset", {"printer_jobs"})), {"holdMinutes"}, Is("preset", {"uptime_reboot", "printer_jobs"}))
  <2> DEFINE all == Form({"host"}, {"port", "preset", "oid", "indexFilter", "scale", "unit", "expectString", "expression", "extraOids", "refCheckId", "instance", "exclude"}
                         \cup snmpAuthKeys, {"community", "maxRows", "holdMinutes"},
                         {"version", "securityLevel", "authProtocol", "privProtocol", "mode", "aggregate", "severity"}, {"asRate", "countCanceled"})
  <2>1. Fine(all, C)
    BY <1>1, FormFine DEF SECRET_KEYS
  <2>2. Fine(all, D)
    <3>1. \A c \in D : /\ c \notin SECRET_KEYS
                       /\ c \in {"port", "preset", "oid", "indexFilter", "scale", "unit", "expectString", "expression", "extraOids", "refCheckId", "instance", "exclude"}
                          \/ c \in {"version", "mode"} \/ c = "asRate"
      BY <1>1, <1>2 DEF SECRET_KEYS, Needed
    <3> QED BY <3>1, FormFine
  <2>3. ASSUME NEW E, E \in {C, D} PROVE Fine(snmpAuth(all), E)
    <3>1. Fine(all, E) /\ "version" \in E /\ \A c \in E : c \notin {"community"} /\ c \notin snmpAuthKeys \cup {"securityLevel", "authProtocol", "privProtocol"}
      <4>1. \A c \in D : c \notin {"community"} /\ c \notin snmpAuthKeys \cup {"securityLevel", "authProtocol", "privProtocol"}
        BY <1>1, <1>2 DEF snmpAuthKeys, Needed
      <4> HIDE DEF all
      <4> QED BY <2>1, <2>2, <2>3, <4>1, <1>1, <1>2
    <3> HIDE DEF all
    <3>2. Fine(OnlyIf(Options(all, "version", "2c", {"3"}), {"community"}, Not("version", {"3"})), E)
      BY <3>1, OptionsFine, IsFine DEF MASK
    <3> QED BY <3>1, <3>2, IsFine DEF snmpAuth
  <2>4. Fine(snmpAuth(all), C) /\ Fine(snmpAuth(all), D)
    BY <2>3
  <2> QED BY <2>4, Zenon DEF SnmpForm, NoPreset
<1> DEFINE x1 == Options(known, "preset", "", {"hr_storage", "printer_jobs", "uptime_reboot", "ups_battery"})
           x2 == Options(x1, "mode", "get", {"walk_avg", "walk_all"})
           x3 == Options(x2, "expression", "", {"value", "ref"})
           x4 == OnlyIf(x3, {"oid", "mode", "asRate", "scale", "unit", "expectString"}, NoPreset)
           all == {{NoPreset, Is("mode", {"walk_all"})}}
           x5 == ShowIf(x4, {"aggregate", "maxRows"}, all)
           walk == {{NoPreset, Not("mode", {"", "get"})}}
           x6 == ShowIf(x5, {"indexFilter"}, walk)
           either == {{Given("preset")}, {Not("mode", {"", "get"})}}
           x7 == ShowIf(x6, {"exclude"}, either)
<1>4. Fine(x1, C) /\ Fine(x1, D)
  <2>1. "preset" \in C /\ "preset" \in D
    BY <1>1, <1>2
  <2>2. "" # MASK /\ MASK \notin {"hr_storage", "printer_jobs", "uptime_reboot", "ups_battery"}
    BY DEF MASK
  <2>3. Fine(known, C) /\ Fine(known, D)
    BY <1>3
  <2> QED BY <2>1, <2>2, <2>3, OptionsFine
<1>5. Fine(x2, C) /\ Fine(x2, D)
  <2> HIDE DEF x1
  <2> QED BY <1>1, <1>2, <1>4, OptionsFine, OptionsOfOne DEF MASK
<1>6. Fine(x3, C) /\ Fine(x3, D)
  <2> HIDE DEF x2
  <2>1. "expression" \in C /\ "expression" \in D
    BY <1>1, <1>2
  <2>2. "" # MASK /\ MASK \notin {"value", "ref"}
    BY DEF MASK
  <2> QED BY <1>5, <2>1, <2>2, OptionsFine
<1>7. ByPreset(x4, C)
  <2> HIDE DEF x3
  <2> QED BY <1>1, <1>2, <1>6, ByPresetStarts
<1>8. NoPreset.key = "preset" /\ Given("preset").key = "preset" /\ Is("mode", {"walk_all"}).key = "mode" /\ Not("mode", {"", "get"}).key = "mode"
  BY ConditionKeys DEF NoPreset
<1>9. ByPreset(x5, C)
  <2>1. \A A \in all : \A c \in A : c.key \in C \/ (c.key = "mode" /\ (NoPreset \in A \/ {Given("preset")} \in all))
    BY <1>1, <1>8
  <2> HIDE DEF x4, all
  <2> QED BY <1>1, <1>7, <2>1, ShowIfByPreset
<1>10. ByPreset(x6, C)
  <2>1. \A A \in walk : \A c \in A : c.key \in C \/ (c.key = "mode" /\ (NoPreset \in A \/ {Given("preset")} \in walk))
    BY <1>1, <1>8
  <2> HIDE DEF x5, walk
  <2> QED BY <1>1, <1>9, <2>1, ShowIfByPreset
<1>11. ByPreset(x7, C)
  <2>1. \A A \in either : \A c \in A : c.key \in C \/ (c.key = "mode" /\ (NoPreset \in A \/ {Given("preset")} \in either))
    BY <1>1, <1>8
  <2> HIDE DEF x6, either
  <2> QED BY <1>1, <1>10, <2>1, ShowIfByPreset
<1>12. SnmpForm = OnlyIf(OnlyIf(OnlyIf(OnlyIf(x7, {"refCheckId"}, Is("expression", {"ref"})), {"instance"}, Is("preset", {"hr_storage"})),
                              {"countCanceled", "severity"}, Is("preset", {"printer_jobs"})), {"holdMinutes"}, Is("preset", {"uptime_reboot", "printer_jobs"}))
  BY <1>3, Zenon
<1> HIDE DEF x7
<1> QED BY <1>1, <1>11, <1>12, IsByPreset

\* It has the fields that a picked row of the device's values fills in.
LEMMA SnmpFits == Fits("snmp", SnmpForm)
<1>1. "snmp" \notin Legacy
  BY DEF Legacy
<1>2. PICK C : ByPreset(SnmpForm, C)
  BY SnmpFine
<1> QED BY <1>1, <1>2 DEF ByPreset, Needed, Fits

\* The tables of network devices and hardware.
LEMMA HardwareFits == \A t \in DOMAIN Hardware : Fits(t, Hardware[t])
<1>1. \A t \in DOMAIN Hardware : t = "snmp" \/ Others(t)
  BY DEF Hardware, Others, Legacy
<1>2. Hardware["snmp"] = SnmpForm
  BY DEF Hardware
<1>3. ASSUME NEW t \in DOMAIN Hardware, t # "snmp" PROVE Fits(t, Hardware[t])
  BY <1>1, <1>3, PlainFits, FineFits, SnmpInterfacesFine, BmcFine DEF Hardware
<1> QED BY <1>2, <1>3, SnmpFits

\* The types no longer offered need nothing filled in.
LEMMA SimpleFits == ASSUME NEW type, type # "snmp" PROVE Fits(type, Simple)
<1>1. Fine(Simple, {})
  BY FormFine DEF Simple
<1>2. AllShown(Simple, {} \cup {"warnPercent", "criticalPercent"} \cup {} \cup {} \cup {}, {})
  BY FormIs DEF Simple
<1>3. \A k \in DOMAIN Simple : Simple[k].required = (k \in {})
  BY <1>2, Zenon DEF AllShown
<1>4. \A k \in DOMAIN Simple : ~Simple[k].required
  BY <1>3
<1> QED BY <1>1, <1>4 DEF Fits, Fine

\* The tables of an endpoint's metrics.
LEMMA EndpointMetricsFits == \A t \in DOMAIN EndpointMetrics : Fits(t, EndpointMetrics[t])
<1>1. \A t \in DOMAIN EndpointMetrics : t \in {"host_cpu", "host_memory", "host_disk"} \/ Others(t)
  BY DEF EndpointMetrics, Others, Legacy
<1>2. ASSUME NEW t \in {"host_cpu", "host_memory", "host_disk"} PROVE Fits(t, EndpointMetrics[t])
  BY SimpleFits DEF EndpointMetrics
<1>3. ASSUME NEW t \in DOMAIN EndpointMetrics, t \notin {"host_cpu", "host_memory", "host_disk"} PROVE Fits(t, EndpointMetrics[t])
  BY <1>1, <1>3, PlainFits DEF EndpointMetrics
<1> QED BY <1>2, <1>3

\* The table of every type is what the proof needs.
LEMMA TypesFit == \A t \in DOMAIN CHECK_TYPES : Fits(t, CHECK_TYPES[t])
<1> DEFINE AllFit(group) == \A t \in DOMAIN group : Fits(t, group[t])
<1>1. /\ AllFit(Reachability) /\ AllFit(Web) /\ AllFit(NetworkServices) /\ AllFit(Applications) /\ AllFit(Hardware) /\ AllFit(Virtualization)
      /\ AllFit(EndpointMetrics) /\ AllFit(ServicesAndProcesses) /\ AllFit(FilesAndLogs) /\ AllFit(SystemAndHardware) /\ AllFit(PushSoftwareAndSmart)
  BY ReachabilityFits, WebFits, NetworkServicesFits, ApplicationsFits, HardwareFits, VirtualizationFits, EndpointMetricsFits,
     ServicesAndProcessesFits, FilesAndLogsFits, SystemAndHardwareFits, PushSoftwareAndSmartFits, Zenon
<1> HIDE DEF AllFit
<1>2. \A group \in CheckTypes : AllFit(group)
  BY <1>1 DEF CheckTypes
<1>3. ASSUME NEW t \in DOMAIN CHECK_TYPES PROVE Fits(t, CHECK_TYPES[t])
  <2> DEFINE group == CHOOSE group \in CheckTypes : t \in DOMAIN group
  <2>1. \E g \in CheckTypes : t \in DOMAIN g
    BY DEF CHECK_TYPES
  <2>2. group \in CheckTypes /\ t \in DOMAIN group
    BY <2>1, Zenon
  <2>3. CHECK_TYPES[t] = group[t]
    BY <1>3, Zenon DEF CHECK_TYPES
  <2> HIDE DEF group
  <2> QED BY <1>2, <2>2, <2>3 DEF AllFit
<1> QED BY <1>3

-----------------------------------------------------------------------------
\* Which fields are shown, of the settings as typed and as they are kept.
Holds(config, c) == (Value(config, c.key) \in c.options) = c.holds

\* A field is shown if the conditions of one of its alternatives hold.
LEMMA VisibleIs ==
  ASSUME NEW type, NEW k, NEW config
  PROVE  Visible(type, k, config) <=> \E A \in CHECK_TYPES[type][k].showIf : \A c \in A : Holds(config, c)
  BY Zenon DEF Visible, Holds

\* A condition asks the value of one setting.
LEMMA SameHolds == ASSUME NEW a, NEW b, NEW c, Value(a, c.key) = Value(b, c.key) PROVE Holds(a, c) <=> Holds(b, c)
  BY Zenon DEF Holds

\* The two conditions of a preset are opposites.
LEMMA PresetHolds ==
  ASSUME NEW config
  PROVE  (Holds(config, NoPreset) <=> Value(config, "preset") = "") /\ (Holds(config, Given("preset")) <=> Value(config, "preset") # "")
<1> DEFINE value == Value(config, "preset")  given == Given("preset")
<1>1. NoPreset.key = "preset" /\ NoPreset.options = {""} /\ NoPreset.holds = TRUE
  BY DEF NoPreset, Is
<1>2. given.key = "preset" /\ given.options = {""} /\ given.holds = FALSE
  BY DEF Given, Not
<1> HIDE DEF given
<1>3. Holds(config, NoPreset) <=> ((value \in {""}) = TRUE)
  BY <1>1, Zenon DEF Holds
<1>4. Holds(config, given) <=> ((value \in {""}) = FALSE)
  BY <1>2, Zenon DEF Holds
<1> HIDE DEF value
<1>5. ((value \in {""}) = TRUE <=> value = "") /\ ((value \in {""}) = FALSE <=> value # "")
  BY SMT
<1> QED BY <1>3, <1>4, <1>5, Zenon DEF value, given

IsTable(f) == f = [k \in DOMAIN f |-> f[k]]
Kept(type, config, k) == config[k] # "" /\ (k \in DOMAIN CHECK_TYPES[type] => Visible(type, k, config))

\* What normalizeConfig keeps: what is given, and shown by the settings as they were typed.
LEMMA NormalizeIs ==
  ASSUME NEW type, NEW config
  PROVE  /\ IsTable(normalizeConfig(type, config))
         /\ \A k : k \in DOMAIN normalizeConfig(type, config) <=> k \in DOMAIN config /\ Kept(type, config, k)
         /\ \A k \in DOMAIN normalizeConfig(type, config) : normalizeConfig(type, config)[k] = config[k]
<1> DEFINE shown == {k \in DOMAIN config : config[k] # "" /\ (k \in DOMAIN CHECK_TYPES[type] => Visible(type, k, config))}
           new == normalizeConfig(type, config)
<1>1. \A k : k \in shown <=> k \in DOMAIN config /\ Kept(type, config, k)
  BY Zenon DEF Kept
<1>2. new = [k \in shown |-> config[k]]
  BY DEF normalizeConfig
<1> HIDE DEF shown, new
<1>3. IsTable(new) /\ DOMAIN new = shown /\ \A k \in DOMAIN new : new[k] = config[k]
  BY <1>2 DEF IsTable
<1> QED BY <1>1, <1>3, Zenon DEF new

\* A field that is always shown has the value it was given.
LEMMA AlwaysKept ==
  ASSUME NEW type, NEW config, NEW c, c \in DOMAIN CHECK_TYPES[type] => Visible(type, c, config)
  PROVE  Value(normalizeConfig(type, config), c) = Value(config, c)
<1> DEFINE new == normalizeConfig(type, config)
<1>1. (c \in DOMAIN new <=> c \in DOMAIN config /\ Kept(type, config, c)) /\ \A k \in DOMAIN new : new[k] = config[k]
  BY NormalizeIs, Zenon
<1>2. Kept(type, config, c) <=> config[c] # ""
  BY Zenon DEF Kept
<1> HIDE DEF new
<1>3. Value(new, c) = Value(config, c)
  BY <1>1, <1>2 DEF Value
<1> QED BY <1>3 DEF new

\* What the settings as typed show, those that are kept show.
LEMMA VisibleStays ==
  ASSUME NEW type \in DOMAIN CHECK_TYPES, NEW config, NEW k \in DOMAIN CHECK_TYPES[type], Visible(type, k, config)
  PROVE  Visible(type, k, normalizeConfig(type, config))
<1> DEFINE form == CHECK_TYPES[type]  new == normalizeConfig(type, config)
<1>1. PICK C : Layered(form, C) \/ Moded(form, C)
  BY TypesFit DEF Fits
<1>2. ASSUME NEW c \in C PROVE Value(new, c) = Value(config, c)
  <2>1. form[c].showIf = {{}}
    BY <1>1 DEF Layered, Moded, Open
  <2>2. Visible(type, c, config)
    BY <2>1, VisibleIs
  <2> QED BY <2>2, AlwaysKept
<1>3. PICK A \in form[k].showIf : \A c \in A : Holds(config, c)
  BY VisibleIs
<1>4. CASE \A c \in A : c.key \in C
  <2>1. \A c \in A : Holds(new, c)
    BY <1>2, <1>3, <1>4, SameHolds
  <2> QED BY <2>1, VisibleIs
<1>5. CASE \E c \in A : c.key \notin C
  <2>1. Moded(form, C) /\ \E c \in A : ByMode(form, k, A, c)
    BY <1>1, <1>5 DEF Layered, Moded
  <2>2. form["mode"].showIf = {{NoPreset}} /\ "preset" \in C
    BY <2>1 DEF Moded
  <2>3. CASE Value(config, "preset") = ""
    <3>1. Visible(type, "mode", config)
      <4>1. Holds(config, NoPreset)
        BY <2>3, PresetHolds, Zenon
      <4>2. \A c \in {NoPreset} : Holds(config, c)
        BY <4>1
      <4>3. {NoPreset} \in CHECK_TYPES[type]["mode"].showIf
        BY <2>2
      <4> QED BY <4>2, <4>3, VisibleIs, Zenon
    <3>2. Value(new, "mode") = Value(config, "mode")
      BY <3>1, AlwaysKept
    <3>3. \A c \in A : c.key \in C \/ c.key = "mode"
      BY <2>1 DEF Moded, ByMode
    <3>4. \A c \in A : Holds(new, c)
      BY <1>2, <1>3, <3>2, <3>3, SameHolds
    <3> QED BY <3>4, VisibleIs
  <2>4. CASE Value(config, "preset") # ""
    <3>1. NoPreset \notin A
      BY <1>3, <2>4, PresetHolds
    <3>2. {Given("preset")} \in form[k].showIf
      BY <2>1, <3>1 DEF ByMode
    <3>3. Holds(new, Given("preset"))
      <4>1. Value(new, "preset") # ""
        BY <1>2, <2>2, <2>4
      <4> QED BY <4>1, PresetHolds, Zenon
    <3> QED BY <3>2, <3>3, VisibleIs
  <2> QED BY <2>3, <2>4
<1> QED BY <1>4, <1>5

\* What is shown depends on no secret.
LEMMA VisibleSame ==
  ASSUME NEW type \in DOMAIN CHECK_TYPES, NEW a, NEW b, \A c : c \notin SECRET_KEYS => Value(a, c) = Value(b, c), NEW k \in DOMAIN CHECK_TYPES[type]
  PROVE  Visible(type, k, a) => Visible(type, k, b)
<1> DEFINE form == CHECK_TYPES[type]
<1>1. PICK C : Layered(form, C) \/ Moded(form, C)
  BY TypesFit DEF Fits
<1>2. \A c \in C : c \notin SECRET_KEYS
  BY <1>1 DEF Layered, Moded, Open
<1>3. "mode" \notin SECRET_KEYS
  BY DEF SECRET_KEYS
<1>4. \A A \in form[k].showIf : \A c \in A : c.key \notin SECRET_KEYS
  BY <1>1, <1>2, <1>3 DEF Layered, Moded, ByMode
<1> HIDE DEF form
<1>5. \A A \in form[k].showIf : \A c \in A : Holds(a, c) => Holds(b, c)
  BY <1>4, SameHolds
<1> QED BY <1>5, VisibleIs, Zenon DEF form

\* What maskConfig does to each setting.
LEMMA MaskIs ==
  ASSUME NEW config
  PROVE  /\ IsTable(maskConfig(config)) /\ DOMAIN maskConfig(config) = DOMAIN config
         /\ \A k \in DOMAIN config : maskConfig(config)[k] = IF k \in SECRET_KEYS /\ config[k] # "" THEN MASK ELSE config[k]
  BY DEF maskConfig, IsTable

\* The secrets that are kept, if none is masked that was not there.
KeptOld(a, b, k) == k \in SECRET_KEYS /\ k \in DOMAIN b /\ (k \notin DOMAIN a \/ a[k] = MASK)

\* What mergeSecrets does to each setting.
LEMMA MergeIs ==
  ASSUME NEW a, NEW b, \A k \in DOMAIN a : a[k] = MASK => k \in SECRET_KEYS /\ k \in DOMAIN b
  PROVE  /\ IsTable(mergeSecrets(a, b))
         /\ \A k : k \in DOMAIN mergeSecrets(a, b) <=> k \in DOMAIN a \/ (k \in SECRET_KEYS /\ k \in DOMAIN b)
         /\ \A k \in DOMAIN mergeSecrets(a, b) : mergeSecrets(a, b)[k] = IF KeptOld(a, b, k) THEN b[k] ELSE a[k]
<1> DEFINE kept == {k \in SECRET_KEYS \cap DOMAIN b : k \notin DOMAIN a \/ a[k] = MASK}
           unknown == {k \in DOMAIN a \ DOMAIN b : k \in SECRET_KEYS /\ a[k] = MASK}
           new == mergeSecrets(a, b)
<1>1. new = [k \in (DOMAIN a \cup kept) \ unknown |-> IF k \in kept THEN b[k] ELSE a[k]]
  BY Zenon DEF mergeSecrets
<1>2. \A k : k \in kept <=> KeptOld(a, b, k)
  BY DEF KeptOld
<1>3. \A k : k \notin unknown
  OBVIOUS
<1> HIDE DEF kept, unknown, new
<1>4. DOMAIN new = DOMAIN a \cup kept /\ (\A k \in DOMAIN new : new[k] = IF k \in kept THEN b[k] ELSE a[k]) /\ IsTable(new)
  BY <1>1, <1>3 DEF IsTable
<1>5. \A k : k \in DOMAIN new <=> k \in DOMAIN a \/ (k \in SECRET_KEYS /\ k \in DOMAIN b)
  BY <1>2, <1>4 DEF KeptOld
<1>6. \A k \in DOMAIN new : new[k] = IF KeptOld(a, b, k) THEN b[k] ELSE a[k]
  BY <1>2, <1>4
<1> QED BY <1>4, <1>5, <1>6 DEF new

-----------------------------------------------------------------------------
(* The invariant: what is stored is whole, and a form has a mask only where  *)
(* a secret is stored.                                                       *)
Keys(type) == DOMAIN CHECK_TYPES[type] \cup Extras(type)
Sound(type, stored) ==
  /\ IsTable(stored) /\ DOMAIN stored \subseteq Keys(type)
  /\ \A k \in DOMAIN stored : stored[k] # "" /\ stored[k] # MASK
  /\ \A k \in DOMAIN stored : k \notin SECRET_KEYS /\ k \in DOMAIN CHECK_TYPES[type] => Visible(type, k, stored)
  /\ validateConfig(type, stored)
Typed(type, form, stored) ==
  /\ IsTable(form) /\ DOMAIN form \subseteq Keys(type)
  /\ \A k \in DOMAIN form : form[k] = MASK => stored # None /\ k \in SECRET_KEYS /\ k \in DOMAIN stored
FormInv ==
  /\ fmType \in DOMAIN CHECK_TYPES
  /\ fmStored # None => Sound(fmType, fmStored)
  /\ fmForm # None => Typed(fmType, fmForm, fmStored)

\* What is shown and required is given.
LEMMA ValidIs ==
  ASSUME NEW type, NEW config
  PROVE  validateConfig(type, config) <=>
           \A k \in DOMAIN CHECK_TYPES[type] : Visible(type, k, config) /\ CHECK_TYPES[type][k].required => Value(config, k) # ""
  BY Zenon DEF validateConfig, Shown

\* What is stored in place of settings that may be saved: they themselves, but for secrets that are kept.
LEMMA MergedIsSound ==
  ASSUME NEW type \in DOMAIN CHECK_TYPES, NEW new, NEW saved, IsTable(saved), DOMAIN saved \subseteq Keys(type), validateConfig(type, new),
         \A k \in DOMAIN saved : saved[k] # "" /\ saved[k] # MASK,
         \A k : k \notin SECRET_KEYS => Value(saved, k) = Value(new, k),
         \A k \in DOMAIN new : k \in DOMAIN saved,
         \A k \in DOMAIN saved : k \notin SECRET_KEYS => k \in DOMAIN new,
         \A k \in DOMAIN new : k \in DOMAIN CHECK_TYPES[type] => Visible(type, k, new)
  PROVE  Sound(type, saved)
<1>1. \A k \in DOMAIN saved : k \notin SECRET_KEYS /\ k \in DOMAIN CHECK_TYPES[type] => Visible(type, k, saved)
  BY VisibleSame
<1>2. ASSUME NEW k \in DOMAIN CHECK_TYPES[type], Visible(type, k, saved), CHECK_TYPES[type][k].required PROVE Value(saved, k) # ""
  <2>1. Visible(type, k, new)
    BY <1>2, VisibleSame
  <2>2. Value(new, k) # ""
    BY <1>2, <2>1, ValidIs, Zenon
  <2>3. k \in DOMAIN new
    BY <2>2 DEF Value
  <2> QED BY <2>3 DEF Value
<1>3. validateConfig(type, saved)
  BY <1>2, ValidIs, Zenon
<1> QED BY <1>1, <1>3 DEF Sound

\* A save stores what is sound.
LEMMA SavedIsSound ==
  ASSUME NEW type \in DOMAIN CHECK_TYPES, NEW form, NEW stored, Typed(type, form, stored), stored # None => Sound(type, stored),
         validateConfig(type, normalizeConfig(type, form))
  PROVE  Sound(type, Saved(type, form, stored))
<1> DEFINE new == normalizeConfig(type, form)  saved == Saved(type, form, stored)
<1>1. IsTable(new) /\ (\A k : k \in DOMAIN new <=> k \in DOMAIN form /\ Kept(type, form, k)) /\ \A k \in DOMAIN new : new[k] = form[k]
  BY NormalizeIs
<1>2. \A k \in DOMAIN new : k \in DOMAIN CHECK_TYPES[type] => Visible(type, k, new)
  BY <1>1, VisibleStays DEF Kept
<1>3. \A k \in DOMAIN new : k \in Keys(type) /\ new[k] # "" /\ (new[k] = MASK => stored # None /\ k \in SECRET_KEYS /\ k \in DOMAIN stored)
  BY <1>1 DEF Kept, Typed
<1>4. validateConfig(type, new)
  OBVIOUS
<1>5. saved = IF stored = None THEN new ELSE mergeSecrets(new, stored)
  BY Zenon DEF Saved
<1> HIDE DEF new, saved
<1>6. CASE stored = None
  BY <1>1, <1>2, <1>3, <1>4, <1>5, <1>6, MergedIsSound DEF saved
<1>7. CASE stored # None
  <2>1. /\ IsTable(saved)
        /\ \A k : k \in DOMAIN saved <=> k \in DOMAIN new \/ (k \in SECRET_KEYS /\ k \in DOMAIN stored)
        /\ \A k \in DOMAIN saved : saved[k] = IF KeptOld(new, stored, k) THEN stored[k] ELSE new[k]
    BY <1>3, <1>5, <1>7, MergeIs
  <2>2. /\ DOMAIN stored \subseteq Keys(type)
        /\ \A k \in DOMAIN stored : stored[k] # "" /\ stored[k] # MASK
    BY <1>7 DEF Sound
  <2>3. DOMAIN saved \subseteq Keys(type)
    BY <1>3, <2>1, <2>2
  <2>4. \A k \in DOMAIN saved : saved[k] # "" /\ saved[k] # MASK
    BY <1>3, <2>1, <2>2 DEF KeptOld
  <2>5. ASSUME NEW k, k \notin SECRET_KEYS PROVE Value(saved, k) = Value(new, k)
    BY <2>1, <2>5 DEF KeptOld, Value
  <2> QED BY <1>2, <1>4, <2>1, <2>3, <2>4, <2>5, MergedIsSound DEF saved
<1> QED BY <1>6, <1>7

\* To open what is sound and save it as it is changes nothing.
LEMMA SavedAgain ==
  ASSUME NEW type \in DOMAIN CHECK_TYPES, NEW stored, stored # None, Sound(type, stored)
  PROVE  /\ \A k \in DOMAIN stored \ SECRET_KEYS : k \in Shown(type, maskConfig(stored)) \cup Extras(type)
         /\ Saved(type, maskConfig(stored), stored) = stored
<1> DEFINE opened == maskConfig(stored)  new == normalizeConfig(type, opened)  saved == mergeSecrets(new, stored)
<1>1. /\ IsTable(stored) /\ DOMAIN stored \subseteq Keys(type)
      /\ \A k \in DOMAIN stored : stored[k] # "" /\ stored[k] # MASK
      /\ \A k \in DOMAIN stored : k \notin SECRET_KEYS /\ k \in DOMAIN CHECK_TYPES[type] => Visible(type, k, stored)
  BY DEF Sound
<1>2. DOMAIN opened = DOMAIN stored /\ \A k \in DOMAIN stored : opened[k] = IF k \in SECRET_KEYS THEN MASK ELSE stored[k]
  BY <1>1, MaskIs
<1>3. (\A k : k \in DOMAIN new <=> k \in DOMAIN opened /\ Kept(type, opened, k)) /\ \A k \in DOMAIN new : new[k] = opened[k]
  BY NormalizeIs
<1>4. Saved(type, opened, stored) = saved
  BY Zenon DEF Saved
<1> HIDE DEF opened, new
<1>5. \A c : c \notin SECRET_KEYS => Value(stored, c) = Value(opened, c)
  BY <1>2 DEF Value
<1>6. \A k \in DOMAIN stored : k \notin SECRET_KEYS /\ k \in DOMAIN CHECK_TYPES[type] => Visible(type, k, opened)
  BY <1>1, <1>5, VisibleSame
<1>7. \A k \in DOMAIN stored \ SECRET_KEYS : k \in Shown(type, opened) \cup Extras(type)
  BY <1>1, <1>6 DEF Shown, Keys
<1>8. \A k \in DOMAIN stored : k \notin SECRET_KEYS => k \in DOMAIN new
  BY <1>1, <1>2, <1>3, <1>6 DEF Kept
<1>9. \A k \in DOMAIN new : new[k] = MASK => k \in SECRET_KEYS /\ k \in DOMAIN stored
  BY <1>1, <1>2, <1>3
<1>10. /\ IsTable(saved)
       /\ \A k : k \in DOMAIN saved <=> k \in DOMAIN new \/ (k \in SECRET_KEYS /\ k \in DOMAIN stored)
       /\ \A k \in DOMAIN saved : saved[k] = IF KeptOld(new, stored, k) THEN stored[k] ELSE new[k]
  BY <1>9, MergeIs
<1> HIDE DEF saved
<1>11. DOMAIN saved = DOMAIN stored
  BY <1>2, <1>3, <1>8, <1>10
<1>12. \A k \in DOMAIN stored : saved[k] = stored[k]
  BY <1>2, <1>3, <1>10, <1>11 DEF KeptOld
<1>13. saved = stored
  BY <1>1, <1>10, <1>11, <1>12 DEF IsTable
<1> QED BY <1>4, <1>7, <1>13 DEF opened

\* The property, of what is sound.
LEMMA SoundFits == ASSUME FormInv PROVE SavedConfigFits
<1> SUFFICES ASSUME fmStored # None PROVE SavedConfigFits
  BY DEF SavedConfigFits
<1>1. fmType \in DOMAIN CHECK_TYPES /\ Sound(fmType, fmStored)
  BY DEF FormInv
<1>2. (\A k \in DOMAIN fmStored : fmStored[k] \notin {"", MASK}) /\ validateConfig(fmType, fmStored)
  BY <1>1 DEF Sound
<1> QED BY <1>1, <1>2, SavedAgain, Zenon DEF SavedConfigFits

-----------------------------------------------------------------------------
\* The form, opened and changed.
LEMMA TypedAfter ==
  ASSUME NEW type, NEW form, NEW stored, Typed(type, form, stored), NEW new, IsTable(new),
         \A k \in DOMAIN new : (k \in DOMAIN form /\ new[k] = form[k]) \/ (k \in Keys(type) /\ new[k] # MASK)
  PROVE  Typed(type, new, stored)
  BY DEF Typed

\* A setting is changed: never to the mask.
LEMMA SetTyped ==
  ASSUME FormInv, NEW key \in Keys(fmType), NEW value, value # MASK, Set(key, value)
  PROVE  FormInv'
<1>1. fmForm' = With(fmForm, key, value) /\ fmForm # None /\ UNCHANGED <<fmType, fmStored>>
  BY DEF Set, Changing
<1>2. Typed(fmType, fmForm, fmStored)
  BY <1>1 DEF FormInv
<1>3. IsTable(fmForm') /\ \A k \in DOMAIN fmForm' : (k \in DOMAIN fmForm /\ fmForm'[k] = fmForm[k]) \/ (k \in Keys(fmType) /\ fmForm'[k] # MASK)
  BY <1>1 DEF With, IsTable
<1>4. Typed(fmType, fmForm', fmStored)
  BY <1>2, <1>3, TypedAfter
<1> QED BY <1>1, <1>4 DEF FormInv

\* The form is opened, with defaults or with what is stored.
LEMMA OpenFormTyped == ASSUME FormInv, OpenForm PROVE FormInv'
<1>1. fmForm' = (IF fmStored = None THEN defaultConfigFor(fmType) ELSE maskConfig(fmStored)) /\ UNCHANGED <<fmType, fmStored>>
  BY DEF OpenForm
<1>2. CASE fmStored = None
  <2> DEFINE types == CHECK_TYPES[fmType]  new == defaultConfigFor(fmType)
  <2>1. \A k \in DOMAIN types : types[k].default # MASK
    BY TypesFit DEF FormInv, Fits, Sane
  <2>2. new = [k \in {k \in DOMAIN types : types[k].default # ""} |-> types[k].default]
    BY Zenon DEF defaultConfigFor
  <2> HIDE DEF types, new
  <2>3. IsTable(new) /\ DOMAIN new \subseteq DOMAIN types /\ \A k \in DOMAIN new : new[k] # MASK
    BY <2>1, <2>2 DEF IsTable
  <2>4. Typed(fmType, new, fmStored)
    BY <2>3 DEF Typed, Keys, types
  <2> QED BY <1>1, <1>2, <2>4 DEF FormInv, new
<1>3. CASE fmStored # None
  <2>1. Sound(fmType, fmStored)
    BY <1>3 DEF FormInv
  <2>2. Typed(fmType, maskConfig(fmStored), fmStored)
    BY <1>3, <2>1, MaskIs DEF Sound, Typed
  <2> QED BY <1>1, <1>3, <2>2 DEF FormInv
<1> QED BY <1>2, <1>3

\* A field that is shown is changed.
LEMMA EditTyped == ASSUME FormInv, Edit PROVE FormInv'
<1>1. PICK k \in Shown(fmType, fmForm) : \E v \in Inputs(CHECK_TYPES[fmType][k]) : Set(k, v)
  BY DEF Edit
<1>2. PICK v \in Inputs(CHECK_TYPES[fmType][k]) : Set(k, v)
  BY <1>1
<1>3. k \in DOMAIN CHECK_TYPES[fmType]
  BY <1>1 DEF Shown
<1>4. MASK \notin CHECK_TYPES[fmType][k].options
  BY <1>3, TypesFit DEF FormInv, Fits, Sane
<1>5. v # MASK
  BY <1>2, <1>4 DEF Inputs, MASK
<1> QED BY <1>2, <1>3, <1>5, SetTyped DEF Keys

\* A setting of every check is changed.
LEMMA EditExtraTyped == ASSUME FormInv, EditExtra PROVE FormInv'
<1>1. PICK k \in Extras(fmType), v \in {"", "given"} : Set(k, v)
  BY DEF EditExtra
<1> QED BY <1>1, SetTyped DEF Keys, MASK

\* Every address is filled in.
LEMMA TargetEachTyped == ASSUME FormInv, TargetEach PROVE FormInv'
<1> DEFINE keys == ADDRESS_KEYS \cap DOMAIN CHECK_TYPES[fmType]
<1>1. /\ fmForm' = [k \in DOMAIN fmForm \cup keys |-> IF k \in ADDRESS_KEYS THEN "given" ELSE fmForm[k]]
      /\ fmForm # None /\ UNCHANGED <<fmType, fmStored>>
  BY DEF TargetEach, Changing
<1>2. Typed(fmType, fmForm, fmStored)
  BY <1>1 DEF FormInv
<1>3. keys \subseteq Keys(fmType)
  BY DEF Keys
<1> HIDE DEF keys
<1>4. IsTable(fmForm') /\ \A k \in DOMAIN fmForm' : (k \in DOMAIN fmForm /\ fmForm'[k] = fmForm[k]) \/ (k \in Keys(fmType) /\ fmForm'[k] # MASK)
  <2>1. DOMAIN fmForm \cup keys \subseteq Keys(fmType)
    BY <1>2, <1>3 DEF Typed
  <2>2. /\ IsTable(fmForm') /\ DOMAIN fmForm' = DOMAIN fmForm \cup keys
        /\ \A k \in DOMAIN fmForm' : fmForm'[k] = IF k \in ADDRESS_KEYS THEN "given" ELSE fmForm[k]
    BY <1>1 DEF IsTable
  <2>3. \A k \in DOMAIN fmForm' : k \in Keys(fmType) /\ (k \in keys => k \in ADDRESS_KEYS)
    BY <2>1, <2>2 DEF keys
  <2> QED BY <2>2, <2>3 DEF MASK
<1>5. Typed(fmType, fmForm', fmStored)
  BY <1>2, <1>4, TypedAfter
<1> QED BY <1>1, <1>5 DEF FormInv

\* A row of the device's values is picked.
LEMMA PickOidTyped == ASSUME FormInv, PickOid PROVE FormInv'
<1>1. PICK hints \in {{}, {"asRate"}, {"unit", "scale"}} :
        fmForm' = [k \in DOMAIN fmForm \cup {"preset", "oid"} \cup hints |-> IF k = "preset" THEN "" ELSE IF k \in {"oid"} \cup hints THEN "given" ELSE fmForm[k]]
  BY DEF PickOid
<1>2. fmForm # None /\ fmType = "snmp" /\ UNCHANGED <<fmType, fmStored>>
  BY DEF PickOid, Walked, Changing
<1>3. Typed(fmType, fmForm, fmStored)
  BY <1>2 DEF FormInv
<1>4. {"preset", "oid"} \cup hints \subseteq Keys(fmType)
  <2>1. {"preset", "oid", "asRate", "unit", "scale", "extraOids"} \subseteq DOMAIN CHECK_TYPES[fmType]
    BY <1>2, TypesFit DEF FormInv, Fits
  <2>2. {"preset", "oid"} \cup hints \subseteq {"preset", "oid", "asRate", "unit", "scale", "extraOids"}
    BY <1>1
  <2> QED BY <2>1, <2>2 DEF Keys
<1>5. IsTable(fmForm') /\ \A k \in DOMAIN fmForm' : (k \in DOMAIN fmForm /\ fmForm'[k] = fmForm[k]) \/ (k \in Keys(fmType) /\ fmForm'[k] # MASK)
  BY <1>1, <1>4 DEF IsTable, MASK
<1>6. Typed(fmType, fmForm', fmStored)
  BY <1>3, <1>5, TypedAfter
<1> QED BY <1>2, <1>6 DEF FormInv

\* Or added.
LEMMA AddExtraTyped == ASSUME FormInv, AddExtra PROVE FormInv'
<1>1. "extraOids" \in Keys(fmType)
  BY TypesFit DEF AddExtra, Walked, FormInv, Fits, Keys
<1>2. Set("extraOids", "given") /\ "given" # MASK
  BY DEF AddExtra, MASK
<1> QED BY <1>1, <1>2, SetTyped

\* The form is saved.
LEMMA SaveSound == ASSUME FormInv, Save PROVE FormInv'
<1>1. /\ fmForm # None /\ validateConfig(fmType, normalizeConfig(fmType, fmForm))
      /\ fmStored' = Saved(fmType, fmForm, fmStored) /\ fmForm' = None /\ fmType' = fmType
  BY DEF Save
<1>2. Sound(fmType, Saved(fmType, fmForm, fmStored))
  BY <1>1, SavedIsSound DEF FormInv
<1> QED BY <1>1, <1>2 DEF FormInv

\* A new check, and an old one without settings.
LEMMA FormStarts == ASSUME FormInit PROVE FormInv
<1>1. fmType \in DOMAIN CHECK_TYPES /\ fmForm = None
  BY DEF FormInit
<1>2. ASSUME fmType \in Legacy, fmStored = [k \in {} |-> ""] PROVE Sound(fmType, fmStored)
  <2>1. IsTable(fmStored) /\ DOMAIN fmStored = {}
    BY <1>2 DEF IsTable
  <2>2. \A k \in DOMAIN CHECK_TYPES[fmType] : ~CHECK_TYPES[fmType][k].required
    BY <1>1, <1>2, TypesFit DEF Fits
  <2>3. validateConfig(fmType, fmStored)
    BY <2>2, ValidIs
  <2> QED BY <2>1, <2>3 DEF Sound
<1>3. fmStored # None => Sound(fmType, fmStored)
  BY <1>2 DEF FormInit
<1> QED BY <1>1, <1>3 DEF FormInv

(* A save stores what whoever opens the check next is shown: for every       *)
(* sequence of changes to a form of any type, nothing is stored that is      *)
(* hidden and no secret, nothing required is missing, no mask is stored as a *)
(* secret, and to save it as it is changes nothing (checkTypes.ts:997-1016,  *)
(* secrets.ts:32-44).                                                        *)
THEOREM WhatIsSavedFits == FormInit /\ [][FormNext]_fmvars => []SavedConfigFits
<1>1. FormInit => FormInv
  BY FormStarts
<1>2. ASSUME FormInv, [FormNext]_fmvars PROVE FormInv'
  <2>1. CASE OpenForm
    BY <1>2, <2>1, OpenFormTyped
  <2>2. CASE Cancel
    BY <1>2, <2>2 DEF Cancel, FormInv
  <2>3. CASE Edit
    BY <1>2, <2>3, EditTyped
  <2>4. CASE EditExtra
    BY <1>2, <2>4, EditExtraTyped
  <2>5. CASE TargetEach
    BY <1>2, <2>5, TargetEachTyped
  <2>6. CASE PickOid
    BY <1>2, <2>6, PickOidTyped
  <2>7. CASE AddExtra
    BY <1>2, <2>7, AddExtraTyped
  <2>8. CASE Save
    BY <1>2, <2>8, SaveSound
  <2>9. CASE UNCHANGED fmvars
    BY <1>2, <2>9 DEF fmvars, FormInv
  <2> QED BY <1>2, <2>1, <2>2, <2>3, <2>4, <2>5, <2>6, <2>7, <2>8, <2>9 DEF FormNext
<1>3. FormInv => SavedConfigFits
  BY SoundFits
<1> QED BY <1>1, <1>2, <1>3, PTL
=============================================================================
