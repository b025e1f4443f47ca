------------------------------- MODULE Security -------------------------------
(* What keeps requests out and whom it must not keep out: the settings and   *)
(* their cached copy, the gate in front of every route, security logged, the *)
(* rules that notify or block, and signing in (services/security.ts,         *)
(* middleware/, routes/security.ts, routes/auth.ts).  Passwords, codes and   *)
(* keys are right or wrong.                                                  *)
EXTENDS Nothing, Naturals, FiniteSets
CONSTANTS Addresses,
          Rules, RuleRows,       \* the rules and what they may say
          Settings,              \* the settings to begin with
          Requests,              \* the changes asked of them: enabled and list, None for unchanged
          LockoutThreshold,
          MaxLogged              \* bound on the events recorded
SettingsRow == [enabled : BOOLEAN, list : SUBSET Addresses, agents : BOOLEAN]
ASSUME SettingsAssumption == Settings \subseteq SettingsRow /\ Requests \subseteq [enabled : BOOLEAN \cup {None}, list : (SUBSET Addresses) \cup {None}]

VARIABLES settings,      \* allowlist: whether it is on, its addresses, and whether it covers agents
          settingsCache, \* a row of them and whether it is under 10 s old, or None
          beingRead,       \* the rows that are being read for the cache
          changing,      \* a change of the settings that has passed its check, or None
          rules,
          blocks,        \* blocked addresses, and whether by a rule
          trusted,       \* addresses the account has signed in from
          agents,        \* addresses working agents check in from
          logged,        \* the events in the window, numbered by kind and address
          evaluating,    \* evaluations of a rule under way
          fired,         \* the rules (and addresses) cooling down, in memory
          challenges,    \* sign-ins that wait for their second step
          sessions,      \* where sessions were begun
          told,          \* (history) how often a rule (and address) fired in its cooldown
          strangers,     \* (history) addresses that have at some time been off the list, and not been trusted
          shut           \* (history) those shut out by their own change of the settings
secvars == <<settings, settingsCache, beingRead, changing, rules, blocks, trusted, agents, logged, evaluating, fired, challenges, sessions, told, strangers, shut>>

Times(kinds, ips) == Cardinality({x \in logged : x.kind \in kinds /\ x.ip \in ips})
Total == Cardinality(logged)
Key(r, ip) == <<r, IF rules[r].perIp THEN ip ELSE None>>
Keys == Rules \X (Addresses \cup {None})

-----------------------------------------------------------------------------
(* getSecuritySettings: what is over 10 s old is read again; a row that was  *)
(* being read when the settings changed becomes the copy all the same.       *)
Fresh == IF settingsCache = None THEN FALSE ELSE settingsCache.fresh
Current == settingsCache.row
ReadSettings == ~Fresh /\ beingRead = {} /\ beingRead' = {[row |-> settings, behind |-> FALSE]}
  /\ UNCHANGED <<settings, settingsCache, changing, rules, blocks, trusted, agents, logged, evaluating, fired, challenges, sessions, told, shut>>
SettingsRead(x) == settingsCache' = [row |-> x.row, behind |-> x.behind, fresh |-> TRUE] /\ beingRead' = {}
  /\ UNCHANGED <<settings, changing, rules, blocks, trusted, agents, logged, evaluating, fired, challenges, sessions, told, shut>>
CacheExpires == Fresh /\ settingsCache' = [settingsCache EXCEPT !.fresh = FALSE]
  /\ UNCHANGED <<settings, beingRead, changing, rules, blocks, trusted, agents, logged, evaluating, fired, challenges, sessions, told, shut>>
(* Addresses that are blocked (its copy is under 10 s old, and left out), and *)
(* those working agents check in from.                                       *)
isBlocked(ip) == ip \in {b.ip : b \in blocks}
isAgentAddress(ip) == ip \in agents
Listed(row, ip) == row.enabled /\ row.list # {} => ip \in row.list
(* securityGate, in front of every route; agents' routes are covered by the  *)
(* allowlist if the settings say so.                                         *)
securityGate(ip, machine) == Fresh /\ ~isBlocked(ip) /\ ((machine /\ ~Current.agents) \/ Listed(Current, ip))

(* The settings' route: the change is checked against the copy, then written. *)
CheckChange(a) ==
  /\ changing = None /\ securityGate(a, FALSE) /\ a \in sessions
  /\ \E to \in Requests :
       LET row == [Current EXCEPT !.enabled = IF to.enabled = None THEN @ ELSE to.enabled, !.list = IF to.list = None THEN @ ELSE to.list] IN
       /\ row.enabled => row.list # {} /\ a \in row.list
       /\ changing' = [by |-> a, to |-> to, behind |-> settingsCache.behind]
  /\ UNCHANGED <<settings, settingsCache, beingRead, rules, blocks, trusted, agents, logged, evaluating, fired, challenges, sessions, told, shut>>
invalidateSecurityCache == settingsCache' = None /\ beingRead' = {[x EXCEPT !.behind = TRUE] : x \in beingRead}
WriteChange ==
  /\ changing # None /\ changing' = None /\ invalidateSecurityCache
  /\ settings' = [settings EXCEPT !.enabled = IF changing.to.enabled = None THEN @ ELSE changing.to.enabled, !.list = IF changing.to.list = None THEN @ ELSE changing.to.list]
  /\ shut' = IF ~changing.behind /\ ~Listed(settings', changing.by) THEN shut \cup {changing.by} ELSE shut
  /\ UNCHANGED <<rules, blocks, trusted, agents, logged, evaluating, fired, challenges, sessions, told>>
(* npm run security:reset, in a process of its own: the copy stays. *)
securityReset ==
  /\ settings' = [settings EXCEPT !.enabled = FALSE] /\ blocks' = {}
  /\ beingRead' = {[x EXCEPT !.behind = TRUE] : x \in beingRead}
  /\ settingsCache' = IF settingsCache = None THEN None ELSE [settingsCache EXCEPT !.behind = TRUE]
  /\ changing' = IF changing = None THEN None ELSE [changing EXCEPT !.behind = TRUE]
  /\ UNCHANGED <<rules, trusted, agents, logged, evaluating, fired, challenges, sessions, told, shut>>

-----------------------------------------------------------------------------
(* An event is recorded, and each rule about its kind is evaluated: counted  *)
(* and its cooldown begun in one go, the rest some queries later.            *)
recordSecurityEvent(kind, ip) ==
  /\ Total < MaxLogged /\ logged' = logged \cup {[kind |-> kind, ip |-> ip, nth |-> Times({kind}, {ip}) + 1]}
  /\ evaluating' = evaluating \cup {[rule |-> r, ip |-> ip, kind |-> kind, step |-> "count"] : r \in {r \in Rules : rules[r].enabled /\ kind \in rules[r].kinds}}
\* A mutant: the allowlist is not asked.
OnlyTrusted(ip) == ip \in trusted
isOwnAddress(ip) == ip \in Current.list \/ ip \in trusted
Due(x) == /\ Times(rules[x.rule].kinds, IF rules[x.rule].perIp THEN {x.ip} ELSE Addresses) >= rules[x.rule].threshold
          /\ Key(x.rule, x.ip) \notin fired
Fires(x) ==
  /\ x.step = "count" /\ evaluating' = (evaluating \ {x}) \cup (IF Due(x) THEN {[x EXCEPT !.step = "fire"]} ELSE {})
  /\ IF Due(x) THEN fired' = fired \cup {Key(x.rule, x.ip)} /\ told' = [told EXCEPT ![Key(x.rule, x.ip)] = @ + 1] ELSE UNCHANGED <<fired, told>>
  /\ UNCHANGED <<settings, settingsCache, beingRead, changing, rules, blocks, trusted, agents, logged, challenges, sessions, shut>>
(* Whether the address is blocked: not one's own, nor one of working agents  *)
(* for a wrong key.                                                          *)
MayBlock(x) == /\ rules[x.rule].blocks /\ ~isBlocked(x.ip) /\ ~isOwnAddress(x.ip)
               /\ ~(x.kind = "bad_agent_key" /\ isAgentAddress(x.ip))
Decides(x) ==
  /\ x.step = "fire" /\ Fresh
  /\ evaluating' = (evaluating \ {x}) \cup (IF MayBlock(x) THEN {[x EXCEPT !.step = "block"]} ELSE {})
  /\ UNCHANGED <<settings, settingsCache, beingRead, changing, rules, blocks, trusted, agents, logged, fired, challenges, sessions, told, shut>>
blockIp(x) ==
  /\ x.step = "block" /\ evaluating' = evaluating \ {x}
  /\ blocks' = blocks \cup {[ip |-> x.ip, auto |-> TRUE]}
  /\ UNCHANGED <<settings, settingsCache, beingRead, changing, rules, trusted, agents, logged, fired, challenges, sessions, told, shut>>
WindowPasses == logged # {} /\ logged' = {}
  /\ UNCHANGED <<settings, settingsCache, beingRead, changing, rules, blocks, trusted, agents, evaluating, fired, challenges, sessions, told, shut>>
CooldownEnds(key) == key \in fired /\ fired' = fired \ {key} /\ told' = [told EXCEPT ![key] = 0]
  /\ UNCHANGED <<settings, settingsCache, beingRead, changing, rules, blocks, trusted, agents, logged, evaluating, challenges, sessions, shut>>
BlockEnds(b) == blocks' = blocks \ {b}
  /\ UNCHANGED <<settings, settingsCache, beingRead, changing, rules, trusted, agents, logged, evaluating, fired, challenges, sessions, told, shut>>

-----------------------------------------------------------------------------
(* Requests.  Those the gate refuses. *)
Denied(ip) ==
  /\ Fresh /\ ~isBlocked(ip) /\ ~Listed(Current, ip) /\ recordSecurityEvent("allowlist_denied", ip)
  /\ UNCHANGED <<settings, settingsCache, beingRead, changing, rules, blocks, trusted, agents, fired, challenges, sessions, told, shut>>
lockedOut(ip) == LET failures(ips) == Times({"login_failed", "totp_failed"}, ips) IN
  /\ LockoutThreshold > 0
  /\ failures({ip}) >= LockoutThreshold \/ (failures(Addresses) >= LockoutThreshold /\ ip \notin trusted)
Login(ip, right) ==
  /\ securityGate(ip, FALSE)
  /\ IF lockedOut(ip) THEN recordSecurityEvent("login_locked", ip) /\ UNCHANGED challenges
     ELSE IF ~right THEN recordSecurityEvent("login_failed", ip) /\ UNCHANGED challenges
     ELSE challenges' = challenges \cup {ip} /\ UNCHANGED <<logged, evaluating>>
  /\ UNCHANGED <<settings, settingsCache, beingRead, changing, rules, blocks, trusted, agents, fired, sessions, told, shut>>
(* The second step, from the same address; a new address is an event, except *)
(* the first ever.                                                           *)
Verify(ip, right) ==
  /\ securityGate(ip, FALSE) /\ ip \in challenges
  /\ IF ~right THEN recordSecurityEvent("totp_failed", ip) /\ UNCHANGED <<challenges, trusted, sessions>>
     ELSE /\ challenges' = challenges \ {ip} /\ trusted' = trusted \cup {ip} /\ sessions' = sessions \cup {ip}
          /\ IF trusted \ {ip} # {} /\ ip \notin trusted THEN recordSecurityEvent("login_new_ip", ip) ELSE UNCHANGED <<logged, evaluating>>
  /\ UNCHANGED <<settings, settingsCache, beingRead, changing, rules, blocks, agents, fired, told, shut>>
requireAgentAuth(ip, right) ==
  /\ securityGate(ip, TRUE)
  /\ IF right THEN agents' = agents \cup {ip} /\ UNCHANGED <<logged, evaluating>>
     ELSE recordSecurityEvent("bad_agent_key", ip) /\ UNCHANGED agents
  /\ UNCHANGED <<settings, settingsCache, beingRead, changing, rules, blocks, trusted, fired, challenges, sessions, told, shut>>
notFoundHandler(ip) ==
  /\ securityGate(ip, FALSE) /\ recordSecurityEvent("scan_probe", ip)
  /\ UNCHANGED <<settings, settingsCache, beingRead, changing, rules, blocks, trusted, agents, fired, challenges, sessions, told, shut>>

(* What the admin does: signs out (every other session, with a new password  *)
(* too), blocks, unblocks, forgets addresses, changes rules.                 *)
Admin(a) == securityGate(a, FALSE) /\ a \in sessions
EndSessions(a) == Admin(a) /\ (\E S \in {{a}, sessions \ {a}} : sessions' = sessions \ S)
  /\ UNCHANGED <<settings, settingsCache, beingRead, changing, rules, blocks, trusted, agents, logged, evaluating, fired, challenges, told, shut>>
BlockByHand(a, ip) == Admin(a) /\ ip # a /\ blocks' = blocks \cup {[ip |-> ip, auto |-> FALSE]}
  /\ UNCHANGED <<settings, settingsCache, beingRead, changing, rules, trusted, agents, logged, evaluating, fired, challenges, sessions, told, shut>>
Unblock(a, b) == Admin(a) /\ blocks' = blocks \ {b} /\ invalidateSecurityCache
  /\ UNCHANGED <<settings, changing, rules, trusted, agents, logged, evaluating, fired, challenges, sessions, told, shut>>
ForgetIp(a, ip) == Admin(a) /\ trusted' = trusted \ {ip}
  /\ UNCHANGED <<settings, settingsCache, beingRead, changing, rules, blocks, agents, logged, evaluating, fired, challenges, sessions, told, shut>>
(* A request that blocks and is not per address is refused. *)
ruleFields(r) == \E blocking, perIp \in {TRUE, FALSE, None} :
  /\ ~(blocking = TRUE /\ perIp = FALSE)
  /\ rules' = [rules EXCEPT ![r].blocks = IF blocking = None THEN @ ELSE blocking, ![r].perIp = IF perIp = None THEN @ ELSE perIp]
PatchRule(a, r) == Admin(a) /\ ruleFields(r)
  /\ UNCHANGED <<settings, settingsCache, beingRead, changing, blocks, trusted, agents, logged, evaluating, fired, challenges, sessions, told, shut>>
SecurityRestarts ==
  /\ settingsCache' = None /\ beingRead' = {} /\ changing' = None /\ evaluating' = {} /\ fired' = {} /\ told' = [k \in Keys |-> 0]
  /\ UNCHANGED <<settings, rules, blocks, trusted, agents, logged, challenges, sessions, shut>>

Off(where, ips) == {where} \X (Addresses \ ips)
SecurityInit ==
  /\ settings \in Settings /\ rules \in [Rules -> RuleRows] /\ trusted \in SUBSET Addresses /\ sessions \in SUBSET trusted
  /\ settingsCache = None /\ beingRead = {} /\ changing = None /\ blocks = {} /\ agents = {} /\ evaluating = {} /\ fired = {} /\ challenges = {} /\ shut = {}
  /\ logged = {} /\ told = [k \in Keys |-> 0]
  /\ strangers = Off("list", settings.list) \cup Off("trusted", trusted)
SecurityNext ==
  /\ \/ ReadSettings \/ (\E x \in beingRead : SettingsRead(x)) \/ CacheExpires \/ WriteChange \/ securityReset \/ WindowPasses \/ SecurityRestarts
     \/ \E x \in evaluating : Fires(x) \/ Decides(x) \/ blockIp(x)
     \/ \E key \in Keys : CooldownEnds(key)
     \/ \E b \in blocks : BlockEnds(b)
     \/ \E a \in Addresses :
          \/ CheckChange(a) \/ Denied(a) \/ notFoundHandler(a) \/ EndSessions(a)
          \/ \E right \in BOOLEAN : Login(a, right) \/ Verify(a, right) \/ requireAgentAuth(a, right)
          \/ \E ip \in Addresses : BlockByHand(a, ip) \/ ForgetIp(a, ip)
          \/ \E b \in blocks : Unblock(a, b)
          \/ \E r \in Rules : PatchRule(a, r)
  /\ strangers' = strangers \cup Off("list", settings'.list) \cup Off("trusted", trusted')

-----------------------------------------------------------------------------
(* "So a rule can't lock the admin out" (security.ts:5): an address that has *)
(* been on the list all along, or trusted all along, is never blocked by a   *)
(* rule, whatever other evaluations, settings and the cached copy do         *)
(* meanwhile (one that was added to the list and then forgotten may be, by   *)
(* an older copy of the list).  A change of the                              *)
(* settings does not shut out the address it comes from, unless the settings *)
(* it was checked against were no longer the ones there.  And of events that *)
(* come together, one fires a rule, until its cooldown is over or the engine *)
(* has restarted.                                                            *)
AdminStaysIn == (\A b \in blocks : b.auto => {"list", "trusted"} \X {b.ip} \subseteq strangers) /\ shut = {}
FiresOnce == \A key \in Keys : told[key] <= 1
GateHolds == AdminStaysIn /\ FiresOnce
=============================================================================
