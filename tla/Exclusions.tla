------------------------------ MODULE Exclusions ------------------------------
(* What checks ignore (services/exclusions.ts, services/probes/exclude.ts,    *)
(* routes/exclusions.ts): the lists of items and the copy of them kept for    *)
(* 15 s, what a check is handed of them, and how the two kinds of runner, the *)
(* engine and an agent, take it.  A text is its characters, all in one case.  *)
EXTENDS Nothing, CheckTypes, Naturals, Sequences, FiniteSets
CONSTANTS Subjects,            \* checks: their type, the kind of thing the metric is about, and the lines of their own setting
          ListIds, ListRows,   \* lists, and what one may say
          Memberships,         \* what each group there is may cover
          Things,              \* what a check may come upon: its name, its message, an event's ID
          MaxEdits             \* a bound on the requests that write
VARIABLES exLists,    \* existing list -> its row
          exGroups,   \* group -> the checks it covers
          exCopy,     \* the lists in memory, or None
          exReading,  \* a refresh under way, or None; behind and asOf (history): whether a list was written since, and the edits before
          exEdits     \* requests handled that write

(* Texts; "end" is no character but what At finds after the last one.  The   *)
(* route takes a list's items through excludeItems: none is empty.           *)
Textual(x) == x \in Seq(STRING) /\ \A i \in DOMAIN x : x[i] # "end"
ASSUME ExclusionsAssumption ==
  /\ \A id \in DOMAIN Subjects : \A line \in Subjects[id].own : Textual(line)
  /\ \A row \in ListRows : \A item \in row.items : Textual(item) /\ item # <<>>
  /\ \A t \in Things : Textual(t.name)

exvars == <<exLists, exGroups, exCopy, exReading, exEdits>>

-----------------------------------------------------------------------------
(* The kinds of items, how they are compared and who uses them. *)
ByName(types) == [match |-> "name", types |-> types]
EXCLUSION_KINDS ==
  [messages |-> [match |-> "text", types |-> {"trap_match", "syslog_match", "agent_log", "agent_journal", "agent_eventlog"}],
   event_ids |-> ByName({"agent_eventlog"}), mounts |-> ByName({"host_metric"}), interfaces |-> ByName({"host_metric", "snmp_interfaces"}),
   devices |-> ByName({"host_metric"}), sensors |-> ByName({"host_metric"}), services |-> ByName({"agent_services_overview"}),
   containers |-> ByName({"agent_docker"}), vms |-> ByName({"agent_hyperv"}), packages |-> ByName({"host_packages", "host_software", "host_vulnerable"}),
   users |-> ByName({"agent_users"}), snmp_values |-> ByName({"snmp"})]
METRIC_INSTANCE_KINDS == [mount |-> "mounts", interface |-> "interfaces", device |-> "devices", sensor |-> "sensors", fan |-> "sensors"]
KindsOf(c) == IF c.type = "host_metric" THEN {METRIC_INSTANCE_KINDS[i] : i \in {c.instance} \cap DOMAIN METRIC_INSTANCE_KINDS}
              ELSE {k \in DOMAIN EXCLUSION_KINDS : c.type \in EXCLUSION_KINDS[k].types}
(* The first kind of a type: the check's own items are of it. *)
OwnKind(c) == IF "messages" \in KindsOf(c) THEN "messages" ELSE CHOOSE k \in KindsOf(c) : TRUE

(* The longest parts of a text without commas. *)
Spans(text) == {b \in (1..Len(text)) \X (1..Len(text)) : b[1] <= b[2] /\ \A i \in b[1]..b[2] : text[i] # ","}
Parts(text) == {SubSeq(text, b[1], b[2]) : b \in {b \in Spans(text) : \A w \in Spans(text) : ~(w[1] <= b[1] /\ b[2] <= w[2] /\ w # b)}}
excludeItems(lines, splitCommas) == (IF splitCommas THEN UNION {Parts(l) : l \in lines} ELSE lines) \ {<<>>}

-----------------------------------------------------------------------------
(* The copy. *)
EnabledRows == {exLists[l] : l \in {l \in DOMAIN exLists : exLists[l].enabled}}
GroupsOfLists(rows) == UNION {r.groupIds : r \in {r \in rows : ~r.applyToAll}}
Covers(row, groupChecks, id) == row.applyToAll \/ \E g \in row.groupIds \cap DOMAIN groupChecks : id \in groupChecks[g]
ItemsOf(rows, groupChecks, id) ==
  LET c == Subjects[id]
  IN excludeItems(c.own, EXCLUSION_KINDS[OwnKind(c)].match = "name")
     \cup UNION {r.items : r \in {r \in rows : r.kind \in KindsOf(c) /\ Covers(r, groupChecks, id)}}
(* What the check is handed: nothing for types without exclusions.  An agent *)
(* gets the items as text, a line each.                                      *)
exclusionsFor(id) == IF KindsOf(Subjects[id]) = {} THEN {} ELSE ItemsOf(exCopy.rows, exCopy.groupChecks, id)

CopyIsOld == IF exCopy = None THEN TRUE ELSE ~exCopy.fresh
enabledLists == /\ CopyIsOld /\ exReading = None
                /\ exReading' = [rows |-> EnabledRows, behind |-> FALSE, asOf |-> exEdits]
                /\ UNCHANGED <<exLists, exGroups, exCopy, exEdits>>
ListsAreRead == /\ exReading # None /\ exReading' = None
                /\ exCopy' = [rows |-> exReading.rows, groupChecks |-> [g \in DOMAIN exGroups \cap GroupsOfLists(exReading.rows) |-> exGroups[g]],
                              fresh |-> TRUE, behind |-> exReading.behind, asOf |-> exReading.asOf]
                /\ UNCHANGED <<exLists, exGroups, exEdits>>
ReadingFails == exReading # None /\ exReading' = None /\ UNCHANGED <<exLists, exGroups, exCopy, exEdits>>
CopyExpires == ~CopyIsOld /\ exCopy' = [exCopy EXCEPT !.fresh = FALSE] /\ UNCHANGED <<exLists, exGroups, exReading, exEdits>>

(* The routes. *)
\* Mutated form of invalidateExclusionCache: left to the 15 seconds.
KeepCopy == UNCHANGED exCopy
invalidateExclusionCache == exCopy' = None
Edits == exEdits < MaxEdits /\ exEdits' = exEdits + 1
WriteLists(table) == Edits /\ exLists' = table /\ invalidateExclusionCache /\ UNCHANGED exGroups
  /\ exReading' = IF exReading = None THEN None ELSE [exReading EXCEPT !.behind = TRUE]
parse(row) == row.kind \in DOMAIN EXCLUSION_KINDS /\ row.groupIds \subseteq DOMAIN exGroups
CreateList(l, row) == l \notin DOMAIN exLists /\ parse(row) /\ WriteLists(With(exLists, l, row))
PatchList(l, row) == parse(row) /\ WriteLists([exLists EXCEPT ![l] = row])
DeleteList(l) == WriteLists([x \in DOMAIN exLists \ {l} |-> exLists[x]])
(* Of the groups, the copy learns when it expires. *)
Regroup(m) == Edits /\ exGroups' = m /\ UNCHANGED <<exLists, exCopy, exReading>>

-----------------------------------------------------------------------------
(* globMatch, one turn of its loop after the other: p and n are where it is  *)
(* in the pattern and in the name, star and from where the last * was and    *)
(* what it had swallowed.  A turn takes them further, or ends it.            *)
At(text, i) == IF i \in DOMAIN text THEN text[i] ELSE "end"
Literal(a, b) == a # "end" /\ (a = "?" \/ a = b)
Turn(pattern, name, w) ==
  IF Literal(At(pattern, w.p), At(name, w.n)) THEN [w EXCEPT !.p = @ + 1, !.n = @ + 1]
  ELSE IF At(pattern, w.p) = "*" THEN [w EXCEPT !.p = @ + 1, !.star = w.p, !.from = w.n]
  ELSE IF w.star > 0 THEN [w EXCEPT !.p = w.star + 1, !.n = w.from + 1, !.from = @ + 1]
  ELSE [w EXCEPT !.failed = TRUE]
OnlyStarsFrom(pattern, p) == \A i \in p..Len(pattern) : pattern[i] = "*"
globMatch(pattern, name) ==
  LET turns == (Len(name) + 1) * (Len(pattern) + 1)
      loop[k \in 0..turns] == IF k = 0 THEN [p |-> 1, n |-> 1, star |-> 0, from |-> 0, failed |-> FALSE]
                              ELSE LET w == loop[k - 1] IN IF w.failed \/ w.n > Len(name) THEN w ELSE Turn(pattern, name, w)
  IN ~loop[turns].failed /\ OnlyStarsFrom(pattern, loop[turns].p)
(* namePattern: the agent's regular expression, and what an item means: each *)
(* character of the pattern stands for a part of the name.                   *)
StandsFor(ch, part) == CASE ch = "*" -> TRUE [] ch = "?" -> Len(part) = 1 [] OTHER -> part = <<ch>>
namePattern(pattern, name) ==
  \E cut \in [0..Len(pattern) -> 0..Len(name)] :
    /\ cut[0] = 0 /\ cut[Len(pattern)] = Len(name)
    /\ \A i \in 1..Len(pattern) : cut[i - 1] <= cut[i] /\ StandsFor(pattern[i], SubSeq(name, cut[i - 1] + 1, cut[i]))
HasWildcard(item) == \E i \in DOMAIN item : item[i] \in {"*", "?"}
nameExcluded(name, items, runner) == name # <<>> /\ \E i \in items :
  IF ~HasWildcard(i) THEN i = name ELSE IF runner = "engine" THEN globMatch(i, name) ELSE namePattern(i, name)
textExcluded(text, items) == \E i \in items : \E k \in 0..(Len(text) - Len(i)) : SubSeq(text, k + 1, k + Len(i)) = i
isDigits(item) == \A i \in DOMAIN item : item[i] = "1"

(* The runners.  The engine takes the list, an agent splits the text; for    *)
(* the event log, digits are an ID and anything else is a text.              *)
IsText(c) == EXCLUSION_KINDS[OwnKind(c)].match = "text"
ByEngine(c, items, t) == IF IsText(c) THEN textExcluded(t.text, items) ELSE nameExcluded(t.name, items, "engine")
ByAgent(c, items, t) ==
  LET got == excludeItems(items, ~IsText(c))
      ids == {i \in got : c.type = "agent_eventlog" /\ isDigits(i)}
  IN IF IsText(c) THEN textExcluded(t.text, got \ ids) \/ nameExcluded(t.id, ids, "agent") ELSE nameExcluded(t.name, got, "agent")
RunsAtAgent == {"agent_log", "agent_journal", "agent_eventlog", "agent_services_overview", "agent_docker", "agent_hyperv"}
Ignores(id, t) == LET c == Subjects[id] IN KindsOf(c) # {} /\ IF c.type \in RunsAtAgent THEN ByAgent(c, exclusionsFor(id), t) ELSE ByEngine(c, exclusionsFor(id), t)

ExclusionsInit == exLists = <<>> /\ exGroups \in Memberships /\ exCopy = None /\ exReading = None /\ exEdits = 0
ExclusionsNext ==
  \/ enabledLists \/ ListsAreRead \/ ReadingFails \/ CopyExpires
  \/ \E l \in ListIds, row \in ListRows : CreateList(l, row)
  \/ \E l \in DOMAIN exLists, row \in ListRows : PatchList(l, row)
  \/ \E l \in ListIds : DeleteList(l)
  \/ \E m \in Memberships : Regroup(m)

-----------------------------------------------------------------------------
(* What the tables say: an item of the check's own, or of a list that covers *)
(* it, and the thing is what the item means, in whichever way its kind is    *)
(* compared (exclude.ts:11-18).                                              *)
Means(kind, item, t) ==
  CASE kind = "event_ids" -> item = t.id
    [] EXCLUSION_KINDS[kind].match = "text" -> textExcluded(t.text, {item})
    [] OTHER -> t.name # <<>> /\ namePattern(item, t.name)
(* Digits of the check's own are an event's ID, which the dashboard says.    *)
KindOfOwn(c, item) == IF c.type = "agent_eventlog" /\ isDigits(item) THEN "event_ids" ELSE OwnKind(c)
Meant(id, t) ==
  LET c == Subjects[id] IN KindsOf(c) # {} /\
    \/ \E item \in excludeItems(c.own, ~IsText(c)) : Means(KindOfOwn(c, item), item, t)
    \/ \E row \in EnabledRows : row.kind \in KindsOf(c) /\ Covers(row, exGroups, id) /\ \E item \in row.items : Means(row.kind, item, t)
(* Known not to mean the same everywhere: in a list, a name with a comma,    *)
(* which only the engine takes whole; an event ID that is not digits, and    *)
(* digits meant as a text, which an event log takes for the other; and a     *)
(* thing with a * in its name, which the engine takes for the pattern's.     *)
Plainly(row) == \A item \in row.items :
  /\ \A i \in DOMAIN item : item[i] # ","
  /\ row.kind = "event_ids" => isDigits(item)
  /\ row.kind = "messages" => ~isDigits(item)
PlainThing(t) == \A i \in DOMAIN t.name : t.name[i] # "*"

(* A copy with no write of a list since it was begun has the lists there     *)
(* are, "so a change applies on the next run" (routes/exclusions.ts:7); with *)
(* no edit at all since, also what their groups cover.                       *)
CopyIsCurrent == exCopy # None =>
  /\ ~exCopy.behind => exCopy.rows = EnabledRows
  /\ exCopy.asOf = exEdits => /\ exCopy.rows = EnabledRows
                              /\ exCopy.groupChecks = [g \in DOMAIN exGroups \cap GroupsOfLists(EnabledRows) |-> exGroups[g]]
(* "An item means the same thing wherever the check runs" (exclude.go:4-5):  *)
(* what a check ignores, run by the engine or by an agent, is exactly what   *)
(* its own items and the lists covering it mean.                             *)
SameEverywhere == exCopy # None /\ exCopy.asOf = exEdits /\ (\A row \in EnabledRows : Plainly(row)) =>
  \A id \in DOMAIN Subjects : \A t \in {t \in Things : PlainThing(t)} : Ignores(id, t) <=> Meant(id, t)
(* A change of a list applies, and everywhere in the same way.               *)
ListsApply == CopyIsCurrent /\ SameEverywhere
=============================================================================
