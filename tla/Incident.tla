------------------------------ MODULE Incident ------------------------------
(***************************************************************************)
(* What the subscribers of an alert rule are promised.                     *)
(*                                                                         *)
(* A rule has at most one incident at a time.  The first message about it  *)
(* is "triggered", to the rule's primary channels; it may be escalated     *)
(* once, to the escalation channels; it may be reminded of; and it ends    *)
(* with one "resolved" message to everybody who was told of it.  No rule   *)
(* ever reminds, escalates or resolves an incident that is not open.       *)
(*                                                                         *)
(* This is the abstract specification.  Alerting.tla implements it         *)
(* (Alerting!IncidentSpec), and AlertRace.tla shows what happens to it     *)
(* when two results of a check are handled at the same time.               *)
(***************************************************************************)

CONSTANT Rules

VARIABLES
  phase,    \* phase[r]: "closed", "open" or "escalated"
  note      \* note[r]: the last message sent through rule r

Note(kind, to) == [kind |-> kind, to |-> to]

\* Who hears about an incident in phase p: once it has escalated, the
\* escalation channels too.
Audience(p) == IF p = "escalated" THEN {"primary", "escalation"} ELSE {"primary"}

IncidentInit ==
  /\ phase = [r \in Rules |-> "closed"]
  /\ note = [r \in Rules |-> Note("none", {})]

Triggered(r) ==
  /\ phase[r] = "closed"
  /\ phase'[r] = "open"
  /\ note'[r] = Note("triggered", {"primary"})

Escalated(r) ==
  /\ phase[r] = "open"
  /\ phase'[r] = "escalated"
  /\ note'[r] = Note("escalated", {"escalation"})

Reminded(r) ==
  /\ phase[r] \in {"open", "escalated"}
  /\ phase'[r] = phase[r]
  /\ note'[r] = Note("reminder", Audience(phase[r]))

Resolved(r) ==
  /\ phase[r] \in {"open", "escalated"}
  /\ phase'[r] = "closed"
  /\ note'[r] = Note("resolved", Audience(phase[r]))

Idle(r) == phase'[r] = phase[r] /\ note'[r] = note[r]

\* One result can touch several rules (the rules of one check, and those of
\* the checks that recover with it), so a step is taken by every rule at once.
IncidentNext ==
  \A r \in Rules : Triggered(r) \/ Escalated(r) \/ Reminded(r) \/ Resolved(r) \/ Idle(r)

Spec == IncidentInit /\ [][IncidentNext]_<<phase, note>>
=============================================================================
