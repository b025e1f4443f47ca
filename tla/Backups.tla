------------------------------ MODULE Backups ------------------------------
(***************************************************************************)
(* Backups and restores (engine/src/services/backup.ts): the guard that    *)
(* keeps two operations apart, the borg repository, and the table          *)
(* backup_runs, which an operation writes and a dump of the database also  *)
(* contains, so that a restore of the database replaces it.                *)
(*                                                                         *)
(* An operation runs once; its `pc' is the statement it waits at.  Another *)
(* operation runs only while this one awaits.  With Overlap = FALSE nobody *)
(* asks for an operation while another one is between the guard's test and *)
(* the settings it waits for.                                              *)
(***************************************************************************)
EXTENDS Naturals, FiniteSets, SequencesExt

CONSTANTS Ops,      \* the operations somebody or the schedule starts
          KeepLast, \* backup_settings.retention_count, 0 for "keep all"
          Overlap,  \* TRUE: one may be asked for while another reads the settings
          Faults    \* TRUE: the database and the file system fail, the engine restarts

ASSUME KeepLastAssumption == KeepLast \in Nat
ASSUME EnvironmentAssumption == Overlap \in BOOLEAN /\ Faults \in BOOLEAN

VARIABLES currentOperation, \* the guard: "none", "backup" or "restore"
          pc,       \* where each operation is
          kind,     \* what it is, and the archive a restore puts back
          rows,     \* backup_runs: the status of each operation that has a row
          dump,     \* the backup_runs each finished pg_dump contains
          made,     \* every archive, oldest first
          pruned    \* the archives borg prune removed

vars == <<currentOperation, pc, kind, rows, dump, made, pruned>>

Statuses == {"running", "success", "error"}
Tables == UNION {[S -> Statuses] : S \in SUBSET Ops}
BackupKind == [what |-> "backup"]
RestoreKinds == [what : {"restore"}, archive : Ops, restoreDb : BOOLEAN]

SetUp == {"insert", "stage"}
Guarded == {"dump", "create", "prune", "extract", "restore", "succeed"}
\* Past the guard: what may touch the staging directory and the database.
Working == SetUp \union Guarded \union {"failed", "finally"}

\* listArchives: what the dashboard and a restore can choose from.
Repository == {o \in ToSet(made) : o \notin pruned}

Goto(o, from, to) == pc[o] = from /\ pc' = [pc EXCEPT ![o] = to]

\* UPDATE backup_runs ... WHERE id = o: nothing happens when the row is gone.
SetStatus(o, status) == [q \in DOMAIN rows |-> IF q = o THEN status ELSE rows[q]]
-----------------------------------------------------------------------------
Init ==
  /\ currentOperation = "none"
  /\ pc = [o \in Ops |-> "idle"]
  /\ kind = [o \in Ops |-> BackupKind]
  /\ rows = <<>>
  /\ dump = [o \in Ops |-> <<>>]
  /\ made = <<>>
  /\ pruned = {}

\* POST /run, POST /restore, and the schedule: refused while the guard is set.
Request(o, k) ==
  /\ currentOperation = "none"
  /\ Overlap \/ \A p \in Ops : pc[p] # "settings"
  /\ k.what = "restore" => k.archive \in Repository
  /\ Goto(o, "idle", "settings")
  /\ kind' = [kind EXCEPT ![o] = k]
  /\ UNCHANGED <<currentOperation, rows, dump, made, pruned>>

\* The settings are read: there is a repository, so the guard is set ...
StartOperation(o) ==
  /\ Goto(o, "settings", "insert")
  /\ currentOperation' = kind[o].what
  /\ UNCHANGED <<kind, rows, dump, made, pruned>>

\* ... or there is none (or they could not be read, or the dump to be restored is of
\* another version), and it is refused.
Decline(o) ==
  /\ Goto(o, "settings", "done")
  /\ UNCHANGED <<currentOperation, kind, rows, dump, made, pruned>>

Insert(o) ==
  /\ Goto(o, "insert", "stage")
  /\ rows' = [q \in DOMAIN rows \union {o} |-> IF q = o THEN "running" ELSE rows[q]]
  /\ UNCHANGED <<currentOperation, kind, dump, made, pruned>>

Stage(o) ==
  /\ Goto(o, "stage", IF kind[o].what = "backup" THEN "dump" ELSE "extract")
  /\ UNCHANGED <<currentOperation, kind, rows, dump, made, pruned>>

\* The archive's name, the row and the directory are made before the `try'.
SetupThrows(o) ==
  /\ Faults /\ pc[o] \in SetUp
  /\ pc' = [pc EXCEPT ![o] = "done"]
  /\ UNCHANGED <<currentOperation, kind, rows, dump, made, pruned>>

Dump(o) ==
  /\ Goto(o, "dump", "create")
  /\ dump' = [dump EXCEPT ![o] = rows]
  /\ UNCHANGED <<currentOperation, kind, rows, made, pruned>>

Create(o) ==
  /\ Goto(o, "create", "prune")
  /\ made' = Append(made, o)
  /\ UNCHANGED <<currentOperation, kind, rows, dump, pruned>>

\* borg prune --keep-last: all but the newest KeepLast archives go.
Left == {i \in DOMAIN made : made[i] \notin pruned}
Newest(n) == {made[i] : i \in {i \in Left : Cardinality({j \in Left : j > i}) < n}}

Prune(o) ==
  /\ Goto(o, "prune", "succeed")
  /\ pruned' = IF KeepLast = 0 THEN pruned ELSE ToSet(made) \ Newest(KeepLast)
  /\ UNCHANGED <<currentOperation, kind, rows, dump, made>>

Extract(o) ==
  /\ Goto(o, "extract", IF kind[o].restoreDb THEN "restore" ELSE "succeed")
  /\ kind[o].archive \in Repository
  /\ UNCHANGED <<currentOperation, kind, rows, dump, made, pruned>>

\* pg_restore --clean: every table is what it was when the dump was taken.
Restore(o) ==
  /\ Goto(o, "restore", "succeed")
  /\ rows' = dump[kind[o].archive]
  /\ UNCHANGED <<currentOperation, kind, dump, made, pruned>>

Succeed(o) ==
  /\ Goto(o, "succeed", "finally")
  /\ rows' = SetStatus(o, "success")
  /\ UNCHANGED <<currentOperation, kind, dump, made, pruned>>

\* A command inside the `try' fails: the catch block is next.
CommandFails(o) ==
  /\ pc[o] \in Guarded
  /\ pc' = [pc EXCEPT ![o] = "failed"]
  /\ UNCHANGED <<currentOperation, kind, rows, dump, made, pruned>>

\* Mutated form of Fail: the end is recorded as the other path records it.
FailAsSuccess(o) ==
  /\ Goto(o, "failed", "finally")
  /\ rows' = SetStatus(o, "success")
  /\ UNCHANGED <<currentOperation, kind, dump, made, pruned>>

Fail(o) ==
  /\ Goto(o, "failed", "finally")
  /\ \/ rows' = SetStatus(o, "error")
     \/ Faults /\ rows' = rows
  /\ UNCHANGED <<currentOperation, kind, dump, made, pruned>>

\* Mutated form of Finally: only a success releases the guard.
FinallyOnSuccess(o) ==
  /\ Goto(o, "finally", "done")
  /\ currentOperation' = IF o \in DOMAIN rows /\ rows[o] = "success" THEN "none" ELSE currentOperation
  /\ UNCHANGED <<kind, rows, dump, made, pruned>>

Finally(o) ==
  /\ Goto(o, "finally", "done")
  /\ currentOperation' = "none"
  /\ UNCHANGED <<kind, rows, dump, made, pruned>>

\* The engine stops and starts: the guard and the operations are gone.
Restart ==
  /\ Faults
  /\ currentOperation # "none" \/ \E o \in Ops : pc[o] \notin {"idle", "done"}
  /\ currentOperation' = "none"
  /\ pc' = [o \in Ops |-> IF pc[o] = "idle" THEN "idle" ELSE "done"]
  /\ UNCHANGED <<kind, rows, dump, made, pruned>>

Step(o) == \/ Insert(o) \/ Stage(o) \/ Dump(o) \/ Create(o) \/ Prune(o) \/ Extract(o)
           \/ Restore(o) \/ Succeed(o) \/ Fail(o) \/ Finally(o) \/ CommandFails(o)

Next == \/ \E o \in Ops : \/ \E k \in {BackupKind} \union RestoreKinds : Request(o, k)
                          \/ StartOperation(o) \/ Decline(o) \/ SetupThrows(o) \/ Step(o)
        \/ Restart

Spec == Init /\ [][Next]_vars

\* The programs an operation runs end, and the engine goes on with its result.
BackupFairness == \A o \in Ops : WF_vars(Step(o)) /\ WF_vars(StartOperation(o) \/ Decline(o))
FairSpec == Spec /\ BackupFairness
-----------------------------------------------------------------------------
\* The variables have the values the code gives them.
TypeOK ==
  /\ currentOperation \in {"none", "backup", "restore"}
  /\ pc \in [Ops -> {"idle", "settings", "done"} \union Working]
  /\ kind \in [Ops -> {BackupKind} \union RestoreKinds]
  /\ rows \in Tables
  /\ dump \in [Ops -> Tables]
  /\ ToSet(made) \subseteq Ops /\ IsInjective(made)
  /\ pruned \subseteq ToSet(made)

\* A run that backup_runs calls a success did what it says, whatever failed and
\* whichever dump the table came back from: its archive was made, and when it is about
\* to be called one the archive is still in the repository it has pruned.
SuccessIsTrue ==
  \A o \in Ops : kind[o].what = "backup" =>
    /\ o \in DOMAIN rows /\ rows[o] = "success" => o \in ToSet(made)
    /\ pc[o] = "succeed" => o \in Repository

\* Whatever an operation ran into, the next one is accepted in the end
\* (finally, backup.ts:145-148 and 248-251).
AvailableAgain == \A o \in Ops : pc[o] \in Guarded ~> currentOperation = "none"
=============================================================================
