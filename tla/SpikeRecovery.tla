----------------------------- MODULE SpikeRecovery -----------------------------
(***************************************************************************)
(* Migrations of the spike database, and the backup and restore that are   *)
(* its only way back when one fails (persistence/migration_helpers.py with *)
(* migration_spike/, persistence/backup.py).                               *)
(*                                                                         *)
(* A database file is its tables, its recorded revision, and whether its   *)
(* pages are sound.  A migration, backups and restores run at once.  The   *)
(* transaction around the migration scripts is only logical: SQLite may    *)
(* have committed some of their statements before the others, and a fault  *)
(* then leaves them.                                                       *)
(***************************************************************************)
EXTENDS Integers, FiniteSets

CONSTANTS RecCallers,   \* processes that call backup_database and restore_backup
          RecCalls,     \* bound of the number of their calls
          RecRuns       \* bound of the number of migrations

VARIABLES recFile,      \* each path's database, or NoFile
          recMig,       \* the migration that runs, if any
          recCall,      \* each caller's call
          recCalls,     \* calls so far
          recRuns,      \* migrations started
          recHalf,      \* history: a copy was made of a half migrated database
          recBroken,    \* history: a migration failed or died
          recKept,      \* history: the database the first restore that said ok had made
          recRaced      \* history: two restores found the same target missing

recVars == <<recFile, recMig, recCall, recCalls, recRuns, recHalf, recBroken, recKept,
             recRaced>>
migVars == <<recMig, recRuns, recBroken>>
copyVars == <<recCall, recCalls, recHalf, recKept, recRaced>>

RecPaths == {"live", "backup", "staging"}
NoFile == [there |-> FALSE]
EmptyDatabase == [there |-> TRUE, tables |-> {}, revision |-> 0, sound |-> TRUE]

\* Revisions 0 (base), 1 and 2, each with the table its script creates
ScriptTable(revision) == IF revision = 1 THEN "item" ELSE "marker"
TablesAt(revision) == {ScriptTable(r) : r \in 1..revision}

Whole(db) == db.tables = TablesAt(db.revision)

MigIdle == [step |-> "idle", from |-> 0, to |-> 0]
CallIdle == [step |-> "idle"]

RecInit ==
    /\ recFile = [p \in RecPaths |-> IF p = "live" THEN EmptyDatabase ELSE NoFile]
    /\ recMig = MigIdle
    /\ recCall = [c \in RecCallers |-> CallIdle]
    /\ recCalls = 0
    /\ recRuns = 0
    /\ recHalf = FALSE
    /\ recBroken = FALSE
    /\ recKept = NoFile
    /\ recRaced = FALSE

\* The live database becomes db
LiveBecomes(db) == recFile' = [recFile EXCEPT !["live"] = db]

-----------------------------------------------------------------------------
(* run_upgrade and run_downgrade *)

\* "0002" is head.  _safe_revision refuses another name before anything is opened.
RevisionOf(name) == CASE name = "base" -> 0 [] name = "0001" -> 1
                      [] name = "head" -> 2

\* An upgrade to a revision that is behind and a downgrade to one ahead are not
\* among the calls.
MigStart(name) ==
    /\ recMig.step = "idle" /\ recRuns < RecRuns
    /\ recMig' = [step |-> "scripts", from |-> recFile["live"].revision,
                  to |-> RevisionOf(name)]
    /\ recRuns' = recRuns + 1
    /\ UNCHANGED <<recFile, recBroken, copyVars>>

\* The revisions whose scripts run, in their order: up to the target or back to it
Scripts == IF recMig.to >= recMig.from THEN (recMig.from + 1)..recMig.to
           ELSE (recMig.to + 1)..recMig.from

\* The tables after the scripts of revisions rs
Scripted(tables, rs) ==
    IF recMig.to >= recMig.from THEN tables \cup {ScriptTable(r) : r \in rs}
    ELSE tables \ {ScriptTable(r) : r \in rs}

\* A script creates a table that must not be there, or drops one that must
ScriptFits(tables, r) == (recMig.to >= recMig.from) = (ScriptTable(r) \notin tables)

\* The scripts that a part of the run consists of: the first ones
FirstScripts == {rs \in SUBSET Scripts :
                    IF recMig.to >= recMig.from
                      THEN \A r \in rs, q \in Scripts : q < r => q \in rs
                      ELSE \A r \in rs, q \in Scripts : q > r => q \in rs}

MigFails == recMig' = MigIdle /\ recBroken' = TRUE /\ UNCHANGED recRuns

\* SQLite has committed the first scripts' tables, not the revision
MigCommitsEarly(rs) ==
    /\ recMig.step = "scripts"
    /\ rs # {}
    /\ \A r \in rs : ScriptFits(recFile["live"].tables, r)
    /\ LiveBecomes([recFile["live"] EXCEPT !.tables = Scripted(@, rs)])
    /\ recMig' = [recMig EXCEPT !.step = "early"]
    /\ UNCHANGED <<recRuns, recBroken, copyVars>>

\* A script meets a table of an earlier failure: OperationalError
MigMeetsTable ==
    /\ recMig.step = "scripts"
    /\ \E r \in Scripts : ~ScriptFits(recFile["live"].tables, r)
    /\ MigFails
    /\ UNCHANGED <<recFile, copyVars>>

\* The fault "mid-run" is raised inside the transaction, after the scripts; the
\* process may die there as well.
MigFaultsMidRun ==
    /\ recMig.step \in {"scripts", "early"}
    /\ MigFails
    /\ UNCHANGED <<recFile, copyVars>>

\* Mutant of Migrated: the scripts run and the revision stays.
MigratedUnversioned(db) == [db EXCEPT !.tables = Scripted(@, Scripts)]

\* The scripts and the revision they lead to
Migrated(db) ==
    [db EXCEPT !.tables = Scripted(@, Scripts),
               !.revision = IF Scripts = {} THEN @ ELSE recMig.to]

\* The commit; of an upgrade, the hook of "after-commit" may come after it
MigCommits(hook) ==
    /\ recMig.step \in {"scripts", "early"}
    /\ hook => recMig.to >= recMig.from
    /\ recMig.step = "scripts" => \A r \in Scripts : ScriptFits(recFile["live"].tables, r)
    /\ LiveBecomes(Migrated(recFile["live"]))
    /\ recMig' = IF hook THEN [recMig EXCEPT !.step = "hook"] ELSE MigIdle
    /\ UNCHANGED <<recRuns, recBroken, copyVars>>

\* _inject_after_commit_partial_state: a table no migration owns, then the fault;
\* the table may be there already, which is an error of its own, or the process dies
MigHook(tables) ==
    /\ recMig.step = "hook"
    /\ LiveBecomes([recFile["live"] EXCEPT !.tables = @ \cup tables])
    /\ MigFails
    /\ UNCHANGED copyVars

-----------------------------------------------------------------------------
(* backup_database and restore_backup *)

CallStarts(c, call) ==
    /\ recCall[c] = CallIdle /\ recCalls < RecCalls
    /\ recCalls' = recCalls + 1
    /\ recCall' = [recCall EXCEPT ![c] = call]

\* A raw copy or another mode is refused before any file is opened
BackupStart(c) ==
    /\ CallStarts(c, [step |-> "copy", source |-> "live", target |-> "backup"])
    /\ UNCHANGED <<recFile, recHalf, recKept, recRaced, migVars>>

\* Mutant of TargetFree: a restore may replace what is there.
TargetAny(target) == target \in RecPaths

\* An existing target is refused before any I/O
TargetFree(target) == ~recFile[target].there

RestoreStart(c, target) ==
    LET copying == {d \in RecCallers : recCall[d] = [step |-> "copy", source |-> "backup",
                                                    target |-> target]}
    IN  /\ IF TargetFree(target)
           THEN /\ CallStarts(c, [step |-> "copy", source |-> "backup", target |-> target])
                /\ recRaced' = (recRaced \/ copying # {})
           ELSE CallStarts(c, CallIdle) /\ UNCHANGED recRaced
        /\ UNCHANGED <<recFile, recHalf, recKept, migVars>>

\* connect() makes an empty database of a file that is not there
Opened(path) == IF recFile[path].there THEN recFile[path] ELSE EmptyDatabase

\* Connection.backup: the committed pages of the source replace the target
CopyPages(c) ==
    LET call == recCall[c] IN
    /\ call.step = "copy"
    /\ recFile' = [recFile EXCEPT ![call.source] = Opened(call.source),
                                  ![call.target] = Opened(call.source)]
    /\ recHalf' = (recHalf \/ (call.source = "live" /\ ~Whole(recFile["live"])))
    /\ recCall' = [recCall EXCEPT ![c].step = "validate"]
    /\ UNCHANGED <<recCalls, recKept, recRaced, migVars>>

\* A driver error before or during the copy, with the files opened so far: nothing
\* is removed, so a failed restore may leave an empty target behind
CopyFails(c, opened) ==
    LET call == recCall[c] IN
    /\ call.step = "copy"
    /\ opened \in {{}, {call.source}, {call.source, call.target}}
    /\ recFile' = [p \in RecPaths |-> IF p \in opened THEN Opened(p) ELSE recFile[p]]
    /\ recCall' = [recCall EXCEPT ![c] = CallIdle]
    /\ UNCHANGED <<recCalls, recHalf, recKept, recRaced, migVars>>

\* _digest_and_validate: integrity and foreign keys of the file as it is now
Validates(path) == recFile[path].there /\ recFile[path].sound

\* The call returns what validation found; a backup asks its source again as well.
\* A driver error makes it a BackupFailure.
Validate(c, fails) ==
    LET call == recCall[c]
        ok == /\ ~fails
              /\ Validates(call.target)
              /\ call.source = "live" => Validates(call.source)
    IN  /\ call.step = "validate"
        /\ recCall' = [recCall EXCEPT ![c] = CallIdle]
        /\ recKept' = IF ok /\ call.target = "staging" /\ ~recKept.there
                      THEN recFile["staging"] ELSE recKept
        /\ UNCHANGED <<recFile, recCalls, recHalf, recRaced, migVars>>

\* External: a damaged page of the backup
BackupRots ==
    /\ recFile["backup"].there
    /\ recFile["backup"].sound
    /\ recFile' = [recFile EXCEPT !["backup"].sound = FALSE]
    /\ UNCHANGED <<copyVars, migVars>>

-----------------------------------------------------------------------------
RecNext ==
    \/ \E name \in {"base", "0001", "head"} : MigStart(name)
    \/ \E rs \in FirstScripts : MigCommitsEarly(rs)
    \/ MigMeetsTable
    \/ MigFaultsMidRun
    \/ \E hook \in BOOLEAN : MigCommits(hook)
    \/ \E tables \in {{}, {"partial"}} : MigHook(tables)
    \/ \E c \in RecCallers : BackupStart(c)
    \/ \E c \in RecCallers, target \in {"live", "staging"} : RestoreStart(c, target)
    \/ \E c \in RecCallers : CopyPages(c)
    \/ \E c \in RecCallers, opened \in SUBSET RecPaths : CopyFails(c, opened)
    \/ \E c \in RecCallers, fails \in BOOLEAN : Validate(c, fails)
    \/ BackupRots

RecSpec == RecInit /\ [][RecNext]_recVars

-----------------------------------------------------------------------------
(* Properties *)

RecTypeOK ==
    /\ DOMAIN recFile = RecPaths /\ DOMAIN recCall = RecCallers
    /\ recFile["live"].there
    /\ recFile["live"].tables \subseteq {"item", "marker", "partial"}
    /\ recFile["live"].revision \in 0..2
    /\ recMig.step \in {"idle", "scripts", "early", "hook"}
    /\ recCalls \in 0..RecCalls /\ recRuns \in 0..RecRuns

(* run_upgrade and run_downgrade: as long as every migration reported       *)
(* success, the tables are those of the recorded revision; a database that  *)
(* is half migrated is being migrated, or follows a failure or a death.     *)
(* (A success after a failure does not mean it is whole again.)             *)
MigratedOrTold ==
    (~recBroken /\ recMig.step # "early") => Whole(recFile["live"])

(* backup.py: integrity_check and foreign_key_check pass on a database that *)
(* is half migrated.  A copy is at one revision as a whole only because it  *)
(* was not taken of a live database in the middle of a migration or after   *)
(* a failed one; the copies themselves add nothing to that.                 *)
CopyIsWhole ==
    \A p \in RecPaths \ {"live"} : (recFile[p].there /\ ~recHalf) => Whole(recFile[p])

(* restore_backup: a database whose restore said ok is what that restore     *)
(* made for as long as the caller needs to move it into place; later restores *)
(* into it are refused.  Two restores that both found the target missing are  *)
(* the exception: the look and connect() are two steps, the second copy       *)
(* replaces the first, and what is there may be damaged after an ok.          *)
RestoreStands ==
    recKept.there /\ ~recRaced => recFile["staging"] = recKept

(* What recovery may rely on: failures that are told, copies that are whole,  *)
(* and a restored database that stands.                                       *)
RecoveryContract == MigratedOrTold /\ CopyIsWhole /\ RestoreStands
=============================================================================
