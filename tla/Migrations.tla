----------------------------- MODULE Migrations -----------------------------
(***************************************************************************)
(* Migrations of the internal tracker                                      *)
(* (src/integrations/internalTracker/migrations.ts): several runners, of   *)
(* one release or of two, apply the files of their release to one          *)
(* database, and processes start only on a schema that is complete.        *)
(*                                                                         *)
(* A file is its version and its checksum; the files of a release are in   *)
(* the order of their names.  A transaction of PostgreSQL is one step from *)
(* its statements to its commit, but another runner may stand at the same  *)
(* file; the primary key of the table of versions lets one of them through.*)
(* What the files create is their version: the tables and indexes which    *)
(* assertInternalTrackerOperational looks for are those of the versions.   *)
(*                                                                         *)
(* A definition whose name has a suffix after an underscore is a seeded    *)
(* fault of the definition below it; no specification uses it.             *)
(***************************************************************************)
EXTENDS Naturals, Sequences, FiniteSets

CONSTANTS
    Runners,    \* calls of runInternalTrackerMigrations, each to be made once
    Starters,   \* processes that start
    Releases,   \* of each runner and starter: a sequence of [version, checksum]
    Required,   \* versions whose tables and indexes are in the lists of those required
    MaxFaults   \* bound: statements that fail and runners that die

VARIABLES
    table,      \* the table of versions exists
    applied,    \* its rows: [version, checksum]
    effects,    \* versions whose statements took effect, in order
    run,        \* what each runner is doing
    started,    \* of each starter: "no", "yes", "refused"
    faults

vars == <<table, applied, effects, run, started, faults>>

Idle == [at |-> "idle", seen |-> {}, file |-> 1]
Versions(rows) == {r.version : r \in rows}
Count == [v \in {effects[i] : i \in DOMAIN effects} |-> Cardinality({i \in DOMAIN effects : effects[i] = v})]
File(r) == Releases[r][run[r].file]

-----------------------------------------------------------------------------
(* runInternalTrackerMigrations *)

\* ensureMigrationTable
Ensure(r) ==
    /\ run[r].at = "idle"
    /\ table' = TRUE
    /\ run' = [run EXCEPT ![r].at = "read"]
    /\ UNCHANGED <<applied, effects, started, faults>>

\* The rows are read once.
Read(r) ==
    /\ run[r].at = "read"
    /\ run' = [run EXCEPT ![r].at = "next", ![r].seen = applied]
    /\ UNCHANGED <<table, applied, effects, started, faults>>

\* A file that was applied is passed over if it did not change.
Changed_Ignored(r) == FALSE
Changed(r) == \E row \in run[r].seen : row.version = File(r).version /\ row.checksum # File(r).checksum
NextFile(r) ==
    /\ run[r].at = "next"
    /\ run' = [run EXCEPT ![r] =
         IF run[r].file > Len(Releases[r]) THEN [run[r] EXCEPT !.at = "done"]
         ELSE IF Changed(r) THEN [run[r] EXCEPT !.at = "failed"]
         ELSE IF File(r).version \in Versions(run[r].seen) THEN [run[r] EXCEPT !.file = run[r].file + 1]
         ELSE [run[r] EXCEPT !.at = "apply"]]
    /\ UNCHANGED <<table, applied, effects, started, faults>>

\* The statements of the file and the row of its version, in one transaction:
\* the row of a version that another runner has committed is refused.
Taken_Never(version) == FALSE
Taken(version) == version \in Versions(applied)
Stop_Skips(r) == run' = [run EXCEPT ![r].at = "next", ![r].file = @ + 1]
Stop(r) == run' = [run EXCEPT ![r].at = "failed"]
Apply(r) ==
    /\ run[r].at = "apply"
    /\ IF Taken(File(r).version) THEN Stop(r) /\ UNCHANGED <<applied, effects>>
       ELSE /\ applied' = applied \cup {File(r)}
            /\ effects' = Append(effects, File(r).version)
            /\ run' = [run EXCEPT ![r].at = "next", ![r].file = @ + 1]
    /\ UNCHANGED <<table, started, faults>>

\* A statement fails: the transaction is rolled back and the runner ends.
Fail(r) ==
    /\ faults < MaxFaults /\ faults' = faults + 1
    /\ run[r].at = "apply"
    /\ Stop(r)
    /\ UNCHANGED <<table, applied, effects, started>>

\* The runner dies, before its transaction or after it, and is started again.
Crash(r) ==
    /\ faults < MaxFaults /\ faults' = faults + 1
    /\ run[r].at \notin {"idle", "done"}
    /\ run' = [run EXCEPT ![r] = Idle]
    /\ UNCHANGED <<table, applied, effects, started>>

-----------------------------------------------------------------------------
(* assertInternalTrackerOperational *)

\* getInternalTrackerMigrationStatus: which versions of the release are pending.
Pending_Latest(release) ==
    IF release[Len(release)].version \in Versions(applied) THEN {} ELSE {release[Len(release)].version}
Pending(release) == {release[i].version : i \in DOMAIN release} \ Versions(applied)
\* REQUIRED_INTERNAL_TRACKER_TABLES and _INDEXES, each asked for by its name;
\* the lists do not follow the files.  The checksums are not compared here.
Missing == Required \ DOMAIN Count
StartUp(s) ==
    /\ started[s] # "yes"
    /\ started' = [started EXCEPT ![s] =
         IF table /\ Pending(Releases[s]) = {} /\ Missing = {} THEN "yes" ELSE "refused"]
    /\ UNCHANGED <<table, applied, effects, run, faults>>

Init ==
    /\ table = FALSE /\ applied = {} /\ effects = <<>> /\ run = [r \in Runners |-> Idle]
    /\ started = [s \in Starters |-> "no"] /\ faults = 0

Next ==
    \/ \E r \in Runners : Ensure(r) \/ Read(r) \/ NextFile(r) \/ Apply(r) \/ Fail(r) \/ Crash(r)
    \/ \E s \in Starters : StartUp(s)

Spec == Init /\ [][Next]_vars

-----------------------------------------------------------------------------
(* Properties *)

\* The state is of the right shape.
TypeOK ==
    /\ table \in BOOLEAN /\ DOMAIN run = Runners /\ \A r \in Runners : DOMAIN run[r] = DOMAIN Idle
    /\ started \in [Starters -> {"no", "yes", "refused"}] /\ faults \in 0..MaxFaults

\* A version takes effect once, and its row says so.
OnceEach ==
    /\ \A v \in DOMAIN Count : Count[v] = 1
    /\ DOMAIN Count = Versions(applied)

\* A runner that is done found or applied every file of its release, as it is
\* written there, and a file is applied only behind those before it.
AppliedInOrder ==
    \A r \in Runners :
        /\ run[r].at = "done" => \A i \in DOMAIN Releases[r] : Releases[r][i] \in applied
        /\ \A i \in 1..run[r].file - 1 : Releases[r][i].version \in Versions(applied)

\* A process starts only where every version of its release took effect.
StartsOnWholeSchema ==
    \A s \in Starters : started[s] = "yes" =>
        \A i \in DOMAIN Releases[s] : Releases[s][i].version \in DOMAIN Count

\* What the processes that migrate owe those that start.
SchemaIsSound == OnceEach /\ AppliedInOrder /\ StartsOnWholeSchema

=============================================================================
