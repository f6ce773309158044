------------------------- MODULE MCConfigMigration -------------------------
(***************************************************************************)
(* A project brought to the shipped schema, for TLC: its files, by         *)
(* EntryMigration, and beside it its configuration, by ConfigMigration, in *)
(* two projects that share one file; the first is reviewed by the role     *)
(* itself, the second still has a filesystem migration to apply.  They     *)
(* share no variable: a behaviour is one of the first or one of the        *)
(* second, as part says.                                                   *)
(***************************************************************************)
EXTENDS EntryMigration, Integers

CONSTANTS Projects, Reviewers, Unready, Budgets, MaxDeaths, MaxRuns

VARIABLES part, config, ready, run, ckpt, deaths, runs, pace, reach, disturbed

C == INSTANCE ConfigMigration WITH file <- config, crashes <- deaths, MaxCrashes <- MaxDeaths

\* A budget is an integer, and none is the mark of a missing one; "global" is
\* no project's id.
ASSUME ConfigAssumption ==
    /\ Budgets \subseteq Int /\ C!Absent \notin Budgets
    /\ C!Shared \notin Projects /\ IsFiniteSet(Projects)

configuration == <<config, ready, run, ckpt, deaths, runs, pace, reach, disturbed>>

Entering == /\ part = "entries" /\ Init
            /\ config = Nothing /\ ready = Nothing /\ run = Nothing /\ ckpt = Nothing /\ deaths = Nothing
            /\ runs = Nothing /\ pace = Nothing /\ reach = Nothing /\ disturbed = TRUE

Configuring == /\ part = "config" /\ C!Init
               /\ entry = Nothing /\ file = Nothing /\ archive = Nothing /\ latest = Nothing
               /\ receipts = Nothing /\ behind = Nothing /\ job = Nothing /\ told = Nothing
               /\ edits = Nothing /\ crashes = Nothing /\ faults = Nothing

EntryNext == part = "entries" /\ Next /\ UNCHANGED <<part, configuration>>

ConfigNext == part = "config" /\ C!Next /\ UNCHANGED <<part, vars>>

ConfigProgress == /\ part = "config"
                  /\ \E p \in Projects : C!Advance(p) \/ (C!Alone /\ C!Plan(p))

MCSpec == /\ Entering \/ Configuring
          /\ [][EntryNext \/ ConfigNext]_<<part, vars, configuration>>
          /\ WF_configuration(ConfigProgress)

\* The entries alone, and the configuration alone, for the one statement about
\* each that fails.
EntrySpec == Entering /\ [][EntryNext]_<<part, vars, configuration>>
ConfigSpec == Configuring /\ [][ConfigNext]_<<part, vars, configuration>>

\* No file written makes a project resolve to another pace, and automatic
\* launches are neither widened nor lost (ConfigMigration!SettingsKept).
SettingsKept == part = "config" => C!SettingsKept

\* Undisturbed, every project ends migrated (ConfigMigration!EventuallyMigrated).
EventuallyMigrated == C!EventuallyMigrated

\* An interrupted migration can be planned again (ConfigMigration!Replannable).
Replannable == part = "config" => C!Replannable
=============================================================================
