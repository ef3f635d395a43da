------------------------------ MODULE Backups -------------------------------
(***************************************************************************)
(* The snapshots of the database: coordinator/backup.rs takes one a day,   *)
(* in a file named for the day, and keeps the newest ones.  The daily loop *)
(* of the endpoints runs it, at once after a boot, and so does the image   *)
(* backfill before it changes a row: two runs may meet in the same file.   *)
(***************************************************************************)
EXTENDS Integers, FiniteSets

CONSTANTS
    RetainBackups,  \* RETAIN_BACKUPS
    MaxDate,        \* bound on the days
    MaxFaults       \* bound on failures and restarts

\* As many faults as the snapshots that are kept can take: a restart around
\* midnight may leave two files torn, and today's may be removed again.
ASSUME BackupAssumption ==
    RetainBackups \in Nat /\ MaxFaults \in Nat /\ 2 * MaxFaults < RetainBackups

VARIABLES
    date,
    snapshots,  \* the files: the day of each -> who writes it, and whether it is whole
    run,        \* the two runs: their step, their file
    starting,   \* the runs that are to start
    kept,       \* history: the days that ended with a whole snapshot
    faults

backupVars == <<date, snapshots, run, starting, kept, faults>>

Runners   == {"daily", "backfill"}
Resting   == [step |-> "rest", dest |-> 0]
Dated     == DOMAIN snapshots
Put(d, f) == [x \in Dated \cup {d} |-> IF x = d THEN f ELSE snapshots[x]]
Without(ds) == [x \in Dated \ ds |-> snapshots[x]]
AtStep(r, s)  == run[r].step = s
To(r, s)  == run' = [run EXCEPT ![r].step = s]
Rests(r)  == run' = [run EXCEPT ![r] = Resting]
Whole     == {d \in Dated : snapshots[d].whole}

BackupInit ==
    /\ date = 1 /\ snapshots = [x \in {} |-> 0] /\ starting = Runners /\ kept = {} /\ faults = 0
    /\ run = [r \in Runners |-> Resting]

\* run_backup: the file of the day, removed if it is there already.
StartBackup(r) ==
    /\ AtStep(r, "rest") /\ r \in starting /\ starting' = starting \ {r}
    /\ run' = [run EXCEPT ![r] =
         [step |-> IF date \in Dated THEN "remove" ELSE "vacuum", dest |-> date]]
    /\ UNCHANGED <<date, snapshots, faults>>

\* The other run has removed it meanwhile: that is an error.
RemoveStale(r) ==
    /\ AtStep(r, "remove")
    /\ IF run[r].dest \in Dated
       THEN snapshots' = Without({run[r].dest}) /\ To(r, "vacuum")
       ELSE Rests(r) /\ UNCHANGED snapshots
    /\ UNCHANGED <<date, starting, faults>>

\* VACUUM INTO creates its file, and refuses one that is there.
Vacuum(r) ==
    /\ AtStep(r, "vacuum")
    /\ IF run[r].dest \in Dated
       THEN Rests(r) /\ UNCHANGED snapshots
       ELSE snapshots' = Put(run[r].dest, [by |-> r, whole |-> FALSE]) /\ To(r, "copy")
    /\ UNCHANGED <<date, starting, faults>>

Own(r) == run[r].dest \in Dated /\ snapshots[run[r].dest] = [by |-> r, whole |-> FALSE]

\* The copy is done.  If the file was removed under it, nobody notices.
Copied(r) ==
    /\ AtStep(r, "copy")
    /\ IF Own(r)
       THEN snapshots' = Put(run[r].dest, [by |-> r, whole |-> TRUE])
       ELSE UNCHANGED snapshots
    /\ IF r = "daily" THEN To(r, "prune") ELSE Rests(r)
    /\ UNCHANGED <<date, starting, faults>>

\* A full disk: what was written may stay.
VacuumFails(r) ==
    /\ AtStep(r, "copy") /\ faults < MaxFaults /\ faults' = faults + 1
    /\ snapshots' \in {snapshots, IF Own(r) THEN Without({run[r].dest}) ELSE snapshots}
    /\ Rests(r)
    /\ UNCHANGED <<date, starting>>

\* The fault of one that keeps one too few.
SurplusByOne == {d \in Dated : Cardinality({e \in Dated : e > d}) >= RetainBackups - 1}
\* prune_old_backups: all but the newest, by their names.
Surplus == {d \in Dated : Cardinality({e \in Dated : e > d}) >= RetainBackups}

\* The oldest goes first; the listing is one step with the first removal.
PruneOne ==
    /\ AtStep("daily", "prune")
    /\ IF Surplus = {} THEN Rests("daily") /\ UNCHANGED snapshots
       ELSE /\ \E d \in Surplus : /\ \A e \in Surplus : d <= e
                                 /\ snapshots' = Without({d})
            /\ UNCHANGED run
    /\ UNCHANGED <<date, starting, faults>>

\* The interval ticks again.  A run takes less than a day, and the backfill
\* starts at the boot.
Midnight ==
    /\ \A r \in Runners : run[r].dest \in {0, date}
    /\ date < MaxDate /\ date' = date + 1 /\ starting' = {"daily"}
    /\ UNCHANGED <<snapshots, run, faults>>

\* A restart: both runs are cut short, and begin again at the boot.
Reboot ==
    /\ faults < MaxFaults /\ faults' = faults + 1
    /\ run' = [r \in Runners |-> Resting] /\ starting' = Runners
    /\ UNCHANGED <<date, snapshots>>

\* The days that are over, with a whole snapshot that no run is at.
Settled == {d \in Whole : d < date /\ \A r \in Runners : run[r].dest # d}

BackupNext ==
    /\ \/ \E r \in Runners : \/ StartBackup(r) \/ RemoveStale(r)
                             \/ Vacuum(r) \/ Copied(r) \/ VacuumFails(r)
       \/ PruneOne \/ Midnight \/ Reboot
    /\ kept' = kept \cup Settled'

BackupSpec == BackupInit /\ [][BackupNext]_backupVars

\* Once a day has ended with a whole snapshot, a whole one remains, whatever is
\* removed, cut short or pruned: two runs that meet in a file, failures and
\* restarts, as few as BackupAssumption says (run_backup, prune_old_backups).
OneSnapshotRemains == kept # {} => Whole # {}

=============================================================================
