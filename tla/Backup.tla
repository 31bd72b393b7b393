------------------------------- MODULE Backup -------------------------------
(***************************************************************************)
(* db_backup, db_restore and deploy/backup_db.sh: an operator, or a timer, *)
(* runs them beside the server, which keeps writing to the database.  A    *)
(* run writes its file in steps and may end between any two of them: the   *)
(* tool fails, its timeout passes, the disk is full, the process is killed.*)
(*                                                                         *)
(* A path is its stem and its suffix.  The stem is the moment the run      *)
(* began, which is what the name in the default directory says (two runs   *)
(* of one second share it, the command's and the script's too), or Given   *)
(* for the path of --output, which lies elsewhere.  The contents of the    *)
(* database are the number of writes it has seen, or Torn when it holds    *)
(* neither that nor what a dump holds: a part of one, or a mixture.        *)
(***************************************************************************)
EXTENDS Integers, FiniteSets

CONSTANTS
    Runs,        \* processes that run the commands
    None, Given, Torn,
    Retention,       \* age from which db_backup prunes a file
    ScriptRetention, \* and backup_db.sh
    MaxWrites,   \* bound: writes of the server
    MaxRuns,     \* bound: commands
    MaxTime      \* bound: the clock

Contents == 0 .. MaxWrites \cup {Torn}

\* What a file holds, None for a part of a dump, and its mtime.
File == [holds : Contents \cup {None}, at : 0 .. MaxTime]

Paths == (0 .. MaxTime \cup {Given}) \X {"dump", "gz"}
InDefaultDir(f) == f[1] # Given

ASSUME BackupAssumption ==
    /\ {Retention, ScriptRetention} \subseteq Nat \ {0} /\ {MaxWrites, MaxRuns, MaxTime} \subseteq Nat
    /\ {Given, Torn} \cap Nat = {}
    /\ None \notin File \cup Paths \cup Contents

VARIABLES
    engine,   \* DATABASES["default"]["ENGINE"]
    data,     \* what the database holds
    files,    \* of each path: the file, or None
    pc, job,  \* the step a run is at, its local variables
    now, runs,
    announced, \* history: where backups announced are, until the path is opened again
    outcome    \* history: how the last restore ended that told success (done, or mixed
               \* if the database is torn all the same) or had dropped the objects

vars == <<engine, data, files, pc, job, now, runs, announced, outcome>>

\* by is the command that runs, opened what the file held when pg_restore opened
\* it.  History: clash, another run writes at one of the paths; chosen, what the
\* file held when the restore began; met, the server wrote during the restore.
NoJob == [path |-> None, by |-> "db_backup", left |-> {}, cutoff |-> 0, began |-> 0,
          opened |-> None, clash |-> FALSE, chosen |-> None, met |-> FALSE]

Commands == {"db_backup", "no_prune", "backup_db.sh"}

\* The age from which a run prunes, and what it looks at.
AgeLimit(j) == IF j.by = "backup_db.sh" THEN ScriptRetention ELSE Retention
Prunable(j) == {f \in Paths : InDefaultDir(f) /\ (j.by = "backup_db.sh" => f[2] = "dump")}

Goto(p, label) == pc' = [pc EXCEPT ![p] = label] /\ UNCHANGED <<engine, now, runs>>

Finish(p) == Goto(p, "idle") /\ job' = [job EXCEPT ![p] = NoJob]

Begin(p, label, j) ==
    /\ pc[p] = "idle"
    /\ runs < MaxRuns
    /\ runs' = runs + 1
    /\ pc' = [pc EXCEPT ![p] = label]
    /\ UNCHANGED <<engine, now>>

Whole(f) == files[f] # None /\ files[f].holds # None
Stem(j) == j.path[1]
Compressed(j) == <<Stem(j), "gz">>
Result(j) == IF engine = "sqlite" THEN Compressed(j) ELSE j.path

Clashing(p, stem) ==
    [q \in Runs |-> IF q # p /\ pc[q] # "idle" /\ job[q].path # None /\ Stem(job[q]) = stem
                    THEN [job[q] EXCEPT !.clash = TRUE] ELSE job[q]]

Clashes(p, stem) ==
    \E q \in Runs \ {p} : pc[q] # "idle" /\ job[q].path # None /\ Stem(job[q]) = stem

-----------------------------------------------------------------------------
(* db_backup, and backup_db.sh, which has no --output and no --no-prune.   *)

\* _resolve_output_path; pg_dump's output, or the copy sqlite3 makes, begins.
StartBackup(p, stem, by) ==
    /\ by = "backup_db.sh" => engine = "postgres" /\ stem = now
    /\ Begin(p, "copy", NoJob)
    /\ files' = [files EXCEPT ![<<stem, "dump">>] = [holds |-> None, at |-> now]]
    /\ announced' = announced \ {<<stem, "dump">>}
    /\ job' = [Clashing(p, stem) EXCEPT ![p] =
                 [NoJob EXCEPT !.path = <<stem, "dump">>, !.by = by, !.began = now,
                               !.clash = Clashes(p, stem)]]
    /\ UNCHANGED <<data, outcome>>

\* The backup is announced; prune follows unless --no-prune.  The directory is
\* listed and the cutoff is the clock's.
Announce(p) ==
    /\ announced' = IF job[p].clash THEN announced ELSE announced \cup {Result(job[p])}
    /\ IF job[p].by = "no_prune" THEN Finish(p)
       ELSE /\ Goto(p, "prune")
            /\ job' = [job EXCEPT ![p].cutoff = now - AgeLimit(job[p]),
                          ![p].left = {f \in Prunable(job[p]) : files'[f] # None}]

\* pg_dump ends well: the snapshot is in the file.
EndDump(p) ==
    /\ pc[p] = "copy" /\ engine = "postgres"
    /\ files' = [files EXCEPT ![job[p].path] = [holds |-> data, at |-> now]]
    /\ Announce(p)
    /\ UNCHANGED <<data, outcome>>

\* sqlite3 .backup ends well; the compressed file is opened.
EndCopy(p) ==
    /\ pc[p] = "copy" /\ engine = "sqlite"
    /\ files' = [files EXCEPT ![job[p].path] = [holds |-> data, at |-> now],
                              ![Compressed(job[p])] = [holds |-> None, at |-> now]]
    /\ announced' = announced \ {Compressed(job[p])}
    /\ Goto(p, "compress")
    /\ UNCHANGED <<data, job, outcome>>

\* The copy is compressed whole, unless another run has taken it away.
Compress(p) ==
    /\ pc[p] = "compress"
    /\ files[job[p].path] # None
    /\ files' = [files EXCEPT ![Compressed(job[p])] =
                    [holds |-> files[job[p].path].holds, at |-> now]]
    /\ Goto(p, "unlink")
    /\ UNCHANGED <<data, job, announced, outcome>>

\* Mutant: the compressed file is removed.
UnlinkCopy_Wrong(p) ==
    /\ pc[p] = "unlink"
    /\ files[job[p].path] # None
    /\ files' = [files EXCEPT ![Compressed(job[p])] = None]
    /\ Announce(p)
    /\ UNCHANGED <<data, outcome>>

\* The uncompressed copy is removed and the backup is announced.
UnlinkCopy(p) ==
    /\ pc[p] = "unlink"
    /\ files[job[p].path] # None
    /\ files' = [files EXCEPT ![job[p].path] = None]
    /\ Announce(p)
    /\ UNCHANGED <<data, outcome>>

\* Mutant: what is younger than the retention is pruned too.
PruneFile_Younger(p, f) ==
    /\ pc[p] = "prune" /\ f \in job[p].left
    /\ job' = [job EXCEPT ![p].left = @ \ {f}]
    /\ files' = [files EXCEPT ![f] =
                    IF @ # None /\ @.at < job[p].cutoff + AgeLimit(job[p]) THEN None ELSE @]
    /\ Goto(p, "prune")
    /\ UNCHANGED <<data, announced, outcome>>

\* One file of the directory, whatever it is: removed if older than the cutoff.
PruneFile(p, f) ==
    /\ pc[p] = "prune" /\ f \in job[p].left
    /\ job' = [job EXCEPT ![p].left = @ \ {f}]
    /\ files' = [files EXCEPT ![f] = IF @ # None /\ @.at < job[p].cutoff THEN None ELSE @]
    /\ Goto(p, "prune")
    /\ UNCHANGED <<data, announced, outcome>>

EndPrune(p) ==
    /\ pc[p] = "prune" /\ job[p].left = {}
    /\ Finish(p)
    /\ UNCHANGED <<data, files, announced, outcome>>

-----------------------------------------------------------------------------
(* db_restore.                                                             *)

\* The file exists and the operator is asked; assumed: one restore at a time.
StartRestore(p, f) ==
    /\ files[f] # None
    /\ \A q \in Runs : pc[q] \notin {"restore", "recreate"}
    /\ Begin(p, "restore", NoJob)
    /\ job' = [job EXCEPT ![p] = [NoJob EXCEPT !.path = f, !.began = now,
                  !.chosen = files[f].holds, !.clash = Clashes(p, f[1])]]
    /\ UNCHANGED <<data, files, announced, outcome>>

\* SQLite: the file is given to .read and success is told if sqlite3 exits with 0,
\* as it does for an empty part.  What a backup holds is the copy of a database and
\* no script: nothing it holds reaches the database.
ReadScript(p) ==
    /\ pc[p] = "restore" /\ engine = "sqlite" /\ files[job[p].path] # None
    /\ outcome' = "done"
    /\ Finish(p)
    /\ UNCHANGED <<data, files, announced>>

\* pg_restore --clean, outside of a transaction: the objects are dropped.
DropObjects(p) ==
    /\ pc[p] = "restore" /\ engine = "postgres"
    /\ files[job[p].path] # None
    /\ data' = Torn
    /\ job' = [job EXCEPT ![p].opened = files[job[p].path].holds]
    /\ Goto(p, "recreate")
    /\ UNCHANGED <<files, announced, outcome>>

\* What pg_restore reads: a file it has opened outlives its name.
Source(j) == IF files[j.path] = None THEN j.opened ELSE files[j.path].holds

\* Mutant: the exit code is not looked at.
Recreate_Unchecked(p) ==
    /\ pc[p] = "recreate"
    /\ data' = IF Source(job[p]) = None THEN Torn ELSE Source(job[p])
    /\ outcome' = "done"
    /\ Finish(p)
    /\ UNCHANGED <<files, announced>>

\* They are created and filled from a file that is whole, and success is told;
\* what the server has stored in between may be among it.  From a part of a
\* file, or if that is in its way, pg_restore fails (EndEarly).
Recreate(p) ==
    /\ pc[p] = "recreate" /\ Source(job[p]) # None
    /\ data' \in {Source(job[p])} \cup IF job[p].met THEN {Torn} ELSE {}
    /\ outcome' = IF data' = Torn THEN "mixed" ELSE "done"
    /\ Finish(p)
    /\ UNCHANGED <<files, announced>>

-----------------------------------------------------------------------------
\* The run ends where it is: CommandError, an exception, or killed.
EndEarly(p) ==
    /\ pc[p] # "idle"
    /\ outcome' = IF pc[p] = "recreate" THEN "failed" ELSE outcome
    /\ Finish(p)
    /\ UNCHANGED <<data, files, announced>>

\* The server stores something (in a torn database: it stays torn).
Write ==
    /\ data # Torn /\ data < MaxWrites
    /\ data' = data + 1
    /\ UNCHANGED <<engine, files, pc, job, now, runs, announced, outcome>>

\* The server is not stopped for a restore: what it stores meets the tables that
\* are there again.
WriteMeets(p) ==
    /\ pc[p] = "recreate"
    /\ job' = [job EXCEPT ![p].met = TRUE]
    /\ UNCHANGED <<engine, data, files, pc, now, runs, announced, outcome>>

BacksUp(p) == pc[p] \in {"copy", "compress", "unlink", "prune"}

\* Assumed: a backup (timeouts of minutes) is over before a retention (days).
Tick ==
    /\ now < MaxTime
    /\ \A p \in Runs, age \in {Retention, ScriptRetention} :
          BacksUp(p) => now < job[p].began + age
    /\ now' = now + 1
    /\ UNCHANGED <<engine, data, files, pc, job, runs, announced, outcome>>

Init ==
    /\ engine \in {"postgres", "sqlite"}
    /\ data = 0
    /\ files = [f \in Paths |-> None]
    /\ pc = [p \in Runs |-> "idle"]
    /\ job = [p \in Runs |-> NoJob]
    /\ now = 0 /\ runs = 0
    /\ announced = {} /\ outcome = "none"

Step(p) ==
    \/ \E by \in Commands : StartBackup(p, now, by) \/ StartBackup(p, Given, by)
    \/ EndDump(p) \/ EndCopy(p) \/ Compress(p) \/ UnlinkCopy(p)
    \/ \E f \in Paths : PruneFile(p, f) \/ StartRestore(p, f)
    \/ EndPrune(p)
    \/ ReadScript(p) \/ DropObjects(p) \/ Recreate(p) \/ WriteMeets(p)
    \/ EndEarly(p)

Next == (\E p \in Runs : Step(p)) \/ Write \/ Tick

Spec == Init /\ [][Next]_vars

-----------------------------------------------------------------------------
Labels == {"idle", "copy", "compress", "unlink", "prune", "restore", "recreate"}

Job ==
    [path : Paths \cup {None}, by : Commands, left : SUBSET Paths, cutoff : Int,
     began : 0 .. MaxTime, opened : Contents \cup {None}, clash : BOOLEAN,
     chosen : Contents \cup {None}, met : BOOLEAN]

TypeOK ==
    /\ engine \in {"postgres", "sqlite"}
    /\ data \in Contents
    /\ files \in [Paths -> File \cup {None}]
    /\ pc \in [Runs -> Labels] /\ job \in [Runs -> Job]
    /\ announced \subseteq Paths /\ outcome \in {"none", "done", "mixed", "failed"}
    /\ now \in 0 .. MaxTime /\ runs \in 0 .. MaxRuns

\* A backup that was announced is there in full until it is pruned, whatever
\* runs begin, overlap and end early; it is not counted once its path is opened
\* again, or if another run wrote there at the same time.
AnnouncedIsWhole ==
    \A f \in announced : files[f] # None => Whole(f)

\* The database is torn exactly from the moment a restore drops the objects to
\* the end of one that puts them back undisturbed: a restore that fails half way
\* leaves it so, and the server goes on with it.  On SQLite it never is.
TornByRestore ==
    /\ data = Torn <=> outcome \in {"failed", "mixed"} \/ \E p \in Runs : pc[p] = "recreate"
    /\ engine = "sqlite" => data # Torn

BackupInv ==
    /\ TypeOK
    /\ AnnouncedIsWhole
    /\ TornByRestore

\* A run knows its file, was begun less than a retention ago, and prunes by a
\* clock that has been.
JobInv(p) ==
    LET j == job[p] IN
    /\ pc[p] = "idle" => j.path = None
    /\ pc[p] # "idle" => j.path \in Paths
    /\ BacksUp(p) =>
          /\ j.path = <<Stem(j), "dump">>
          /\ j.began <= now /\ now <= j.began + Retention /\ now <= j.began + ScriptRetention
    /\ pc[p] \in {"compress", "unlink"} => engine = "sqlite"
    /\ pc[p] = "recreate" => engine = "postgres"
    /\ pc[p] = "prune" => j.cutoff + AgeLimit(j) <= now /\ j.left \subseteq Prunable(j)

\* What has been written since the run began, which nobody prunes.
FreshFile(f, p) == Whole(f) /\ files[f].at >= job[p].began

\* What a run relies on is there, unless another run opened its path; and what
\* it is going to write is nobody's backup.
FileInv(p) ==
    /\ ~ job[p].clash =>
          /\ pc[p] = "compress" => FreshFile(job[p].path, p)
          /\ pc[p] = "unlink" => FreshFile(Compressed(job[p]), p)
          /\ pc[p] = "prune" => FreshFile(Result(job[p]), p) /\ Result(job[p]) \in announced
    /\ pc[p] \in {"copy", "compress", "unlink"} => job[p].path \notin announced
    /\ pc[p] \in {"compress", "unlink"} => Compressed(job[p]) \notin announced

\* What a restore has chosen is what it will read, unless another run writes it.
ChosenInv(p) ==
    ~ job[p].clash =>
        /\ pc[p] = "restore" => files[job[p].path] = None \/ files[job[p].path].holds = job[p].chosen
        /\ pc[p] = "recreate" => Source(job[p]) = job[p].chosen /\ job[p].opened = job[p].chosen

Restores(p) == pc[p] \in {"restore", "recreate"}

\* A run knows of another that writes at its path, and there is one restore.
ClashInv ==
    \A p, q \in Runs : p # q =>
        /\ BacksUp(p) /\ pc[q] # "idle" /\ Stem(job[p]) = Stem(job[q]) => job[q].clash
        /\ ~ (Restores(p) /\ Restores(q))

\* However runs begin, overlap and end early, each finds what it has written or
\* chosen, and BackupInv holds (there is no lock and no temporary name).
IndInv ==
    /\ BackupInv
    /\ \A p \in Runs : JobInv(p) /\ FileInv(p) /\ ChosenInv(p)
    /\ ClashInv

\* p opens the file f for writing in this step.
Opens(p, f) ==
    \/ pc[p] = "idle" /\ pc'[p] = "copy" /\ f = job'[p].path
    \/ pc[p] = "copy" /\ pc'[p] = "compress" /\ f = Compressed(job[p])

\* Nothing of the default directory is lost before its time.  A file in full is
\* removed or emptied only by a run that prunes and when it is older than what
\* that run keeps (backup_db.sh keeps less than db_backup, on the same
\* directory), by the run that opens this very path or shares it with another,
\* or as the copy that its run has compressed.
KeptUntilOld ==
    [][\A f \in Paths :
          Whole(f) /\ ~ Whole(f)' =>
              \E p \in Runs :
                 \/ /\ pc[p] = "prune" /\ files[f].at < now - AgeLimit(job[p])
                    /\ f \in Prunable(job[p])
                 \/ Opens(p, f)
                 \/ pc[p] = "compress" /\ f = Compressed(job[p]) /\ job[p].clash
                 \/ pc[p] = "unlink" /\ f = job[p].path]_vars

\* The backups that were announced and hold a state of the database.
Intact == {f \in announced : files[f] # None /\ files[f].holds \notin {None, Torn}}

\* The last backup one can restore from is never pruned: a run prunes only after
\* a backup of its own.  It may go when its path is opened again, when the run
\* that prunes shared its own path with another, and after a failed restore:
\* the nightly run saves the torn database and prunes what was good.
LastBackupStays ==
    [][Intact # {} /\ Intact' = {} =>
          \E p \in Runs :
             \/ \E f \in Intact : Opens(p, f)
             \/ /\ pc[p] = "prune"
                /\ job[p].clash \/ files[Result(job[p])].holds = Torn]_vars

\* When success is told of a restore on PostgreSQL, the database is what the
\* file held when the operator was asked, however long the answer took, unless
\* another run wrote to that path, or the server to the database, meanwhile.
RestoredAsChosen ==
    [][\A p \in Runs :
          pc[p] = "recreate" /\ pc'[p] = "idle" /\ outcome' # "failed"
          /\ ~ job[p].clash /\ ~ job[p].met =>
              job[p].chosen # None /\ data' = job[p].chosen]_vars
=============================================================================
