---------------------------- MODULE BackupProofs ----------------------------
(***************************************************************************)
(* Proofs about Backup for any number of runs, commands and writes and any *)
(* two retentions.  Two runs that meet at a path know it, and what a run   *)
(* has written since it began is too young for anybody to prune: so the    *)
(* file of a run that is alone at its path is there when the run relies on *)
(* it, and the last backup in full is not pruned.                          *)
(***************************************************************************)
EXTENDS Backup, TLAPS

-----------------------------------------------------------------------------
(* Paths and locals.                                                       *)

LEMMA PathOf ==
    ASSUME NEW f \in Paths
    PROVE  <<f[1], "dump">> \in Paths /\ <<f[1], "gz">> \in Paths /\ f = <<f[1], f[2]>>
  BY DEF Paths

\* What a run that writes knows of its paths.
LEMMA OwnPaths ==
    ASSUME IndInv, NEW p \in Runs, BacksUp(p)
    PROVE  /\ job[p].path \in Paths /\ job[p].path = <<Stem(job[p]), "dump">>
           /\ Compressed(job[p]) \in Paths /\ Compressed(job[p]) = <<Stem(job[p]), "gz">>
           /\ Compressed(job[p]) # job[p].path
           /\ Result(job[p]) \in Paths /\ Result(job[p])[1] = Stem(job[p])
           /\ job[p].path[1] = Stem(job[p]) /\ Compressed(job[p])[1] = Stem(job[p])
<1>1. job[p].path \in Paths /\ job[p].path = <<Stem(job[p]), "dump">>
  BY DEF IndInv, JobInv, BacksUp
<1>2. Stem(job[p]) = job[p].path[1]
  BY DEF Stem
<1> QED
  BY <1>1, <1>2, PathOf DEF Compressed, Result

\* The other runs do not move.
Alone(p) == \A q \in Runs \ {p} : pc'[q] = pc[q] /\ job'[q] = job[q]

\* Older than what one of the commands keeps.
Old(f) == files[f].at < now - Retention \/ files[f].at < now - ScriptRetention

\* p writes at its own paths, and removes what is old.
WritesItsOwn(p) ==
    \A f \in Paths :
        \/ files'[f] = files[f]
        \/ BacksUp(p) /\ f[1] = Stem(job[p])
        \/ files[f] # None /\ Old(f) /\ files'[f] = None

\* p announces and withdraws backups at its own paths.
AnnouncesItsOwn(p) ==
    \A f \in Paths :
        \/ f \in announced' <=> f \in announced
        \/ /\ BacksUp(p) /\ f[1] = Stem(job[p])
           /\ f \in announced' => ~ job[p].clash

LEMMA Types ==
    ASSUME IndInv
    PROVE  /\ engine \in {"postgres", "sqlite"} /\ data \in Contents
           /\ files \in [Paths -> File \cup {None}]
           /\ pc \in [Runs -> Labels] /\ job \in [Runs -> Job]
           /\ announced \subseteq Paths /\ outcome \in {"none", "done", "mixed", "failed"}
           /\ now \in 0 .. MaxTime /\ now \in Nat /\ runs \in 0 .. MaxRuns
           /\ Retention \in Nat /\ ScriptRetention \in Nat
  BY BackupAssumption DEF IndInv, BackupInv, TypeOK

LEMMA JobTypes ==
    ASSUME IndInv, NEW p \in Runs
    PROVE  /\ job[p] \in Job /\ job[p].began \in Nat
           /\ BacksUp(p) => /\ job[p].began <= now
                            /\ now - Retention <= job[p].began
                            /\ now - ScriptRetention <= job[p].began
<1>1. job[p] \in Job
  BY Types
<1>2. job[p].began \in Nat
  BY <1>1, BackupAssumption DEF Job
<1>3. BacksUp(p) => /\ job[p].began <= now
                    /\ now <= job[p].began + Retention
                    /\ now <= job[p].began + ScriptRetention
  BY DEF IndInv, JobInv
<1> QED
  BY <1>1, <1>2, <1>3, Types

LEMMA FileTypes ==
    ASSUME IndInv, NEW f \in Paths, files[f] # None
    PROVE  files[f] \in File /\ files[f].at \in Nat /\ files[f].holds \in Contents \cup {None}
<1>1. files[f] \in File
  BY Types
<1> QED
  BY <1>1, BackupAssumption DEF File

\* What a run has written is not old while it runs.
LEMMA FreshIsYoung ==
    ASSUME IndInv, NEW q \in Runs, BacksUp(q), NEW f \in Paths, FreshFile(f, q)
    PROVE  ~ Old(f)
<1>1. files[f].at \in Nat /\ files[f].at >= job[q].began
  BY FileTypes DEF FreshFile, Whole
<1> QED
  BY <1>1, JobTypes, Types DEF Old

\* It stays while others write at other paths.
LEMMA FreshStays ==
    ASSUME IndInv, NEW p \in Runs, NEW q \in Runs, p # q,
           BacksUp(q), ~ job[q].clash, WritesItsOwn(p),
           NEW f \in Paths, f[1] = Stem(job[q]), FreshFile(f, q)
    PROVE  files'[f] = files[f]
<1>1. ~ Old(f)
  BY FreshIsYoung
<1>2. ~ (BacksUp(p) /\ f[1] = Stem(job[p]))
  BY DEF IndInv, ClashInv, BacksUp
<1> QED
  BY <1>1, <1>2 DEF WritesItsOwn

\* The others keep what they rely on while one run moves.
LEMMA OthersKeep ==
    ASSUME IndInv, NEW p \in Runs, Alone(p), WritesItsOwn(p), AnnouncesItsOwn(p),
           engine' = engine, now' = now
    PROVE  \A q \in Runs \ {p} : JobInv(q)' /\ FileInv(q)' /\ ChosenInv(q)'
<1> SUFFICES ASSUME NEW q \in Runs, q # p PROVE JobInv(q)' /\ FileInv(q)' /\ ChosenInv(q)'
  OBVIOUS
<1>1. pc'[q] = pc[q] /\ job'[q] = job[q]
  BY DEF Alone
<1>2. JobInv(q)'
  <2>1. Prunable(job[q])' = Prunable(job[q])
    BY <1>1 DEF Prunable
  <2> QED
    BY <1>1, <2>1 DEF IndInv, JobInv, BacksUp, Stem, AgeLimit
<1>3. /\ Compressed(job[q])' = Compressed(job[q]) /\ Result(job[q])' = Result(job[q])
      /\ Stem(job[q])' = Stem(job[q])
  BY <1>1 DEF Compressed, Result, Stem
<1>4. ASSUME BacksUp(q) PROVE FileInv(q)'
  <2>1. FileInv(q)
    BY DEF IndInv
  <2>2. ASSUME ~ job[q].clash, NEW f \in Paths, f[1] = Stem(job[q])
        PROVE  /\ FreshFile(f, q) => FreshFile(f, q)'
               /\ f \in announced => f \in announced'
    <3>1. ~ (BacksUp(p) /\ f[1] = Stem(job[p]))
      BY <1>4, <2>2 DEF IndInv, ClashInv, BacksUp
    <3>2. FreshFile(f, q) => FreshFile(f, q)'
      BY <1>1, <1>4, <2>2, FreshStays DEF FreshFile, Whole
    <3> QED
      BY <3>1, <3>2 DEF AnnouncesItsOwn
  <2>3. ASSUME NEW f \in Paths, f[1] = Stem(job[q]), f \notin announced
        PROVE  f \notin announced'
    <3>1. BacksUp(p) /\ f[1] = Stem(job[p]) => job[p].clash
      BY <1>4, <2>3 DEF IndInv, ClashInv, BacksUp
    <3> QED
      BY <2>3, <3>1 DEF AnnouncesItsOwn
  <2> QED
    BY <1>1, <1>3, <1>4, <2>1, <2>2, <2>3, OwnPaths DEF FileInv
<1>5. ~ BacksUp(q) => FileInv(q)'
  BY <1>1 DEF FileInv, BacksUp
<1>6. ChosenInv(q)'
  <2> SUFFICES ASSUME ~ job[q].clash, Restores(q) PROVE ChosenInv(q)'
    BY <1>1 DEF ChosenInv, Restores
  <2>1. job[q].path \in Paths /\ pc[q] # "idle" /\ ChosenInv(q)
    BY DEF IndInv, JobInv, Restores
  <2>2. ~ (BacksUp(p) /\ job[q].path[1] = Stem(job[p]))
    BY <2>1 DEF IndInv, ClashInv, Stem
  <2>3. files'[job[q].path] = files[job[q].path] \/ files'[job[q].path] = None
    BY <2>1, <2>2 DEF WritesItsOwn
  <2> QED
    BY <1>1, <2>1, <2>3 DEF ChosenInv, Source, Restores
<1> QED
  BY <1>2, <1>4, <1>5, <1>6

\* Who knows whom stays while no run opens a path.
LEMMA ClashStays ==
    ASSUME IndInv, NEW p \in Runs, Alone(p),
           pc'[p] # "idle" => /\ pc[p] # "idle" /\ job'[p].path = job[p].path
                              /\ job'[p].clash = job[p].clash
                              /\ BacksUp(p)' => BacksUp(p)
                              /\ Restores(p)' => Restores(p)
    PROVE  ClashInv'
<1>1. \A q \in Runs : pc'[q] # "idle" =>
         /\ pc[q] # "idle" /\ Stem(job[q])' = Stem(job[q])
         /\ job'[q].clash = job[q].clash
         /\ BacksUp(q)' => BacksUp(q)
         /\ Restores(q)' => Restores(q)
  BY DEF Alone, BacksUp, Restores, Stem
<1>2. \A q \in Runs : BacksUp(q)' \/ Restores(q)' => pc'[q] # "idle"
  BY DEF BacksUp, Restores
<1>3. ClashInv
  BY DEF IndInv
<1> QED
  BY <1>1, <1>2, <1>3 DEF ClashInv

LEMMA Assemble ==
    ASSUME IndInv, NEW p \in Runs, Alone(p), WritesItsOwn(p), AnnouncesItsOwn(p),
           engine' = engine, now' = now, ClashInv',
           TypeOK', JobInv(p)', FileInv(p)', ChosenInv(p)', AnnouncedIsWhole',
           TornByRestore'
    PROVE  IndInv'
<1>1. \A q \in Runs : JobInv(q)' /\ FileInv(q)' /\ ChosenInv(q)'
  BY OthersKeep
<1> QED
  BY <1>1 DEF IndInv, BackupInv

\* A step that neither begins nor ends a restore leaves the database torn or not.
LEMMA TornStays ==
    ASSUME IndInv, NEW p \in Runs, \A q \in Runs : pc'[q] = "recreate" <=> pc[q] = "recreate",
           data' = data, outcome' = outcome, engine' = engine
    PROVE  TornByRestore'
  BY DEF IndInv, BackupInv, TornByRestore

-----------------------------------------------------------------------------
(* Steps that write no file.                                               *)

\* The end of a run, whichever it is.
LEMMA Finishing ==
    ASSUME IndInv, NEW p \in Runs, Finish(p)
    PROVE  /\ Alone(p) /\ pc'[p] = "idle" /\ job'[p] = NoJob
           /\ engine' = engine /\ now' = now /\ runs' = runs
           /\ pc' \in [Runs -> Labels] /\ job' \in [Runs -> Job]
           /\ ClashInv' /\ JobInv(p)' /\ FileInv(p)' /\ ChosenInv(p)'
<1>1. NoJob \in Job /\ NoJob.path = None
  BY BackupAssumption DEF NoJob, Job, Commands
<1>2. pc'[p] = "idle" /\ job'[p] = NoJob /\ Alone(p)
  BY Types DEF Finish, Goto, Alone
<1>3. ClashInv'
  BY <1>2, ClashStays
<1>4. pc' \in [Runs -> Labels] /\ job' \in [Runs -> Job]
  BY <1>1, Types DEF Finish, Goto, Labels
<1> QED
  BY <1>1, <1>2, <1>3, <1>4 DEF Finish, Goto, JobInv, FileInv, ChosenInv, BacksUp

\* Steps that end the run and write no file.
LEMMA QuietEnd ==
    ASSUME IndInv, NEW p \in Runs, Finish(p), files' = files, announced' = announced,
           data' \in Contents, outcome' \in {"none", "done", "mixed", "failed"},
           TornByRestore'
    PROVE  IndInv'
<1>1. TypeOK'
  BY Types, Finishing DEF TypeOK
<1>2. WritesItsOwn(p) /\ AnnouncesItsOwn(p)
  BY DEF WritesItsOwn, AnnouncesItsOwn
<1>3. AnnouncedIsWhole'
  BY DEF IndInv, BackupInv, AnnouncedIsWhole, Whole
<1> QED
  BY <1>1, <1>2, <1>3, Finishing, Assemble

LEMMA EndPruneStep ==
    ASSUME IndInv, NEW p \in Runs, EndPrune(p)
    PROVE  IndInv'
<1>1. \A q \in Runs : pc'[q] = "recreate" <=> pc[q] = "recreate"
  BY Finishing DEF EndPrune, Alone
<1>2. TornByRestore'
  BY <1>1, Finishing, TornStays DEF EndPrune
<1> QED
  BY <1>2, Types, QuietEnd DEF EndPrune

LEMMA ReadScriptStep ==
    ASSUME IndInv, NEW p \in Runs, ReadScript(p)
    PROVE  IndInv'
<1>1. /\ Finish(p) /\ files' = files /\ announced' = announced /\ data' = data
      /\ outcome' = "done" /\ pc[p] = "restore" /\ engine = "sqlite"
  BY DEF ReadScript
<1>2. \A q \in Runs : pc[q] # "recreate" /\ pc'[q] # "recreate"
  BY <1>1, Finishing DEF Alone, IndInv, JobInv
<1>3. data # Torn
  BY <1>1 DEF IndInv, BackupInv, TornByRestore
<1>4. TornByRestore'
  BY <1>1, <1>2, <1>3 DEF TornByRestore
<1> QED
  BY <1>1, <1>4, Types, QuietEnd

\* The run ends where it is; if it was putting the objects back, they stay torn.
LEMMA EndEarlyStep ==
    ASSUME IndInv, NEW p \in Runs, EndEarly(p)
    PROVE  IndInv'
<1>1. /\ Finish(p) /\ files' = files /\ announced' = announced /\ data' = data
      /\ outcome' = IF pc[p] = "recreate" THEN "failed" ELSE outcome
  BY DEF EndEarly
<1>2. pc'[p] = "idle" /\ engine' = engine /\ \A q \in Runs \ {p} : pc'[q] = pc[q]
  BY <1>1, Finishing DEF Alone
<1>3. TornByRestore'
  <2>1. CASE pc[p] = "recreate"
    BY <1>1, <1>2, <2>1 DEF IndInv, BackupInv, TornByRestore
  <2>2. CASE pc[p] # "recreate"
    BY <1>1, <1>2, <2>2 DEF IndInv, BackupInv, TornByRestore
  <2> QED
    BY <2>1, <2>2
<1> QED
  BY <1>1, <1>3, Types, QuietEnd

\* What pg_restore reads.
LEMMA SourceType ==
    ASSUME IndInv, NEW p \in Runs, pc[p] = "recreate"
    PROVE  Source(job[p]) \in Contents \cup {None} /\ job[p].path \in Paths
<1>1. job[p].path \in Paths /\ job[p].opened \in Contents \cup {None}
  BY Types DEF IndInv, JobInv, Job
<1> QED
  BY <1>1, FileTypes DEF Source

LEMMA RecreateStep ==
    ASSUME IndInv, NEW p \in Runs, Recreate(p)
    PROVE  IndInv'
<1>1. /\ Finish(p) /\ files' = files /\ announced' = announced /\ pc[p] = "recreate"
      /\ outcome' = IF data' = Torn THEN "mixed" ELSE "done"
      /\ Source(job[p]) # None
      /\ data' \in {Source(job[p])} \cup IF job[p].met THEN {Torn} ELSE {}
  BY DEF Recreate
<1>2. data' \in Contents
  BY <1>1, SourceType DEF Contents
<1>3. engine = "postgres" /\ engine' = engine
  BY <1>1, Finishing DEF IndInv, JobInv
<1>4. \A q \in Runs : pc'[q] # "recreate"
  <2>1. \A q \in Runs \ {p} : pc[q] # "recreate"
    BY <1>1 DEF IndInv, ClashInv, Restores
  <2> QED
    BY <1>1, <2>1, Finishing DEF Alone
<1>5. TornByRestore'
  BY <1>1, <1>3, <1>4 DEF TornByRestore
<1> QED
  BY <1>1, <1>2, <1>5, QuietEnd

\* The label moves and what a run knows of its path stays.
LEMMA Going ==
    ASSUME IndInv, NEW p \in Runs, NEW new \in Job, job' = [job EXCEPT ![p] = new],
           new.path = job[p].path, new.clash = job[p].clash, pc[p] # "idle",
           NEW l \in Labels, Goto(p, l), l \in {"compress", "unlink", "prune"} => BacksUp(p),
           l = "recreate" => Restores(p), l \notin {"idle", "copy", "restore"}
    PROVE  /\ Alone(p) /\ pc'[p] = l /\ job'[p] = new
           /\ engine' = engine /\ now' = now /\ runs' = runs
           /\ pc' \in [Runs -> Labels] /\ job' \in [Runs -> Job]
           /\ ClashInv'
<1>1. /\ Alone(p) /\ pc'[p] = l /\ job'[p] = new
      /\ engine' = engine /\ now' = now /\ runs' = runs
      /\ pc' \in [Runs -> Labels] /\ job' \in [Runs -> Job]
  BY Types DEF Goto, Alone
<1>2. ClashInv'
  <2>1. (BacksUp(p)' => BacksUp(p)) /\ (Restores(p)' => Restores(p))
    BY <1>1 DEF BacksUp, Restores
  <2> QED
    BY <1>1, <2>1, ClashStays
<1> QED
  BY <1>1, <1>2

LEMMA DropObjectsStep ==
    ASSUME IndInv, NEW p \in Runs, DropObjects(p)
    PROVE  IndInv'
<1>1. /\ Goto(p, "recreate") /\ files' = files /\ announced' = announced
      /\ job' = [job EXCEPT ![p].opened = files[job[p].path].holds]
      /\ data' = Torn /\ outcome' = outcome /\ files[job[p].path] # None
      /\ pc[p] = "restore" /\ engine = "postgres"
  BY DEF DropObjects
<1>2. job[p].path \in Paths /\ job[p] \in Job
  BY <1>1, Types DEF IndInv, JobInv
<1>3. PICK h \in Contents \cup {None} : h = files[job[p].path].holds
  BY <1>1, <1>2, FileTypes
<1>4. PICK new \in Job : new = [job[p] EXCEPT !.opened = h]
  BY <1>2, <1>3 DEF Job
<1>5. /\ new.path = job[p].path /\ new.clash = job[p].clash /\ new.opened = h
      /\ new.chosen = job[p].chosen
  BY <1>2, <1>4 DEF Job
<1>6. /\ Alone(p) /\ pc'[p] = "recreate" /\ job'[p] = new
      /\ engine' = engine /\ now' = now /\ runs' = runs
      /\ pc' \in [Runs -> Labels] /\ job' \in [Runs -> Job]
      /\ ClashInv'
  BY <1>1, <1>3, <1>4, <1>5, Going DEF Labels, Restores
<1>7. TypeOK'
  BY <1>1, <1>6, Types DEF TypeOK, Contents
<1>8. JobInv(p)' /\ FileInv(p)'
  BY <1>1, <1>2, <1>5, <1>6 DEF JobInv, FileInv, BacksUp, Stem
<1>9. ChosenInv(p)'
  BY <1>1, <1>3, <1>5, <1>6 DEF IndInv, ChosenInv, Source
<1>10. WritesItsOwn(p) /\ AnnouncesItsOwn(p) /\ AnnouncedIsWhole'
  BY <1>1 DEF WritesItsOwn, AnnouncesItsOwn, IndInv, BackupInv, AnnouncedIsWhole, Whole
<1>11. TornByRestore'
  BY <1>1, <1>6 DEF TornByRestore
<1> QED
  BY <1>6, <1>7, <1>8, <1>9, <1>10, <1>11, Assemble

\* The server writes while a restore puts the objects back.
LEMMA WriteMeetsStep ==
    ASSUME IndInv, NEW p \in Runs, WriteMeets(p)
    PROVE  IndInv'
<1>1. /\ job' = [job EXCEPT ![p].met = TRUE] /\ pc[p] = "recreate"
      /\ engine' = engine /\ data' = data /\ files' = files /\ pc' = pc /\ now' = now
      /\ runs' = runs /\ announced' = announced /\ outcome' = outcome
  BY DEF WriteMeets
<1>2. job[p] \in Job
  BY Types
<1>3. PICK new \in Job : new = [job[p] EXCEPT !.met = TRUE]
  BY <1>2 DEF Job
<1>4. /\ new.path = job[p].path /\ new.clash = job[p].clash /\ new.opened = job[p].opened
      /\ new.chosen = job[p].chosen
  BY <1>2, <1>3 DEF Job
<1>5. /\ Alone(p) /\ job'[p] = new /\ job' \in [Runs -> Job]
      /\ pc'[p] = pc[p]
  BY <1>1, <1>3, Types DEF Alone
<1>6. ClashInv'
  BY <1>1, <1>4, <1>5, ClashStays DEF BacksUp, Restores
<1>7. TypeOK' /\ TornByRestore'
  BY <1>1, <1>5, Types DEF TypeOK, IndInv, BackupInv, TornByRestore
<1>8. JobInv(p)' /\ FileInv(p)' /\ ChosenInv(p)'
  BY <1>1, <1>4, <1>5 DEF IndInv, JobInv, FileInv, ChosenInv, Source, BacksUp, Stem
<1>9. WritesItsOwn(p) /\ AnnouncesItsOwn(p) /\ AnnouncedIsWhole'
  BY <1>1 DEF WritesItsOwn, AnnouncesItsOwn, IndInv, BackupInv, AnnouncedIsWhole, Whole
<1> QED
  BY <1>1, <1>5, <1>6, <1>7, <1>8, <1>9, Assemble

-----------------------------------------------------------------------------
(* The steps of a backup.                                                  *)

\* A file as a step of p leaves it: in full, and no older than the run.
Leaves(p, f) ==
    files'[f] # None /\ files'[f].holds # None /\ files'[f].at >= job[p].began

LEMMA SavedIsFresh ==
    ASSUME IndInv, NEW p \in Runs, BacksUp(p), NEW f \in Paths, NEW c \in Contents,
           files'[f] = [holds |-> c, at |-> now]
    PROVE  Leaves(p, f)
<1>1. files'[f] \in File
  BY Types DEF File
<1> QED
  BY <1>1, BackupAssumption, JobTypes DEF Leaves

\* The backup of a run that nobody crossed is there when it is announced.
LEMMA AnnounceStep ==
    ASSUME IndInv, NEW p \in Runs, pc[p] \in {"copy", "unlink"}, Announce(p),
           files' \in [Paths -> File \cup {None}], data' = data, outcome' = outcome,
           WritesItsOwn(p), \A f \in announced : files'[f] = files[f],
           NEW g, g = Result(job[p]), ~ job[p].clash => Leaves(p, g)
    PROVE  IndInv'
<1>1. g \in Paths /\ g[1] = Stem(job[p]) /\ job[p] \in Job /\ pc[p] # "idle" /\ BacksUp(p)
  BY OwnPaths, Types DEF BacksUp
<1>2. announced' = IF job[p].clash THEN announced ELSE announced \cup {g}
  BY DEF Announce
<1>3. announced' \subseteq Paths /\ AnnouncesItsOwn(p)
  BY <1>1, <1>2, Types DEF AnnouncesItsOwn
<1>4. AnnouncedIsWhole'
  BY <1>2 DEF IndInv, BackupInv, AnnouncedIsWhole, Whole, Leaves
<1>5. CASE job[p].by = "no_prune"
  <2>1. Finish(p)
    BY <1>5 DEF Announce
  <2>2. TypeOK'
    BY <1>3, <2>1, Finishing, Types DEF TypeOK
  <2>3. \A q \in Runs : pc'[q] = "recreate" <=> pc[q] = "recreate"
    BY <2>1, Finishing DEF Alone
  <2>4. TornByRestore'
    BY <2>1, <2>3, Finishing, TornStays
  <2> QED
    BY <1>3, <1>4, <2>1, <2>2, <2>4, Finishing, Assemble
<1>6. CASE job[p].by # "no_prune"
  <2>1. PICK S \in SUBSET Paths :
            S = {f \in Prunable(job[p]) : files'[f] # None}
    BY DEF Prunable
  <2>2. PICK c \in Int : c = now - AgeLimit(job[p])
    BY Types DEF AgeLimit
  <2>3. Goto(p, "prune") /\ job' = [job EXCEPT ![p].cutoff = c, ![p].left = S]
    BY <1>6, <2>1, <2>2 DEF Announce
  <2>4. PICK new \in Job : new = [job[p] EXCEPT !.cutoff = c, !.left = S]
    BY <1>1 DEF Job
  <2>5. /\ new.path = job[p].path /\ new.clash = job[p].clash /\ new.began = job[p].began
        /\ new.cutoff = c /\ new.by = job[p].by
    BY <1>1, <2>4 DEF Job
  <2>6. job' = [job EXCEPT ![p] = new]
    BY <2>3, <2>4, Types
  <2>7. /\ Alone(p) /\ pc'[p] = "prune" /\ job'[p] = new
        /\ engine' = engine /\ now' = now /\ runs' = runs
        /\ pc' \in [Runs -> Labels] /\ job' \in [Runs -> Job]
        /\ ClashInv'
    BY <1>1, <2>3, <2>5, <2>6, Going DEF Labels
  <2>8. TypeOK'
    BY <1>3, <2>7, Types DEF TypeOK
  <2>9. \A q \in Runs : pc'[q] = "recreate" <=> pc[q] = "recreate"
    BY <2>7 DEF Alone
  <2>10. TornByRestore'
    BY <2>7, <2>9, TornStays
  <2>11. JobInv(p)'
    <3>1. /\ job[p].path = <<Stem(job[p]), "dump">> /\ job[p].path \in Paths
          /\ job[p].began <= now /\ now <= job[p].began + Retention
          /\ now <= job[p].began + ScriptRetention
      BY <1>1, OwnPaths DEF IndInv, JobInv
    <3>2. c + AgeLimit(new) <= now
      BY <2>2, <2>5, Types DEF AgeLimit
    <3>3. new.left \subseteq Prunable(new)
      BY <1>1, <2>1, <2>4, <2>5 DEF Prunable, Job
    <3>4. AgeLimit(job[p])' = AgeLimit(new) /\ Prunable(job[p])' = Prunable(new)
      BY <2>7 DEF AgeLimit, Prunable
    <3> QED
      BY <2>5, <2>7, <3>1, <3>2, <3>3, <3>4 DEF JobInv, BacksUp, Stem
  <2>12. FileInv(p)'
    <3>1. Result(job[p])' = g
      BY <2>5, <2>7 DEF Result, Compressed, Stem
    <3> QED
      BY <1>2, <2>5, <2>7, <3>1 DEF FileInv, FreshFile, Leaves, Whole
  <2>13. ChosenInv(p)'
    BY <2>7 DEF ChosenInv
  <2> QED
    BY <1>3, <1>4, <2>7, <2>8, <2>10, <2>11, <2>12, <2>13, Assemble
<1> QED
  BY <1>5, <1>6

LEMMA EndDumpStep ==
    ASSUME IndInv, NEW p \in Runs, EndDump(p)
    PROVE  IndInv'
<1>1. /\ pc[p] = "copy" /\ engine = "postgres" /\ Announce(p)
      /\ files' = [files EXCEPT ![job[p].path] = [holds |-> data, at |-> now]]
      /\ data' = data /\ outcome' = outcome
  BY DEF EndDump
<1>2. BacksUp(p) /\ Result(job[p]) = job[p].path
  BY <1>1 DEF BacksUp, Result
<1>3. /\ files'[job[p].path] = [holds |-> data, at |-> now]
      /\ files' \in [Paths -> File \cup {None}]
  BY <1>1, <1>2, Types, OwnPaths DEF File
<1>4. WritesItsOwn(p)
  BY <1>1, <1>2, Types, OwnPaths DEF WritesItsOwn
<1>5. Leaves(p, job[p].path)
  BY <1>2, <1>3, Types, OwnPaths, SavedIsFresh
<1>6. \A f \in announced : files'[f] = files[f]
  <2>1. job[p].path \notin announced
    BY <1>1 DEF IndInv, FileInv
  <2> QED
    BY <1>1, <2>1, Types
<1> QED
  BY <1>1, <1>2, <1>3, <1>4, <1>5, <1>6, AnnounceStep

LEMMA UnlinkCopyStep ==
    ASSUME IndInv, NEW p \in Runs, UnlinkCopy(p)
    PROVE  IndInv'
<1>1. /\ pc[p] = "unlink" /\ Announce(p)
      /\ files' = [files EXCEPT ![job[p].path] = None]
      /\ data' = data /\ outcome' = outcome
  BY DEF UnlinkCopy
<1>2. BacksUp(p) /\ engine = "sqlite" /\ Result(job[p]) = Compressed(job[p])
  BY <1>1 DEF BacksUp, Result, IndInv, JobInv
<1>3. files' \in [Paths -> File \cup {None}] /\ WritesItsOwn(p)
  BY <1>1, <1>2, Types, OwnPaths DEF WritesItsOwn
<1>4. ~ job[p].clash => Leaves(p, Compressed(job[p]))
  <2>1. ~ job[p].clash => FreshFile(Compressed(job[p]), p)
    BY <1>1 DEF IndInv, FileInv
  <2>2. files'[Compressed(job[p])] = files[Compressed(job[p])]
    BY <1>1, <1>2, Types, OwnPaths
  <2> QED
    BY <2>1, <2>2 DEF FreshFile, Whole, Leaves
<1>5. \A f \in announced : files'[f] = files[f]
  <2>1. job[p].path \notin announced
    BY <1>1 DEF IndInv, FileInv
  <2> QED
    BY <1>1, <2>1, Types
<1> QED
  BY <1>1, <1>2, <1>3, <1>4, <1>5, AnnounceStep

LEMMA EndCopyStep ==
    ASSUME IndInv, NEW p \in Runs, EndCopy(p)
    PROVE  IndInv'
<1>1. /\ pc[p] = "copy" /\ engine = "sqlite" /\ Goto(p, "compress")
      /\ files' = [files EXCEPT ![job[p].path] = [holds |-> data, at |-> now],
                                ![Compressed(job[p])] = [holds |-> None, at |-> now]]
      /\ announced' = announced \ {Compressed(job[p])}
      /\ data' = data /\ job' = job /\ outcome' = outcome
  BY DEF EndCopy
<1>2. BacksUp(p) /\ pc[p] # "idle" /\ job[p].path \notin announced
  BY <1>1 DEF BacksUp, IndInv, FileInv
<1>3. /\ files'[job[p].path] = [holds |-> data, at |-> now]
      /\ \A f \in Paths \ {job[p].path, Compressed(job[p])} : files'[f] = files[f]
      /\ files' \in [Paths -> File \cup {None}]
  BY <1>1, <1>2, Types, OwnPaths DEF File
<1>4. WritesItsOwn(p) /\ AnnouncesItsOwn(p)
  BY <1>1, <1>2, <1>3, OwnPaths DEF WritesItsOwn, AnnouncesItsOwn
<1>5. /\ Alone(p) /\ pc'[p] = "compress" /\ job'[p] = job[p]
      /\ engine' = engine /\ now' = now /\ runs' = runs
      /\ pc' \in [Runs -> Labels] /\ job' \in [Runs -> Job]
      /\ ClashInv'
  <2>1. job' = [job EXCEPT ![p] = job[p]] /\ job[p] \in Job
    BY <1>1, Types
  <2> QED
    BY <1>1, <1>2, <2>1, Going DEF Labels
<1>6. TypeOK'
  BY <1>1, <1>3, <1>5, Types DEF TypeOK
<1>7. JobInv(p)' /\ ChosenInv(p)'
  BY <1>1, <1>2, <1>5 DEF IndInv, JobInv, BacksUp, Stem, ChosenInv
<1>8. FileInv(p)'
  <2>1. Leaves(p, job[p].path)
    BY <1>2, <1>3, OwnPaths, SavedIsFresh, Types
  <2>2. Compressed(job[p])' = Compressed(job[p])
    BY <1>5 DEF Compressed, Stem
  <2> QED
    BY <1>1, <1>2, <1>5, <2>1, <2>2 DEF FileInv, FreshFile, Whole, Leaves
<1>9. AnnouncedIsWhole'
  <2>1. \A f \in announced' : f \in announced /\ files'[f] = files[f]
    BY <1>1, <1>2, <1>3, Types
  <2> QED
    BY <2>1 DEF IndInv, BackupInv, AnnouncedIsWhole, Whole
<1>10. TornByRestore'
  <2>1. \A q \in Runs : pc'[q] = "recreate" <=> pc[q] = "recreate"
    BY <1>1, <1>5 DEF Alone
  <2> QED
    BY <1>1, <1>5, <2>1, TornStays
<1> QED
  BY <1>4, <1>5, <1>6, <1>7, <1>8, <1>9, <1>10, Assemble

\* The copy is in full unless another run has opened its path.
LEMMA CompressStep ==
    ASSUME IndInv, NEW p \in Runs, Compress(p)
    PROVE  IndInv'
<1>1. /\ pc[p] = "compress" /\ Goto(p, "unlink") /\ files[job[p].path] # None
      /\ files' = [files EXCEPT ![Compressed(job[p])] =
                      [holds |-> files[job[p].path].holds, at |-> now]]
      /\ data' = data /\ job' = job /\ announced' = announced /\ outcome' = outcome
  BY DEF Compress
<1>2. /\ BacksUp(p) /\ pc[p] # "idle" /\ engine = "sqlite"
      /\ job[p].path \notin announced /\ Compressed(job[p]) \notin announced
  BY <1>1 DEF BacksUp, IndInv, JobInv, FileInv
<1>3. files[job[p].path].holds \in Contents \cup {None}
  BY <1>1, <1>2, FileTypes, OwnPaths
<1>4. /\ files'[Compressed(job[p])] = [holds |-> files[job[p].path].holds, at |-> now]
      /\ \A f \in Paths \ {Compressed(job[p])} : files'[f] = files[f]
      /\ files' \in [Paths -> File \cup {None}]
  BY <1>1, <1>2, <1>3, Types, OwnPaths DEF File
<1>5. WritesItsOwn(p) /\ AnnouncesItsOwn(p)
  BY <1>1, <1>2, <1>4, OwnPaths DEF WritesItsOwn, AnnouncesItsOwn
<1>6. /\ Alone(p) /\ pc'[p] = "unlink" /\ job'[p] = job[p]
      /\ engine' = engine /\ now' = now /\ runs' = runs
      /\ pc' \in [Runs -> Labels] /\ job' \in [Runs -> Job]
      /\ ClashInv'
  <2>1. job' = [job EXCEPT ![p] = job[p]] /\ job[p] \in Job
    BY <1>1, Types
  <2> QED
    BY <1>1, <1>2, <2>1, Going DEF Labels
<1>7. TypeOK'
  BY <1>1, <1>4, <1>6, Types DEF TypeOK
<1>8. JobInv(p)' /\ ChosenInv(p)'
  BY <1>1, <1>2, <1>6 DEF IndInv, JobInv, BacksUp, Stem, ChosenInv
<1>9. ~ job[p].clash => Leaves(p, Compressed(job[p]))
  <2> SUFFICES ASSUME ~ job[p].clash PROVE Leaves(p, Compressed(job[p]))
    OBVIOUS
  <2>1. files[job[p].path].holds \in Contents
    BY <1>1, <1>3 DEF IndInv, FileInv, FreshFile, Whole
  <2> QED
    BY <1>2, <1>4, <2>1, OwnPaths, SavedIsFresh
<1>10. FileInv(p)'
  <2>1. Compressed(job[p])' = Compressed(job[p])
    BY <1>6 DEF Compressed, Stem
  <2> QED
    BY <1>1, <1>2, <1>6, <1>9, <2>1 DEF FileInv, FreshFile, Whole, Leaves
<1>11. AnnouncedIsWhole'
  <2>1. \A f \in announced' : f \in announced /\ files'[f] = files[f]
    BY <1>1, <1>2, <1>4, Types
  <2> QED
    BY <2>1 DEF IndInv, BackupInv, AnnouncedIsWhole, Whole
<1>12. TornByRestore'
  <2>1. \A q \in Runs : pc'[q] = "recreate" <=> pc[q] = "recreate"
    BY <1>1, <1>6 DEF Alone
  <2> QED
    BY <1>1, <1>6, <2>1, TornStays
<1> QED
  BY <1>5, <1>6, <1>7, <1>8, <1>10, <1>11, <1>12, Assemble

\* What a run prunes is old.
LEMMA PrunedIsOld ==
    ASSUME IndInv, NEW p \in Runs, pc[p] = "prune", NEW f \in Paths, files[f] # None,
           files[f].at < job[p].cutoff
    PROVE  files[f].at < now - AgeLimit(job[p]) /\ Old(f)
<1>1. /\ job[p].cutoff \in Int /\ job[p].cutoff + AgeLimit(job[p]) <= now
      /\ files[f].at \in Nat
  BY JobTypes, FileTypes DEF IndInv, JobInv, Job
<1> QED
  BY <1>1, Types DEF AgeLimit, Old

\* The run that prunes has a backup in full that is too young to be pruned.
LEMMA PruneFileStep ==
    ASSUME IndInv, NEW p \in Runs, NEW f \in Paths, PruneFile(p, f)
    PROVE  IndInv' /\ \A g \in Paths : FreshFile(g, p) => files'[g] = files[g]
<1>1. /\ pc[p] = "prune" /\ Goto(p, "prune") /\ f \in job[p].left
      /\ job' = [job EXCEPT ![p].left = @ \ {f}]
      /\ files' = [files EXCEPT ![f] = IF @ # None /\ @.at < job[p].cutoff THEN None ELSE @]
      /\ data' = data /\ announced' = announced /\ outcome' = outcome
  BY DEF PruneFile
<1>2. BacksUp(p) /\ pc[p] # "idle" /\ job[p] \in Job
  BY <1>1, Types DEF BacksUp
<1>3. PICK new \in Job : new = [job[p] EXCEPT !.left = @ \ {f}]
  <2>1. job[p].left \ {f} \in SUBSET Paths
    BY <1>2 DEF Job
  <2> QED
    BY <1>2, <2>1 DEF Job
<1>4. /\ new.path = job[p].path /\ new.clash = job[p].clash /\ new.began = job[p].began
      /\ new.cutoff = job[p].cutoff /\ new.by = job[p].by
  BY <1>2, <1>3 DEF Job
<1>5. job' = [job EXCEPT ![p] = new]
  BY <1>1, <1>3, Types
<1>6. /\ Alone(p) /\ pc'[p] = "prune" /\ job'[p] = new
      /\ engine' = engine /\ now' = now /\ runs' = runs
      /\ pc' \in [Runs -> Labels] /\ job' \in [Runs -> Job]
      /\ ClashInv'
  BY <1>1, <1>2, <1>4, <1>5, Going DEF Labels
<1>7. \A g \in Paths : \/ files'[g] = files[g]
                       \/ files[g] # None /\ Old(g) /\ files'[g] = None
  <2>1. \A g \in Paths : g # f => files'[g] = files[g]
    BY <1>1, Types
  <2>2. CASE files[f] # None /\ files[f].at < job[p].cutoff
    BY <1>1, <2>1, <2>2, PrunedIsOld, Types
  <2>3. CASE ~ (files[f] # None /\ files[f].at < job[p].cutoff)
    BY <1>1, <2>1, <2>3, Types
  <2> QED
    BY <2>2, <2>3
<1>8. WritesItsOwn(p) /\ AnnouncesItsOwn(p)
  BY <1>1, <1>7 DEF WritesItsOwn, AnnouncesItsOwn
<1>9. TypeOK'
  <2>1. files' \in [Paths -> File \cup {None}]
    BY <1>1, Types
  <2> QED
    BY <1>1, <1>6, <2>1, Types DEF TypeOK
<1>10. JobInv(p)' /\ ChosenInv(p)'
  <2>1. JobInv(p)
    BY DEF IndInv
  <2>2. new.left \subseteq job[p].left /\ Prunable(job[p])' = Prunable(job[p])
    BY <1>2, <1>3, <1>4, <1>6 DEF Job, Prunable
  <2> QED
    BY <1>1, <1>4, <1>6, <2>1, <2>2 DEF JobInv, BacksUp, Stem, ChosenInv, AgeLimit
<1>11. \A g \in Paths : FreshFile(g, p) => files'[g] = files[g]
  BY <1>2, <1>7, FreshIsYoung
<1>12. FileInv(p)'
  <2>1. Result(job[p])' = Result(job[p]) /\ Result(job[p]) \in Paths
    BY <1>2, <1>4, <1>6, OwnPaths DEF Result, Compressed, Stem
  <2>2. ~ job[p].clash => FreshFile(Result(job[p]), p) /\ Result(job[p]) \in announced
    BY <1>1 DEF IndInv, FileInv
  <2> QED
    BY <1>1, <1>4, <1>6, <1>11, <2>1, <2>2 DEF FileInv, FreshFile, Whole
<1>13. AnnouncedIsWhole'
  <2>1. \A g \in announced : files'[g] = files[g] \/ files'[g] = None
    BY <1>7, Types
  <2> QED
    BY <1>1, <2>1 DEF IndInv, BackupInv, AnnouncedIsWhole, Whole
<1>14. TornByRestore'
  <2>1. \A q \in Runs : pc'[q] = "recreate" <=> pc[q] = "recreate"
    BY <1>1, <1>6 DEF Alone
  <2> QED
    BY <1>1, <1>6, <2>1, TornStays
<1> QED
  BY <1>6, <1>8, <1>9, <1>10, <1>11, <1>12, <1>13, <1>14, Assemble

-----------------------------------------------------------------------------
(* The beginning of a run, and the rest of the world.                      *)

\* A backup opens its path: the others keep their locals but for the mark on
\* those that are at a path of the same stem.
LEMMA Opening ==
    ASSUME IndInv, NEW p \in Runs, NEW stem \in {now, Given}, NEW by \in Commands,
           StartBackup(p, stem, by)
    PROVE  /\ pc'[p] = "copy" /\ \A q \in Runs \ {p} : pc'[q] = pc[q]
           /\ job' \in [Runs -> Job]
           /\ job'[p].path = <<stem, "dump">> /\ job'[p].began = now
           /\ job'[p].clash = Clashes(p, stem)
           /\ \A q \in Runs \ {p} :
                 /\ job'[q].path = job[q].path /\ job'[q].began = job[q].began
                 /\ job'[q].cutoff = job[q].cutoff /\ job'[q].by = job[q].by
                 /\ job'[q].left = job[q].left
                 /\ job'[q].opened = job[q].opened /\ job'[q].chosen = job[q].chosen
                 /\ job[q].clash => job'[q].clash
                 /\ pc[q] # "idle" /\ Stem(job[q]) = stem => job'[q].clash
           /\ <<stem, "dump">> \in Paths
<1>1. <<stem, "dump">> \in Paths
  BY Types DEF Paths
<1>2. PICK new : new = [NoJob EXCEPT !.path = <<stem, "dump">>, !.by = by, !.began = now,
                                     !.clash = Clashes(p, stem)]
  OBVIOUS
<1>3. /\ new \in Job /\ new.path = <<stem, "dump">> /\ new.began = now
      /\ new.clash = Clashes(p, stem)
  <2>1. PICK c \in BOOLEAN : c = Clashes(p, stem)
    BY DEF Clashes
  <2>2. new = [path |-> <<stem, "dump">>, by |-> by, left |-> {}, cutoff |-> 0,
               began |-> now, opened |-> None, clash |-> c, chosen |-> None,
               met |-> FALSE]
    BY <1>2, <2>1 DEF NoJob
  <2>3. {} \in SUBSET Paths /\ 0 \in Int
    OBVIOUS
  <2>4. new \in Job
    BY <1>1, <2>2, <2>3, Types DEF Job
  <2> QED
    BY <2>1, <2>2, <2>4
<1>4. job' = [Clashing(p, stem) EXCEPT ![p] = new]
  BY <1>2 DEF StartBackup
<1>5. \A q \in Runs : pc[q] # "idle" => job[q].path # None
  BY BackupAssumption DEF IndInv, JobInv
<1>6. \A q \in Runs \ {p} :
         job'[q] = IF pc[q] # "idle" /\ Stem(job[q]) = stem
                   THEN [job[q] EXCEPT !.clash = TRUE] ELSE job[q]
  BY <1>4, <1>5 DEF Clashing
<1>7. job'[p] = new /\ DOMAIN job' = Runs
  BY <1>4 DEF Clashing
<1>8. ASSUME NEW q \in Runs \ {p}
      PROVE  /\ job'[q] \in Job
             /\ job'[q].path = job[q].path /\ job'[q].began = job[q].began
             /\ job'[q].cutoff = job[q].cutoff /\ job'[q].by = job[q].by
             /\ job'[q].left = job[q].left
             /\ job'[q].opened = job[q].opened /\ job'[q].chosen = job[q].chosen
             /\ job[q].clash => job'[q].clash
             /\ pc[q] # "idle" /\ Stem(job[q]) = stem => job'[q].clash
  <2>1. job[q] \in Job
    BY Types
  <2> QED
    BY <1>6, <2>1 DEF Job
<1>9. job' \in [Runs -> Job]
  <2>1. job' = [q \in Runs |-> job'[q]]
    BY <1>4 DEF Clashing
  <2> QED
    BY <1>3, <1>7, <1>8, <2>1
<1>10. pc'[p] = "copy" /\ \A q \in Runs \ {p} : pc'[q] = pc[q]
  BY Types DEF StartBackup, Begin
<1> QED
  BY <1>1, <1>3, <1>7, <1>8, <1>9, <1>10

LEMMA StartBackupStep ==
    ASSUME IndInv, NEW p \in Runs, NEW stem \in {now, Given}, NEW by \in Commands,
           StartBackup(p, stem, by)
    PROVE  IndInv'
<1>1. /\ files' = [files EXCEPT ![<<stem, "dump">>] = [holds |-> None, at |-> now]]
      /\ announced' = announced \ {<<stem, "dump">>}
      /\ data' = data /\ outcome' = outcome
      /\ pc[p] = "idle" /\ runs < MaxRuns /\ runs' = runs + 1
      /\ pc' = [pc EXCEPT ![p] = "copy"] /\ engine' = engine /\ now' = now
  BY DEF StartBackup, Begin
<1>2. <<stem, "dump">> \in Paths /\ <<stem, "dump">>[1] = stem
  BY Opening
<1>3. /\ files' \in [Paths -> File \cup {None}]
      /\ \A f \in Paths \ {<<stem, "dump">>} : files'[f] = files[f]
  <2>1. [holds |-> None, at |-> now] \in File
    BY Types DEF File
  <2> QED
    BY <1>1, <1>2, <2>1, Types
<1>4. TypeOK'
  <2>1. runs' \in 0 .. MaxRuns
    BY <1>1, BackupAssumption, Types
  <2>2. pc' \in [Runs -> Labels]
    BY <1>1, Types DEF Labels
  <2> QED
    BY <1>1, <1>3, <2>1, <2>2, Types, Opening DEF TypeOK
<1>5. \A q \in Runs \ {p} : pc[q] # "idle" /\ ~ job'[q].clash =>
         Stem(job[q]) # stem /\ ~ job[q].clash
  BY Opening
<1>6. \A q \in Runs : JobInv(q)'
  <2>1. JobInv(p)'
    BY <1>1, <1>2, BackupAssumption, Types, Opening DEF JobInv, BacksUp, Stem
  <2>2. ASSUME NEW q \in Runs, q # p PROVE JobInv(q)'
    <3>1. JobInv(q)
      BY DEF IndInv
    <3>2. Prunable(job[q])' = Prunable(job[q])
      BY <2>2, Opening DEF Prunable
    <3> QED
      BY <1>1, <2>2, <3>1, <3>2, Opening DEF JobInv, BacksUp, Stem, AgeLimit
  <2> QED
    BY <2>1, <2>2
<1>7. \A q \in Runs : FileInv(q)'
  <2>1. FileInv(p)'
    BY <1>1, Opening DEF FileInv
  <2>2. ASSUME NEW q \in Runs, q # p, pc[q] \in {"copy", "compress", "unlink", "prune"}
        PROVE  FileInv(q)'
    <3>1. FileInv(q) /\ BacksUp(q) /\ pc[q] # "idle"
      BY <2>2 DEF IndInv, BacksUp
    <3>2. /\ job'[q].path = job[q].path /\ job'[q].began = job[q].began
          /\ pc'[q] = pc[q]
      BY <2>2, Opening
    <3>3. Compressed(job[q])' = Compressed(job[q]) /\ Result(job[q])' = Result(job[q])
      BY <1>1, <3>2 DEF Compressed, Result, Stem
    <3>4. ASSUME ~ job'[q].clash, NEW f \in Paths, f[1] = Stem(job[q])
          PROVE  /\ FreshFile(f, q) => FreshFile(f, q)'
                 /\ f \in announced => f \in announced'
      <4>1. f # <<stem, "dump">>
        BY <1>2, <1>5, <2>2, <3>1, <3>4
      <4> QED
        BY <1>1, <1>3, <3>2, <4>1 DEF FreshFile, Whole
    <3>5. ~ job'[q].clash => ~ job[q].clash
      BY <1>5, <2>2, <3>1
    <3> QED
      BY <1>1, <3>1, <3>2, <3>3, <3>4, <3>5, OwnPaths DEF FileInv
  <2>3. ASSUME NEW q \in Runs, q # p, pc[q] \notin {"copy", "compress", "unlink", "prune"}
        PROVE  FileInv(q)'
    BY <2>3, Opening DEF FileInv
  <2> QED
    BY <2>1, <2>2, <2>3
<1>8. \A q \in Runs : ChosenInv(q)'
  <2>1. ChosenInv(p)'
    BY Opening DEF ChosenInv
  <2>2. ASSUME NEW q \in Runs, q # p, ~ job'[q].clash, Restores(q) PROVE ChosenInv(q)'
    <3>1. job[q].path \in Paths /\ pc[q] # "idle" /\ ChosenInv(q)
      BY <2>2 DEF IndInv, JobInv, Restores
    <3>2. job[q].path # <<stem, "dump">> /\ ~ job[q].clash
      BY <1>2, <1>5, <2>2, <3>1 DEF Stem
    <3>3. files'[job[q].path] = files[job[q].path]
      BY <1>3, <3>1, <3>2
    <3>4. /\ job'[q].path = job[q].path /\ job'[q].opened = job[q].opened
          /\ job'[q].chosen = job[q].chosen /\ pc'[q] = pc[q]
      BY <2>2, Opening
    <3> QED
      BY <3>1, <3>2, <3>3, <3>4 DEF ChosenInv, Source
  <2>3. ASSUME NEW q \in Runs, q # p, job'[q].clash \/ ~ Restores(q) PROVE ChosenInv(q)'
    BY <2>3, Opening DEF ChosenInv, Restores
  <2> QED
    BY <2>1, <2>2, <2>3
<1>9. ClashInv'
  <2>1. Stem(job[p])' = stem /\ \A s \in Runs \ {p} : Stem(job[s])' = Stem(job[s])
    BY Opening DEF Stem
  <2>2. BacksUp(p)' /\ ~ Restores(p)' /\ pc'[p] # "idle"
    BY Opening DEF BacksUp, Restores
  <2>3. \A s \in Runs \ {p} : /\ BacksUp(s)' <=> BacksUp(s)
                              /\ Restores(s)' <=> Restores(s)
                              /\ pc'[s] = pc[s]
    BY Opening DEF BacksUp, Restores
  <2>4. ASSUME NEW s \in Runs \ {p}, pc[s] # "idle", Stem(job[s]) = stem
        PROVE  job'[s].clash /\ job'[p].clash
    <3>1. job[s].path # None
      BY <2>4, BackupAssumption DEF IndInv, JobInv
    <3>2. Clashes(p, stem)
      BY <2>4, <3>1 DEF Clashes
    <3> QED
      BY <2>4, <3>2, Opening
  <2>5. ASSUME NEW q \in Runs, NEW r \in Runs, q # r, BacksUp(q)', pc'[r] # "idle",
               Stem(job[q])' = Stem(job[r])'
        PROVE  job'[r].clash
    <3>1. CASE q = p
      BY <2>1, <2>3, <2>4, <2>5, <3>1
    <3>2. CASE r = p
      BY <2>1, <2>3, <2>4, <2>5, <3>2 DEF BacksUp
    <3>3. CASE q # p /\ r # p
      BY <2>1, <2>3, <2>5, <3>3, Opening DEF IndInv, ClashInv
    <3> QED
      BY <3>1, <3>2, <3>3
  <2>6. \A q, r \in Runs : q # r => ~ (Restores(q)' /\ Restores(r)')
    BY <2>2, <2>3 DEF IndInv, ClashInv
  <2> QED
    BY <2>5, <2>6 DEF ClashInv
<1>10. AnnouncedIsWhole'
  <2>1. \A f \in announced' : f \in announced /\ files'[f] = files[f]
    BY <1>1, <1>3, Types
  <2> QED
    BY <2>1 DEF IndInv, BackupInv, AnnouncedIsWhole, Whole
<1>11. TornByRestore'
  <2>1. \A q \in Runs : pc'[q] = "recreate" <=> pc[q] = "recreate"
    BY <1>1, Opening
  <2> QED
    BY <1>1, <2>1, TornStays
<1> QED
  BY <1>4, <1>6, <1>7, <1>8, <1>9, <1>10, <1>11 DEF IndInv, BackupInv

LEMMA StartRestoreStep ==
    ASSUME IndInv, NEW p \in Runs, NEW f \in Paths, StartRestore(p, f)
    PROVE  IndInv'
<1>1. /\ job' = [job EXCEPT ![p] = [NoJob EXCEPT !.path = f, !.began = now,
                   !.chosen = files[f].holds, !.clash = Clashes(p, f[1])]]
      /\ files[f] # None /\ \A q \in Runs : pc[q] \notin {"restore", "recreate"}
      /\ data' = data /\ files' = files /\ announced' = announced /\ outcome' = outcome
      /\ pc[p] = "idle" /\ runs < MaxRuns /\ runs' = runs + 1
      /\ pc' = [pc EXCEPT ![p] = "restore"] /\ engine' = engine /\ now' = now
  BY DEF StartRestore, Begin
<1>2. PICK new : new = [NoJob EXCEPT !.path = f, !.began = now,
                          !.chosen = files[f].holds, !.clash = Clashes(p, f[1])]
  OBVIOUS
<1>3. /\ new \in Job /\ new.path = f /\ new.chosen = files[f].holds
      /\ new.clash = Clashes(p, f[1])
  <2>1. PICK c \in BOOLEAN : c = Clashes(p, f[1])
    BY DEF Clashes
  <2>2. PICK h \in Contents \cup {None} : h = files[f].holds
    BY <1>1, FileTypes
  <2>3. new = [path |-> f, by |-> "db_backup", left |-> {}, cutoff |-> 0, began |-> now,
               opened |-> None, clash |-> c, chosen |-> h, met |-> FALSE]
    BY <1>2, <2>1, <2>2 DEF NoJob
  <2>4. {} \in SUBSET Paths /\ 0 \in Int /\ "db_backup" \in Commands
    BY DEF Commands
  <2>5. new \in Job
    BY <2>3, <2>4, Types DEF Job
  <2> QED
    BY <2>1, <2>2, <2>3, <2>5
<1>4. /\ job'[p] = new /\ pc'[p] = "restore" /\ Alone(p)
      /\ job' \in [Runs -> Job] /\ pc' \in [Runs -> Labels]
  BY <1>1, <1>2, <1>3, Types DEF Alone, Labels
<1>5. TypeOK'
  <2>1. runs' \in 0 .. MaxRuns
    BY <1>1, BackupAssumption, Types
  <2> QED
    BY <1>1, <1>4, <2>1, Types DEF TypeOK
<1>6. JobInv(p)' /\ FileInv(p)' /\ ChosenInv(p)'
  BY <1>1, <1>3, <1>4 DEF JobInv, FileInv, ChosenInv, BacksUp
<1>7. WritesItsOwn(p) /\ AnnouncesItsOwn(p) /\ AnnouncedIsWhole'
  BY <1>1 DEF WritesItsOwn, AnnouncesItsOwn, IndInv, BackupInv, AnnouncedIsWhole, Whole
<1>8. TornByRestore'
  BY <1>1, <1>4, TornStays DEF Alone
<1>9. ClashInv'
  <2>1. ~ BacksUp(p)' /\ Stem(job[p])' = f[1] /\ job'[p].clash = Clashes(p, f[1])
    BY <1>3, <1>4 DEF BacksUp, Stem
  <2>2. \A q \in Runs \ {p} : /\ BacksUp(q)' <=> BacksUp(q)
                              /\ ~ Restores(q)'
                              /\ pc'[q] = pc[q] /\ job'[q] = job[q]
                              /\ Stem(job[q])' = Stem(job[q])
    BY <1>1, <1>4 DEF Alone, BacksUp, Restores, Stem
  <2>3. ASSUME NEW q \in Runs \ {p}, BacksUp(q), Stem(job[q]) = f[1] PROVE job'[p].clash
    <3>1. job[q].path # None /\ pc[q] # "idle"
      BY <2>3, OwnPaths, BackupAssumption DEF BacksUp
    <3> QED
      BY <2>1, <2>3, <3>1 DEF Clashes
  <2> QED
    BY <2>1, <2>2, <2>3 DEF IndInv, ClashInv
<1> QED
  BY <1>1, <1>4, <1>5, <1>6, <1>7, <1>8, <1>9, Assemble

\* The server writes, time passes, nothing happens.
LEMMA EnvironmentStep ==
    ASSUME IndInv, Write \/ Tick \/ UNCHANGED vars
    PROVE  IndInv'
<1>1. /\ files' = files /\ pc' = pc /\ job' = job /\ announced' = announced
      /\ engine' = engine /\ runs' = runs /\ outcome' = outcome
  BY DEF Write, Tick, vars
<1>2. data' \in Contents /\ (data' = Torn <=> data = Torn)
  BY BackupAssumption, Types DEF Write, Tick, vars, Contents
<1>3. /\ now' \in 0 .. MaxTime /\ now <= now'
      /\ \A p \in Runs : BacksUp(p) => /\ now' <= job[p].began + Retention
                                       /\ now' <= job[p].began + ScriptRetention
  <2>1. CASE Tick
    <3>1. ASSUME NEW p \in Runs, BacksUp(p)
          PROVE  /\ now' <= job[p].began + Retention
                 /\ now' <= job[p].began + ScriptRetention
      <4>1. now < job[p].began + Retention /\ now < job[p].began + ScriptRetention
        BY <2>1, <3>1 DEF Tick
      <4>2. job[p].began \in Nat /\ now' = now + 1
        BY <2>1, JobTypes DEF Tick
      <4> QED
        BY <4>1, <4>2, Types
    <3> QED
      BY <2>1, <3>1, BackupAssumption, Types DEF Tick
  <2>2. CASE now' = now
    BY <2>2, Types DEF IndInv, JobInv
  <2> QED
    BY <2>1, <2>2 DEF Write, vars
<1>4. TypeOK'
  BY <1>1, <1>2, <1>3, Types DEF TypeOK
<1>5. ASSUME NEW p \in Runs PROVE JobInv(p)' /\ FileInv(p)' /\ ChosenInv(p)'
  <2>1. JobInv(p) /\ FileInv(p) /\ ChosenInv(p) /\ job[p] \in Job /\ job[p].began \in Nat
    BY Types, JobTypes DEF IndInv
  <2>2. job[p].cutoff \in Int
    BY <2>1 DEF Job
  <2>3. JobInv(p)'
    BY <1>1, <1>3, <2>1, <2>2, Types DEF JobInv, BacksUp, AgeLimit, Prunable
  <2>4. FileInv(p)' /\ ChosenInv(p)'
    BY <1>1, <2>1 DEF FileInv, ChosenInv, FreshFile, Whole, Compressed, Result, Stem, Source
  <2> QED
    BY <2>3, <2>4
<1>6. ClashInv' /\ AnnouncedIsWhole' /\ TornByRestore'
  BY <1>1, <1>2 DEF IndInv, BackupInv, ClashInv, AnnouncedIsWhole, TornByRestore, BacksUp,
                    Restores, Stem, Whole
<1> QED
  BY <1>4, <1>5, <1>6 DEF IndInv, BackupInv

-----------------------------------------------------------------------------
(* The invariant, and what follows from it.                                *)

LEMMA InitInv == Init => IndInv
<1> SUFFICES ASSUME Init PROVE IndInv
  OBVIOUS
<1>1. NoJob \in Job /\ NoJob.path = None
  BY BackupAssumption DEF NoJob, Job, Commands
<1>2. \A p \in Runs : pc[p] = "idle" /\ job[p] = NoJob
  BY DEF Init
<1>3. TypeOK
  <2>1. 0 \in 0 .. MaxWrites /\ 0 \in 0 .. MaxTime /\ 0 \in 0 .. MaxRuns
    BY BackupAssumption
  <2>2. files \in [Paths -> File \cup {None}] /\ job \in [Runs -> Job]
    BY <1>1 DEF Init
  <2>3. pc \in [Runs -> Labels]
    BY DEF Init, Labels
  <2> QED
    BY <2>1, <2>2, <2>3 DEF Init, TypeOK, Contents
<1>4. AnnouncedIsWhole /\ TornByRestore
  BY <1>2, BackupAssumption DEF Init, AnnouncedIsWhole, TornByRestore
<1>5. \A p \in Runs : JobInv(p) /\ FileInv(p) /\ ChosenInv(p)
  BY <1>1, <1>2 DEF JobInv, FileInv, ChosenInv, BacksUp
<1>6. ClashInv
  BY <1>2 DEF ClashInv, BacksUp, Restores
<1> QED
  BY <1>3, <1>4, <1>5, <1>6 DEF IndInv, BackupInv

LEMMA NextInv == IndInv /\ [Next]_vars => IndInv'
<1> SUFFICES ASSUME IndInv, [Next]_vars PROVE IndInv'
  OBVIOUS
<1>1. ASSUME NEW p \in Runs, Step(p) PROVE IndInv'
  BY <1>1, StartBackupStep, EndDumpStep, EndCopyStep, CompressStep, UnlinkCopyStep,
     PruneFileStep, StartRestoreStep, EndPruneStep, ReadScriptStep, DropObjectsStep,
     RecreateStep, WriteMeetsStep, EndEarlyStep DEF Step
<1> QED
  BY <1>1, EnvironmentStep DEF Next

\* However runs of the commands and of the script begin, overlap and end early,
\* each finds what it has written or chosen, unless another run wrote there.
THEOREM BackupInvariant == Spec => []IndInv
<1> QED
  BY InitInv, NextInv, PTL DEF Spec

\* A backup that was announced is there in full until it is pruned, and the
\* database is torn exactly during a restore and after one that failed.
THEOREM BackupsStay == Spec => []BackupInv
<1>1. IndInv => BackupInv
  BY DEF IndInv
<1> QED
  BY <1>1, BackupInvariant, PTL

\* The steps that touch a file.
LEMMA Touching ==
    ASSUME [Next]_vars, files' # files \/ announced' # announced
    PROVE  \E p \in Runs : \/ \E stem \in {now, Given}, by \in Commands : StartBackup(p, stem, by)
                           \/ EndDump(p) \/ EndCopy(p) \/ Compress(p) \/ UnlinkCopy(p)
                           \/ \E g \in Paths : PruneFile(p, g)
  BY DEF Next, Step, StartRestore, EndPrune, ReadScript, DropObjects, Recreate, WriteMeets,
         EndEarly, Write, Tick, vars

\* What the steps of a backup do to the files and to what was announced.
LEMMA Effects ==
    ASSUME IndInv, NEW p \in Runs
    PROVE  /\ \A stem \in {now, Given}, by \in Commands : StartBackup(p, stem, by) =>
                 /\ Opens(p, <<stem, "dump">>)
                 /\ \A f \in Paths \ {<<stem, "dump">>} :
                       files'[f] = files[f] /\ (f \in announced => f \in announced')
           /\ EndDump(p) =>
                 /\ Leaves(p, job[p].path) /\ job[p].path \notin announced
                 /\ \A f \in Paths \ {job[p].path} :
                       files'[f] = files[f] /\ (f \in announced => f \in announced')
           /\ EndCopy(p) =>
                 /\ Opens(p, Compressed(job[p]))
                 /\ Leaves(p, job[p].path) /\ job[p].path \notin announced
                 /\ \A f \in Paths \ {job[p].path, Compressed(job[p])} :
                       files'[f] = files[f] /\ (f \in announced => f \in announced')
           /\ Compress(p) =>
                 /\ Compressed(job[p]) \notin announced /\ announced' = announced
                 /\ pc[p] = "compress"
                 /\ ~ job[p].clash => Leaves(p, Compressed(job[p]))
                 /\ \A f \in Paths \ {Compressed(job[p])} : files'[f] = files[f]
           /\ UnlinkCopy(p) =>
                 /\ job[p].path \notin announced /\ pc[p] = "unlink"
                 /\ \A f \in Paths \ {job[p].path} :
                       files'[f] = files[f] /\ (f \in announced => f \in announced')
<1>1. ASSUME NEW stem \in {now, Given}, NEW by \in Commands, StartBackup(p, stem, by)
      PROVE  /\ Opens(p, <<stem, "dump">>)
             /\ \A f \in Paths \ {<<stem, "dump">>} :
                   files'[f] = files[f] /\ (f \in announced => f \in announced')
  <2>1. pc[p] = "idle" /\ pc'[p] = "copy" /\ job'[p].path = <<stem, "dump">>
    <3>1. pc[p] = "idle"
      BY <1>1 DEF StartBackup, Begin
    <3> QED
      BY <1>1, <3>1, Opening
  <2>2. Opens(p, <<stem, "dump">>)
    BY <2>1 DEF Opens
  <2>3. /\ files' = [files EXCEPT ![<<stem, "dump">>] = [holds |-> None, at |-> now]]
        /\ announced' = announced \ {<<stem, "dump">>}
    BY <1>1 DEF StartBackup
  <2>4. files \in [Paths -> File \cup {None}]
    BY Types
  <2>5. ASSUME NEW f \in Paths \ {<<stem, "dump">>}
        PROVE  files'[f] = files[f] /\ (f \in announced => f \in announced')
    BY <2>3, <2>4, <2>5
  <2> QED
    BY <2>2, <2>5
<1>2. ASSUME EndDump(p)
      PROVE  /\ Leaves(p, job[p].path) /\ job[p].path \notin announced
             /\ \A f \in Paths \ {job[p].path} :
                   files'[f] = files[f] /\ (f \in announced => f \in announced')
  <2>1. BacksUp(p) /\ job[p].path \notin announced /\ announced \subseteq announced'
    BY <1>2 DEF EndDump, Announce, BacksUp, IndInv, FileInv
  <2>2. /\ files'[job[p].path] = [holds |-> data, at |-> now]
        /\ \A f \in Paths \ {job[p].path} : files'[f] = files[f]
    BY <1>2, <2>1, Types, OwnPaths DEF EndDump
  <2> QED
    BY <2>1, <2>2, Types, OwnPaths, SavedIsFresh
<1>3. ASSUME EndCopy(p)
      PROVE  /\ Opens(p, Compressed(job[p]))
             /\ Leaves(p, job[p].path) /\ job[p].path \notin announced
             /\ \A f \in Paths \ {job[p].path, Compressed(job[p])} :
                   files'[f] = files[f] /\ (f \in announced => f \in announced')
  <2>1. BacksUp(p) /\ job[p].path \notin announced
    BY <1>3 DEF EndCopy, BacksUp, IndInv, FileInv
  <2>2. /\ files'[job[p].path] = [holds |-> data, at |-> now]
        /\ \A f \in Paths \ {job[p].path, Compressed(job[p])} : files'[f] = files[f]
    BY <1>3, <2>1, Types, OwnPaths DEF EndCopy
  <2>3. Opens(p, Compressed(job[p]))
    BY <1>3, Types DEF EndCopy, Goto, Opens
  <2> QED
    BY <1>3, <2>1, <2>2, <2>3, Types, OwnPaths, SavedIsFresh DEF EndCopy
<1>4. ASSUME Compress(p)
      PROVE  /\ Compressed(job[p]) \notin announced /\ announced' = announced
             /\ pc[p] = "compress"
             /\ ~ job[p].clash => Leaves(p, Compressed(job[p]))
             /\ \A f \in Paths \ {Compressed(job[p])} : files'[f] = files[f]
  <2>1. BacksUp(p) /\ Compressed(job[p]) \notin announced
    BY <1>4 DEF Compress, BacksUp, IndInv, FileInv
  <2>2. /\ files'[Compressed(job[p])] = [holds |-> files[job[p].path].holds, at |-> now]
        /\ \A f \in Paths \ {Compressed(job[p])} : files'[f] = files[f]
    BY <1>4, <2>1, Types, OwnPaths DEF Compress
  <2>3. ~ job[p].clash => files[job[p].path].holds \in Contents
    BY <1>4, <2>1, FileTypes, OwnPaths DEF Compress, IndInv, FileInv, FreshFile, Whole
  <2> QED
    BY <1>4, <2>1, <2>2, <2>3, OwnPaths, SavedIsFresh DEF Compress
<1>5. ASSUME UnlinkCopy(p)
      PROVE  /\ job[p].path \notin announced /\ pc[p] = "unlink"
             /\ \A f \in Paths \ {job[p].path} :
                   files'[f] = files[f] /\ (f \in announced => f \in announced')
  BY <1>5, Types DEF UnlinkCopy, Announce, IndInv, FileInv
<1> QED
  BY <1>1, <1>2, <1>3, <1>4, <1>5

\* One step loses a file in full only in the ways KeptUntilOld names.
Loses(f) ==
    Whole(f) /\ ~ Whole(f)' =>
        \E p \in Runs :
           \/ /\ pc[p] = "prune" /\ files[f].at < now - AgeLimit(job[p])
              /\ f \in Prunable(job[p])
           \/ Opens(p, f)
           \/ pc[p] = "compress" /\ f = Compressed(job[p]) /\ job[p].clash
           \/ pc[p] = "unlink" /\ f = job[p].path

LEMMA LosesStep ==
    ASSUME IndInv, [Next]_vars, NEW f \in Paths
    PROVE  Loses(f)
<1> SUFFICES ASSUME Whole(f), ~ Whole(f)' PROVE Loses(f)
  BY DEF Loses
<1>1. files'[f] # files[f]
  BY DEF Whole
<1>2. PICK p \in Runs : \/ \E stem \in {now, Given}, by \in Commands : StartBackup(p, stem, by)
                        \/ EndDump(p) \/ EndCopy(p) \/ Compress(p) \/ UnlinkCopy(p)
                        \/ \E g \in Paths : PruneFile(p, g)
  BY <1>1, Touching
<1>3. \A g : Leaves(p, g) => g # f
  BY DEF Leaves, Whole
<1>4. CASE EndDump(p)
  BY <1>1, <1>3, <1>4, Effects
<1>5. CASE \/ \E stem \in {now, Given}, by \in Commands : StartBackup(p, stem, by)
           \/ EndCopy(p) \/ Compress(p) \/ UnlinkCopy(p)
  BY <1>1, <1>3, <1>5, Effects DEF Loses
<1>6. ASSUME NEW g \in Paths, PruneFile(p, g) PROVE Loses(f)
  <2>1. pc[p] = "prune" /\ f = g /\ g \in job[p].left /\ files[f].at < job[p].cutoff
    BY <1>1, <1>6, Types DEF PruneFile
  <2>2. f \in Prunable(job[p])
    BY <2>1 DEF IndInv, JobInv
  <2> QED
    BY <2>1, <2>2, PrunedIsOld DEF Loses, Whole
<1> QED
  BY <1>2, <1>4, <1>5, <1>6

\* No run takes a file in full before the age that this run keeps.
THEOREM YoungBackupsKept == Spec => KeptUntilOld
<1>1. IndInv /\ [Next]_vars => [\A f \in Paths : Loses(f)]_vars
  BY LosesStep
<1> QED
  BY <1>1, BackupInvariant, PTL DEF Spec, KeptUntilOld, Loses

\* One step takes the last backup one can restore from only in the ways
\* LastBackupStays names: a run that prunes has a backup of its own.
LosesLast ==
    Intact # {} /\ Intact' = {} =>
        \E p \in Runs :
           \/ \E f \in Intact : Opens(p, f)
           \/ /\ pc[p] = "prune"
              /\ job[p].clash \/ files[Result(job[p])].holds = Torn

LEMMA LosesLastStep ==
    ASSUME IndInv, [Next]_vars
    PROVE  LosesLast
<1> SUFFICES ASSUME Intact # {}, Intact' = {} PROVE LosesLast
  BY DEF LosesLast
<1>1. \A f \in announced : files'[f] = files[f] /\ f \in announced' => f \notin Intact
  BY DEF Intact
<1>2. PICK f \in Intact : f \in announced /\ f \in Paths
  BY Types DEF Intact
<1>3. PICK p \in Runs : \/ \E stem \in {now, Given}, by \in Commands : StartBackup(p, stem, by)
                        \/ EndDump(p) \/ EndCopy(p) \/ Compress(p) \/ UnlinkCopy(p)
                        \/ \E g \in Paths : PruneFile(p, g)
  BY <1>1, <1>2, Touching
<1>4. CASE EndDump(p) \/ Compress(p) \/ UnlinkCopy(p)
  BY <1>1, <1>2, <1>4, Effects
<1>5. CASE \/ \E stem \in {now, Given}, by \in Commands : StartBackup(p, stem, by)
           \/ EndCopy(p)
  BY <1>1, <1>2, <1>5, Effects DEF LosesLast
<1>6. ASSUME NEW g \in Paths, PruneFile(p, g) PROVE LosesLast
  <2>1. pc[p] = "prune" /\ BacksUp(p) /\ announced' = announced
    BY <1>6 DEF PruneFile, BacksUp
  <2>2. CASE job[p].clash
    BY <2>1, <2>2 DEF LosesLast
  <2>3. CASE ~ job[p].clash
    <3>1. /\ FreshFile(Result(job[p]), p) /\ Result(job[p]) \in announced
          /\ Result(job[p]) \in Paths
      BY <2>1, <2>3, OwnPaths DEF IndInv, FileInv
    <3>2. files'[Result(job[p])] = files[Result(job[p])]
      BY <1>6, <3>1, PruneFileStep
    <3>3. Result(job[p]) \notin Intact
      BY <1>1, <2>1, <3>1, <3>2
    <3>4. files[Result(job[p])].holds = Torn
      BY <3>1, <3>3 DEF Intact, FreshFile, Whole
    <3> QED
      BY <2>1, <3>4 DEF LosesLast
  <2> QED
    BY <2>2, <2>3
<1> QED
  BY <1>3, <1>4, <1>5, <1>6

\* The last backup one can restore from is pruned only by a run whose own path
\* was shared, or that has saved a database torn by a restore.
THEOREM LastBackupKept == Spec => LastBackupStays
<1>1. IndInv /\ [Next]_vars => [LosesLast]_vars
  BY LosesLastStep
<1> QED
  BY <1>1, BackupInvariant, PTL DEF Spec, LastBackupStays, LosesLast

\* Success of a restore on PostgreSQL.
Succeeds(p) ==
    pc[p] = "recreate" /\ pc'[p] = "idle" /\ outcome' # "failed"
    /\ ~ job[p].clash /\ ~ job[p].met =>
        job[p].chosen # None /\ data' = job[p].chosen

LEMMA SucceedsStep ==
    ASSUME IndInv, [Next]_vars, NEW p \in Runs
    PROVE  Succeeds(p)
<1> SUFFICES ASSUME pc[p] = "recreate", pc'[p] = "idle", outcome' # "failed",
                    ~ job[p].clash, ~ job[p].met
             PROVE  job[p].chosen # None /\ data' = job[p].chosen
  BY DEF Succeeds
<1>1. ASSUME NEW q \in Runs, q # p, Step(q) PROVE pc'[p] = pc[p]
  <2>1. \E l \in Labels : pc' = [pc EXCEPT ![q] = l]
    BY <1>1 DEF Step, StartBackup, Begin, EndDump, Announce, EndCopy, Compress, UnlinkCopy,
                PruneFile, StartRestore, EndPrune, ReadScript, DropObjects, Recreate,
                EndEarly, Finish, Goto, Labels, WriteMeets
  <2> QED
    BY <1>1, <2>1, Types
<1>2. Step(p)
  BY <1>1 DEF Next, Write, Tick, vars
<1>3. Recreate(p)
  <2>1. ~ EndEarly(p)
    BY DEF EndEarly
  <2> QED
    BY <1>2, <2>1 DEF Step, StartBackup, Begin, EndDump, EndCopy, Compress, UnlinkCopy,
                      PruneFile, StartRestore, EndPrune, ReadScript, DropObjects, WriteMeets
<1>4. data' = Source(job[p]) /\ Source(job[p]) # None
  BY <1>3 DEF Recreate
<1>5. Source(job[p]) = job[p].chosen
  BY DEF IndInv, ChosenInv
<1> QED
  BY <1>4, <1>5

\* db_restore says on PostgreSQL that it succeeded only when the database is what
\* the file held when the operator was asked, if nobody wrote to either.
THEOREM RestoresChosen == Spec => RestoredAsChosen
<1>1. IndInv /\ [Next]_vars => [\A p \in Runs : Succeeds(p)]_vars
  BY SucceedsStep
<1> QED
  BY <1>1, BackupInvariant, PTL DEF Spec, RestoredAsChosen, Succeeds

=============================================================================
