---------------------------- MODULE AccessProofs ----------------------------
(***************************************************************************)
(* Proofs about Access for every number of threads, addresses, accounts,   *)
(* devices and installers and every limit.  IndInv is inductive; with it a *)
(* block holds against every login that is under way, and a device that is *)
(* revoked stays so.                                                       *)
(***************************************************************************)
EXTENDS Access, FiniteSetTheorems, SequenceTheorems, TLAPS

-----------------------------------------------------------------------------
(* Types and frames.                                                       *)

LEMMA NoJobType == NoJob \in Job
BY AccessAssumption DEF NoJob, Job

LEMMA Types ==
    ASSUME TypeOK, NEW t \in Threads
    PROVE  /\ job[t] \in Job /\ pc[t] \in Labels
           /\ now \in Nat /\ ops \in Nat /\ restarts \in Nat
BY DEF TypeOK

\* A thread that does not move, whatever happens to its early flag.
LEMMA OtherLogin ==
    ASSUME NEW u \in Threads, LoginInv(u), pc'[u] = pc[u],
           job'[u].ip = job[u].ip, job'[u].account = job[u].account,
           job'[u].at = job[u].at, job'[u].read = job[u].read,
           job[u] \in Job, now \in Nat, now' \in Nat, now <= now',
           pc[u] = "view" => entries' = entries, lock' = u <=> lock = u
    PROVE  LoginInv(u)'
<1>1. pc[u] \in {"wait", "view"} => job'[u].ip \in Addresses /\ job'[u].at <= now'
  BY DEF LoginInv, Job
<1>2. pc[u] = "view" => job'[u].read = entries'
  BY DEF LoginInv
<1>3. pc[u] = "view" =>
         \A k \in {job'[u].ip, job'[u].account} \ {None} : ~ Blocked(entries'[k], job'[u].at)
  BY DEF LoginInv, KeysOf
<1> QED
  BY <1>1, <1>2, <1>3 DEF LoginInv, KeysOf, Blocked

LEMMA OtherKiosk ==
    ASSUME NEW u \in Threads, KioskInv(u), pc'[u] = pc[u], job'[u] = job[u],
           failures' = failures, TypeOK, now' \in Nat, now <= now',
           \A d \in Devices :
              devices'[d] # None /\ devices'[d].active => Active(d)
    PROVE  KioskInv(u)'
<1>1. job[u] \in Job /\ now \in Nat
  BY DEF TypeOK
<1>2. ASSUME pc[u] \in {"lookup", "touch", "refuse", "admit"}, Blocked(failures[job[u].ip], now')
      PROVE  job[u].early
  <2>1. failures[job[u].ip] \in Entry \cup {None}
    BY <1>2 DEF KioskInv, TypeOK
  <2>2. Blocked(failures[job[u].ip], now)
    BY <1>1, <1>2, <2>1 DEF Blocked, Entry
  <2> QED
    BY <1>2, <2>2 DEF KioskInv
<1>3. ASSUME pc[u] = "lookup", job[u].device # None, devices'[job[u].device] # None,
             devices'[job[u].device].active
      PROVE  job[u].good
  <2>1. job[u].device \in Devices
    BY <1>1, <1>3 DEF Job
  <2> QED
    BY <1>3, <2>1 DEF KioskInv
<1> QED
  BY <1>2, <1>3 DEF KioskInv, Blocked, Active

LEMMA OtherBuild ==
    ASSUME NEW u \in Threads, BuildInv(u), pc'[u] = pc[u], job'[u].build = job[u].build,
           AccessAssumption,
           pc[u] \in {"upload", "insert"} =>
              /\ builds'[job[u].build].row = builds[job[u].build].row
              /\ builds'[job[u].build].file = builds[job[u].build].file
              /\ \A v \in Threads \ {u} : job'[v].build # job[u].build
    PROVE  BuildInv(u)'
BY DEF BuildInv

\* The tables of installers when no removal ends.
LEMMA SameBuilds ==
    ASSUME ListedHasFile, builds' = builds,
           \A u \in Threads : pc[u] = "remove" =>
               pc'[u] = "remove" /\ job'[u].build = job[u].build
    PROVE  ListedHasFile'
BY DEF ListedHasFile

\* A step of t that leaves throttles, clock and installers alone, may take or
\* free its own lock, and makes no device active.
LEMMA StepOf ==
    ASSUME GuardInv, NEW t \in Threads, NEW l \in Labels, NEW j \in Job,
           pc' = [pc EXCEPT ![t] = l], job' = [job EXCEPT ![t] = j],
           UNCHANGED <<entries, failures, builds, now, restarts>>, ops' \in Nat,
           lock' \in {lock, t, None}, \A u \in Threads \ {t} : lock' = u <=> lock = u,
           devices' \in [Devices -> [active : BOOLEAN, seen : Addresses \cup {None}] \cup {None}],
           \A d \in Devices : devices'[d] # None /\ devices'[d].active => Active(d),
           pc[t] # "remove",
           \A u \in Threads \ {t} :
              pc[u] \in {"upload", "insert"} => j.build # job[u].build,
           LoginInv(t)', KioskInv(t)', BuildInv(t)'
    PROVE  GuardInv'
<1>1. TypeOK'
  BY DEF GuardInv, TypeOK
<1>2. pc \in [Threads -> Labels] /\ job \in [Threads -> Job] /\ now \in Nat
  BY DEF GuardInv, TypeOK
<1>3. ASSUME NEW u \in Threads \ {t}
      PROVE  LoginInv(u)' /\ KioskInv(u)' /\ BuildInv(u)'
  <2>1. pc'[u] = pc[u] /\ job'[u] = job[u]
    BY <1>2
  <2>2. LoginInv(u)'
    BY <1>2, <2>1, OtherLogin DEF GuardInv
  <2>3. KioskInv(u)'
    BY <1>2, <2>1, OtherKiosk DEF GuardInv
  <2>4. BuildInv(u)'
    <3>1. ASSUME pc[u] \in {"upload", "insert"}, NEW v \in Threads \ {u}
          PROVE  job'[v].build # job[u].build
      BY <1>2, <3>1 DEF GuardInv, BuildInv
    <3> QED
      BY <2>1, <3>1, OtherBuild, AccessAssumption DEF GuardInv
  <2> QED
    BY <2>2, <2>3, <2>4
<1>4. ListedHasFile'
  BY <1>2, SameBuilds DEF GuardInv
<1>5. AdmittedWasActive'
  BY <1>3 DEF AdmittedWasActive, KioskInv
<1> QED
  BY <1>1, <1>3, <1>4, <1>5 DEF GuardInv

LEMMA SameDevices ==
    ASSUME GuardInv, devices' = devices
    PROVE  /\ devices' \in [Devices -> [active : BOOLEAN, seen : Addresses \cup {None}] \cup {None}]
           /\ \A d \in Devices : devices'[d] # None /\ devices'[d].active => Active(d)
BY AccessAssumption DEF GuardInv, TypeOK, Active

\* The end of a request that holds nothing.
LEMMA RespondStep ==
    ASSUME GuardInv, NEW t \in Threads, pc[t] \notin {"view", "remove"},
           pc' = [pc EXCEPT ![t] = "idle"], job' = [job EXCEPT ![t] = NoJob],
           UNCHANGED <<entries, failures, builds, now, restarts, ops, lock>>,
           devices' \in [Devices -> [active : BOOLEAN, seen : Addresses \cup {None}] \cup {None}],
           \A d \in Devices : devices'[d] # None /\ devices'[d].active => Active(d)
    PROVE  GuardInv'
<1>1. pc'[t] = "idle" /\ job'[t] = NoJob /\ lock # t
  BY DEF GuardInv, TypeOK, LoginInv
<1>2. \A u \in Threads \ {t} : pc[u] \in {"upload", "insert"} => NoJob.build # job[u].build
  BY AccessAssumption DEF NoJob, GuardInv, BuildInv
<1>3. LoginInv(t)' /\ KioskInv(t)' /\ BuildInv(t)'
  BY <1>1 DEF LoginInv, KioskInv, BuildInv
<1> QED
  BY <1>2, <1>3, NoJobType, StepOf DEF GuardInv, TypeOK, Labels

-----------------------------------------------------------------------------
(* The login throttle.                                                     *)

LEMMA InitGuard == Init => GuardInv
<1> SUFFICES ASSUME Init PROVE GuardInv
  OBVIOUS
<1>1. \A t \in Threads : pc[t] = "idle" /\ job[t] = NoJob
  BY DEF Init
<1>2. lock \notin Threads
  BY AccessAssumption DEF Init
<1>3. TypeOK
  <2>1. entries \in [Keys -> Entry \cup {None}] /\ failures \in [Addresses -> Entry \cup {None}]
    BY DEF Init
  <2>2. pc \in [Threads -> Labels] /\ job \in [Threads -> Job]
    BY NoJobType DEF Init, Labels
  <2> QED
    BY <2>1, <2>2 DEF Init, TypeOK
<1>4. ListedHasFile
  BY DEF Init, ListedHasFile
<1>5. \A t \in Threads : LoginInv(t) /\ KioskInv(t) /\ BuildInv(t)
  BY <1>1, <1>2 DEF LoginInv, KioskInv, BuildInv
<1> QED
  BY <1>1, <1>3, <1>4, <1>5 DEF GuardInv, AdmittedWasActive

LEMMA OpenLoginStep ==
    ASSUME GuardInv, NEW t \in Threads, NEW a \in Addresses, NEW c \in Accounts \cup {None},
           OpenLogin(t, a, c)
    PROVE  GuardInv'
<1> DEFINE j == [NoJob EXCEPT !.ip = a, !.account = c, !.at = now]
<1>1. j \in Job /\ j.ip = a /\ j.at = now /\ j.build = None /\ now \in Nat
  BY DEF GuardInv, TypeOK, NoJob, Job
<1>2. pc' = [pc EXCEPT ![t] = "wait"] /\ job' = [job EXCEPT ![t] = j] /\ pc[t] = "idle"
  BY DEF OpenLogin, Begin
<1>3. pc'[t] = "wait" /\ job'[t] = j /\ lock' = lock /\ lock # t /\ now' = now
  BY <1>2 DEF OpenLogin, Begin, throttles, GuardInv, TypeOK, LoginInv
<1>4. LoginInv(t)' /\ KioskInv(t)' /\ BuildInv(t)'
  BY <1>1, <1>3 DEF LoginInv, KioskInv, BuildInv
<1>5. \A u \in Threads \ {t} : pc[u] \in {"upload", "insert"} => j.build # job[u].build
  BY <1>1, AccessAssumption DEF GuardInv, BuildInv
<1>6. ops' \in Nat /\ UNCHANGED <<entries, failures, builds, devices, now, restarts, lock>>
  BY DEF OpenLogin, Begin, throttles, tables, GuardInv, TypeOK
<1> QED
  BY <1>1, <1>2, <1>4, <1>5, <1>6, StepOf, SameDevices DEF Labels

LEMMA EnterLoginStep ==
    ASSUME GuardInv, NEW t \in Threads, EnterLogin(t)
    PROVE  GuardInv'
<1>1. pc[t] = "wait" /\ lock = None /\ job[t] \in Job
  BY DEF EnterLogin, GuardInv, TypeOK
<1>2. UNCHANGED <<entries, failures, builds, devices, now, restarts, ops>>
  BY DEF EnterLogin, tables, Respond, Goto
<1>3. CASE \E k \in KeysOf(job[t]) : Blocked(entries[k], job[t].at)
  <2>1. pc' = [pc EXCEPT ![t] = "idle"] /\ job' = [job EXCEPT ![t] = NoJob] /\ lock' = lock
    BY <1>3 DEF EnterLogin, Respond, Goto
  <2> QED
    BY <1>1, <1>2, <2>1, RespondStep, SameDevices
<1>4. CASE ~ \E k \in KeysOf(job[t]) : Blocked(entries[k], job[t].at)
  <2> DEFINE j == [job[t] EXCEPT !.read = entries]
  <2>1. pc' = [pc EXCEPT ![t] = "view"] /\ lock' = t /\ job' = [job EXCEPT ![t] = j]
    BY <1>4 DEF EnterLogin, Goto
  <2>2. entries \in [Keys -> Entry \cup {None}]
    BY DEF GuardInv, TypeOK
  <2>3. j \in Job /\ j.ip = job[t].ip /\ j.account = job[t].account /\ j.at = job[t].at
        /\ j.read = entries /\ j.build = job[t].build
    BY <1>1, <2>2 DEF Job
  <2>4. pc'[t] = "view" /\ job'[t] = j
    BY <2>1 DEF GuardInv, TypeOK
  <2>5. job[t].ip \in Addresses /\ job[t].at <= now
    BY <1>1 DEF GuardInv, LoginInv
  <2>6. LoginInv(t)'
    BY <1>2, <1>4, <2>1, <2>3, <2>4, <2>5 DEF LoginInv, KeysOf, Blocked
  <2>7. KioskInv(t)' /\ BuildInv(t)'
    BY <2>4 DEF KioskInv, BuildInv
  <2>8. \A u \in Threads \ {t} : pc[u] \in {"upload", "insert"} => j.build # job[u].build
    BY <2>3 DEF GuardInv, BuildInv
  <2>9. \A u \in Threads \ {t} : lock' = u <=> lock = u
    BY <1>1, <2>1, AccessAssumption
  <2> QED
    <3>1. ops' \in Nat /\ "view" \in Labels /\ pc[t] # "remove"
      BY <1>1, <1>2 DEF GuardInv, TypeOK, Labels
    <3> HIDE DEF j
    <3> QED
      BY <1>1, <1>2, <2>1, <2>3, <2>6, <2>7, <2>8, <2>9, <3>1, StepOf, SameDevices
<1> QED
  BY <1>3, <1>4

\* One more failure leaves an entry.
LEMMA FailedType ==
    ASSUME NEW k \in Keys, NEW e \in Entry \cup {None}, NEW at \in Nat
    PROVE  Failed(k, e, at) \in Entry
<1>1. BlockOf(k) \in Nat /\ Limit(k) \in Nat /\ WindowOf(k) \in Nat
  BY AccessAssumption DEF BlockOf, Limit, WindowOf
<1>2. CASE e = None
  BY <1>2 DEF Failed, Entry
<1>3. CASE e # None
  <2> DEFINE until == IF e.count + 1 >= Limit(k) THEN at + BlockOf(k) ELSE e.until
  <2>1. e \in Entry /\ e.count + 1 \in Nat /\ until \in Nat
    BY <1>1, <1>3 DEF Entry
  <2>2. [count |-> 1, start |-> at, until |-> 0] \in Entry
    BY DEF Entry
  <2>3. [e EXCEPT !.count = @ + 1, !.until = until] \in Entry
    BY <2>1 DEF Entry
  <2> QED
    BY <1>3, <2>2, <2>3 DEF Failed
<1> QED
  BY <1>2, <1>3

\* The login view answers: it alone held the lock, the others are not in it.
LEMMA AnswerStep ==
    ASSUME GuardInv, NEW t \in Threads, pc[t] = "view",
           entries' \in [Keys -> Entry \cup {None}],
           lock' = None, Respond(t), UNCHANGED <<failures, tables>>
    PROVE  GuardInv'
<1>1. pc' = [pc EXCEPT ![t] = "idle"] /\ job' = [job EXCEPT ![t] = NoJob]
      /\ UNCHANGED <<now, ops, restarts, devices, builds>>
  BY DEF Respond, Goto, tables
<1>2. pc'[t] = "idle" /\ job'[t] = NoJob /\ lock = t
  BY <1>1 DEF GuardInv, TypeOK, LoginInv
<1>3. TypeOK'
  BY <1>1, NoJobType DEF GuardInv, TypeOK, Labels
<1>4. ASSUME NEW u \in Threads
      PROVE  LoginInv(u)' /\ KioskInv(u)' /\ BuildInv(u)'
  <2>1. CASE u = t
    BY <1>2, <2>1, AccessAssumption DEF LoginInv, KioskInv, BuildInv
  <2>2. CASE u # t
    <3>1. pc'[u] = pc[u] /\ job'[u] = job[u] /\ pc[u] # "view"
      BY <1>1, <1>2, <2>2 DEF GuardInv, TypeOK, LoginInv
    <3>2. lock' # u /\ lock # u
      BY <1>2, <2>2, AccessAssumption
    <3>3. LoginInv(u)'
      BY <1>1, <3>1, <3>2, OtherLogin DEF GuardInv, TypeOK
    <3>4. KioskInv(u)'
      BY <1>1, <3>1, OtherKiosk, SameDevices DEF GuardInv, TypeOK
    <3>5. \A v \in Threads \ {u} : pc[u] \in {"upload", "insert"} => job'[v].build # job[u].build
      <4>1. \A v \in Threads \ {u} : v = t \/ job'[v] = job[v]
        BY <1>1 DEF GuardInv, TypeOK
      <4>2. pc[u] \in {"upload", "insert"} => job'[t].build # job[u].build
        BY <1>2, AccessAssumption DEF NoJob, GuardInv, BuildInv
      <4> QED
        BY <4>1, <4>2 DEF GuardInv, BuildInv
    <3>6. BuildInv(u)'
      BY <1>1, <3>1, <3>5, OtherBuild, AccessAssumption DEF GuardInv
    <3> QED
      BY <3>3, <3>4, <3>6
  <2> QED
    BY <2>1, <2>2
<1>5. ListedHasFile'
  <2>1. \A u \in Threads : pc[u] = "remove" => pc'[u] = "remove" /\ job'[u].build = job[u].build
    BY <1>1 DEF GuardInv, TypeOK
  <2> QED
    BY <1>1, <2>1, SameBuilds DEF GuardInv
<1>6. AdmittedWasActive'
  BY <1>4 DEF AdmittedWasActive, KioskInv
<1> QED
  BY <1>3, <1>4, <1>5, <1>6 DEF GuardInv

LEMMA AnswerFailedStep ==
    ASSUME GuardInv, NEW t \in Threads, AnswerFailed(t)
    PROVE  GuardInv'
<1>1. pc[t] = "view" /\ job[t] \in Job /\ job[t].read = entries /\ job[t].at \in Nat
  BY DEF AnswerFailed, GuardInv, TypeOK, LoginInv, Job
<1>2. entries' = [k \in Keys |->
          IF k \in KeysOf(job[t]) THEN Failed(k, job[t].read[k], job[t].at) ELSE entries[k]]
  BY DEF AnswerFailed
<1>3. entries \in [Keys -> Entry \cup {None}]
  BY DEF GuardInv, TypeOK
<1>4. \A k \in Keys : Failed(k, entries[k], job[t].at) \in Entry
  BY <1>1, <1>3, FailedType
<1>5. entries' \in [Keys -> Entry \cup {None}]
  BY <1>1, <1>2, <1>3, <1>4
<1> QED
  BY <1>1, <1>5, AnswerStep DEF AnswerFailed

LEMMA AnswerOtherStep ==
    ASSUME GuardInv, NEW t \in Threads, AnswerOther(t)
    PROVE  GuardInv'
<1>1. entries' = [k \in Keys |-> IF k \in KeysOf(job[t]) THEN None ELSE entries[k]]
  BY DEF AnswerOther
<1>2. entries' \in [Keys -> Entry \cup {None}]
  BY <1>1 DEF GuardInv, TypeOK
<1> QED
  BY <1>2, AnswerStep DEF AnswerOther

-----------------------------------------------------------------------------
(* The kiosk's requests.                                                   *)

LEMMA OpenKioskStep ==
    ASSUME GuardInv, NEW t \in Threads, NEW a \in Addresses, NEW d \in Devices \cup {None},
           OpenKiosk(t, a, d)
    PROVE  GuardInv'
<1> DEFINE j == [NoJob EXCEPT !.ip = a, !.device = d, !.at = now, !.good = Active(d)]
<1>1. Active(d) \in BOOLEAN
  BY DEF Active, GuardInv, TypeOK
<1>2. j \in Job /\ j.ip = a /\ j.device = d /\ j.good = Active(d) /\ j.build = None
  BY <1>1 DEF GuardInv, TypeOK, NoJob, Job
<1>3. pc' = [pc EXCEPT ![t] = "lookup"] /\ job' = [job EXCEPT ![t] = j] /\ pc[t] = "idle"
  BY DEF OpenKiosk, Begin
<1>4. ops' \in Nat /\ UNCHANGED <<entries, failures, builds, devices, now, restarts, lock>>
  BY DEF OpenKiosk, Begin, throttles, tables, GuardInv, TypeOK
<1>5. pc'[t] = "lookup" /\ job'[t] = j /\ lock' # t
  BY <1>3, <1>4 DEF GuardInv, TypeOK, LoginInv
<1>6. LoginInv(t)' /\ BuildInv(t)'
  BY <1>5 DEF LoginInv, BuildInv
<1>7. ~ Blocked(failures[a], now)
  BY DEF OpenKiosk
<1>8. KioskInv(t)'
  BY <1>2, <1>4, <1>5, <1>7 DEF KioskInv, Blocked, Active
<1>9. \A u \in Threads \ {t} : pc[u] \in {"upload", "insert"} => j.build # job[u].build
  BY <1>2, AccessAssumption DEF GuardInv, BuildInv
<1> HIDE DEF j
<1> QED
  BY <1>2, <1>3, <1>4, <1>6, <1>8, <1>9, StepOf, SameDevices DEF Labels

\* A request that goes on with what it has: t moves from one place of the
\* kiosk API to another, and its job keeps all but the copy of the flag.
LEMMA KioskMove ==
    ASSUME GuardInv, NEW t \in Threads, NEW l \in {"touch", "refuse", "admit"}, NEW b \in BOOLEAN,
           pc[t] \in {"lookup", "touch"},
           pc' = [pc EXCEPT ![t] = l], job' = [job EXCEPT ![t] = [job[t] EXCEPT !.active = b]],
           UNCHANGED <<entries, failures, builds, now, restarts, ops, lock>>,
           devices' \in [Devices -> [active : BOOLEAN, seen : Addresses \cup {None}] \cup {None}],
           \A d \in Devices : devices'[d] # None /\ devices'[d].active => Active(d),
           l # "refuse" => job[t].good /\ job[t].device \in Devices
    PROVE  GuardInv'
<1> DEFINE j == [job[t] EXCEPT !.active = b]
<1>1. j \in Job /\ j.ip = job[t].ip /\ j.device = job[t].device /\ j.good = job[t].good
      /\ j.early = job[t].early /\ j.build = job[t].build
  BY DEF GuardInv, TypeOK, Job
<1>2. pc'[t] = l /\ job'[t] = j /\ lock' # t
  BY DEF GuardInv, TypeOK, LoginInv
<1>3. LoginInv(t)' /\ BuildInv(t)'
  BY <1>2 DEF LoginInv, BuildInv
<1>4. KioskInv(t)'
  BY <1>1, <1>2 DEF GuardInv, KioskInv, Blocked
<1>5. \A u \in Threads \ {t} : pc[u] \in {"upload", "insert"} => j.build # job[u].build
  BY <1>1 DEF GuardInv, BuildInv
<1>6. ops' \in Nat /\ l \in Labels /\ pc[t] # "remove"
  BY DEF GuardInv, TypeOK, Labels
<1>7. job' = [job EXCEPT ![t] = j]
  OBVIOUS
<1> HIDE DEF j
<1> QED
  BY <1>1, <1>3, <1>4, <1>5, <1>6, <1>7, StepOf

LEMMA LookUpDeviceStep ==
    ASSUME GuardInv, NEW t \in Threads, LookUpDevice(t)
    PROVE  GuardInv'
<1>1. pc[t] = "lookup" /\ job[t] \in Job
      /\ UNCHANGED <<entries, failures, builds, devices, now, restarts, ops, lock>>
  BY DEF LookUpDevice, Goto, throttles, tables, GuardInv, TypeOK
<1>2. CASE Active(job[t].device)
  <2>1. job[t].device \in Devices /\ job[t].good
    BY <1>1, <1>2 DEF Active, Job, GuardInv, KioskInv
  <2>2. pc' = [pc EXCEPT ![t] = "touch"] /\ job' = [job EXCEPT ![t].active = TRUE]
    BY <1>2 DEF LookUpDevice, Goto
  <2>3. job' = [job EXCEPT ![t] = [job[t] EXCEPT !.active = TRUE]]
    BY <2>2
  <2> QED
    BY <1>1, <2>1, <2>2, <2>3, KioskMove, SameDevices
<1>3. CASE ~ Active(job[t].device)
  <2>1. pc' = [pc EXCEPT ![t] = "refuse"] /\ job' = job
    BY <1>3 DEF LookUpDevice, Goto
  <2>2. job' = [job EXCEPT ![t] = [job[t] EXCEPT !.active = job[t].active]]
        /\ job[t].active \in BOOLEAN
    BY <1>1, <2>1 DEF GuardInv, TypeOK, Job
  <2> QED
    BY <1>1, <2>1, <2>2, KioskMove, SameDevices
<1> QED
  BY <1>2, <1>3

LEMMA TouchDeviceStep ==
    ASSUME GuardInv, NEW t \in Threads, TouchDevice(t)
    PROVE  GuardInv'
<1>1. pc[t] = "touch" /\ job[t] \in Job
      /\ UNCHANGED <<entries, failures, builds, now, restarts, ops, lock>>
  BY DEF TouchDevice, Respond, Goto, throttles, GuardInv, TypeOK
<1>2. job[t].device \in Devices /\ job[t].good /\ job[t].ip \in Addresses
  BY <1>1 DEF GuardInv, KioskInv
<1>3. CASE devices[job[t].device] = None
  <2>1. pc' = [pc EXCEPT ![t] = "idle"] /\ job' = [job EXCEPT ![t] = NoJob] /\ devices' = devices
    BY <1>3 DEF TouchDevice, Respond, Goto
  <2> QED
    BY <1>1, <2>1, RespondStep, SameDevices
<1>4. CASE devices[job[t].device] # None
  <2> DEFINE d == job[t].device
             row == [devices[d] EXCEPT !.seen = job[t].ip]
  <2>1. pc' = [pc EXCEPT ![t] = "admit"] /\ job' = job /\ devices' = [devices EXCEPT ![d] = row]
    BY <1>4 DEF TouchDevice, Goto
  <2>2. devices \in [Devices -> [active : BOOLEAN, seen : Addresses \cup {None}] \cup {None}]
    BY DEF GuardInv, TypeOK
  <2>3. row \in [active : BOOLEAN, seen : Addresses \cup {None}] /\ row.active = devices[d].active
    BY <1>2, <1>4, <2>2
  <2>4. devices' \in [Devices -> [active : BOOLEAN, seen : Addresses \cup {None}] \cup {None}]
    BY <2>1, <2>2, <2>3
  <2>5. \A x \in Devices : devices'[x] # None /\ devices'[x].active => Active(x)
    BY <1>4, <2>1, <2>2, <2>3, AccessAssumption DEF Active
  <2>6. job' = [job EXCEPT ![t] = [job[t] EXCEPT !.active = job[t].active]]
        /\ job[t].active \in BOOLEAN
    BY <1>1, <2>1 DEF GuardInv, TypeOK, Job
  <2> HIDE DEF d, row
  <2> QED
    BY <1>1, <1>2, <2>1, <2>4, <2>5, <2>6, KioskMove
<1> QED
  BY <1>3, <1>4

\* The answer to a kiosk: its address has another entry, and the others that
\* are under way with a blocked one are marked.
LEMMA AnswerKiosk ==
    ASSUME GuardInv, NEW t \in Threads, pc[t] \in {"refuse", "admit"},
           pc' = [pc EXCEPT ![t] = "idle"], job' \in [Threads -> Job], job'[t] = NoJob,
           failures' \in [Addresses -> Entry \cup {None}],
           \A u \in Threads \ {t} :
              /\ job'[u] = job[u] \/ job'[u] = [job[u] EXCEPT !.early = TRUE]
              /\ pc[u] \in {"lookup", "touch", "refuse", "admit"}
                    /\ Blocked(failures'[job[u].ip], now) => job'[u].early,
           UNCHANGED <<entries, devices, builds, now, restarts, ops, lock>>
    PROVE  GuardInv'
<1>1. TypeOK'
  BY DEF GuardInv, TypeOK, Labels
<1>2. pc'[t] = "idle" /\ lock # t
  BY DEF GuardInv, TypeOK, LoginInv
<1>3. ASSUME NEW u \in Threads
      PROVE  LoginInv(u)' /\ KioskInv(u)' /\ BuildInv(u)'
  <2>1. CASE u = t
    BY <1>2, <2>1 DEF LoginInv, KioskInv, BuildInv
  <2>2. CASE u # t
    <3>1. job[u] \in Job /\ pc'[u] = pc[u] /\ now \in Nat
      BY <2>2 DEF GuardInv, TypeOK
    <3>2. /\ job'[u].ip = job[u].ip /\ job'[u].account = job[u].account
          /\ job'[u].at = job[u].at /\ job'[u].read = job[u].read
          /\ job'[u].device = job[u].device /\ job'[u].good = job[u].good
          /\ job'[u].build = job[u].build
      BY <2>2, <3>1 DEF Job
    <3>3. LoginInv(u)'
      BY <3>1, <3>2, OtherLogin DEF GuardInv
    <3>4. KioskInv(u)'
      BY <2>2, <3>1, <3>2 DEF GuardInv, KioskInv, Blocked, Active
    <3>5. \A v \in Threads \ {u} : pc[u] \in {"upload", "insert"} => job'[v].build # job[u].build
      <4>1. ASSUME NEW v \in Threads \ {u}, v # t
            PROVE  job'[v].build = job[v].build
        <5>1. job[v] \in Job
          BY DEF GuardInv, TypeOK
        <5>2. job'[v] = job[v] \/ job'[v] = [job[v] EXCEPT !.early = TRUE]
          BY <4>1
        <5> QED
          BY <5>1, <5>2 DEF Job
      <4>2. pc[u] \in {"upload", "insert"} => job'[t].build # job[u].build
        BY AccessAssumption DEF NoJob, GuardInv, BuildInv
      <4> QED
        BY <4>1, <4>2 DEF GuardInv, BuildInv
    <3>6. BuildInv(u)'
      BY <3>1, <3>2, <3>5, OtherBuild, AccessAssumption DEF GuardInv
    <3> QED
      BY <3>3, <3>4, <3>6
  <2> QED
    BY <2>1, <2>2
<1>4. \A u \in Threads : pc[u] = "remove" => pc'[u] = "remove" /\ job'[u].build = job[u].build
  <2> SUFFICES ASSUME NEW u \in Threads, pc[u] = "remove"
               PROVE  pc'[u] = "remove" /\ job'[u].build = job[u].build
    OBVIOUS
  <2>1. u # t /\ job[u] \in Job /\ pc'[u] = pc[u]
    BY DEF GuardInv, TypeOK
  <2>2. job'[u] = job[u] \/ job'[u] = [job[u] EXCEPT !.early = TRUE]
    BY <2>1
  <2> QED
    BY <2>1, <2>2 DEF Job
<1>5. ListedHasFile'
  BY <1>4, SameBuilds DEF GuardInv
<1>6. AdmittedWasActive'
  BY <1>3 DEF AdmittedWasActive, KioskInv
<1> QED
  BY <1>1, <1>3, <1>5, <1>6 DEF GuardInv

LEMMA RefuseKioskStep ==
    ASSUME GuardInv, NEW t \in Threads, RefuseKiosk(t)
    PROVE  GuardInv'
<1> DEFINE a == job[t].ip
           e == Failed(a, failures[a], now)
<1>1. pc[t] = "refuse" /\ failures' = [failures EXCEPT ![a] = e]
      /\ job' = [Overtaken(t, a, e) EXCEPT ![t] = NoJob]
      /\ pc' = [pc EXCEPT ![t] = "idle"]
      /\ UNCHANGED <<entries, devices, builds, now, restarts, ops, lock>>
  BY DEF RefuseKiosk, Goto, tables
<1>2. a \in Addresses /\ now \in Nat /\ failures \in [Addresses -> Entry \cup {None}]
      /\ job \in [Threads -> Job]
  BY <1>1 DEF GuardInv, TypeOK, KioskInv
<1>3. e \in Entry
  <2>1. a \in Keys /\ failures[a] \in Entry \cup {None}
    BY <1>2 DEF Keys
  <2> QED
    BY <1>2, <2>1, FailedType
<1> HIDE DEF e
<1>4. ASSUME NEW u \in Threads
      PROVE  [job[u] EXCEPT !.early = TRUE] \in Job
  BY <1>2 DEF Job
<1>5. job' \in [Threads -> Job] /\ job'[t] = NoJob
  BY <1>1, <1>2, <1>4, NoJobType DEF Overtaken
<1>6. failures' \in [Addresses -> Entry \cup {None}]
  BY <1>1, <1>2, <1>3
<1>7. ASSUME NEW u \in Threads \ {t}
      PROVE  /\ job'[u] = job[u] \/ job'[u] = [job[u] EXCEPT !.early = TRUE]
             /\ pc[u] \in {"lookup", "touch", "refuse", "admit"}
                   /\ Blocked(failures'[job[u].ip], now) => job'[u].early
  <2>1. job'[u] = IF /\ job[u].ip = a
                     /\ pc[u] \in {"lookup", "touch", "refuse", "admit"}
                     /\ Blocked(e, now)
                  THEN [job[u] EXCEPT !.early = TRUE] ELSE job[u]
    BY <1>1 DEF Overtaken
  <2>2. ASSUME pc[u] \in {"lookup", "touch", "refuse", "admit"},
               Blocked(failures'[job[u].ip], now)
        PROVE  job'[u].early
    <3>1. CASE job[u].ip = a
      <4>1. failures'[job[u].ip] = e
        BY <1>1, <1>2, <3>1
      <4>2. job'[u] = [job[u] EXCEPT !.early = TRUE]
        BY <2>1, <2>2, <3>1, <4>1
      <4> QED
        BY <1>2, <4>2 DEF Job
    <3>2. CASE job[u].ip # a
      <4>1. job[u].ip \in Addresses
        BY <2>2 DEF GuardInv, KioskInv
      <4>2. failures'[job[u].ip] = failures[job[u].ip] /\ job'[u] = job[u]
        BY <1>1, <1>2, <2>1, <3>2, <4>1
      <4> QED
        BY <2>2, <4>2 DEF GuardInv, KioskInv
    <3> QED
      BY <3>1, <3>2
  <2> QED
    BY <2>1, <2>2
<1> QED
  BY <1>1, <1>5, <1>6, <1>7, AnswerKiosk

LEMMA AdmitKioskStep ==
    ASSUME GuardInv, NEW t \in Threads, AdmitKiosk(t)
    PROVE  GuardInv'
<1> DEFINE a == job[t].ip
<1>1. pc[t] = "admit" /\ failures' = [failures EXCEPT ![a] = None]
      /\ job' = [job EXCEPT ![t] = NoJob] /\ pc' = [pc EXCEPT ![t] = "idle"]
      /\ UNCHANGED <<entries, devices, builds, now, restarts, ops, lock>>
  BY DEF AdmitKiosk, Respond, Goto, tables
<1>2. failures \in [Addresses -> Entry \cup {None}] /\ job \in [Threads -> Job]
  BY DEF GuardInv, TypeOK
<1>3. failures' \in [Addresses -> Entry \cup {None}]
  BY <1>1, <1>2
<1>4. job' \in [Threads -> Job] /\ job'[t] = NoJob
  BY <1>1, <1>2, NoJobType
<1>5. ASSUME NEW u \in Threads \ {t}
      PROVE  /\ job'[u] = job[u]
             /\ pc[u] \in {"lookup", "touch", "refuse", "admit"}
                   /\ Blocked(failures'[job[u].ip], now) => job'[u].early
  <2>1. job'[u] = job[u]
    BY <1>1, <1>2
  <2>2. ASSUME pc[u] \in {"lookup", "touch", "refuse", "admit"},
               Blocked(failures'[job[u].ip], now)
        PROVE  job[u].early
    <3>1. job[u].ip \in Addresses
      BY <2>2 DEF GuardInv, KioskInv
    <3>2. failures'[job[u].ip] = failures[job[u].ip]
      BY <1>1, <1>2, <2>2, <3>1 DEF Blocked
    <3> QED
      BY <2>2, <3>2 DEF GuardInv, KioskInv
  <2> QED
    BY <2>1, <2>2
<1> QED
  BY <1>1, <1>3, <1>4, <1>5, AnswerKiosk

-----------------------------------------------------------------------------
(* Devices and installers.                                                 *)

\* A step in which no thread moves.
LEMMA StillStep ==
    ASSUME GuardInv, UNCHANGED <<entries, failures, lock, builds, pc, job, restarts>>,
           now' \in Nat, now <= now', ops' \in Nat,
           devices' \in [Devices -> [active : BOOLEAN, seen : Addresses \cup {None}] \cup {None}],
           \A t \in Threads, d \in Devices :
              devices'[d] # None /\ devices'[d].active => Active(d) \/ job[t].device # d
    PROVE  GuardInv'
<1>1. TypeOK'
  BY DEF GuardInv, TypeOK
<1>2. ASSUME NEW u \in Threads
      PROVE  LoginInv(u)' /\ KioskInv(u)' /\ BuildInv(u)'
  <2>1. job[u] \in Job /\ now \in Nat
    BY DEF GuardInv, TypeOK
  <2>2. LoginInv(u)'
    BY <2>1, OtherLogin DEF GuardInv
  <2>3. ASSUME pc[u] \in {"lookup", "touch", "refuse", "admit"},
               Blocked(failures[job[u].ip], now')
        PROVE  job[u].early
    <3>1. failures[job[u].ip] \in Entry \cup {None}
      BY <2>3 DEF GuardInv, KioskInv, TypeOK
    <3>2. Blocked(failures[job[u].ip], now)
      BY <2>1, <2>3, <3>1 DEF Blocked, Entry
    <3> QED
      BY <2>3, <3>2 DEF GuardInv, KioskInv
  <2>4. ASSUME pc[u] = "lookup", job[u].device # None, devices'[job[u].device] # None,
               devices'[job[u].device].active
        PROVE  job[u].good
    <3>1. job[u].device \in Devices
      BY <2>1, <2>4 DEF Job
    <3> QED
      BY <2>4, <3>1 DEF GuardInv, KioskInv
  <2>5. KioskInv(u)'
    BY <2>3, <2>4 DEF GuardInv, KioskInv, Blocked, Active
  <2>6. BuildInv(u)'
    BY DEF GuardInv, BuildInv
  <2> QED
    BY <2>2, <2>5, <2>6
<1>3. ListedHasFile'
  BY DEF GuardInv, ListedHasFile
<1>4. AdmittedWasActive'
  BY DEF GuardInv, AdmittedWasActive
<1> QED
  BY <1>1, <1>2, <1>3, <1>4 DEF GuardInv

LEMMA IssueDeviceStep ==
    ASSUME GuardInv, NEW d \in Devices, IssueDevice(d)
    PROVE  GuardInv'
<1>1. devices \in [Devices -> [active : BOOLEAN, seen : Addresses \cup {None}] \cup {None}]
      /\ devices' = [devices EXCEPT ![d] = [active |-> TRUE, seen |-> None]]
  BY DEF IssueDevice, GuardInv, TypeOK
<1>2. devices' \in [Devices -> [active : BOOLEAN, seen : Addresses \cup {None}] \cup {None}]
  BY <1>1
<1>3. \A t \in Threads, x \in Devices :
         devices'[x] # None /\ devices'[x].active => Active(x) \/ job[t].device # x
  BY <1>1, AccessAssumption DEF IssueDevice, Active
<1>4. now' \in Nat /\ now <= now' /\ ops' \in Nat
      /\ UNCHANGED <<entries, failures, lock, builds, pc, job, restarts>>
  BY DEF IssueDevice, throttles, GuardInv, TypeOK
<1> QED
  BY <1>2, <1>3, <1>4, StillStep

LEMMA TickStep ==
    ASSUME GuardInv, Tick \/ UNCHANGED vars
    PROVE  GuardInv'
<1>1. UNCHANGED <<entries, failures, lock, devices, builds, pc, job, restarts, ops>>
      /\ (now' = now \/ now' = now + 1)
  BY DEF Tick, vars, throttles, tables
<1>2. now' \in Nat /\ now <= now' /\ ops' \in Nat
  BY <1>1 DEF GuardInv, TypeOK
<1> QED
  BY <1>1, <1>2, StillStep, SameDevices

LEMMA OpenDeviceStep ==
    ASSUME GuardInv, NEW t \in Threads, NEW d \in Devices, NEW label \in {"revoke", "delete"},
           OpenDevice(t, d, label)
    PROVE  GuardInv'
<1> DEFINE j == [NoJob EXCEPT !.device = d]
<1>1. j \in Job /\ j.device = d /\ j.build = None
  BY AccessAssumption DEF NoJob, Job
<1>2. pc' = [pc EXCEPT ![t] = label] /\ job' = [job EXCEPT ![t] = j] /\ pc[t] = "idle"
  BY DEF OpenDevice, Begin
<1>3. ops' \in Nat /\ UNCHANGED <<entries, failures, builds, devices, now, restarts, lock>>
  BY DEF OpenDevice, Begin, throttles, tables, GuardInv, TypeOK
<1>4. pc'[t] = label /\ job'[t] = j /\ lock' # t
  BY <1>2, <1>3 DEF GuardInv, TypeOK, LoginInv
<1>5. LoginInv(t)' /\ KioskInv(t)' /\ BuildInv(t)'
  BY <1>1, <1>4 DEF LoginInv, KioskInv, BuildInv
<1>6. \A u \in Threads \ {t} : pc[u] \in {"upload", "insert"} => j.build # job[u].build
  BY <1>1, AccessAssumption DEF GuardInv, BuildInv
<1>7. label \in Labels
  BY DEF Labels
<1> HIDE DEF j
<1> QED
  BY <1>1, <1>2, <1>3, <1>5, <1>6, <1>7, StepOf, SameDevices

\* RevokeDevice and DeleteDevice make no device active.
LEMMA WithdrawStep ==
    ASSUME GuardInv, NEW t \in Threads, RevokeDevice(t) \/ DeleteDevice(t)
    PROVE  GuardInv'
<1> DEFINE d == job[t].device
<1>1. pc[t] \in {"revoke", "delete"}
      /\ pc' = [pc EXCEPT ![t] = "idle"] /\ job' = [job EXCEPT ![t] = NoJob]
      /\ UNCHANGED <<entries, failures, builds, now, restarts, ops, lock>>
  BY DEF RevokeDevice, DeleteDevice, Respond, Goto, throttles
<1>2. devices \in [Devices -> [active : BOOLEAN, seen : Addresses \cup {None}] \cup {None}]
      /\ d \in Devices
  BY <1>1 DEF GuardInv, TypeOK, KioskInv
<1>3. \/ devices' = devices
      \/ devices' = [devices EXCEPT ![d] = None]
      \/ devices[d] # None /\ devices' = [devices EXCEPT ![d] = [devices[d] EXCEPT !.active = FALSE]]
  BY DEF RevokeDevice, DeleteDevice
<1> HIDE DEF d
<1>4. devices[d] # None => [devices[d] EXCEPT !.active = FALSE] \in
                              [active : BOOLEAN, seen : Addresses \cup {None}]
  BY <1>2
<1>5. devices' \in [Devices -> [active : BOOLEAN, seen : Addresses \cup {None}] \cup {None}]
  BY <1>2, <1>3, <1>4
<1>6. \A x \in Devices : devices'[x] # None /\ devices'[x].active => Active(x)
  BY <1>2, <1>3, <1>4, AccessAssumption DEF Active
<1> QED
  BY <1>1, <1>5, <1>6, RespondStep

LEMMA OpenUploadStep ==
    ASSUME GuardInv, NEW t \in Threads, NEW b \in Builds,
           OpenUpload(t, b) \/ OpenRemoval(t, b)
    PROVE  GuardInv'
<1> DEFINE j == [NoJob EXCEPT !.build = b]
<1>1. j \in Job /\ j.build = b
  BY AccessAssumption DEF NoJob, Job
<1>2. PICK l \in {"upload", "unlink"} :
         /\ pc' = [pc EXCEPT ![t] = l] /\ job' = [job EXCEPT ![t] = j] /\ pc[t] = "idle"
         /\ l = "upload" => ~ builds[b].row /\ \A u \in Threads : job[u].build # b
         /\ l = "unlink" => builds[b].row
  BY DEF OpenUpload, OpenRemoval, Begin
<1>3. ops' \in Nat /\ UNCHANGED <<entries, failures, builds, devices, now, restarts, lock>>
  BY DEF OpenUpload, OpenRemoval, Begin, throttles, tables, GuardInv, TypeOK
<1>4. pc'[t] = l /\ job'[t] = j /\ lock' # t
  BY <1>2, <1>3 DEF GuardInv, TypeOK, LoginInv
<1>5. LoginInv(t)' /\ KioskInv(t)'
  BY <1>4 DEF LoginInv, KioskInv
<1>6. BuildInv(t)'
  <2>1. \A u \in Threads \ {t} : job'[u] = job[u]
    BY <1>2 DEF GuardInv, TypeOK
  <2> QED
    BY <1>1, <1>2, <1>3, <1>4, <2>1 DEF BuildInv
<1>7. \A u \in Threads \ {t} : pc[u] \in {"upload", "insert"} => j.build # job[u].build
  BY <1>1, <1>2 DEF GuardInv, BuildInv
<1>8. l \in Labels
  BY DEF Labels
<1> HIDE DEF j
<1> QED
  BY <1>1, <1>2, <1>3, <1>5, <1>6, <1>7, <1>8, StepOf, SameDevices

\* A step that writes the installer in the hands of t.
LEMMA WriteBuildStep ==
    ASSUME GuardInv, NEW t \in Threads, NEW b \in Builds, b = job[t].build,
           pc[t] \in {"upload", "insert", "unlink", "remove"},
           NEW r \in [row : BOOLEAN, file : BOOLEAN, halted : BOOLEAN],
           builds' = [builds EXCEPT ![b] = r],
           NEW l \in {"idle", "insert", "remove"}, pc' = [pc EXCEPT ![t] = l],
           job' = IF l = "idle" THEN [job EXCEPT ![t] = NoJob] ELSE job,
           UNCHANGED <<entries, failures, lock, devices, now, restarts, ops>>,
           l = "insert" => pc[t] = "upload" /\ ~ r.row /\ r.file,
           r.row /\ ~ r.file => l = "remove"
    PROVE  GuardInv'
<1>1. job \in [Threads -> Job] /\ pc \in [Threads -> Labels] /\ now \in Nat
      /\ builds \in [Builds -> [row : BOOLEAN, file : BOOLEAN, halted : BOOLEAN]]
  BY DEF GuardInv, TypeOK
<1>2. TypeOK'
  <2>1. job' \in [Threads -> Job] /\ pc' \in [Threads -> Labels]
    BY <1>1, NoJobType DEF Labels
  <2>2. builds' \in [Builds -> [row : BOOLEAN, file : BOOLEAN, halted : BOOLEAN]]
    BY <1>1
  <2> QED
    BY <2>1, <2>2 DEF GuardInv, TypeOK
<1>3. pc'[t] = l /\ lock # t
      /\ job'[t] = IF l = "idle" THEN NoJob ELSE job[t]
  BY <1>1 DEF GuardInv, LoginInv
<1>4. ASSUME NEW u \in Threads \ {t}
      PROVE  /\ pc'[u] = pc[u] /\ job'[u] = job[u]
             /\ pc[u] \in {"upload", "insert"} => job[u].build # b
  BY <1>1 DEF GuardInv, BuildInv
<1>5. ASSUME NEW u \in Threads
      PROVE  LoginInv(u)' /\ KioskInv(u)' /\ BuildInv(u)'
  <2>1. CASE u = t
    <3>1. LoginInv(u)' /\ KioskInv(u)'
      BY <1>3, <2>1 DEF LoginInv, KioskInv
    <3>2. BuildInv(u)'
      BY <1>1, <1>3, <1>4, <2>1 DEF GuardInv, BuildInv
    <3> QED
      BY <3>1, <3>2
  <2>2. CASE u # t
    <3>1. pc'[u] = pc[u] /\ job'[u] = job[u] /\ job[u] \in Job
      BY <1>1, <1>4, <2>2
    <3>2. LoginInv(u)'
      BY <1>1, <3>1, OtherLogin DEF GuardInv
    <3>3. KioskInv(u)'
      BY <1>1, <3>1, OtherKiosk, SameDevices DEF GuardInv
    <3>4. ASSUME pc[u] \in {"upload", "insert"}
          PROVE  /\ builds'[job[u].build] = builds[job[u].build]
                 /\ \A v \in Threads \ {u} : job'[v].build # job[u].build
      <4>1. job[u].build \in Builds /\ job[u].build # b
        BY <1>4, <2>2, <3>4 DEF GuardInv, BuildInv
      <4>2. ASSUME NEW v \in Threads \ {u}
            PROVE  job'[v].build # job[u].build
        <5>1. CASE v # t
          BY <1>4, <3>4, <5>1 DEF GuardInv, BuildInv
        <5>2. CASE v = t
          BY <1>3, <4>1, <5>2, AccessAssumption DEF NoJob
        <5> QED
          BY <5>1, <5>2
      <4> QED
        BY <1>1, <4>1, <4>2
    <3>5. BuildInv(u)'
      BY <3>1, <3>4, OtherBuild, AccessAssumption DEF GuardInv
    <3> QED
      BY <3>2, <3>3, <3>5
  <2> QED
    BY <2>1, <2>2
<1>6. ListedHasFile'
  <2> SUFFICES ASSUME NEW x \in Builds, builds'[x].row, ~ builds'[x].file
               PROVE  builds'[x].halted \/ \E u \in Threads : pc'[u] = "remove" /\ job'[u].build = x
    BY DEF ListedHasFile
  <2>1. CASE x = b
    BY <1>1, <1>3, <2>1
  <2>2. CASE x # b
    <3>1. builds'[x] = builds[x]
      BY <1>1, <2>2
    <3>2. CASE builds[x].halted
      BY <3>1, <3>2
    <3>3. CASE ~ builds[x].halted
      <4>1. PICK u \in Threads : pc[u] = "remove" /\ job[u].build = x
        BY <3>1, <3>3 DEF GuardInv, ListedHasFile
      <4> QED
        BY <1>4, <2>2, <4>1
    <3> QED
      BY <3>2, <3>3
  <2> QED
    BY <2>1, <2>2
<1>7. AdmittedWasActive'
  BY <1>5 DEF AdmittedWasActive, KioskInv
<1> QED
  BY <1>2, <1>5, <1>6, <1>7 DEF GuardInv

LEMMA BuildStep ==
    ASSUME GuardInv, NEW t \in Threads,
           StoreUpload(t) \/ InsertBuild(t) \/ UnlinkFile(t) \/ RemoveBuild(t)
    PROVE  GuardInv'
<1> DEFINE b == job[t].build
<1>1. pc[t] \in {"upload", "insert", "unlink", "remove"} /\ b \in Builds
  BY DEF StoreUpload, InsertBuild, UnlinkFile, RemoveBuild, GuardInv, BuildInv
<1>2. UNCHANGED <<entries, failures, lock, devices, now, restarts, ops>>
  BY DEF StoreUpload, InsertBuild, UnlinkFile, RemoveBuild, Respond, Goto, throttles
<1>3. builds[b] \in [row : BOOLEAN, file : BOOLEAN, halted : BOOLEAN]
  BY <1>1 DEF GuardInv, TypeOK
<1>4. CASE StoreUpload(t)
  <2> DEFINE r == [builds[b] EXCEPT !.file = TRUE]
  <2>1. pc[t] = "upload" /\ ~ builds[b].row
    BY <1>4 DEF StoreUpload, GuardInv, BuildInv
  <2>2. r \in [row : BOOLEAN, file : BOOLEAN, halted : BOOLEAN] /\ ~ r.row /\ r.file
    BY <1>3, <2>1
  <2>3. pc' = [pc EXCEPT ![t] = "insert"] /\ job' = job /\ builds' = [builds EXCEPT ![b] = r]
    BY <1>4 DEF StoreUpload, Goto
  <2> HIDE DEF r, b
  <2> QED
    BY <1>1, <1>2, <2>1, <2>2, <2>3, WriteBuildStep DEF b
<1>5. CASE InsertBuild(t)
  <2> DEFINE r == [builds[b] EXCEPT !.row = TRUE]
  <2>1. pc[t] = "insert" /\ builds[b].file
    BY <1>5 DEF InsertBuild, GuardInv, BuildInv
  <2>2. r \in [row : BOOLEAN, file : BOOLEAN, halted : BOOLEAN] /\ r.file
    BY <1>3, <2>1
  <2>3. pc' = [pc EXCEPT ![t] = "idle"] /\ job' = [job EXCEPT ![t] = NoJob]
        /\ builds' = [builds EXCEPT ![b] = r]
    BY <1>5 DEF InsertBuild, Respond, Goto
  <2> HIDE DEF r, b
  <2> QED
    BY <1>1, <1>2, <2>1, <2>2, <2>3, WriteBuildStep DEF b
<1>6. CASE UnlinkFile(t)
  <2> DEFINE r == [builds[b] EXCEPT !.file = FALSE]
  <2>1. r \in [row : BOOLEAN, file : BOOLEAN, halted : BOOLEAN]
    BY <1>3
  <2>2. pc' = [pc EXCEPT ![t] = "remove"] /\ job' = job /\ builds' = [builds EXCEPT ![b] = r]
    BY <1>6 DEF UnlinkFile, Goto
  <2> HIDE DEF r, b
  <2> QED
    BY <1>1, <1>2, <2>1, <2>2, WriteBuildStep DEF b
<1>7. CASE RemoveBuild(t)
  <2> DEFINE r == [builds[b] EXCEPT !.row = FALSE]
  <2>1. r \in [row : BOOLEAN, file : BOOLEAN, halted : BOOLEAN] /\ ~ r.row
    BY <1>3
  <2>2. pc' = [pc EXCEPT ![t] = "idle"] /\ job' = [job EXCEPT ![t] = NoJob]
        /\ builds' = [builds EXCEPT ![b] = r]
    BY <1>7 DEF RemoveBuild, Respond, Goto
  <2> HIDE DEF r, b
  <2> QED
    BY <1>1, <1>2, <2>1, <2>2, WriteBuildStep DEF b
<1> QED
  BY <1>4, <1>5, <1>6, <1>7

LEMMA RestartStep ==
    ASSUME GuardInv, Restart
    PROVE  GuardInv'
<1>1. \A t \in Threads : pc'[t] = "idle" /\ job'[t] = NoJob
  BY DEF Restart
<1>2. builds \in [Builds -> [row : BOOLEAN, file : BOOLEAN, halted : BOOLEAN]]
  BY DEF GuardInv, TypeOK
<1>3. ASSUME NEW b \in Builds
      PROVE  /\ builds'[b] \in [row : BOOLEAN, file : BOOLEAN, halted : BOOLEAN]
             /\ builds'[b].row = builds[b].row /\ builds'[b].file = builds[b].file
             /\ builds'[b].halted <=> builds[b].halted
                    \/ \E t \in Threads : pc[t] = "remove" /\ job[t].build = b
  <2> DEFINE h == builds[b].halted
                    \/ \E t \in Threads : pc[t] = "remove" /\ job[t].build = b
  <2>1. builds'[b] = [builds[b] EXCEPT !.halted = @
                         \/ \E t \in Threads : pc[t] = "remove" /\ job[t].build = b]
    BY DEF Restart
  <2>2. builds[b] \in [row : BOOLEAN, file : BOOLEAN, halted : BOOLEAN] /\ h \in BOOLEAN
    BY <1>2
  <2>3. builds'[b] = [builds[b] EXCEPT !.halted = h]
    BY <2>1, <2>2
  <2> HIDE DEF h
  <2>4. /\ builds'[b] \in [row : BOOLEAN, file : BOOLEAN, halted : BOOLEAN]
        /\ builds'[b].row = builds[b].row /\ builds'[b].file = builds[b].file
        /\ builds'[b].halted = h
    BY <2>2, <2>3
  <2> QED
    BY <2>4 DEF h
<1>4. TypeOK'
  <2>1. entries' \in [Keys -> Entry \cup {None}] /\ failures' \in [Addresses -> Entry \cup {None}]
    BY DEF Restart
  <2>2. pc' \in [Threads -> Labels] /\ job' \in [Threads -> Job]
    BY NoJobType DEF Restart, Labels
  <2>3. builds' \in [Builds -> [row : BOOLEAN, file : BOOLEAN, halted : BOOLEAN]]
    BY <1>3 DEF Restart
  <2>4. lock' = None /\ restarts' = restarts + 1 /\ UNCHANGED <<devices, now, ops>>
    BY DEF Restart
  <2> QED
    BY <2>1, <2>2, <2>3, <2>4 DEF GuardInv, TypeOK
<1>5. ListedHasFile'
  BY <1>3 DEF GuardInv, ListedHasFile
<1>6. \A t \in Threads : LoginInv(t)' /\ KioskInv(t)' /\ BuildInv(t)'
  BY <1>1, AccessAssumption DEF Restart, LoginInv, KioskInv, BuildInv
<1> QED
  BY <1>1, <1>4, <1>5, <1>6 DEF GuardInv, AdmittedWasActive

-----------------------------------------------------------------------------
(* The counters of the throttles and the failures they stand for.          *)

LEMMA Limits ==
    ASSUME NEW k \in Keys
    PROVE  Limit(k) \in Nat /\ Limit(k) > 1 /\ WindowOf(k) \in Nat /\ BlockOf(k) \in Nat
BY AccessAssumption DEF Limit, WindowOf, BlockOf

\* One more failure: it is counted, or begins a count of its own.
LEMMA FailedEntry ==
    ASSUME NEW k \in Keys, NEW e \in Entry \cup {None}, NEW at \in Nat,
           NEW times \in Seq(Nat), EntryInv(k, e, times)
    PROVE  EntryInv(k, Failed(k, e, at), Append(times, at))
<1> DEFINE more == Append(times, at)
           n == Len(times)
<1>1. /\ n \in Nat /\ Len(more) = n + 1 /\ more[n + 1] = at
      /\ \A i \in 1 .. n : more[i] = times[i]
  BY AppendProperties, LenProperties
<1>2. \A i \in 1 .. n : times[i] \in Nat
  BY ElementOfSeq
<1>3. Limit(k) \in Nat /\ Limit(k) > 1 /\ WindowOf(k) \in Nat /\ BlockOf(k) \in Nat
  BY Limits
<1> HIDE DEF more, n
<1>4. CASE e = None \/ at - e.start > WindowOf(k)
  <2> DEFINE f == [count |-> 1, start |-> at, until |-> 0]
  <2>1. Failed(k, e, at) = f
    BY <1>4 DEF Failed
  <2>2. f.count = 1 /\ f.start = at /\ f.until = 0 /\ n + 1 - 1 + 1 = n + 1
    BY <1>1
  <2>3. \A i \in n + 1 .. n + 1 : more[i] - at <= WindowOf(k)
    BY <1>1, <1>3
  <2> HIDE DEF f
  <2>4. EntryInv(k, f, more)
    BY <1>1, <2>2, <2>3 DEF EntryInv
  <2> QED
    BY <2>1, <2>4 DEF more
<1>5. CASE ~ (e = None \/ at - e.start > WindowOf(k))
  <2> DEFINE f == [e EXCEPT !.count = e.count + 1,
                            !.until = IF e.count + 1 >= Limit(k) THEN at + BlockOf(k) ELSE e.until]
             first == n - e.count + 1
  <2>1. Failed(k, e, at) = f
    BY <1>5 DEF Failed
  <2>2. e \in Entry /\ e.count \in Nat /\ e.start \in Nat /\ e.until \in Nat
    BY <1>5 DEF Entry
  <2>3. /\ f.count = e.count + 1 /\ f.start = e.start
        /\ f.until = IF e.count + 1 >= Limit(k) THEN at + BlockOf(k) ELSE e.until
    BY <2>2 DEF Entry
  <2>4. /\ e.count \in 1 .. n /\ e.start = times[first]
        /\ \A i \in first .. n : times[i] - e.start <= WindowOf(k)
        /\ e.until > 0 => e.count >= Limit(k)
    BY <1>5 DEF EntryInv, n
  <2>5. first \in 1 .. n /\ n + 1 - (e.count + 1) + 1 = first
    BY <1>1, <2>2, <2>4
  <2>6. more[first] = e.start
    BY <1>1, <2>4, <2>5
  <2>7. ASSUME NEW i \in first .. n + 1
        PROVE  more[i] - e.start <= WindowOf(k)
    <3>1. CASE i = n + 1
      BY <1>1, <1>3, <1>5, <2>2, <3>1
    <3>2. CASE i # n + 1
      <4>1. i \in first .. n /\ i \in 1 .. n
        BY <1>1, <2>5, <3>2
      <4> QED
        BY <1>1, <2>4, <4>1
    <3> QED
      BY <3>1, <3>2
  <2>8. f.until > 0 => f.count >= Limit(k)
    BY <1>3, <2>2, <2>3, <2>4
  <2> HIDE DEF f, first
  <2>9. f # None => /\ f.count \in 1 .. Len(more)
                    /\ Len(more) - f.count + 1 = first
    BY <1>1, <2>2, <2>3, <2>4, <2>5
  <2>10. EntryInv(k, f, more)
    BY <1>1, <2>3, <2>6, <2>7, <2>8, <2>9 DEF EntryInv
  <2> QED
    BY <2>1, <2>10 DEF more
<1> QED
  BY <1>4, <1>5

LEMMA NoEntry ==
    ASSUME NEW k, NEW times
    PROVE  EntryInv(k, None, times)
BY DEF EntryInv

LEMMA CountersInit ==
    ASSUME Init
    PROVE  CountersInv
<1>1. << >> \in Seq(Nat)
  BY EmptySeq
<1> QED
  BY <1>1, NoEntry DEF Init, CountersInv

LEMMA SameCounters ==
    ASSUME CountersInv, UNCHANGED <<entries, failures, since, refused>>
    PROVE  CountersInv'
BY DEF CountersInv, EntryInv

LEMMA CountersStep ==
    ASSUME GuardInv, CountersInv, [Next]_vars
    PROVE  CountersInv'
<1>1. /\ entries \in [Keys -> Entry \cup {None}] /\ failures \in [Addresses -> Entry \cup {None}]
      /\ since \in [Keys -> Seq(Nat)] /\ refused \in [Addresses -> Seq(Nat)]
      /\ now \in Nat /\ << >> \in Seq(Nat) /\ Addresses \subseteq Keys
  BY EmptySeq DEF GuardInv, TypeOK, CountersInv, Keys
<1>2. ASSUME NEW t \in Threads, AnswerFailed(t)
      PROVE  CountersInv'
  <2> DEFINE ks == KeysOf(job[t])
             at == job[t].at
  <2>1. at \in Nat /\ job[t].read = entries
    BY <1>2 DEF AnswerFailed, GuardInv, TypeOK, LoginInv, Job
  <2>2. /\ entries' = [k \in Keys |-> IF k \in ks THEN Failed(k, entries[k], at) ELSE entries[k]]
        /\ since' = [k \in Keys |-> IF k \in ks THEN Append(since[k], at) ELSE since[k]]
        /\ UNCHANGED <<failures, refused>>
    BY <1>2, <2>1 DEF AnswerFailed
  <2> HIDE DEF ks, at
  <2>3. \A k \in Keys : Append(since[k], at) \in Seq(Nat)
    BY <1>1, <2>1, AppendProperties
  <2>4. since' \in [Keys -> Seq(Nat)]
    BY <1>1, <2>2, <2>3
  <2>5. ASSUME NEW k \in Keys
        PROVE  EntryInv(k, entries'[k], since'[k])
    <3>1. EntryInv(k, entries[k], since[k])
      BY DEF CountersInv
    <3>2. EntryInv(k, Failed(k, entries[k], at), Append(since[k], at))
      BY <1>1, <2>1, <3>1, FailedEntry
    <3> QED
      BY <2>2, <3>1, <3>2
  <2>6. refused' \in [Addresses -> Seq(Nat)]
        /\ \A a \in Addresses : EntryInv(a, failures'[a], refused'[a])
    BY <2>2 DEF CountersInv
  <2> QED
    BY <2>4, <2>5, <2>6 DEF CountersInv, EntryInv
<1>3. ASSUME NEW t \in Threads, AnswerOther(t)
      PROVE  CountersInv'
  <2> DEFINE ks == KeysOf(job[t])
  <2>1. /\ entries' = [k \in Keys |-> IF k \in ks THEN None ELSE entries[k]]
        /\ since' = [k \in Keys |-> IF k \in ks THEN << >> ELSE since[k]]
        /\ UNCHANGED <<failures, refused>>
    BY <1>3 DEF AnswerOther
  <2> HIDE DEF ks
  <2>2. since' \in [Keys -> Seq(Nat)]
    BY <1>1, <2>1
  <2>3. \A k \in Keys : EntryInv(k, entries'[k], since'[k])
    BY <2>1, NoEntry DEF CountersInv
  <2>4. refused' \in [Addresses -> Seq(Nat)]
        /\ \A a \in Addresses : EntryInv(a, failures'[a], refused'[a])
    BY <2>1 DEF CountersInv
  <2> QED
    BY <2>2, <2>3, <2>4 DEF CountersInv, EntryInv
<1>4. ASSUME NEW t \in Threads, RefuseKiosk(t)
      PROVE  CountersInv'
  <2> DEFINE a == job[t].ip
  <2>1. a \in Addresses
    BY <1>4 DEF RefuseKiosk, GuardInv, KioskInv
  <2>2. /\ failures' = [failures EXCEPT ![a] = Failed(a, failures[a], now)]
        /\ refused' = [refused EXCEPT ![a] = Append(refused[a], now)]
        /\ UNCHANGED <<entries, since>>
    BY <1>4 DEF RefuseKiosk
  <2> HIDE DEF a
  <2>3. Append(refused[a], now) \in Seq(Nat)
    BY <1>1, <2>1, AppendProperties
  <2>4. EntryInv(a, Failed(a, failures[a], now), Append(refused[a], now))
    BY <1>1, <2>1, FailedEntry DEF CountersInv
  <2>5. refused' \in [Addresses -> Seq(Nat)]
    BY <1>1, <2>2, <2>3
  <2>6. \A x \in Addresses : EntryInv(x, failures'[x], refused'[x])
    BY <1>1, <2>2, <2>4 DEF CountersInv
  <2>7. since' \in [Keys -> Seq(Nat)] /\ \A k \in Keys : EntryInv(k, entries'[k], since'[k])
    BY <2>2 DEF CountersInv
  <2> QED
    BY <2>5, <2>6, <2>7 DEF CountersInv, EntryInv
<1>5. ASSUME NEW t \in Threads, AdmitKiosk(t)
      PROVE  CountersInv'
  <2>1. /\ failures' = [failures EXCEPT ![job[t].ip] = None]
        /\ refused' = [refused EXCEPT ![job[t].ip] = << >>]
        /\ UNCHANGED <<entries, since>>
    BY <1>5 DEF AdmitKiosk
  <2>2. refused' \in [Addresses -> Seq(Nat)]
    BY <1>1, <2>1
  <2>3. \A x \in Addresses : EntryInv(x, failures'[x], refused'[x])
    BY <1>1, <2>1, NoEntry DEF CountersInv
  <2>4. since' \in [Keys -> Seq(Nat)] /\ \A k \in Keys : EntryInv(k, entries'[k], since'[k])
    BY <2>1 DEF CountersInv
  <2> QED
    BY <2>2, <2>3, <2>4 DEF CountersInv, EntryInv
<1>6. ASSUME Restart
      PROVE  CountersInv'
  <2>1. since' \in [Keys -> Seq(Nat)] /\ refused' \in [Addresses -> Seq(Nat)]
    BY <1>1, <1>6 DEF Restart
  <2>2. \A k \in Keys : entries'[k] = None
    BY <1>6 DEF Restart
  <2>3. \A a \in Addresses : failures'[a] = None
    BY <1>6 DEF Restart
  <2> QED
    BY <2>1, <2>2, <2>3 DEF CountersInv, EntryInv
<1>7. ASSUME NEW t \in Threads,
             \/ Accept(t)
             \/ Serve(t) /\ ~ (AnswerFailed(t) \/ AnswerOther(t) \/ RefuseKiosk(t) \/ AdmitKiosk(t))
      PROVE  UNCHANGED <<entries, failures, since, refused>>
  BY <1>7 DEF Accept, OpenLogin, OpenKiosk, OpenDevice, OpenUpload, OpenRemoval, Serve,
     EnterLogin, LookUpDevice, TouchDevice, RevokeDevice, DeleteDevice, StoreUpload,
     InsertBuild, UnlinkFile, RemoveBuild, throttles
<1>8. ASSUME Tick \/ (\E d \in Devices : IssueDevice(d)) \/ UNCHANGED vars
      PROVE  UNCHANGED <<entries, failures, since, refused>>
  BY <1>8 DEF Tick, IssueDevice, vars, throttles
<1> QED
  BY <1>2, <1>3, <1>4, <1>5, <1>6, <1>7, <1>8, SameCounters DEF Next, Serve

\* An entry that blocks its key has been earned.
LEMMA EntryEarned ==
    ASSUME NEW k \in Keys, NEW e \in Entry, NEW times \in Seq(Nat), e # None,
           EntryInv(k, e, times), e.until > 0
    PROVE  Earned(k, times)
<1> DEFINE n == Len(times)
           first == n - e.count + 1
           Within(f) == {i \in f .. n : times[i] - times[f] <= WindowOf(k)}
<1>1. n \in Nat /\ e.count \in Nat
  BY LenProperties DEF Entry
<1>2. /\ e.count \in 1 .. n /\ e.start = times[first]
      /\ \A i \in first .. n : times[i] - e.start <= WindowOf(k)
      /\ e.count >= Limit(k)
  BY DEF EntryInv
<1>3. first \in 1 .. n /\ n - first + 1 = e.count
  BY <1>1, <1>2
<1>4. Within(first) = first .. n
  BY <1>2
<1>5. Cardinality(first .. n) = e.count
  BY <1>1, <1>2, <1>3, FS_Interval
<1>6. n \in Within(first) /\ Cardinality(Within(first)) >= Limit(k)
  <2>1. n \in first .. n
    BY <1>1, <1>3
  <2> HIDE DEF Within, n, first
  <2> QED
    BY <1>2, <1>4, <1>5, <2>1
<1> HIDE DEF n, first
<1>7. \E f \in 1 .. n : n \in Within(f) /\ Cardinality(Within(f)) >= Limit(k)
  <2> HIDE DEF Within
  <2> QED
    BY <1>3, <1>6
<1> QED
  BY <1>7 DEF Earned, n

-----------------------------------------------------------------------------
(* The invariant and what follows from it.                                 *)

LEMMA StepGuard == GuardInv /\ [Next]_vars => GuardInv'
<1> SUFFICES ASSUME GuardInv, [Next]_vars PROVE GuardInv'
  OBVIOUS
<1>1. ASSUME NEW t \in Threads, Accept(t) PROVE GuardInv'
  BY <1>1, OpenLoginStep, OpenKioskStep, OpenDeviceStep, OpenUploadStep DEF Accept
<1>2. ASSUME NEW t \in Threads, Serve(t) PROVE GuardInv'
  BY <1>2, EnterLoginStep, AnswerFailedStep, AnswerOtherStep, LookUpDeviceStep, TouchDeviceStep,
     RefuseKioskStep, AdmitKioskStep, WithdrawStep, BuildStep DEF Serve
<1> QED
  BY <1>1, <1>2, IssueDeviceStep, TickStep, RestartStep DEF Next

\* The invariant of rate_limit.py, biometric/auth.py and the pages of devices
\* and installers, for any number of threads.
THEOREM AccessInvariant == Spec => []IndInv
<1>1. Init => IndInv
  BY InitGuard, CountersInit DEF IndInv
<1>2. IndInv /\ [Next]_vars => IndInv'
  BY StepGuard, CountersStep DEF IndInv
<1> QED
  BY <1>1, <1>2, PTL DEF Spec

\* A kiosk is let in only if its device was active when its request arrived,
\* and an installer without its file is being removed or was when the process
\* ended.
THEOREM AdmittedAndListed == Spec => [](AdmittedWasActive /\ ListedHasFile)
<1>1. IndInv => AdmittedWasActive /\ ListedHasFile
  BY DEF IndInv, GuardInv
<1> QED
  BY <1>1, AccessInvariant, PTL

\* The counter of a login changes only in AnswerFailed and AnswerOther, that
\* of the kiosk API in RefuseKiosk and AdmitKiosk, and when the process ends.
LEMMA CountersMove ==
    ASSUME GuardInv, Next, restarts' = restarts
    PROVE  /\ \A k \in Keys : entries'[k] # entries[k] =>
                 \E t \in Threads : pc[t] = "view" /\ k \in KeysOf(job[t])
           /\ \A a \in Addresses : failures'[a] # failures[a] =>
                 \E t \in Threads :
                    pc[t] \in {"refuse", "admit"} /\ pc'[t] = "idle" /\ job[t].ip = a
<1>0. ~ Restart
  BY DEF Restart, GuardInv, TypeOK
<1>1. entries \in [Keys -> Entry \cup {None}] /\ failures \in [Addresses -> Entry \cup {None}]
      /\ pc \in [Threads -> Labels]
  BY DEF GuardInv, TypeOK
<1>2. ASSUME NEW t \in Threads, Accept(t)
      PROVE  UNCHANGED <<entries, failures>>
  BY <1>2 DEF Accept, OpenLogin, OpenKiosk, OpenDevice, OpenUpload, OpenRemoval, throttles
<1>3. ASSUME NEW t \in Threads, AnswerFailed(t) \/ AnswerOther(t), NEW k \in Keys,
             entries'[k] # entries[k]
      PROVE  pc[t] = "view" /\ k \in KeysOf(job[t])
  BY <1>3 DEF AnswerFailed, AnswerOther
<1>4. ASSUME NEW t \in Threads, RefuseKiosk(t) \/ AdmitKiosk(t), NEW a \in Addresses,
             failures'[a] # failures[a]
      PROVE  pc[t] \in {"refuse", "admit"} /\ pc'[t] = "idle" /\ job[t].ip = a
  BY <1>1, <1>4 DEF RefuseKiosk, AdmitKiosk, Respond, Goto
<1>5. ASSUME NEW t \in Threads, Serve(t)
      PROVE  \/ UNCHANGED <<entries, failures>>
             \/ (AnswerFailed(t) \/ AnswerOther(t)) /\ UNCHANGED failures
             \/ (RefuseKiosk(t) \/ AdmitKiosk(t)) /\ UNCHANGED entries
  BY <1>5 DEF Serve, EnterLogin, AnswerFailed, AnswerOther, LookUpDevice, TouchDevice,
     RefuseKiosk, AdmitKiosk, RevokeDevice, DeleteDevice, StoreUpload, InsertBuild,
     UnlinkFile, RemoveBuild, throttles
<1>6. ASSUME Tick \/ \E d \in Devices : IssueDevice(d)
      PROVE  UNCHANGED <<entries, failures>>
  BY <1>6 DEF Tick, IssueDevice, throttles
<1> QED
  BY <1>0, <1>2, <1>3, <1>4, <1>5, <1>6 DEF Next

\* A login that is under way was let in under the lock it still holds, so it
\* meets no blocked counter; a kiosk's request that meets one was let in before
\* the block (LoginRateLimitMiddleware, DeviceTokenAuthMixin).
THEOREM BlocksHold == Spec => BlockHolds
<1>1. ASSUME GuardInv, Next
      PROVE  /\ \A k \in Keys :
                   Blocked(entries[k], now) /\ entries'[k] # entries[k] => restarts' # restarts
             /\ \A a \in Addresses :
                   Blocked(failures[a], now) /\ failures'[a] # failures[a] =>
                       \/ restarts' # restarts
                       \/ \E t \in Threads :
                             pc[t] \in {"refuse", "admit"} /\ pc'[t] = "idle" /\ job[t].early
  <2>1. ASSUME NEW k \in Keys, Blocked(entries[k], now), entries'[k] # entries[k],
               restarts' = restarts
        PROVE  FALSE
    <3>1. PICK t \in Threads : pc[t] = "view" /\ k \in KeysOf(job[t])
      BY <1>1, <2>1, CountersMove
    <3>2. ~ Blocked(entries[k], job[t].at) /\ job[t].at <= now
      BY <1>1, <3>1 DEF GuardInv, LoginInv
    <3>3. job[t].at \in Nat /\ now \in Nat /\ entries[k] \in Entry \cup {None}
      BY <1>1 DEF GuardInv, TypeOK, Job
    <3> QED
      BY <2>1, <3>2, <3>3 DEF Blocked, Entry
  <2>2. ASSUME NEW a \in Addresses, Blocked(failures[a], now), failures'[a] # failures[a],
               restarts' = restarts
        PROVE  \E t \in Threads :
                  pc[t] \in {"refuse", "admit"} /\ pc'[t] = "idle" /\ job[t].early
    <3>1. PICK t \in Threads : pc[t] \in {"refuse", "admit"} /\ pc'[t] = "idle" /\ job[t].ip = a
      BY <1>1, <2>2, CountersMove
    <3>2. job[t].early
      BY <1>1, <2>2, <3>1 DEF GuardInv, KioskInv
    <3> QED
      BY <3>1, <3>2
  <2> QED
    BY <2>1, <2>2
<1>2. ASSUME UNCHANGED vars
      PROVE  UNCHANGED <<entries, failures>>
  BY <1>2 DEF vars, throttles
<1>3. IndInv => GuardInv
  BY DEF IndInv
<1> QED
  BY <1>1, <1>2, <1>3, AccessInvariant, PTL DEF Spec, BlockHolds

\* Only IssueDevice makes a device active, and only one that is not in the
\* table: what a request has read of a device is never written back.
THEOREM RevokedDevicesStay == Spec => RevokedStays
<1>1. ASSUME GuardInv, Next, NEW d \in Devices, devices[d] # None, ~ devices[d].active
      PROVE  devices'[d] = None \/ ~ devices'[d].active
  <2>1. devices \in [Devices -> [active : BOOLEAN, seen : Addresses \cup {None}] \cup {None}]
    BY <1>1 DEF GuardInv, TypeOK
  <2>2. CASE UNCHANGED devices
    BY <1>1, <2>2
  <2>3. ASSUME NEW x \in Devices, IssueDevice(x)
        PROVE  devices'[d] = devices[d]
    BY <1>1, <2>1, <2>3 DEF IssueDevice
  <2>4. ASSUME NEW t \in Threads, TouchDevice(t)
        PROVE  devices'[d] = None \/ ~ devices'[d].active
    <3>1. devices' = devices
          \/ devices' = [devices EXCEPT ![job[t].device] =
                 [devices[job[t].device] EXCEPT !.seen = job[t].ip]]
      BY <2>4 DEF TouchDevice
    <3>2. devices[d] \in [active : BOOLEAN, seen : Addresses \cup {None}]
      BY <1>1, <2>1
    <3> QED
      BY <1>1, <2>1, <3>1, <3>2
  <2>5. ASSUME NEW t \in Threads, RevokeDevice(t) \/ DeleteDevice(t)
        PROVE  devices'[d] = None \/ ~ devices'[d].active
    <3>1. \/ devices' = devices
          \/ devices' = [devices EXCEPT ![job[t].device] = None]
          \/ devices' = [devices EXCEPT ![job[t].device] =
                 [devices[job[t].device] EXCEPT !.active = FALSE]]
      BY <2>5 DEF RevokeDevice, DeleteDevice
    <3>2. devices[d] \in [active : BOOLEAN, seen : Addresses \cup {None}]
      BY <1>1, <2>1
    <3> QED
      BY <1>1, <2>1, <3>1, <3>2
  <2>6. ASSUME NEW t \in Threads, Accept(t) \/ Serve(t)
        PROVE  UNCHANGED devices \/ TouchDevice(t) \/ RevokeDevice(t) \/ DeleteDevice(t)
    BY <2>6 DEF Accept, OpenLogin, OpenKiosk, OpenDevice, OpenUpload, OpenRemoval,
       Serve, EnterLogin, AnswerFailed, AnswerOther, LookUpDevice, RefuseKiosk, AdmitKiosk,
       StoreUpload, InsertBuild, UnlinkFile, RemoveBuild, tables
  <2>7. ASSUME Tick \/ Restart
        PROVE  UNCHANGED devices
    BY <2>7 DEF Tick, Restart, tables
  <2> QED
    BY <1>1, <2>2, <2>3, <2>4, <2>5, <2>6, <2>7 DEF Next
<1>2. ASSUME UNCHANGED vars
      PROVE  UNCHANGED devices
  BY <1>2 DEF vars, tables
<1>3. IndInv /\ [Next]_vars =>
         \A d \in Devices : devices[d] # None /\ ~ devices[d].active =>
            devices'[d] = None \/ ~ devices'[d].active
  BY <1>1, <1>2 DEF IndInv
<1> QED
  BY <1>3, AccessInvariant, PTL DEF Spec, RevokedStays

\* Neither an address nor an account is blocked before it has failed as often as
\* the limit says, within one window and with no sign-in between: an entry
\* counts failures of its key only, and of those only the last ones.
THEOREM BlocksAreEarned == Spec => BlockIsEarned
<1>1. ASSUME CountersInv, GuardInv
      PROVE  /\ \A k \in Keys :
                   entries[k] # None /\ entries[k].until > 0 => Earned(k, since[k])
             /\ \A a \in Addresses :
                   failures[a] # None /\ failures[a].until > 0 => Earned(a, refused[a])
  <2>1. /\ entries \in [Keys -> Entry \cup {None}] /\ failures \in [Addresses -> Entry \cup {None}]
        /\ since \in [Keys -> Seq(Nat)] /\ refused \in [Addresses -> Seq(Nat)]
        /\ Addresses \subseteq Keys
    BY <1>1 DEF GuardInv, TypeOK, CountersInv, Keys
  <2>2. \A k \in Keys : EntryInv(k, entries[k], since[k])
    BY <1>1 DEF CountersInv
  <2>3. \A a \in Addresses : EntryInv(a, failures[a], refused[a])
    BY <1>1 DEF CountersInv
  <2> QED
    BY <2>1, <2>2, <2>3, EntryEarned
<1> DEFINE E == /\ \A k \in Keys :
                      entries[k] # None /\ entries[k].until > 0 => Earned(k, since[k])
                /\ \A a \in Addresses :
                      failures[a] # None /\ failures[a].until > 0 => Earned(a, refused[a])
<1>2. IndInv => E
  BY <1>1 DEF IndInv
<1>3. E' => [/\ \A k \in Keys :
                  entries'[k] # None /\ entries'[k].until > 0 /\ entries'[k] # entries[k]
                     => Earned(k, since'[k])
             /\ \A a \in Addresses :
                  failures'[a] # None /\ failures'[a].until > 0 /\ failures'[a] # failures[a]
                     => Earned(a, refused'[a])]_vars
  BY DEF Earned
<1> HIDE DEF E
<1> QED
  BY <1>2, <1>3, AccessInvariant, PTL DEF BlockIsEarned
=============================================================================
