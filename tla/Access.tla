------------------------------- MODULE Access -------------------------------
(***************************************************************************)
(* What stands before the pages and before the kiosk API in one server     *)
(* process: the login throttle (rate_limit.py), the check of a kiosk's     *)
(* token with its own throttle (biometric/auth.py), the devices those      *)
(* tokens belong to and the installers a master publishes for them.        *)
(*                                                                         *)
(* Both throttles live in the memory of the process and are guarded by a   *)
(* lock: the login throttle keeps its lock while the login view answers,   *)
(* the kiosk throttle frees it while the token is looked up.  Devices and  *)
(* installers are rows (and files) that the processes share.               *)
(***************************************************************************)
EXTENDS Integers, Sequences, FiniteSets

CONSTANTS
    Threads,
    Addresses,   \* client addresses
    Accounts,    \* what is typed as the account
    Devices, Builds,
    None,
    MaxFailures, Window, Block,                        \* of an address
    MaxFailuresAccount, WindowAccount, BlockAccount,
    MaxOps,      \* bound: requests served
    MaxTime,     \* bound: the clock
    MaxRestarts  \* bound: restarts of the process

Keys == Addresses \cup Accounts

ASSUME AccessAssumption ==
    /\ Addresses \cap Accounts = {} /\ None \notin Keys \cup Threads \cup Devices \cup Builds
    /\ {MaxFailures, MaxFailuresAccount} \subseteq Nat \ {0, 1}
    /\ {Window, Block, WindowAccount, BlockAccount, MaxOps, MaxTime, MaxRestarts} \subseteq Nat

VARIABLES
    entries,   \* _store and _account_store: an entry of each key or None
    failures,  \* _failures of biometric/auth.py: of each address
    lock,      \* the thread that holds the lock of the login throttle
    devices,   \* the table of devices
    builds,    \* the table of installers and their files
    pc, job,   \* the statement a thread is at, its local variables
    now, ops, restarts,
    since,     \* history: when each key failed to log in since it last did
    refused    \* history: when an address was refused since it last was not

throttles == <<entries, failures, lock, since, refused>>
tables == <<devices, builds>>
vars == <<throttles, tables, pc, job, now, ops, restarts>>

\* active is the copy of the device's column.  History: good, the device was
\* active when the request arrived; early, the request was let in before its
\* address was blocked.
NoJob == [ip |-> None, account |-> None, at |-> 0, read |-> None,
          device |-> None, active |-> FALSE, build |-> None, good |-> FALSE, early |-> FALSE]

Begin(t, label, j) ==
    /\ pc[t] = "idle"
    /\ ops < MaxOps
    /\ ops' = ops + 1
    /\ pc' = [pc EXCEPT ![t] = label]
    /\ job' = [job EXCEPT ![t] = j]
    /\ UNCHANGED <<now, restarts>>

Goto(t, label) == pc' = [pc EXCEPT ![t] = label] /\ UNCHANGED <<now, ops, restarts>>

Respond(t) == Goto(t, "idle") /\ job' = [job EXCEPT ![t] = NoJob]

Limit(k) == IF k \in Addresses THEN MaxFailures ELSE MaxFailuresAccount
WindowOf(k) == IF k \in Addresses THEN Window ELSE WindowAccount
BlockOf(k) == IF k \in Addresses THEN Block ELSE BlockAccount

Blocked(e, at) == e # None /\ e.until > at

\* Mutant: the window never ends.
Failed_OneWindow(k, e, at) ==
    IF e = None
    THEN [count |-> 1, start |-> at, until |-> 0]
    ELSE [e EXCEPT !.count = @ + 1,
                   !.until = IF e.count + 1 >= Limit(k) THEN at + BlockOf(k) ELSE @]

\* The entry e of k after one more failure: a window of its own when the last
\* one is over, otherwise one more in the window, which may block k.
Failed(k, e, at) ==
    IF e = None \/ at - e.start > WindowOf(k)
    THEN [count |-> 1, start |-> at, until |-> 0]
    ELSE [e EXCEPT !.count = @ + 1,
                   !.until = IF e.count + 1 >= Limit(k) THEN at + BlockOf(k) ELSE @]

-----------------------------------------------------------------------------
(* LoginRateLimitMiddleware.                                               *)

KeysOf(j) == {j.ip, j.account} \ {None}

\* The clock is read before the lock is waited for.
OpenLogin(t, a, c) ==
    /\ Begin(t, "wait", [NoJob EXCEPT !.ip = a, !.account = c, !.at = now])
    /\ UNCHANGED <<throttles, tables>>

\* Mutant: the lock is freed while the login view answers.
EnterLogin_Unlocked(t) ==
    /\ pc[t] = "wait"
    /\ lock = None
    /\ IF \E k \in KeysOf(job[t]) : Blocked(entries[k], job[t].at)
       THEN Respond(t)
       ELSE Goto(t, "view") /\ job' = [job EXCEPT ![t].read = entries]
    /\ UNCHANGED <<throttles, tables>>

\* Mutant: the early answer keeps the lock.
EnterLogin_KeepsLock(t) ==
    /\ pc[t] = "wait"
    /\ lock = None
    /\ lock' = t
    /\ IF \E k \in KeysOf(job[t]) : Blocked(entries[k], job[t].at)
       THEN Respond(t)
       ELSE Goto(t, "view") /\ job' = [job EXCEPT ![t].read = entries]
    /\ UNCHANGED <<entries, failures, since, refused, tables>>

\* Under the lock: refused at once, or on to the login view.
EnterLogin(t) ==
    /\ pc[t] = "wait"
    /\ lock = None
    /\ IF \E k \in KeysOf(job[t]) : Blocked(entries[k], job[t].at)
       THEN Respond(t) /\ UNCHANGED lock
       ELSE Goto(t, "view") /\ lock' = t /\ job' = [job EXCEPT ![t].read = entries]
    /\ UNCHANGED <<entries, failures, since, refused, tables>>

\* The view refuses the password: the page or a redirection, nobody signed in.
AnswerFailed(t) ==
    /\ pc[t] = "view"
    /\ LET j == job[t]
       IN /\ entries' = [k \in Keys |->
                 IF k \in KeysOf(j) THEN Failed(k, j.read[k], j.at) ELSE entries[k]]
          /\ since' = [k \in Keys |->
                 IF k \in KeysOf(j) THEN Append(since[k], j.at) ELSE since[k]]
    /\ lock' = None
    /\ Respond(t)
    /\ UNCHANGED <<failures, refused, tables>>

\* Signed in, or any other status: both counters are dropped.
AnswerOther(t) ==
    /\ pc[t] = "view"
    /\ LET ks == KeysOf(job[t])
       IN /\ entries' = [k \in Keys |-> IF k \in ks THEN None ELSE entries[k]]
          /\ since' = [k \in Keys |-> IF k \in ks THEN << >> ELSE since[k]]
    /\ lock' = None
    /\ Respond(t)
    /\ UNCHANGED <<failures, refused, tables>>

-----------------------------------------------------------------------------
(* DeviceTokenAuthMixin and KioskDevice.                                   *)

Active(d) == d # None /\ devices[d] # None /\ devices[d].active

\* A request of the kiosk API with the token of d, or (None) without one; it
\* is refused at once while its address is blocked.
OpenKiosk(t, a, d) ==
    /\ ~ Blocked(failures[a], now)
    /\ Begin(t, "lookup",
             [NoJob EXCEPT !.ip = a, !.device = d, !.at = now, !.good = Active(d)])
    /\ UNCHANGED <<throttles, tables>>

\* Mutant: revoked devices are found too.
LookUpDevice_AnyDevice(t) ==
    /\ pc[t] = "lookup"
    /\ LET d == job[t].device
       IN IF d # None /\ devices[d] # None
          THEN Goto(t, "touch") /\ job' = [job EXCEPT ![t].active = devices[d].active]
          ELSE Goto(t, "refuse") /\ UNCHANGED job
    /\ UNCHANGED <<throttles, tables>>

\* KioskDevice.authenticate: an active device with the hash of the token.
LookUpDevice(t) ==
    /\ pc[t] = "lookup"
    /\ IF Active(job[t].device)
       THEN Goto(t, "touch") /\ job' = [job EXCEPT ![t].active = TRUE]
       ELSE Goto(t, "refuse") /\ UNCHANGED job
    /\ UNCHANGED <<throttles, tables>>

\* Mutant: the whole row is saved.
TouchDevice_WholeRow(t) ==
    /\ pc[t] = "touch"
    /\ LET j == job[t]
       IN IF devices[j.device] = None THEN Respond(t) /\ UNCHANGED devices
          ELSE /\ devices' = [devices EXCEPT ![j.device] = [active |-> j.active, seen |-> j.ip]]
               /\ Goto(t, "admit") /\ UNCHANGED job
    /\ UNCHANGED <<throttles, builds>>

\* save(update_fields=[last_seen_at, last_seen_ip]); the row of a device that
\* is gone cannot be saved: an error, which the throttle does not count.
TouchDevice(t) ==
    /\ pc[t] = "touch"
    /\ LET j == job[t]
       IN IF devices[j.device] = None THEN Respond(t) /\ UNCHANGED devices
          ELSE /\ devices' = [devices EXCEPT ![j.device].seen = j.ip]
               /\ Goto(t, "admit") /\ UNCHANGED job
    /\ UNCHANGED <<throttles, builds>>

\* Those let in before their address is blocked by e.
Overtaken(t, a, e) ==
    [u \in Threads |->
        IF u # t /\ job[u].ip = a /\ pc[u] \in {"lookup", "touch", "refuse", "admit"}
           /\ Blocked(e, now)
        THEN [job[u] EXCEPT !.early = TRUE] ELSE job[u]]

\* _record_failure, at the hour it is by then.
RefuseKiosk(t) ==
    /\ pc[t] = "refuse"
    /\ LET a == job[t].ip
           e == Failed(a, failures[a], now)
       IN /\ failures' = [failures EXCEPT ![a] = e]
          /\ refused' = [refused EXCEPT ![a] = Append(@, now)]
          /\ job' = [Overtaken(t, a, e) EXCEPT ![t] = NoJob]
    /\ Goto(t, "idle")
    /\ UNCHANGED <<entries, lock, since, tables>>

\* The failures of the address are forgotten; the view follows.
AdmitKiosk(t) ==
    /\ pc[t] = "admit"
    /\ failures' = [failures EXCEPT ![job[t].ip] = None]
    /\ refused' = [refused EXCEPT ![job[t].ip] = << >>]
    /\ Respond(t)
    /\ UNCHANGED <<entries, lock, since, tables>>

\* KioskTokenGenerateView and kiosk_device create: a token nobody has had.
IssueDevice(d) ==
    /\ devices[d] = None
    /\ ops < MaxOps
    /\ \A t \in Threads : job[t].device # d
    /\ devices' = [devices EXCEPT ![d] = [active |-> TRUE, seen |-> None]]
    /\ ops' = ops + 1
    /\ UNCHANGED <<throttles, builds, pc, job, now, restarts>>

\* kiosk_device revoke reads the row and KioskTokenDeleteView does.
OpenDevice(t, d, label) ==
    /\ devices[d] # None
    /\ Begin(t, label, [NoJob EXCEPT !.device = d])
    /\ UNCHANGED <<throttles, tables>>

\* save(update_fields=[is_active]), an error when the row is gone.
RevokeDevice(t) ==
    /\ pc[t] = "revoke"
    /\ LET d == job[t].device
       IN devices' = IF devices[d] = None THEN devices
                     ELSE [devices EXCEPT ![d].active = FALSE]
    /\ Respond(t)
    /\ UNCHANGED <<throttles, builds>>

DeleteDevice(t) ==
    /\ pc[t] = "delete"
    /\ devices' = [devices EXCEPT ![job[t].device] = None]
    /\ Respond(t)
    /\ UNCHANGED <<throttles, builds>>

-----------------------------------------------------------------------------
(* Installers: a row and a file.                                           *)

\* KioskInstallerListView.post, with an .exe that is not too large.
OpenUpload(t, b) ==
    /\ ~ builds[b].row /\ ~ builds[b].file
    /\ \A u \in Threads : job[u].build # b
    /\ Begin(t, "upload", [NoJob EXCEPT !.build = b])
    /\ UNCHANGED <<throttles, tables>>

\* The file field writes the file before the row is inserted.
StoreUpload(t) ==
    /\ pc[t] = "upload"
    /\ builds' = [builds EXCEPT ![job[t].build].file = TRUE]
    /\ Goto(t, "insert")
    /\ UNCHANGED <<throttles, devices, job>>

InsertBuild(t) ==
    /\ pc[t] = "insert"
    /\ builds' = [builds EXCEPT ![job[t].build].row = TRUE]
    /\ Respond(t)
    /\ UNCHANGED <<throttles, devices>>

\* KioskInstallerDeleteView: the file, then the row.
OpenRemoval(t, b) ==
    /\ builds[b].row
    /\ Begin(t, "unlink", [NoJob EXCEPT !.build = b])
    /\ UNCHANGED <<throttles, tables>>

UnlinkFile(t) ==
    /\ pc[t] = "unlink"
    /\ builds' = [builds EXCEPT ![job[t].build].file = FALSE]
    /\ Goto(t, "remove")
    /\ UNCHANGED <<throttles, devices, job>>

RemoveBuild(t) ==
    /\ pc[t] = "remove"
    /\ builds' = [builds EXCEPT ![job[t].build].row = FALSE]
    /\ Respond(t)
    /\ UNCHANGED <<throttles, devices>>

-----------------------------------------------------------------------------
Tick ==
    /\ now < MaxTime
    /\ now' = now + 1
    /\ UNCHANGED <<throttles, tables, pc, job, ops, restarts>>

\* The process ends and another starts: its memory is lost, the tables stay.
\* History: halted, a removal was under way.
Restart ==
    /\ restarts < MaxRestarts
    /\ restarts' = restarts + 1
    /\ entries' = [k \in Keys |-> None] /\ since' = [k \in Keys |-> << >>]
    /\ failures' = [a \in Addresses |-> None] /\ refused' = [a \in Addresses |-> << >>]
    /\ lock' = None
    /\ builds' = [b \in Builds |->
          [builds[b] EXCEPT !.halted =
              @ \/ \E t \in Threads : pc[t] = "remove" /\ job[t].build = b]]
    /\ pc' = [t \in Threads |-> "idle"] /\ job' = [t \in Threads |-> NoJob]
    /\ UNCHANGED <<devices, now, ops>>

Init ==
    /\ entries = [k \in Keys |-> None] /\ since = [k \in Keys |-> << >>]
    /\ failures = [a \in Addresses |-> None] /\ refused = [a \in Addresses |-> << >>]
    /\ lock = None
    /\ devices = [d \in Devices |-> None]
    /\ builds = [b \in Builds |-> [row |-> FALSE, file |-> FALSE, halted |-> FALSE]]
    /\ pc = [t \in Threads |-> "idle"]
    /\ job = [t \in Threads |-> NoJob]
    /\ now = 0 /\ ops = 0 /\ restarts = 0

Accept(t) ==
    \/ \E a \in Addresses :
          \/ \E c \in Accounts \cup {None} : OpenLogin(t, a, c)
          \/ \E d \in Devices \cup {None} : OpenKiosk(t, a, d)
    \/ \E d \in Devices, label \in {"revoke", "delete"} : OpenDevice(t, d, label)
    \/ \E b \in Builds : OpenUpload(t, b) \/ OpenRemoval(t, b)

Serve(t) ==
    \/ EnterLogin(t) \/ AnswerFailed(t) \/ AnswerOther(t)
    \/ LookUpDevice(t) \/ TouchDevice(t) \/ RefuseKiosk(t) \/ AdmitKiosk(t)
    \/ RevokeDevice(t) \/ DeleteDevice(t)
    \/ StoreUpload(t) \/ InsertBuild(t) \/ UnlinkFile(t) \/ RemoveBuild(t)

Next ==
    \/ \E t \in Threads : Accept(t) \/ Serve(t)
    \/ \E d \in Devices : IssueDevice(d)
    \/ Tick
    \/ Restart

Spec == Init /\ [][Next]_vars

-----------------------------------------------------------------------------
Entry == [count : Nat, start : Nat, until : Nat]

Job ==
    [ip : Addresses \cup {None}, account : Accounts \cup {None}, at : Nat,
     read : [Keys -> Entry \cup {None}] \cup {None}, device : Devices \cup {None},
     active : BOOLEAN, build : Builds \cup {None}, good : BOOLEAN, early : BOOLEAN]

Labels == {"idle", "wait", "view", "lookup", "touch", "refuse", "admit", "revoke", "delete",
           "upload", "insert", "unlink", "remove"}

TypeOK ==
    /\ entries \in [Keys -> Entry \cup {None}]
    /\ failures \in [Addresses -> Entry \cup {None}]
    /\ lock \in Threads \cup {None}
    /\ devices \in [Devices -> [active : BOOLEAN, seen : Addresses \cup {None}] \cup {None}]
    /\ builds \in [Builds -> [row : BOOLEAN, file : BOOLEAN, halted : BOOLEAN]]
    /\ pc \in [Threads -> Labels]
    /\ job \in [Threads -> Job]
    /\ {now, ops, restarts} \subseteq Nat

\* A kiosk is let in only if its device was active when the request arrived
\* (KioskDevice.authenticate).
AdmittedWasActive == \A t \in Threads : pc[t] = "admit" => job[t].good

\* An installer is listed without its file only while it is being removed, or
\* if the process ended in the middle of that (KioskInstallerDeleteView).
ListedHasFile ==
    \A b \in Builds :
        builds[b].row /\ ~ builds[b].file =>
            builds[b].halted \/ \E t \in Threads : pc[t] = "remove" /\ job[t].build = b

\* The strengthening of the two that every step preserves.  The login view
\* runs under the lock, with the counters as they were read under it; nobody
\* else keeps the lock, also not after the early answer.
LoginInv(t) ==
    /\ lock = t <=> pc[t] = "view"
    /\ pc[t] \in {"wait", "view"} => job[t].ip \in Addresses /\ job[t].at <= now
    /\ pc[t] = "view" =>
          /\ job[t].read = entries
          /\ \A k \in KeysOf(job[t]) : ~ Blocked(entries[k], job[t].at)

\* A request of a blocked address was let in before the block, and a device
\* that is active was so when the request arrived.
KioskInv(t) ==
    /\ pc[t] \in {"lookup", "touch", "refuse", "admit"} =>
          /\ job[t].ip \in Addresses
          /\ Blocked(failures[job[t].ip], now) => job[t].early
    /\ pc[t] = "lookup" /\ Active(job[t].device) => job[t].good
    /\ pc[t] \in {"touch", "admit"} => job[t].device \in Devices /\ job[t].good
    /\ pc[t] \in {"revoke", "delete"} => job[t].device \in Devices

\* An installer that is being uploaded is in no list and in nobody else's hands.
BuildInv(t) ==
    /\ pc[t] \in {"upload", "insert", "unlink", "remove"} => job[t].build \in Builds
    /\ pc[t] \in {"upload", "insert"} =>
          /\ ~ builds[job[t].build].row
          /\ \A u \in Threads \ {t} : job[u].build # job[t].build
    /\ pc[t] = "insert" => builds[job[t].build].file

\* An entry counts the last failures of its key, which came within a window of
\* the one it begins with, and blocks only when they reach the limit.
EntryInv(k, e, times) ==
    e # None =>
        LET first == Len(times) - e.count + 1
        IN /\ e.count \in 1 .. Len(times)
           /\ e.start = times[first]
           /\ \A i \in first .. Len(times) : times[i] - e.start <= WindowOf(k)
           /\ e.until > 0 => e.count >= Limit(k)

CountersInv ==
    /\ since \in [Keys -> Seq(Nat)] /\ refused \in [Addresses -> Seq(Nat)]
    /\ \A k \in Keys : EntryInv(k, entries[k], since[k])
    /\ \A a \in Addresses : EntryInv(a, failures[a], refused[a])

\* What the requests rely on.
GuardInv ==
    /\ TypeOK
    /\ AdmittedWasActive
    /\ ListedHasFile
    /\ \A t \in Threads : LoginInv(t) /\ KioskInv(t) /\ BuildInv(t)

IndInv == GuardInv /\ CountersInv

\* As many failures of k as block it came within one window of the first of
\* them, the last one included.
Earned(k, times) ==
    LET n == Len(times)
        Within(first) == {i \in first .. n : times[i] - times[first] <= WindowOf(k)}
    IN \E first \in 1 .. n : n \in Within(first) /\ Cardinality(Within(first)) >= Limit(k)

\* Neither an address nor an account is blocked before it has failed as often
\* as the limit says, within one window and with no sign-in between, whatever
\* the threads waited for (LoginRateLimitMiddleware, _record_failure).
BlockIsEarned ==
    [][/\ \A k \in Keys :
             entries'[k] # None /\ entries'[k].until > 0 /\ entries'[k] # entries[k]
                => Earned(k, since'[k])
       /\ \A a \in Addresses :
             failures'[a] # None /\ failures'[a].until > 0 /\ failures'[a] # failures[a]
                => Earned(a, refused'[a])]_vars

\* While a login is blocked its counter stands: no login that was already
\* under way lifts or lengthens the block (the lock is held over the view).
\* The kiosk throttle, which frees its lock during the look-up, is lifted or
\* lengthened, but only by requests let in before the block.
BlockHolds ==
    [][/\ \A k \in Keys :
             Blocked(entries[k], now) /\ entries'[k] # entries[k] => restarts' # restarts
       /\ \A a \in Addresses :
             Blocked(failures[a], now) /\ failures'[a] # failures[a] =>
                 \/ restarts' # restarts
                 \/ \E t \in Threads :
                       pc[t] \in {"refuse", "admit"} /\ pc'[t] = "idle" /\ job[t].early]_vars

\* A revoked device stays revoked: neither a kiosk's request that found it
\* active nor a restart brings it back (save with update_fields).
RevokedStays ==
    [][\A d \in Devices :
          devices[d] # None /\ ~ devices[d].active =>
              devices'[d] = None \/ ~ devices'[d].active]_vars
=============================================================================
