--------------------------- MODULE AccountsProofs ---------------------------
(***************************************************************************)
(* Proofs about Accounts for every number of workers and accounts and      *)
(* every set of forms.  IndInv is inductive; with it the last master goes  *)
(* only by a race or by the own hand, a request changes its own column     *)
(* only, two accounts share an address only by a race, and the audit log   *)
(* is complete.                                                            *)
(***************************************************************************)
EXTENDS Accounts, FiniteSetTheorems, TLAPS

-----------------------------------------------------------------------------
(* Types, and what a store does to the requests of the other workers.      *)

LEMMA NoJobType == NoJob \in Job
BY DEF NoJob, Job

LEMMA Types ==
    ASSUME TypeOK, NEW w \in Workers
    PROVE  /\ job[w] \in Job /\ pc[w] \in Labels
           /\ \A u \in Users : users[u] \in Account \cup {None} /\ profiles[u] \in Profile \cup {None}
BY DEF TypeOK

\* v's request as it was, save that it may have been overtaken.
Kept(v) ==
    /\ job'[v].actor = job[v].actor /\ job'[v].target = job[v].target
    /\ job'[v].user = job[v].user /\ job'[v].profile = job[v].profile
    /\ job'[v].form = job[v].form
    /\ job[v].raced => job'[v].raced

LEMMA Overtaken ==
    ASSUME job \in [Workers -> Job], NEW w, NEW u, NEW e, NEW c,
           NEW v \in Workers, job'[v] = Overtake(w, u, e, c)[v]
    PROVE  /\ job'[v] \in Job /\ Kept(v)
           /\ v = w => job'[v] = job[v]
           /\ v # w /\ u # None /\ job[v].target = u => job'[v].raced
           /\ v # w /\ job[v].form # None /\ job[v].form.email = e => job'[v].raced
           /\ v # w /\ job[v].form # None /\ c # None /\ job[v].form.cpf = c => job'[v].raced
<1>1. job[v] \in Job
  OBVIOUS
<1>2. job'[v] = IF /\ v # w /\ job[v] # NoJob
                   /\ \/ job[v].target = u
                      \/ job[v].form # None /\ (job[v].form.email = e \/ (c # None /\ job[v].form.cpf = c))
                THEN [job[v] EXCEPT !.raced = TRUE] ELSE job[v]
  BY DEF Overtake
<1>3. NoJob.target = None /\ NoJob.form = None
  BY DEF NoJob
<1>4. [job[v] EXCEPT !.raced = TRUE] \in Job /\ [job[v] EXCEPT !.raced = TRUE].raced
  BY <1>1 DEF Job
<1>5. Kept(v)
  BY <1>1, <1>2 DEF Kept, Job
<1> QED
  BY <1>1, <1>2, <1>3, <1>4, <1>5

LEMMA OvertakeType ==
    ASSUME job \in [Workers -> Job], NEW w, NEW u, NEW e, NEW c
    PROVE  Overtake(w, u, e, c) \in [Workers -> Job]
<1>1. ASSUME NEW v \in Workers PROVE [job[v] EXCEPT !.raced = TRUE] \in Job /\ job[v] \in Job
  BY DEF Job
<1> QED
  BY <1>1 DEF Overtake

\* The request of a worker that does not move while no table changes.
LEMMA OtherPlain ==
    ASSUME NEW v \in Workers, RequestInv(v), pc'[v] = pc[v], job'[v] = job[v],
           users' = users, profiles' = profiles
    PROVE  RequestInv(v)'
BY DEF RequestInv, CpfTaken, EmailTaken

\* ... while a user is stored.
LEMMA OtherUser ==
    ASSUME IndInv, NEW w \in Workers, NEW v \in Workers, v # w, pc'[v] = pc[v],
           NEW u \in Users, NEW row \in Account, users' = [users EXCEPT ![u] = row],
           profiles' = profiles, job'[v] = Overtake(w, u, row.email, None)[v]
    PROVE  RequestInv(v)'
<1>1. job \in [Workers -> Job] /\ users \in [Users -> Account \cup {None}] /\ RequestInv(v)
      /\ u # None /\ row # None
  BY AccountsAssumption DEF IndInv, TypeOK
<1>2. Kept(v) /\ job'[v] \in Job
      /\ (job[v].target = u => job'[v].raced)
      /\ (job[v].form # None /\ job[v].form.email = row.email => job'[v].raced)
  BY <1>1, Overtaken
<1>3. \A t \in Users : users[t] # None => users'[t] # None
  BY <1>1
<1>4. \A t \in Users : t # u => users'[t] = users[t]
  BY <1>1
<1>5. CpfTaken(job[v].form.cpf, job[v].target)' <=> CpfTaken(job[v].form.cpf, job[v].target)
  BY <1>2 DEF CpfTaken, Kept
<1>6. ASSUME pc[v] \in {"insert", "my_account"}, EmailTaken(job[v].form.email, job[v].target)'
      PROVE  job'[v].raced
  <2>1. PICK t \in Users \ {job'[v].target} : users'[t] # None /\ users'[t].email = job'[v].form.email
    BY <1>6 DEF EmailTaken
  <2>2. job[v].form # None
    BY <1>1, <1>6, AccountsAssumption DEF RequestInv
  <2>3. CASE t = u
    BY <1>1, <1>2, <2>1, <2>2, <2>3 DEF Kept
  <2>4. CASE t # u
    <3>1. EmailTaken(job[v].form.email, job[v].target)
      BY <1>2, <1>4, <2>1, <2>4 DEF EmailTaken, Kept
    <3> QED
      BY <1>1, <1>2, <1>6, <3>1 DEF RequestInv, Kept
  <2> QED
    BY <2>3, <2>4
<1>7. ASSUME ~ job'[v].raced
      PROVE  ~ job[v].raced /\ (pc[v] \in {"toggle", "my_account"} => users'[job[v].target] = users[job[v].target])
  <2>1. ~ job[v].raced /\ job[v].target # u
    BY <1>2, <1>7 DEF Kept
  <2>2. pc[v] \in {"toggle", "my_account"} => job[v].target \in Users
    BY <1>1 DEF RequestInv, Labels
  <2> QED
    BY <1>4, <2>1, <2>2
<1> QED
  BY <1>1, <1>2, <1>3, <1>5, <1>6, <1>7 DEF RequestInv, Kept

\* ... while a profile is stored.
LEMMA OtherProfile ==
    ASSUME IndInv, NEW w \in Workers, NEW v \in Workers, v # w, pc'[v] = pc[v],
           NEW u \in Users, NEW row \in Profile, profiles' = [profiles EXCEPT ![u] = row],
           users' = users, NEW e, job'[v] = Overtake(w, u, e, row.cpf)[v],
           pc[v] = "signal" => job[v].target # u
    PROVE  RequestInv(v)'
<1>1. job \in [Workers -> Job] /\ profiles \in [Users -> Profile \cup {None}] /\ RequestInv(v)
      /\ u # None /\ row # None
  BY AccountsAssumption DEF IndInv, TypeOK
<1>2. Kept(v) /\ job'[v] \in Job
      /\ (job[v].target = u => job'[v].raced)
      /\ (job[v].form # None /\ row.cpf # None /\ job[v].form.cpf = row.cpf => job'[v].raced)
  BY <1>1, Overtaken
<1>3. \A t \in Users : profiles[t] # None => profiles'[t] # None
  BY <1>1
<1>4. \A t \in Users : t # u => profiles'[t] = profiles[t]
  BY <1>1
<1>5. EmailTaken(job[v].form.email, job[v].target)' <=> EmailTaken(job[v].form.email, job[v].target)
  BY <1>2 DEF EmailTaken, Kept
<1>6. ASSUME pc[v] \in {"insert", "signal", "profile"}, CpfTaken(job[v].form.cpf, job[v].target)'
      PROVE  job'[v].raced
  <2>1. PICK t \in Users \ {job'[v].target} : profiles'[t] # None /\ profiles'[t].cpf = job'[v].form.cpf
    BY <1>6 DEF CpfTaken
  <2>2. job[v].form # None /\ job[v].form.cpf # None
    BY <1>1, <1>6, AccountsAssumption DEF RequestInv, Signup
  <2>3. CASE t = u
    BY <1>1, <1>2, <2>1, <2>2, <2>3 DEF Kept
  <2>4. CASE t # u
    <3>1. CpfTaken(job[v].form.cpf, job[v].target)
      BY <1>2, <1>4, <2>1, <2>4 DEF CpfTaken, Kept
    <3> QED
      BY <1>1, <1>2, <1>6, <3>1 DEF RequestInv, Kept
  <2> QED
    BY <2>3, <2>4
<1>7. ASSUME ~ job'[v].raced
      PROVE  ~ job[v].raced /\ (pc[v] \in {"profile", "role", "verify"} => profiles'[job[v].target] = profiles[job[v].target])
  <2>1. ~ job[v].raced /\ job[v].target # u
    BY <1>2, <1>7 DEF Kept
  <2>2. pc[v] \in {"profile", "role", "verify"} => job[v].target \in Users
    BY <1>1 DEF RequestInv, Labels
  <2> QED
    BY <1>4, <2>1, <2>2
<1>8. pc[v] = "signal" => profiles'[job[v].target] = None
  BY <1>1, <1>4 DEF RequestInv, Labels
<1>9. pc[v] \in {"profile", "log_new", "role", "verify", "mail"} => profiles'[job[v].target] # None
  BY <1>1, <1>3 DEF RequestInv, Labels
<1>10. /\ pc[v] \in Labels \ {"idle", "insert"} => job[v].target \in Users /\ users'[job[v].target] # None
       /\ pc[v] \in {"insert", "my_account"} /\ EmailTaken(job[v].form.email, job[v].target)' => job'[v].raced
  BY <1>1, <1>2, <1>5 DEF RequestInv, Kept
<1>11. ASSUME ~ job'[v].raced
       PROVE  /\ pc[v] = "toggle" => job[v].user = users'[job[v].target]
              /\ pc[v] = "my_account" => job[v].user = [users'[job[v].target] EXCEPT !.email = job[v].user.email]
              /\ pc[v] = "profile" => job[v].profile = profiles'[job[v].target]
              /\ pc[v] = "role" => job[v].profile = [profiles'[job[v].target] EXCEPT !.role = job[v].profile.role]
              /\ pc[v] = "verify" => job[v].profile = [profiles'[job[v].target] EXCEPT !.verified = TRUE]
  BY <1>1, <1>7, <1>11 DEF RequestInv
<1> HIDE DEF Kept
<1>12. /\ job'[v].actor = job[v].actor /\ job'[v].target = job[v].target
       /\ job'[v].user = job[v].user /\ job'[v].profile = job[v].profile
       /\ job'[v].form = job[v].form
  BY <1>2 DEF Kept
<1> QED
  BY <1>1, <1>6, <1>8, <1>9, <1>10, <1>11, <1>12 DEF RequestInv

-----------------------------------------------------------------------------
(* The invariant put together, and the masters that stay.                  *)

\* What a step of w has to keep of the tables and of the other requests.
Stored(w) ==
    /\ job' \in [Workers -> Job]
    /\ users' \in [Users -> Account \cup {None}]
    /\ profiles' \in [Users -> Profile \cup {None}]
    /\ mails' \subseteq Token
    /\ log' \in [Users -> Nat] /\ changes' \in [Users -> Nat] /\ broken' \in [Users -> Nat]
    /\ ops' \in Nat /\ excused' \in BOOLEAN
    /\ \A v \in Workers \ {w} : job'[v].target = job[v].target
    /\ \A t \in Users : users'[t] = None => profiles'[t] = None
    /\ \A link \in mails' : users'[link.user] # None
    /\ \A v \in Workers : RequestInv(v)'
    /\ SomeMaster'

LEMMA Assemble ==
    ASSUME IndInv, NEW w \in Workers, NEW l \in Labels, pc' = [pc EXCEPT ![w] = l],
           Stored(w),
           \A v \in Workers \ {w} :
               l = "signal" /\ pc[v] = "signal" => job[v].target # job'[w].target
    PROVE  IndInv'
<1>1. pc \in [Workers -> Labels]
  BY DEF IndInv, TypeOK
<1>2. TypeOK'
  BY <1>1 DEF TypeOK, Stored
<1>3. HalfCreatedOnlyByRace'
  BY DEF HalfCreatedOnlyByRace, RequestInv, Stored
<1>4. ASSUME NEW v \in Workers, NEW x \in Workers, v # x, pc'[v] = "signal", pc'[x] = "signal"
      PROVE  job'[v].target # job'[x].target
  <2>1. CASE v = w
    BY <1>1, <1>4, <2>1 DEF Stored
  <2>2. CASE x = w
    BY <1>1, <1>4, <2>2 DEF Stored
  <2>3. CASE v # w /\ x # w
    BY <1>1, <1>4, <2>3 DEF IndInv, Stored
  <2> QED
    BY <2>1, <2>2, <2>3
<1> QED
  BY <1>2, <1>3, <1>4 DEF IndInv, Stored

\* A step that changes neither users nor profiles.
LEMMA PlainStep ==
    ASSUME IndInv, NEW w \in Workers, NEW l \in Labels, NEW j \in Job,
           pc' = [pc EXCEPT ![w] = l], job' = [job EXCEPT ![w] = j],
           UNCHANGED <<tables, excused>>, l # "signal",
           mails' \subseteq Token, \A link \in mails' : users[link.user] # None,
           log' \in [Users -> Nat], changes' \in [Users -> Nat], broken' \in [Users -> Nat],
           ops' \in Nat, RequestInv(w)'
    PROVE  IndInv'
<1>1. job \in [Workers -> Job] /\ pc \in [Workers -> Labels]
      /\ users' \in [Users -> Account \cup {None}] /\ profiles' \in [Users -> Profile \cup {None}]
      /\ excused' \in BOOLEAN
  BY DEF IndInv, TypeOK, tables
<1>2. job' \in [Workers -> Job] /\ \A v \in Workers \ {w} : job'[v] = job[v] /\ pc'[v] = pc[v]
  BY <1>1
<1>3. \A v \in Workers \ {w} : RequestInv(v)'
  BY <1>2, OtherPlain DEF IndInv, tables
<1>4. Masters' = Masters
  BY DEF Masters, Active, Role, tables
<1>5. SomeMaster'
  BY <1>4 DEF IndInv, SomeMaster, tables
<1>6. \A u \in Users : users'[u] = None => profiles'[u] = None
  BY DEF IndInv, tables
<1>8. \A link \in mails' : users'[link.user] # None
  BY DEF tables
<1> QED
  <2>1. Stored(w)
    BY <1>1, <1>2, <1>3, <1>5, <1>6, <1>8 DEF Stored
  <2> QED
    BY <2>1, Assemble

\* w stores the user u and may then set its own variables to j.
LEMMA UserStep ==
    ASSUME IndInv, NEW w \in Workers, NEW l \in Labels, NEW j \in Job,
           NEW u \in Users, NEW row \in Account,
           pc' = [pc EXCEPT ![w] = l], users' = [users EXCEPT ![u] = row],
           job' = [Overtake(w, u, row.email, None) EXCEPT ![w] = j],
           profiles' = profiles, mails' = mails,
           log' \in [Users -> Nat], changes' \in [Users -> Nat], broken' \in [Users -> Nat],
           ops' \in Nat, excused' \in BOOLEAN, SomeMaster',
           l = "signal" => users[u] = None /\ j.target = u,
           RequestInv(w)'
    PROVE  IndInv'
<1>1. job \in [Workers -> Job] /\ pc \in [Workers -> Labels]
      /\ users \in [Users -> Account \cup {None}] /\ profiles' \in [Users -> Profile \cup {None}]
      /\ mails' \subseteq Token /\ row # None
  BY AccountsAssumption DEF IndInv, TypeOK
<1>2. job' \in [Workers -> Job]
      /\ \A v \in Workers \ {w} : job'[v] = Overtake(w, u, row.email, None)[v] /\ pc'[v] = pc[v]
      /\ job'[w] = j
  BY <1>1, OvertakeType
<1>3. \A v \in Workers \ {w} : job'[v].target = job[v].target
  BY <1>1, <1>2, Overtaken DEF Kept
<1>4. \A v \in Workers \ {w} : RequestInv(v)'
  BY <1>2, OtherUser
<1>5. users' \in [Users -> Account \cup {None}] /\ \A t \in Users : users[t] # None => users'[t] # None
  BY <1>1
<1>6. \A t \in Users : users'[t] = None => profiles'[t] = None
  BY <1>1 DEF IndInv
<1>7. ASSUME NEW link \in mails' PROVE users'[link.user] # None
  <2>1. link \in mails /\ link.user \in Users
    BY <1>1 DEF Token
  <2> QED
    BY <1>5, <2>1 DEF IndInv
<1>8. ASSUME l = "signal", NEW v \in Workers \ {w}, pc[v] = "signal"
      PROVE  job[v].target # job'[w].target
  <2>1. RequestInv(v)
    BY DEF IndInv
  <2>2. users[job[v].target] # None
    BY <1>8, <2>1 DEF RequestInv, Labels
  <2> QED
    BY <1>2, <1>8, <2>2
<1>9. \A v \in Workers : RequestInv(v)'
  BY <1>4
<1> QED
  <2>1. Stored(w)
    BY <1>1, <1>2, <1>3, <1>5, <1>6, <1>7, <1>9 DEF Stored
  <2> QED
    BY <1>8, <2>1, Assemble

\* w stores the profile of u, whose account is there.
LEMMA ProfileStep ==
    ASSUME IndInv, NEW w \in Workers, NEW l \in Labels, l # "signal", NEW j \in Job,
           NEW u \in Users, users[u] # None, NEW row \in Profile, NEW e,
           pc' = [pc EXCEPT ![w] = l], profiles' = [profiles EXCEPT ![u] = row],
           job' = [Overtake(w, u, e, row.cpf) EXCEPT ![w] = j],
           users' = users, mails' = mails,
           log' \in [Users -> Nat], changes' \in [Users -> Nat], broken' \in [Users -> Nat],
           ops' \in Nat, excused' \in BOOLEAN, SomeMaster',
           \A v \in Workers \ {w} : pc[v] = "signal" => job[v].target # u,
           RequestInv(w)'
    PROVE  IndInv'
<1>1. job \in [Workers -> Job] /\ pc \in [Workers -> Labels]
      /\ users' \in [Users -> Account \cup {None}] /\ profiles \in [Users -> Profile \cup {None}]
      /\ mails' \subseteq Token
  BY DEF IndInv, TypeOK
<1>2. job' \in [Workers -> Job]
      /\ \A v \in Workers \ {w} : job'[v] = Overtake(w, u, e, row.cpf)[v] /\ pc'[v] = pc[v]
      /\ job'[w] = j
  BY <1>1, OvertakeType
<1>3. \A v \in Workers \ {w} : job'[v].target = job[v].target
  BY <1>1, <1>2, Overtaken DEF Kept
<1>4. \A v \in Workers \ {w} : RequestInv(v)'
  BY <1>2, OtherProfile
<1>5. profiles' \in [Users -> Profile \cup {None}]
  BY <1>1
<1>6. \A t \in Users : users'[t] = None => profiles'[t] = None
  BY <1>1 DEF IndInv
<1>7. \A link \in mails' : users'[link.user] # None
  BY DEF IndInv
<1>8. \A v \in Workers : RequestInv(v)'
  BY <1>4
<1> QED
  <2>1. Stored(w)
    BY <1>1, <1>2, <1>3, <1>5, <1>6, <1>7, <1>8 DEF Stored
  <2> QED
    BY <2>1, Assemble

-----------------------------------------------------------------------------
(* Requests that begin, and the statements that store nothing.             *)

LEMMA BeginStep ==
    ASSUME IndInv, NEW w \in Workers, NEW l \in Labels, l # "signal", NEW j \in Job,
           Begin(w, l, j), RequestInv(w)'
    PROVE  IndInv'
<1>1. mails' \subseteq Token /\ log' \in [Users -> Nat] /\ changes' \in [Users -> Nat]
      /\ broken' \in [Users -> Nat] /\ ops' \in Nat
  BY AccountsAssumption DEF IndInv, TypeOK, Begin, audit
<1>2. \A link \in mails' : users[link.user] # None
  BY DEF IndInv, Begin
<1> QED
  BY <1>1, <1>2, PlainStep DEF Begin, tables

LEMMA BeginRows ==
    ASSUME IndInv, NEW w \in Workers, NEW l \in Labels, NEW j \in Job, Begin(w, l, j)
    PROVE  /\ pc'[w] = l /\ job'[w] = j /\ users' = users /\ profiles' = profiles
           /\ \A u \in Users : /\ users[u] \in Account \cup {None}
                               /\ profiles[u] \in Profile \cup {None}
                               /\ users[u] = None => profiles[u] = None
BY DEF IndInv, TypeOK, Begin, tables

LEMMA OpenCreateInv ==
    ASSUME IndInv, NEW w \in Workers, NEW a \in Users, NEW f \in Signups, OpenCreate(w, a, f)
    PROVE  IndInv'
<1> DEFINE j == [NoJob EXCEPT !.actor = a, !.form = f]
<1>1. j \in Job /\ j.form = f /\ j.target = None /\ f \in Signup /\ f # None
  BY AccountsAssumption DEF NoJob, Job
<1>2. Begin(w, "insert", j) /\ ~ EmailTaken(f.email, None) /\ ~ CpfTaken(f.cpf, None)
  BY DEF OpenCreate
<1> HIDE DEF j
<1>3. pc'[w] = "insert" /\ job'[w] = j /\ users' = users /\ profiles' = profiles
  BY <1>1, <1>2, BeginRows DEF Labels
<1>4. ~ EmailTaken(job[w].form.email, job[w].target)' /\ ~ CpfTaken(job[w].form.cpf, job[w].target)'
  BY <1>1, <1>2, <1>3 DEF EmailTaken, CpfTaken
<1>5. RequestInv(w)'
  BY <1>1, <1>3, <1>4 DEF RequestInv
<1> QED
  BY <1>1, <1>2, <1>5, BeginStep DEF Labels

LEMMA OpenToggleInv ==
    ASSUME IndInv, NEW w \in Workers, NEW a \in Users, NEW u \in Users, OpenToggle(w, a, u)
    PROVE  IndInv'
<1> DEFINE j == [NoJob EXCEPT !.actor = a, !.target = u, !.user = users[u]]
<1>1. users[u] \in Account /\ a # u
  BY DEF OpenToggle, IndInv, TypeOK
<1>2. j \in Job /\ j.target = u /\ j.actor = a /\ j.user = users[u]
  BY <1>1 DEF NoJob, Job
<1>3. Begin(w, "toggle", j)
  BY DEF OpenToggle
<1> HIDE DEF j
<1>4. pc'[w] = "toggle" /\ job'[w] = j /\ users' = users
  BY <1>2, <1>3, BeginRows DEF Labels
<1>5. RequestInv(w)'
  BY <1>1, <1>2, <1>4 DEF RequestInv, OpenToggle
<1> QED
  BY <1>2, <1>3, <1>5, BeginStep DEF Labels

LEMMA OpenRoleInv ==
    ASSUME IndInv, NEW w \in Workers, NEW a \in Users, NEW u \in Users, NEW role \in Roles,
           OpenRole(w, a, u, role)
    PROVE  IndInv'
<1> DEFINE row == [profiles[u] EXCEPT !.role = role]
           j == [NoJob EXCEPT !.actor = a, !.target = u, !.profile = row]
<1>1. profiles[u] \in Profile /\ users[u] # None
  BY DEF OpenRole, IndInv, TypeOK
<1>2. row \in Profile /\ row = [profiles[u] EXCEPT !.role = row.role]
  BY <1>1 DEF Profile
<1>3. Begin(w, "role", j)
  BY DEF OpenRole
<1> HIDE DEF row
<1>4. j \in Job /\ j.target = u /\ j.profile = row
  BY <1>2 DEF NoJob, Job
<1> HIDE DEF j
<1>5. pc'[w] = "role" /\ job'[w] = j /\ users' = users /\ profiles' = profiles
  BY <1>3, <1>4, BeginRows DEF Labels
<1>6. RequestInv(w)'
  BY <1>1, <1>2, <1>4, <1>5 DEF RequestInv, OpenRole
<1> QED
  BY <1>3, <1>4, <1>6, BeginStep DEF Labels

LEMMA OpenMyAccountInv ==
    ASSUME IndInv, NEW w \in Workers, NEW a \in Users, NEW e \in Emails, OpenMyAccount(w, a, e)
    PROVE  IndInv'
<1> DEFINE row == [users[a] EXCEPT !.email = e]
           f == [email |-> e, cpf |-> None]
           j == [NoJob EXCEPT !.actor = a, !.target = a, !.user = row, !.form = f]
<1>1. users[a] \in Account
  BY DEF OpenMyAccount, Active, IndInv, TypeOK
<1>2. row \in Account /\ row.email = e /\ row = [users[a] EXCEPT !.email = row.email]
  BY <1>1 DEF Account
<1>3. Begin(w, "my_account", j) /\ ~ EmailTaken(e, a)
  BY DEF OpenMyAccount
<1>4. f \in [email : Emails, cpf : {None}] /\ f.email = e
  OBVIOUS
<1> HIDE DEF row, f
<1>5. j \in Job /\ j.target = a /\ j.user = row /\ j.form = f
  BY <1>2, <1>4 DEF NoJob, Job
<1> HIDE DEF j
<1>6. pc'[w] = "my_account" /\ job'[w] = j /\ users' = users /\ profiles' = profiles
  BY <1>3, <1>5, BeginRows DEF Labels
<1>7. ~ EmailTaken(job[w].form.email, job[w].target)'
  BY <1>3, <1>4, <1>5, <1>6 DEF EmailTaken
<1>8. f # None
  BY AccountsAssumption DEF f
<1>9. RequestInv(w)'
  BY <1>1, <1>2, <1>4, <1>5, <1>6, <1>7, <1>8, AccountsAssumption DEF RequestInv, OpenMyAccount, Active
<1> QED
  BY <1>3, <1>5, <1>9, BeginStep DEF Labels

LEMMA OpenResendInv ==
    ASSUME IndInv, NEW w \in Workers, NEW a \in Users, NEW u \in Users, OpenResend(w, a, u)
    PROVE  IndInv'
<1> DEFINE j == [NoJob EXCEPT !.actor = a, !.target = u, !.user = users[u]]
<1>1. users[u] \in Account /\ profiles[u] # None
  BY DEF OpenResend, IndInv, TypeOK
<1>2. j \in Job /\ j.target = u /\ j.user = users[u] /\ j.form = None
  BY <1>1 DEF NoJob, Job
<1>3. Begin(w, "mail", j)
  BY DEF OpenResend
<1> HIDE DEF j
<1>4. pc'[w] = "mail" /\ job'[w] = j /\ users' = users /\ profiles' = profiles
  BY <1>2, <1>3, BeginRows DEF Labels
<1>5. users[u] # None
  BY <1>1, AccountsAssumption
<1>6. RequestInv(w)'
  BY <1>1, <1>2, <1>4, <1>5 DEF RequestInv
<1> QED
  BY <1>2, <1>3, <1>6, BeginStep DEF Labels

LEMMA OpenVerifyInv ==
    ASSUME IndInv, NEW w \in Workers, NEW link \in mails, OpenVerify(w, link)
    PROVE  IndInv'
<1> DEFINE u == link.user
           row == [profiles[u] EXCEPT !.verified = TRUE]
           j == [NoJob EXCEPT !.target = u, !.profile = row]
<1>1. u \in Users /\ users[u] # None
  BY DEF IndInv, TypeOK, Token
<1>2. Begin(w, "verify", j) /\ profiles[u] # None
  BY DEF OpenVerify
<1> HIDE DEF u
<1>3. profiles[u] \in Profile
  BY <1>1, <1>2 DEF IndInv, TypeOK
<1>4. row \in Profile
  BY <1>3 DEF Profile
<1>5. j \in Job /\ j.target = u /\ j.profile = row
  BY <1>1, <1>4 DEF NoJob, Job
<1> HIDE DEF j
<1>6. pc'[w] = "verify" /\ job'[w] = j /\ users' = users /\ profiles' = profiles
  BY <1>2, <1>5, BeginRows DEF Labels
<1>7. RequestInv(w)'
  BY <1>1, <1>2, <1>4, <1>5, <1>6 DEF RequestInv
<1> QED
  BY <1>2, <1>5, <1>7, BeginStep DEF Labels

LEMMA IdleRequest ==
    ASSUME NEW w \in Workers, pc'[w] = "idle"
    PROVE  RequestInv(w)'
BY DEF RequestInv

LEMMA TouchProfileInv ==
    ASSUME IndInv, NEW w \in Workers, TouchProfile(w)
    PROVE  IndInv'
<1>1. /\ pc \in [Workers -> Labels] /\ job \in [Workers -> Job] /\ mails \subseteq Token
      /\ log \in [Users -> Nat] /\ changes \in [Users -> Nat] /\ broken \in [Users -> Nat]
      /\ ops \in Nat /\ RequestInv(w) /\ \A link \in mails : users[link.user] # None
  BY DEF IndInv, TypeOK
<1>2. log' \in [Users -> Nat] /\ changes' \in [Users -> Nat] /\ broken' \in [Users -> Nat]
  BY <1>1 DEF TouchProfile, Broken, audit
<1>3. CASE profiles[job[w].target] = None
  <2>1. pc' = [pc EXCEPT ![w] = "idle"] /\ job' = [job EXCEPT ![w] = NoJob] /\ ops' = ops
        /\ UNCHANGED <<tables, mails, excused>>
    BY <1>3 DEF TouchProfile, Respond, Goto
  <2> QED
    BY <1>1, <1>2, <2>1, IdleRequest, NoJobType, PlainStep DEF Labels
<1>4. CASE profiles[job[w].target] # None
  <2>1. pc' = [pc EXCEPT ![w] = "log"] /\ job' = job /\ ops' = ops
        /\ UNCHANGED <<tables, mails, excused>>
    BY <1>4 DEF TouchProfile, Goto
  <2>2. job' = [job EXCEPT ![w] = job[w]] /\ job[w] \in Job
    BY <1>1, <2>1
  <2>3. RequestInv(w)'
    BY <1>1, <2>1 DEF RequestInv, TouchProfile, Labels, tables
  <2> QED
    BY <1>1, <1>2, <2>1, <2>2, <2>3, PlainStep DEF Labels
<1> QED
  BY <1>3, <1>4

LEMMA SendMailInv ==
    ASSUME IndInv, NEW w \in Workers, SendMail(w)
    PROVE  IndInv'
<1> DEFINE u == job[w].target
           new == job[w].form # None
           verified == IF new THEN job[w].profile.verified ELSE profiles[u].verified
           link == [user |-> u, email |-> job[w].user.email, verified |-> verified]
<1>1. /\ pc[w] = "mail" /\ RequestInv(w) /\ mails \subseteq Token /\ ops \in Nat
      /\ log \in [Users -> Nat] /\ changes \in [Users -> Nat] /\ broken \in [Users -> Nat]
      /\ \A l \in mails : users[l.user] # None
  BY DEF SendMail, IndInv, TypeOK
<1>2. u \in Users /\ users[u] # None /\ profiles[u] \in Profile /\ job[w].user \in Account
      /\ (new => job[w].profile \in Profile)
  BY <1>1 DEF RequestInv, IndInv, TypeOK, Labels
<1>3. mails' \in {mails, mails \cup {link}}
  BY DEF SendMail
<1>4. pc' = [pc EXCEPT ![w] = "idle"] /\ job' = [job EXCEPT ![w] = NoJob] /\ ops' = ops
      /\ UNCHANGED <<tables, audit, excused>>
  BY DEF SendMail, Respond, Goto
<1>5. verified \in BOOLEAN /\ job[w].user.email \in Emails
  BY <1>2 DEF Profile, Account
<1> HIDE DEF verified
<1>6. link \in Token /\ link.user = u
  BY <1>2, <1>5 DEF Token
<1> HIDE DEF link
<1>7. mails' \subseteq Token /\ \A l \in mails' : users[l.user] # None
  BY <1>1, <1>2, <1>3, <1>6
<1>8. pc'[w] = "idle"
  BY <1>4 DEF IndInv, TypeOK
<1>9. RequestInv(w)'
  BY <1>8, IdleRequest
<1>10. log' \in [Users -> Nat] /\ changes' \in [Users -> Nat] /\ broken' \in [Users -> Nat] /\ ops' \in Nat
  BY <1>1, <1>4 DEF audit
<1> QED
  BY <1>4, <1>7, <1>9, <1>10, NoJobType, PlainStep DEF Labels

LEMMA LogActionInv ==
    ASSUME IndInv, NEW w \in Workers, LogAction(w)
    PROVE  IndInv'
<1>1. /\ pc \in [Workers -> Labels] /\ job \in [Workers -> Job] /\ mails \subseteq Token
      /\ log \in [Users -> Nat] /\ changes \in [Users -> Nat] /\ broken \in [Users -> Nat]
      /\ ops \in Nat /\ RequestInv(w) /\ \A link \in mails : users[link.user] # None
  BY DEF IndInv, TypeOK
<1>2. log' \in [Users -> Nat] /\ changes' \in [Users -> Nat] /\ broken' \in [Users -> Nat]
  <2>1. log' = [log EXCEPT ![job[w].target] = @ + 1] /\ UNCHANGED <<changes, broken>>
    BY DEF LogAction
  <2>2. job[w].target \in Users
    BY <1>1 DEF RequestInv, LogAction, Labels
  <2> QED
    BY <1>1, <2>1, <2>2
<1>3. CASE pc[w] = "log"
  <2>1. pc' = [pc EXCEPT ![w] = "idle"] /\ job' = [job EXCEPT ![w] = NoJob] /\ ops' = ops
        /\ UNCHANGED <<tables, mails, excused>>
    BY <1>3 DEF LogAction, Respond, Goto
  <2> QED
    BY <1>1, <1>2, <2>1, IdleRequest, NoJobType, PlainStep DEF Labels
<1>4. CASE pc[w] = "log_new"
  <2>1. pc' = [pc EXCEPT ![w] = "mail"] /\ job' = job /\ ops' = ops
        /\ UNCHANGED <<tables, mails, excused>>
    BY <1>4 DEF LogAction, Goto
  <2>2. job' = [job EXCEPT ![w] = job[w]] /\ job[w] \in Job
    BY <1>1, <2>1
  <2>3. RequestInv(w)'
    BY <1>1, <1>4, <2>1 DEF RequestInv, Labels, tables
  <2> QED
    BY <1>1, <1>2, <2>1, <2>2, <2>3, PlainStep DEF Labels
<1> QED
  BY <1>3, <1>4 DEF LogAction

-----------------------------------------------------------------------------
(* The statements that store, and the masters that stay.                   *)

LEMMA MastersUser ==
    ASSUME IndInv, NEW u \in Users, NEW row \in Account, users' = [users EXCEPT ![u] = row],
           profiles' = profiles, NEW m \in Masters, m = u => row.active
    PROVE  m \in Masters'
<1>1. m \in Users /\ users[m] # None /\ users[m].active /\ Role(m) = "master"
  BY DEF Masters, Active
<1>2. users \in [Users -> Account \cup {None}] /\ row # None
  BY AccountsAssumption DEF IndInv, TypeOK
<1>3. users'[m] # None /\ users'[m].active
  BY <1>1, <1>2
<1>4. Role(m)' = "master"
  BY <1>1 DEF Role
<1> QED
  BY <1>1, <1>3, <1>4 DEF Masters, Active

LEMMA MastersProfile ==
    ASSUME IndInv, NEW u \in Users, NEW row \in Profile,
           profiles' = [profiles EXCEPT ![u] = row], users' = users,
           NEW m \in Masters, m = u /\ m \notin Superusers => row.role = "master"
    PROVE  m \in Masters'
<1>1. m \in Users /\ users[m] # None /\ users[m].active /\ Role(m) = "master"
  BY DEF Masters, Active
<1>2. profiles \in [Users -> Profile \cup {None}] /\ row # None
  BY AccountsAssumption DEF IndInv, TypeOK
<1>3. Role(m)' = "master"
  BY <1>1, <1>2 DEF Role
<1> QED
  BY <1>1, <1>3 DEF Masters, Active

\* What the statements of w find.
LEMMA AtStore ==
    ASSUME IndInv, NEW w \in Workers
    PROVE  /\ job[w] \in Job /\ job \in [Workers -> Job] /\ pc \in [Workers -> Labels]
           /\ log \in [Users -> Nat] /\ changes \in [Users -> Nat] /\ broken \in [Users -> Nat]
           /\ ops \in Nat /\ excused \in BOOLEAN /\ RequestInv(w)
           /\ pc[w] \in Labels \ {"idle", "insert"} =>
                 /\ job[w].target \in Users /\ users[job[w].target] \in Account
BY DEF IndInv, TypeOK, RequestInv

LEMMA AuditChanged ==
    ASSUME IndInv, NEW u \in Users, Changed(u) \/ Broken(u) \/ UNCHANGED audit
    PROVE  log' \in [Users -> Nat] /\ changes' \in [Users -> Nat] /\ broken' \in [Users -> Nat]
BY DEF IndInv, TypeOK, Changed, Broken, audit

LEMMA InsertUserInv ==
    ASSUME IndInv, NEW w \in Workers, InsertUser(w)
    PROVE  IndInv'
<1> DEFINE f == job[w].form
           row == [name |-> f.name, email |-> f.email, active |-> TRUE]
<1>1. /\ job[w] \in Job /\ job \in [Workers -> Job] /\ pc \in [Workers -> Labels]
      /\ ops \in Nat /\ excused \in BOOLEAN /\ RequestInv(w) /\ pc[w] = "insert"
      /\ mails' = mails /\ excused' = excused
      /\ mails \subseteq Token /\ \A link \in mails : users[link.user] # None
  BY AtStore DEF InsertUser, IndInv, TypeOK
<1>2. f \in Signup /\ job[w].target = None
  BY <1>1 DEF RequestInv
<1>3. row \in Account /\ row.active
  BY <1>2 DEF Signup, Account
<1>4. CASE \E u \in Users : users[u] # None /\ users[u].name = f.name
  <2>1. pc' = [pc EXCEPT ![w] = "idle"] /\ job' = [job EXCEPT ![w] = NoJob] /\ ops' = ops
        /\ UNCHANGED <<tables, audit, excused>>
    BY <1>4 DEF InsertUser, Respond, Goto
  <2>2. log' \in [Users -> Nat] /\ changes' \in [Users -> Nat] /\ broken' \in [Users -> Nat]
    BY <2>1, AtStore DEF audit
  <2>3. RequestInv(w)'
    BY <1>1, <2>1, IdleRequest
  <2> QED
    BY <1>1, <2>1, <2>2, <2>3, NoJobType, PlainStep DEF Labels
<1>5. CASE ~ \E u \in Users : users[u] # None /\ users[u].name = f.name
  <2>1. PICK u \in Users :
          /\ users[u] = None
          /\ users' = [users EXCEPT ![u] = row]
          /\ job' = [Overtake(w, u, row.email, None) EXCEPT ![w].target = u, ![w].user = row]
          /\ pc' = [pc EXCEPT ![w] = "signal"] /\ ops' = ops
          /\ profiles' = profiles
          /\ Changed(u)
    BY <1>5 DEF InsertUser, Goto
  <2> HIDE DEF row
  <2> DEFINE old == Overtake(w, u, row.email, None)
             j == [job[w] EXCEPT !.target = u, !.user = row]
  <2>2. old \in [Workers -> Job]
    BY <1>1, OvertakeType
  <2>3. old[w] = job[w]
    BY DEF Overtake
  <2>4. job' = [old EXCEPT ![w].target = u, ![w].user = row]
    BY <2>1
  <2> HIDE DEF old
  <2>5. job' = [old EXCEPT ![w] = j]
    BY <2>2, <2>3, <2>4
  <2>6. j \in Job /\ j.target = u /\ j.user = row /\ j.form = f /\ j.raced = job[w].raced
    BY <1>1, <1>3 DEF Job
  <2> HIDE DEF j
  <2>7. pc'[w] = "signal" /\ job'[w] = j
    BY <1>1, <2>1, <2>2, <2>5
  <2>8. users'[u] # None /\ profiles'[u] = None
    BY <1>3, <2>1, AccountsAssumption DEF IndInv, TypeOK
  <2>9. CpfTaken(job[w].form.cpf, job[w].target)' => job'[w].raced
    <3>1. CpfTaken(job[w].form.cpf, job[w].target)' => CpfTaken(f.cpf, None)
      BY <1>2, <2>1, <2>6, <2>7, AccountsAssumption DEF CpfTaken
    <3> QED
      BY <1>1, <1>2, <2>6, <2>7, <3>1 DEF RequestInv
  <2>10. RequestInv(w)'
    BY <1>2, <1>3, <2>6, <2>7, <2>8, <2>9 DEF RequestInv
  <2>11. SomeMaster'
    BY <1>1, <1>3, <2>1, MastersUser DEF SomeMaster, IndInv
  <2>12. log' \in [Users -> Nat] /\ changes' \in [Users -> Nat] /\ broken' \in [Users -> Nat]
    BY <2>1, AuditChanged
  <2>13. job' = [Overtake(w, u, row.email, None) EXCEPT ![w] = j]
    BY <2>5 DEF old
  <2> QED
    BY <1>1, <1>3, <2>1, <2>6, <2>10, <2>11, <2>12, <2>13, UserStep DEF Labels
<1> QED
  BY <1>4, <1>5

LEMMA CreateProfileInv ==
    ASSUME IndInv, NEW w \in Workers, CreateProfile(w)
    PROVE  IndInv'
<1> DEFINE u == job[w].target
           row == [role |-> "simple", cpf |-> None, verified |-> FALSE]
           j == [job[w] EXCEPT !.profile = row]
           old == Overtake(w, u, None, None)
<1>1. /\ job[w] \in Job /\ job \in [Workers -> Job] /\ pc \in [Workers -> Labels]
      /\ ops \in Nat /\ excused \in BOOLEAN /\ RequestInv(w) /\ pc[w] = "signal"
      /\ u \in Users /\ users[u] # None /\ profiles[u] = None
      /\ profiles \in [Users -> Profile \cup {None}]
  <2>1. pc[w] = "signal" /\ RequestInv(w) /\ profiles \in [Users -> Profile \cup {None}]
    BY DEF CreateProfile, IndInv, TypeOK
  <2>2. u \in Users /\ users[u] # None /\ profiles[u] = None
    BY <2>1 DEF RequestInv, Labels
  <2>3. /\ job[w] \in Job /\ job \in [Workers -> Job] /\ pc \in [Workers -> Labels]
        /\ ops \in Nat /\ excused \in BOOLEAN
    BY DEF IndInv, TypeOK
  <2> QED
    BY <2>1, <2>2, <2>3
<1>2. row \in Profile /\ row.cpf = None /\ row.role = "simple" /\ row # None
  <2>1. row \in Profile
    BY DEF Profile, Roles
  <2>2. row.cpf = None /\ row.role = "simple"
    OBVIOUS
  <2> HIDE DEF row
  <2> QED
    BY <2>1, <2>2, AccountsAssumption
<1>3. /\ profiles' = [profiles EXCEPT ![u] = row]
      /\ job' = [old EXCEPT ![w].profile = row]
      /\ pc' = [pc EXCEPT ![w] = "profile"] /\ ops' = ops
      /\ UNCHANGED <<users, mails, audit, excused>>
  BY <1>1 DEF CreateProfile, Goto
<1>4. old \in [Workers -> Job] /\ old[w] = job[w]
  <2>1. old \in [Workers -> Job]
    BY <1>1, OvertakeType
  <2>2. old[w] = job[w]
    BY DEF Overtake
  <2> QED
    BY <2>1, <2>2
<1> HIDE DEF row
<1>5. job' = [old EXCEPT ![w] = j]
  <2> HIDE DEF old
  <2> QED
    BY <1>3, <1>4
<1>6. j \in Job /\ j.target = u /\ j.user = job[w].user /\ j.form = job[w].form
      /\ j.raced = job[w].raced /\ j.profile = row
  BY <1>1, <1>2 DEF Job
<1>7. pc'[w] = "profile" /\ job'[w] = j
  <2> HIDE DEF old, j
  <2> QED
    BY <1>1, <1>3, <1>4, <1>5
<1> HIDE DEF j
<1>8. profiles'[u] = row /\ users'[u] # None
  BY <1>1, <1>3
<1>9. CpfTaken(job[w].form.cpf, job[w].target)' => CpfTaken(job[w].form.cpf, u)
  BY <1>1, <1>3, <1>6, <1>7 DEF CpfTaken
<1>10. RequestInv(w)'
  BY <1>1, <1>2, <1>6, <1>7, <1>8, <1>9 DEF RequestInv
<1>11. SomeMaster'
  <2>1. ASSUME NEW m \in Masters PROVE m \in Masters'
    <3>1. m = u => m \in Superusers
      BY <1>1 DEF Masters, Role
    <3> QED
      BY <1>1, <1>2, <1>3, <3>1, MastersProfile
  <2> QED
    BY <1>3, <2>1 DEF SomeMaster, IndInv
<1>12. log' \in [Users -> Nat] /\ changes' \in [Users -> Nat] /\ broken' \in [Users -> Nat]
  BY <1>3, AtStore DEF audit
<1>13. ASSUME NEW v \in Workers \ {w}, pc[v] = "signal" PROVE job[v].target # u
  BY <1>1, <1>13 DEF IndInv
<1>14. job' = [Overtake(w, u, None, row.cpf) EXCEPT ![w] = j]
  <2>1. Overtake(w, u, None, row.cpf) = old
    BY <1>2
  <2> HIDE DEF old
  <2> QED
    BY <1>5, <2>1
<1>15. excused' \in BOOLEAN /\ ops' \in Nat /\ users' = users /\ mails' = mails
  BY <1>1, <1>3
<1> HIDE DEF u, old
<1>16. "profile" \in Labels /\ "profile" # "signal"
  BY DEF Labels
<1>17. profiles' = [profiles EXCEPT ![u] = row] /\ pc' = [pc EXCEPT ![w] = "profile"]
  BY <1>3
<1>18. u \in Users /\ users[u] # None /\ row \in Profile /\ j \in Job
  BY <1>1, <1>2, <1>6
<1> QED
  BY <1>10, <1>11, <1>12, <1>13, <1>14, <1>15, <1>16, <1>17, <1>18, ProfileStep

LEMMA OvertakeSelf ==
    ASSUME job \in [Workers -> Job], NEW w \in Workers, NEW u, NEW e, NEW c
    PROVE  Overtake(w, u, e, c) = [Overtake(w, u, e, c) EXCEPT ![w] = job[w]]
<1> DEFINE old == Overtake(w, u, e, c)
<1>1. old \in [Workers -> Job]
  BY OvertakeType
<1>2. old[w] = job[w]
  BY DEF Overtake
<1> HIDE DEF old
<1>3. old = [old EXCEPT ![w] = job[w]]
  BY <1>1, <1>2
<1> QED
  BY <1>3 DEF old

\* UserStep and ProfileStep for a worker that keeps its own variables.
LEMMA UserSaved ==
    ASSUME IndInv, NEW w \in Workers, NEW l \in Labels, l # "signal",
           NEW u \in Users, NEW row \in Account, StoreUser(w, u, row), Changed(u),
           Goto(w, l), mails' = mails, excused' \in BOOLEAN, SomeMaster', RequestInv(w)'
    PROVE  IndInv'
<1>1. /\ pc' = [pc EXCEPT ![w] = l] /\ ops' = ops /\ users' = [users EXCEPT ![u] = row]
      /\ job' = Overtake(w, u, row.email, None) /\ profiles' = profiles
  BY DEF StoreUser, Goto
<1>2. job[w] \in Job /\ job \in [Workers -> Job] /\ ops' \in Nat
  BY <1>1 DEF IndInv, TypeOK
<1>3. job' = [Overtake(w, u, row.email, None) EXCEPT ![w] = job[w]]
  BY <1>1, <1>2, OvertakeSelf
<1>4. log' \in [Users -> Nat] /\ changes' \in [Users -> Nat] /\ broken' \in [Users -> Nat]
  BY AuditChanged
<1>5. l = "signal" => users[u] = None /\ job[w].target = u
  OBVIOUS
<1> QED
  BY <1>1, <1>2, <1>3, <1>4, <1>5, UserStep

LEMMA ProfileSaved ==
    ASSUME IndInv, NEW w \in Workers, NEW l \in Labels, l # "signal",
           NEW u \in Users, users[u] # None, profiles[u] # None, NEW row \in Profile,
           StoreProfile(w, u, row), Changed(u) \/ UNCHANGED audit,
           Goto(w, l), mails' = mails, excused' \in BOOLEAN, SomeMaster', RequestInv(w)'
    PROVE  IndInv'
<1>1. /\ pc' = [pc EXCEPT ![w] = l] /\ ops' = ops /\ profiles' = [profiles EXCEPT ![u] = row]
      /\ job' = Overtake(w, u, None, row.cpf) /\ users' = users
  BY DEF StoreProfile, Goto
<1>2. job[w] \in Job /\ job \in [Workers -> Job] /\ ops' \in Nat
  BY <1>1 DEF IndInv, TypeOK
<1>3. job' = [Overtake(w, u, None, row.cpf) EXCEPT ![w] = job[w]]
  BY <1>1, <1>2, OvertakeSelf
<1>4. log' \in [Users -> Nat] /\ changes' \in [Users -> Nat] /\ broken' \in [Users -> Nat]
  BY AuditChanged
<1>5. ASSUME NEW v \in Workers \ {w}, pc[v] = "signal" PROVE job[v].target # u
  <2>1. RequestInv(v)
    BY DEF IndInv
  <2> QED
    BY <1>5, <2>1 DEF RequestInv
<1> QED
  BY <1>1, <1>2, <1>3, <1>4, <1>5, ProfileStep

\* The copies of a request are its target's rows.
LEMMA AtUserSave ==
    ASSUME IndInv, NEW w \in Workers, NEW l \in Labels, pc[w] \in {"toggle", "my_account"},
           NEW row \in Account, StoreUser(w, job[w].target, row), Goto(w, l)
    PROVE  /\ RequestInv(w) /\ job[w] \in Job /\ job[w].target \in Users
           /\ users[job[w].target] \in Account /\ job[w].user \in Account
           /\ pc'[w] = l /\ job'[w] = job[w] /\ users'[job[w].target] = row
           /\ users' = [users EXCEPT ![job[w].target] = row] /\ profiles' = profiles
           /\ excused \in BOOLEAN
<1>1. pc \in [Workers -> Labels] /\ users \in [Users -> Account \cup {None}] /\ RequestInv(w)
      /\ job[w] \in Job /\ excused \in BOOLEAN
  BY DEF IndInv, TypeOK
<1>2. job[w].target \in Users /\ users[job[w].target] # None /\ job[w].user \in Account
  BY <1>1 DEF RequestInv, Labels
<1>3. job'[w] = job[w]
  BY DEF StoreUser, Overtake
<1> QED
  BY <1>1, <1>2, <1>3 DEF StoreUser, Goto

LEMMA AtProfileSave ==
    ASSUME IndInv, NEW w \in Workers, NEW l \in Labels, pc[w] \in {"profile", "role", "verify"},
           NEW row \in Profile, StoreProfile(w, job[w].target, row), Goto(w, l)
    PROVE  /\ RequestInv(w) /\ job[w] \in Job /\ job[w].target \in Users
           /\ users[job[w].target] \in Account /\ profiles[job[w].target] \in Profile
           /\ job[w].profile \in Profile
           /\ pc'[w] = l /\ job'[w] = job[w] /\ profiles'[job[w].target] = row
           /\ profiles' = [profiles EXCEPT ![job[w].target] = row] /\ users' = users
           /\ excused \in BOOLEAN
<1>1. pc \in [Workers -> Labels] /\ users \in [Users -> Account \cup {None}] /\ RequestInv(w)
      /\ profiles \in [Users -> Profile \cup {None}] /\ job[w] \in Job /\ excused \in BOOLEAN
  BY DEF IndInv, TypeOK
<1>2. job[w].target \in Users /\ users[job[w].target] # None /\ profiles[job[w].target] # None
      /\ job[w].profile \in Profile
  BY <1>1 DEF RequestInv, Labels
<1>3. job'[w] = job[w]
  BY DEF StoreProfile, Overtake
<1> QED
  BY <1>1, <1>2, <1>3 DEF StoreProfile, Goto

LEMMA SaveToggleInv ==
    ASSUME IndInv, NEW w \in Workers, SaveToggle(w)
    PROVE  IndInv'
<1> DEFINE u == job[w].target
           row == [job[w].user EXCEPT !.active = ~ @]
<1>1. pc[w] = "toggle" /\ StoreUser(w, u, row) /\ Changed(u) /\ Goto(w, "touch") /\ mails' = mails
      /\ excused' = (excused \/ LostRights(w) \/ job[w].raced)
  BY DEF SaveToggle, Excuse
<1>2. job[w].user \in Account
  BY <1>1 DEF IndInv, RequestInv
<1>3. row \in Account
  BY <1>2 DEF Account
<1> HIDE DEF row
<1>4. /\ RequestInv(w) /\ job[w] \in Job /\ u \in Users /\ users[u] \in Account
      /\ pc'[w] = "touch" /\ job'[w] = job[w] /\ users'[u] = row
      /\ users' = [users EXCEPT ![u] = row] /\ profiles' = profiles /\ excused \in BOOLEAN
  BY <1>1, <1>3, AtUserSave DEF Labels
<1>5. RequestInv(w)'
  BY <1>3, <1>4, AccountsAssumption DEF RequestInv
<1>6. SomeMaster'
  <2>1. CASE excused'
    BY <2>1 DEF SomeMaster
  <2>2. CASE ~ excused'
    <3>1. job[w].actor \in Masters /\ job[w].actor # u
      BY <1>1, <1>4, <2>2 DEF LostRights, RequestInv
    <3>2. job[w].actor \in Masters'
      BY <1>3, <1>4, <3>1, MastersUser
    <3> QED
      BY <3>2 DEF SomeMaster
  <2> QED
    BY <2>1, <2>2
<1>7. excused' \in BOOLEAN
  BY <1>1, <1>4 DEF LostRights, Job
<1> QED
  BY <1>1, <1>3, <1>4, <1>5, <1>6, <1>7, UserSaved DEF Labels

LEMMA SaveMyAccountInv ==
    ASSUME IndInv, NEW w \in Workers, SaveMyAccount(w)
    PROVE  IndInv'
<1> DEFINE u == job[w].target
           row == job[w].user
<1>1. pc[w] = "my_account" /\ StoreUser(w, u, row) /\ Changed(u) /\ Goto(w, "log") /\ mails' = mails
      /\ excused' = (excused \/ FALSE \/ job[w].raced)
  BY DEF SaveMyAccount, Excuse
<1>2. row \in Account
  BY <1>1 DEF IndInv, RequestInv
<1>3. /\ RequestInv(w) /\ job[w] \in Job /\ u \in Users /\ users[u] \in Account
      /\ pc'[w] = "log" /\ job'[w] = job[w] /\ users'[u] = row
      /\ users' = [users EXCEPT ![u] = row] /\ profiles' = profiles /\ excused \in BOOLEAN
  BY <1>1, <1>2, AtUserSave DEF Labels
<1>4. RequestInv(w)'
  BY <1>2, <1>3, AccountsAssumption DEF RequestInv
<1>5. SomeMaster'
  <2>1. CASE excused'
    BY <2>1 DEF SomeMaster
  <2>2. CASE ~ excused'
    <3>1. row.active = users[u].active
      BY <1>1, <1>3, <2>2 DEF RequestInv, Account
    <3>2. PICK m : m \in Masters
      BY <1>1, <2>2 DEF IndInv, SomeMaster
    <3>3. m = u => row.active
      BY <3>1, <3>2 DEF Masters, Active
    <3>4. m \in Masters'
      BY <1>2, <1>3, <3>2, <3>3, MastersUser
    <3> QED
      BY <3>4 DEF SomeMaster
  <2> QED
    BY <2>1, <2>2
<1>6. excused' \in BOOLEAN
  BY <1>1, <1>3 DEF Job
<1> QED
  BY <1>1, <1>2, <1>3, <1>4, <1>5, <1>6, UserSaved DEF Labels

LEMMA SaveRoleInv ==
    ASSUME IndInv, NEW w \in Workers, SaveRole(w)
    PROVE  IndInv'
<1> DEFINE u == job[w].target
           row == job[w].profile
<1>1. pc[w] = "role" /\ StoreProfile(w, u, row) /\ Changed(u) /\ Goto(w, "log") /\ mails' = mails
      /\ excused' = (excused \/ (LostRights(w) \/ job[w].actor = u) \/ job[w].raced)
  BY DEF SaveRole, Excuse
<1>2. row \in Profile
  BY <1>1 DEF IndInv, RequestInv
<1>3. /\ RequestInv(w) /\ job[w] \in Job /\ u \in Users /\ users[u] \in Account
      /\ profiles[u] \in Profile
      /\ pc'[w] = "log" /\ job'[w] = job[w] /\ profiles'[u] = row
      /\ profiles' = [profiles EXCEPT ![u] = row] /\ users' = users /\ excused \in BOOLEAN
  BY <1>1, <1>2, AtProfileSave DEF Labels
<1>4. users[u] # None /\ profiles[u] # None
  BY <1>3, AccountsAssumption
<1>5. RequestInv(w)'
  BY <1>3, <1>4 DEF RequestInv
<1>6. SomeMaster'
  <2>1. CASE excused'
    BY <2>1 DEF SomeMaster
  <2>2. CASE ~ excused'
    <3>1. job[w].actor \in Masters /\ job[w].actor # u
      BY <1>1, <2>2 DEF LostRights
    <3>2. job[w].actor \in Masters'
      BY <1>2, <1>3, <3>1, MastersProfile
    <3> QED
      BY <3>2 DEF SomeMaster
  <2> QED
    BY <2>1, <2>2
<1>7. excused' \in BOOLEAN
  BY <1>1, <1>3 DEF LostRights, Job
<1> QED
  BY <1>1, <1>2, <1>3, <1>4, <1>5, <1>6, <1>7, ProfileSaved DEF Labels

LEMMA SaveVerifiedInv ==
    ASSUME IndInv, NEW w \in Workers, SaveVerified(w)
    PROVE  IndInv'
<1> DEFINE u == job[w].target
           row == job[w].profile
<1>1. pc[w] = "verify" /\ StoreProfile(w, u, row) /\ Changed(u) /\ Goto(w, "log") /\ mails' = mails
      /\ excused' = (excused \/ FALSE \/ job[w].raced)
  BY DEF SaveVerified, Excuse
<1>2. row \in Profile
  BY <1>1 DEF IndInv, RequestInv
<1>3. /\ RequestInv(w) /\ job[w] \in Job /\ u \in Users /\ users[u] \in Account
      /\ profiles[u] \in Profile
      /\ pc'[w] = "log" /\ job'[w] = job[w] /\ profiles'[u] = row
      /\ profiles' = [profiles EXCEPT ![u] = row] /\ users' = users /\ excused \in BOOLEAN
  BY <1>1, <1>2, AtProfileSave DEF Labels
<1>4. users[u] # None /\ profiles[u] # None
  BY <1>3, AccountsAssumption
<1>5. RequestInv(w)'
  BY <1>3, <1>4 DEF RequestInv
<1>6. SomeMaster'
  <2>1. CASE excused'
    BY <2>1 DEF SomeMaster
  <2>2. CASE ~ excused'
    <3>1. row.role = profiles[u].role
      BY <1>1, <1>3, <2>2 DEF RequestInv, Profile
    <3>2. PICK m : m \in Masters
      BY <1>1, <2>2 DEF IndInv, SomeMaster
    <3>3. m = u /\ m \notin Superusers => row.role = "master"
      BY <1>4, <3>1, <3>2 DEF Masters, Role
    <3>4. m \in Masters'
      BY <1>2, <1>3, <3>2, <3>3, MastersProfile
    <3> QED
      BY <3>4 DEF SomeMaster
  <2> QED
    BY <2>1, <2>2
<1>7. excused' \in BOOLEAN
  BY <1>1, <1>3 DEF Job
<1> QED
  BY <1>1, <1>2, <1>3, <1>4, <1>5, <1>6, <1>7, ProfileSaved DEF Labels

LEMMA SaveNewProfileInv ==
    ASSUME IndInv, NEW w \in Workers, SaveNewProfile(w)
    PROVE  IndInv'
<1> DEFINE u == job[w].target
           f == job[w].form
           row == [job[w].profile EXCEPT !.role = f.role, !.cpf = f.cpf]
<1>1. /\ pc[w] = "profile" /\ mails' = mails /\ RequestInv(w) /\ ops \in Nat
      /\ pc \in [Workers -> Labels] /\ mails \subseteq Token
      /\ \A link \in mails : users[link.user] # None
  BY DEF SaveNewProfile, IndInv, TypeOK
<1>2. f \in Signup /\ job[w].profile \in Profile /\ u \in Users
      /\ users[u] # None /\ profiles[u] # None /\ job[w].profile.role = "simple"
  BY <1>1 DEF RequestInv, Labels
<1>3. row \in Profile
  BY <1>2 DEF Profile, Signup
<1>4. CASE CpfTaken(f.cpf, u)
  <2>1. pc' = [pc EXCEPT ![w] = "idle"] /\ job' = [job EXCEPT ![w] = NoJob] /\ ops' = ops
        /\ Broken(u) /\ UNCHANGED <<tables, excused>>
    BY <1>1, <1>4 DEF SaveNewProfile, Respond, Goto
  <2>2. log' \in [Users -> Nat] /\ changes' \in [Users -> Nat] /\ broken' \in [Users -> Nat]
    BY <1>2, <2>1, AuditChanged
  <2>3. RequestInv(w)'
    BY <1>1, <2>1, IdleRequest
  <2> QED
    BY <1>1, <2>1, <2>2, <2>3, NoJobType, PlainStep DEF Labels
<1>5. CASE ~ CpfTaken(f.cpf, u)
  <2>1. StoreProfile(w, u, row) /\ Goto(w, "log_new") /\ UNCHANGED audit
        /\ excused' = (excused \/ FALSE \/ job[w].raced)
    BY <1>1, <1>5 DEF SaveNewProfile, Excuse
  <2> HIDE DEF row
  <2>2. /\ job[w] \in Job /\ pc'[w] = "log_new" /\ job'[w] = job[w] /\ profiles'[u] = row
        /\ profiles' = [profiles EXCEPT ![u] = row] /\ users' = users /\ excused \in BOOLEAN
    BY <1>1, <1>3, <2>1, AtProfileSave DEF Labels
  <2>3. RequestInv(w)'
    BY <1>1, <1>2, <1>3, <2>2, AccountsAssumption DEF RequestInv
  <2>4. SomeMaster'
    <3>1. CASE excused'
      BY <3>1 DEF SomeMaster
    <3>2. CASE ~ excused'
      <4>1. job[w].profile = profiles[u]
        BY <1>1, <2>1, <3>2 DEF RequestInv
      <4>2. PICK m : m \in Masters
        BY <2>1, <3>2 DEF IndInv, SomeMaster
      <4>3. m = u => m \in Superusers
        BY <1>2, <4>1, <4>2 DEF Masters, Role
      <4>4. m \in Masters'
        BY <1>2, <1>3, <2>2, <4>2, <4>3, MastersProfile
      <4> QED
        BY <4>4 DEF SomeMaster
    <3> QED
      BY <3>1, <3>2
  <2>5. excused' \in BOOLEAN
    BY <2>1, <2>2 DEF Job
  <2> QED
    BY <1>1, <1>2, <1>3, <2>1, <2>2, <2>3, <2>4, <2>5, ProfileSaved DEF Labels
<1> QED
  BY <1>4, <1>5

-----------------------------------------------------------------------------
(* The invariant.                                                          *)

LEMMA InitInv == Init => IndInv
<1> SUFFICES ASSUME Init PROVE IndInv
  OBVIOUS
<1>1. TypeOK
  BY NoJobType, AccountsAssumption DEF Init, TypeOK, Labels
<1>2. SomeMaster
  BY DEF Init, SomeMaster
<1>3. \A w \in Workers : RequestInv(w)
  BY DEF Init, RequestInv
<1>4. HalfCreatedOnlyByRace
  BY DEF Init, HalfCreatedOnlyByRace
<1> QED
  BY <1>1, <1>2, <1>3, <1>4, AccountsAssumption DEF Init, IndInv

LEMMA StutterInv == IndInv /\ UNCHANGED vars => IndInv'
BY DEF IndInv, vars, tables, audit, TypeOK, SomeMaster, Masters, Active, Role,
       HalfCreatedOnlyByRace, RequestInv, CpfTaken, EmailTaken

LEMMA StepInv == IndInv /\ [Next]_vars => IndInv'
<1> SUFFICES ASSUME IndInv, [Next]_vars PROVE IndInv'
  OBVIOUS
<1>1. ASSUME NEW w \in Workers, Accept(w) PROVE IndInv'
  BY <1>1, OpenCreateInv, OpenToggleInv, OpenRoleInv, OpenResendInv, OpenMyAccountInv,
     OpenVerifyInv DEF Accept
<1>2. ASSUME NEW w \in Workers, Serve(w) PROVE IndInv'
  BY <1>2, InsertUserInv, CreateProfileInv, SaveNewProfileInv, SaveToggleInv,
     TouchProfileInv, SaveRoleInv, SaveMyAccountInv, SendMailInv, SaveVerifiedInv,
     LogActionInv DEF Serve
<1>3. CASE UNCHANGED vars
  BY <1>3, StutterInv
<1> QED
  BY <1>1, <1>2, <1>3 DEF Next

\* The copies, the look-ups and the two tables agree with each other in every
\* state (the requests of accounts/views.py).
THEOREM AccountsInvariant == Spec => []IndInv
<1>1. Init => IndInv
  BY InitInv
<1>2. IndInv /\ [Next]_vars => IndInv'
  BY StepInv
<1> QED
  BY <1>1, <1>2, PTL DEF Spec

\* The last active master goes only by the own hand or by a race, however many
\* workers and accounts there are (UserToggleActiveView, UserChangeRoleView).
THEOREM SomeMasterLeft == Spec => []SomeMaster
<1>1. IndInv => SomeMaster
  BY DEF IndInv
<1> QED
  BY <1>1, AccountsInvariant, PTL

-----------------------------------------------------------------------------
(* What a step may change.                                                 *)

\* The worker that moves, and the statement it was at.
LEMMA OneMoves ==
    ASSUME IndInv, NEW v \in Workers, Accept(v) \/ Serve(v), NEW w \in Workers, pc'[w] # pc[w]
    PROVE  w = v
<1>1. \E l \in Labels : pc' = [pc EXCEPT ![v] = l]
  BY DEF Accept, Serve, OpenCreate, OpenToggle, OpenRole, OpenMyAccount, OpenResend,
     OpenVerify, InsertUser, CreateProfile, SaveNewProfile, SaveToggle, TouchProfile,
     SaveRole, SaveMyAccount, SendMail, SaveVerified, LogAction, Begin, Respond, Goto, Labels
<1> QED
  BY <1>1 DEF IndInv, TypeOK

LEMMA Moving ==
    ASSUME NEW w \in Workers, Accept(w) \/ Serve(w)
    PROVE  /\ Accept(w) => pc[w] = "idle" /\ UNCHANGED tables
           /\ pc[w] = "insert" => InsertUser(w)
           /\ pc[w] = "toggle" => SaveToggle(w)
           /\ pc[w] = "my_account" => SaveMyAccount(w)
           /\ pc[w] = "role" => SaveRole(w)
           /\ pc[w] = "verify" => SaveVerified(w)
           /\ pc[w] \notin {"insert", "toggle", "my_account"} => users' = users
<1>1. Accept(w) => pc[w] = "idle" /\ UNCHANGED tables
  BY DEF Accept, OpenCreate, OpenToggle, OpenRole, OpenMyAccount, OpenResend, OpenVerify, Begin
<1>2. Serve(w) => pc[w] # "idle"
  BY DEF Serve, InsertUser, CreateProfile, SaveNewProfile, SaveToggle, TouchProfile,
     SaveRole, SaveMyAccount, SendMail, SaveVerified, LogAction
<1>3. Serve(w) => /\ pc[w] = "insert" => InsertUser(w)
                  /\ pc[w] = "toggle" => SaveToggle(w)
                  /\ pc[w] = "my_account" => SaveMyAccount(w)
                  /\ pc[w] = "role" => SaveRole(w)
                  /\ pc[w] = "verify" => SaveVerified(w)
  BY DEF Serve, InsertUser, CreateProfile, SaveNewProfile, SaveToggle, TouchProfile,
     SaveRole, SaveMyAccount, SendMail, SaveVerified, LogAction
<1>4. Serve(w) /\ pc[w] \notin {"insert", "toggle", "my_account"} => users' = users
  BY DEF Serve, InsertUser, CreateProfile, SaveNewProfile, SaveToggle, TouchProfile,
     SaveRole, SaveMyAccount, SendMail, SaveVerified, LogAction, StoreProfile, tables
<1> QED
  BY <1>1, <1>2, <1>3, <1>4 DEF tables

\* A request that was not overtaken changes its own column and no other
\* (UserToggleActiveView, MyAccountView, UserChangeRoleView, VerifyEmailView).
THEOREM OwnColumn == Spec => OwnColumnOnly
<1>1. ASSUME IndInv, [Next]_vars, NEW w \in Workers, pc'[w] # pc[w], ~ job[w].raced
      PROVE  LET u == job[w].target
             IN /\ pc[w] = "toggle" => users'[u] = [users[u] EXCEPT !.active = ~ @]
                /\ pc[w] = "my_account" => users'[u].active = users[u].active
                /\ pc[w] = "role" => profiles'[u] = [profiles[u] EXCEPT !.role = profiles'[u].role]
                /\ pc[w] = "verify" => profiles'[u] = [profiles[u] EXCEPT !.verified = TRUE]
  <2> DEFINE u == job[w].target
  <2>1. Accept(w) \/ Serve(w)
    BY <1>1, OneMoves DEF Next, vars
  <2>2. RequestInv(w) /\ users \in [Users -> Account \cup {None}]
        /\ profiles \in [Users -> Profile \cup {None}] /\ pc[w] \in Labels
    BY <1>1 DEF IndInv, TypeOK
  <2>3. ASSUME pc[w] = "toggle" PROVE users'[u] = [users[u] EXCEPT !.active = ~ @]
    BY <1>1, <2>1, <2>2, <2>3, Moving DEF SaveToggle, StoreUser, RequestInv
  <2>4. ASSUME pc[w] = "my_account" PROVE users'[u].active = users[u].active
    <3>1. users'[u] = job[w].user /\ u \in Users /\ users[u] # None
      BY <1>1, <2>1, <2>2, <2>4, Moving DEF SaveMyAccount, StoreUser, RequestInv
    <3>2. job[w].user = [users[u] EXCEPT !.email = job[w].user.email]
      BY <1>1, <2>2, <2>4 DEF RequestInv
    <3> QED
      BY <2>2, <3>1, <3>2 DEF Account
  <2>5. ASSUME pc[w] = "role"
        PROVE  profiles'[u] = [profiles[u] EXCEPT !.role = profiles'[u].role]
    BY <1>1, <2>1, <2>2, <2>5, Moving DEF SaveRole, StoreProfile, RequestInv
  <2>6. ASSUME pc[w] = "verify" PROVE profiles'[u] = [profiles[u] EXCEPT !.verified = TRUE]
    BY <1>1, <2>1, <2>2, <2>6, Moving DEF SaveVerified, StoreProfile, RequestInv
  <2> QED
    BY <2>3, <2>4, <2>5, <2>6
<1>2. IndInv /\ [Next]_vars =>
        [\A w \in Workers : pc'[w] # pc[w] /\ ~ job[w].raced =>
            LET u == job[w].target
            IN /\ pc[w] = "toggle" => users'[u] = [users[u] EXCEPT !.active = ~ @]
               /\ pc[w] = "my_account" => users'[u].active = users[u].active
               /\ pc[w] = "role" => profiles'[u] = [profiles[u] EXCEPT !.role = profiles'[u].role]
               /\ pc[w] = "verify" => profiles'[u] = [profiles[u] EXCEPT !.verified = TRUE]]_vars
  BY <1>1
<1> QED
  BY <1>2, AccountsInvariant, PTL DEF Spec, OwnColumnOnly

\* Two accounts come to share an address only by a request that was overtaken,
\* although no constraint of the table forbids it (UserCreateView.post,
\* EmailUpdateForm.clean_email).
THEOREM SharedEmailNeedsARace == Spec => EmailSharedOnlyByRace
<1>1. ASSUME IndInv, [Next]_vars, NEW s \in Users, NEW t \in Users, s # t,
             users'[s] # None, users'[t] # None, users'[s].email = users'[t].email,
             (users[s] = None \/ users[t] = None) \/ users[s].email # users[t].email
      PROVE  \E w \in Workers : pc'[w] # pc[w] /\ job[w].raced
  <2>1. users' # users
    BY <1>1
  <2>2. PICK w \in Workers : Accept(w) \/ Serve(w)
    BY <1>1, <2>1 DEF Next, vars, tables
  <2>3. pc[w] \in {"insert", "toggle", "my_account"}
    BY <2>1, <2>2, Moving
  <2>4. RequestInv(w) /\ users \in [Users -> Account \cup {None}] /\ pc \in [Workers -> Labels]
    BY <1>1 DEF IndInv, TypeOK
  <2> DEFINE f == job[w].form
  <2>5. CASE pc[w] = "insert"
    <3>1. InsertUser(w)
      BY <2>2, <2>5, Moving
    <3>2. PICK u \in Users :
            /\ users[u] = None
            /\ users' = [users EXCEPT ![u] = [name |-> f.name, email |-> f.email, active |-> TRUE]]
            /\ pc' = [pc EXCEPT ![w] = "signal"]
      BY <2>1, <3>1 DEF InsertUser, Goto, tables
    <3>3. EmailTaken(f.email, None)
      <4>1. \A v \in Users : users[v] # None => v # None /\ users'[v] = users[v]
        BY <2>4, <3>2, AccountsAssumption
      <4>2. users'[u].email = f.email
        BY <2>4, <3>2
      <4>3. CASE u \notin {s, t}
        BY <1>1, <2>4, <3>2, <4>3
      <4>4. CASE u = s
        <5>1. users[t] # None /\ users[t].email = f.email
          BY <1>1, <2>4, <3>2, <4>2, <4>4
        <5> QED
          BY <4>1, <5>1 DEF EmailTaken
      <4>5. CASE u = t
        <5>1. users[s] # None /\ users[s].email = f.email
          BY <1>1, <2>4, <3>2, <4>2, <4>5
        <5> QED
          BY <4>1, <5>1 DEF EmailTaken
      <4> QED
        BY <4>3, <4>4, <4>5
    <3>4. job[w].raced /\ pc'[w] # pc[w]
      BY <2>4, <2>5, <3>2, <3>3 DEF RequestInv
    <3> QED
      BY <3>4
  <2>6. CASE pc[w] = "my_account"
    <3> DEFINE u == job[w].target
    <3>1. users' = [users EXCEPT ![u] = job[w].user] /\ pc' = [pc EXCEPT ![w] = "log"]
      BY <2>2, <2>6, Moving DEF SaveMyAccount, StoreUser, Goto
    <3>2. u \in Users /\ job[w].user.email = f.email
      BY <2>4, <2>6 DEF RequestInv, Labels
    <3>3. EmailTaken(f.email, u)
      BY <1>1, <2>4, <3>1, <3>2 DEF EmailTaken
    <3>4. job[w].raced /\ pc'[w] # pc[w]
      BY <2>4, <2>6, <3>1, <3>3 DEF RequestInv
    <3> QED
      BY <3>4
  <2>7. CASE pc[w] = "toggle"
    <3> DEFINE u == job[w].target
    <3>1. users' = [users EXCEPT ![u] = [job[w].user EXCEPT !.active = ~ @]]
          /\ pc' = [pc EXCEPT ![w] = "touch"]
      BY <2>2, <2>7, Moving DEF SaveToggle, StoreUser, Goto
    <3>2. u \in Users /\ users[u] # None /\ job[w].user \in Account
      BY <2>4, <2>7 DEF RequestInv, Labels
    <3>3. CASE ~ job[w].raced
      <4>1. job[w].user = users[u]
        BY <2>4, <2>7, <3>3 DEF RequestInv
      <4>2. users'[u].email = users[u].email
        BY <2>4, <3>1, <3>2, <4>1 DEF Account
      <4>3. \A v \in Users : users[v] = None => users'[v] = None
        BY <2>4, <3>1, <3>2
      <4>4. \A v \in Users : users[v] # None => users'[v].email = users[v].email
        BY <2>4, <3>1, <4>2
      <4> QED
        BY <1>1, <4>3, <4>4
    <3>4. pc'[w] # pc[w]
      BY <2>4, <2>7, <3>1
    <3> QED
      BY <3>3, <3>4
  <2> QED
    BY <2>3, <2>5, <2>6, <2>7
<1>2. IndInv /\ [Next]_vars =>
        [\A u, v \in Users :
          /\ u # v /\ users'[u] # None /\ users'[v] # None
          /\ users'[u].email = users'[v].email
          /\ users[u] = None \/ users[v] = None \/ users[u].email # users[v].email
          => \E w \in Workers : pc'[w] # pc[w] /\ job[w].raced]_vars
  BY <1>1
<1> QED
  BY <1>2, AccountsInvariant, PTL DEF Spec, EmailSharedOnlyByRace

-----------------------------------------------------------------------------
(* The audit log.                                                          *)

\* w has stored a change of u whose row in the log is still to come.
Due(w, u) ==
    job[w].target = u /\ pc[w] \in {"signal", "profile", "log_new", "touch", "log"}

LEMMA OthersDue ==
    ASSUME IndInv, NEW w \in Workers, Accept(w) \/ Serve(w), NEW v \in Workers, v # w
    PROVE  \A u : Due(v, u)' <=> Due(v, u)
<1>1. job \in [Workers -> Job]
  BY DEF IndInv, TypeOK
<1>2. pc'[v] = pc[v]
  BY OneMoves
<1>3. Accept(w) => job'[v] = job[v]
  BY <1>1 DEF Accept, OpenCreate, OpenToggle, OpenRole, OpenMyAccount, OpenResend,
     OpenVerify, Begin
<1>4. ASSUME NEW u, NEW e, NEW c, job'[v] = Overtake(w, u, e, c)[v]
      PROVE  job'[v].target = job[v].target
  BY <1>1, <1>4, Overtaken DEF Kept
<1>5. ASSUME InsertUser(w) PROVE job'[v].target = job[v].target
  <2>1. CASE \E u \in Users : users[u] # None /\ users[u].name = job[w].form.name
    BY <1>1, <1>5, <2>1 DEF InsertUser, Respond
  <2>2. CASE ~ \E u \in Users : users[u] # None /\ users[u].name = job[w].form.name
    <3>1. PICK u \in Users :
            LET row == [name |-> job[w].form.name, email |-> job[w].form.email, active |-> TRUE]
            IN job' = [Overtake(w, u, row.email, None) EXCEPT ![w].target = u, ![w].user = row]
      BY <1>5, <2>2 DEF InsertUser
    <3> DEFINE old == Overtake(w, u, job[w].form.email, None)
    <3>2. old \in [Workers -> Job]
      BY <1>1, OvertakeType
    <3>3. job'[v] = old[v]
      BY <3>1, <3>2
    <3> QED
      BY <1>4, <3>3
  <2> QED
    BY <2>1, <2>2
<1>6. ASSUME CreateProfile(w) PROVE job'[v].target = job[v].target
  <2>1. PICK row : job' = [Overtake(w, job[w].target, None, None) EXCEPT ![w].profile = row]
    BY <1>6 DEF CreateProfile
  <2> DEFINE old == Overtake(w, job[w].target, None, None)
  <2>2. old \in [Workers -> Job]
    BY <1>1, OvertakeType
  <2>3. job'[v] = old[v]
    BY <2>1, <2>2
  <2> QED
    BY <1>4, <2>3
<1>7. SaveToggle(w) \/ SaveMyAccount(w) =>
        \E u, e : job' = Overtake(w, u, e, None)
  BY DEF SaveToggle, SaveMyAccount, StoreUser
<1>8. SaveRole(w) \/ SaveVerified(w) =>
        \E u, c : job' = Overtake(w, u, None, c)
  BY DEF SaveRole, SaveVerified, StoreProfile
<1>9. SaveNewProfile(w) =>
        \/ \E u, c : job' = Overtake(w, u, None, c)
        \/ job'[v] = job[v]
  BY <1>1 DEF SaveNewProfile, StoreProfile, Respond
<1>10. TouchProfile(w) \/ SendMail(w) \/ LogAction(w) => job'[v] = job[v]
  BY <1>1 DEF TouchProfile, SendMail, LogAction, Respond
<1>11. job'[v].target = job[v].target
  <2>1. (\E u, e, c : job' = Overtake(w, u, e, c)) => job'[v].target = job[v].target
    BY <1>4
  <2> QED
    BY <1>3, <1>5, <1>6, <1>7, <1>8, <1>9, <1>10, <2>1 DEF Serve
<1> QED
  BY <1>2, <1>11 DEF Due

\* What a step of w does to the counters and to its own debt.
Neutral(w) == UNCHANGED audit /\ \A u \in Users : Due(w, u)' <=> Due(w, u)

Incurs(w, u) == Changed(u) /\ \A x \in Users : ~ Due(w, x) /\ (Due(w, x)' <=> x = u)

Settles(w, u) ==
    /\ Broken(u) \/ (log' = [log EXCEPT ![u] = @ + 1] /\ UNCHANGED <<changes, broken>>)
    /\ \A x \in Users : (Due(w, x) <=> x = u) /\ ~ Due(w, x)'

LEMMA Effect ==
    ASSUME IndInv, NEW w \in Workers, Accept(w) \/ Serve(w)
    PROVE  Neutral(w) \/ \E u \in Users : Incurs(w, u) \/ Settles(w, u)
<1>1. pc \in [Workers -> Labels] /\ job \in [Workers -> Job] /\ RequestInv(w)
      /\ NoJob.target = None /\ None \notin Users
  BY AccountsAssumption DEF IndInv, TypeOK, NoJob
<1> DEFINE t == job[w].target
<1>2. ASSUME Accept(w) PROVE Neutral(w)
  <2>1. \E l \in {"insert", "toggle", "role", "my_account", "mail", "verify"} :
           pc[w] = "idle" /\ pc' = [pc EXCEPT ![w] = l] /\ UNCHANGED audit
    BY <1>2 DEF Accept, OpenCreate, OpenToggle, OpenRole, OpenMyAccount, OpenResend,
       OpenVerify, Begin
  <2> QED
    BY <1>1, <2>1 DEF Neutral, Due
<1>3. ASSUME InsertUser(w) PROVE Neutral(w) \/ \E u \in Users : Incurs(w, u)
  <2>1. CASE \E u \in Users : users[u] # None /\ users[u].name = job[w].form.name
    <3>1. pc[w] = "insert" /\ pc' = [pc EXCEPT ![w] = "idle"] /\ UNCHANGED audit
      BY <1>3, <2>1 DEF InsertUser, Respond, Goto
    <3> QED
      BY <1>1, <3>1 DEF Neutral, Due
  <2>2. CASE ~ \E u \in Users : users[u] # None /\ users[u].name = job[w].form.name
    <3>1. PICK u \in Users :
            /\ pc[w] = "insert" /\ pc' = [pc EXCEPT ![w] = "signal"] /\ Changed(u)
            /\ LET row == [name |-> job[w].form.name, email |-> job[w].form.email, active |-> TRUE]
               IN job' = [Overtake(w, u, row.email, None) EXCEPT ![w].target = u, ![w].user = row]
      BY <1>3, <2>2 DEF InsertUser, Goto
    <3> DEFINE old == Overtake(w, u, job[w].form.email, None)
    <3>2. old \in [Workers -> Job]
      BY <1>1, OvertakeType
    <3>3. job'[w].target = u
      BY <3>1, <3>2 DEF Job
    <3> QED
      BY <1>1, <3>1, <3>3 DEF Incurs, Due
  <2> QED
    BY <2>1, <2>2
<1>4. ASSUME CreateProfile(w) PROVE Neutral(w)
  <2>1. PICK row : job' = [Overtake(w, t, None, None) EXCEPT ![w].profile = row]
    BY <1>4 DEF CreateProfile
  <2> DEFINE old == Overtake(w, t, None, None)
  <2>2. old \in [Workers -> Job]
    BY <1>1, OvertakeType
  <2>3. old[w] = job[w]
    BY DEF Overtake
  <2>4. job'[w].target = t
    BY <2>1, <2>2, <2>3 DEF Job
  <2>5. pc[w] = "signal" /\ pc' = [pc EXCEPT ![w] = "profile"] /\ UNCHANGED audit
    BY <1>4 DEF CreateProfile, Goto
  <2> QED
    BY <1>1, <2>4, <2>5 DEF Neutral, Due
<1>5. ASSUME SaveToggle(w) \/ SaveMyAccount(w) \/ SaveRole(w) \/ SaveVerified(w)
      PROVE  t \in Users /\ Incurs(w, t)
  <2>1. pc[w] \in {"toggle", "my_account", "role", "verify"}
        /\ (pc' = [pc EXCEPT ![w] = "touch"] \/ pc' = [pc EXCEPT ![w] = "log"])
        /\ Changed(t)
    BY <1>5 DEF SaveToggle, SaveMyAccount, SaveRole, SaveVerified, Goto
  <2>2. \E u, e, c : job' = Overtake(w, u, e, c)
    BY <1>5 DEF SaveToggle, SaveMyAccount, SaveRole, SaveVerified, StoreUser, StoreProfile
  <2>3. job'[w] = job[w]
    BY <2>2 DEF Overtake
  <2>4. t \in Users
    BY <1>1, <2>1 DEF RequestInv, Labels
  <2> QED
    BY <1>1, <2>1, <2>3, <2>4 DEF Incurs, Due
<1>6. ASSUME SaveNewProfile(w) PROVE Neutral(w) \/ (t \in Users /\ Settles(w, t))
  <2>1. pc[w] = "profile" /\ t \in Users
    BY <1>1, <1>6 DEF SaveNewProfile, RequestInv, Labels
  <2>2. CASE CpfTaken(job[w].form.cpf, t)
    <3>1. pc' = [pc EXCEPT ![w] = "idle"] /\ Broken(t)
      BY <1>6, <2>2 DEF SaveNewProfile, Respond, Goto
    <3> QED
      BY <1>1, <2>1, <3>1 DEF Settles, Due
  <2>3. CASE ~ CpfTaken(job[w].form.cpf, t)
    <3>1. pc' = [pc EXCEPT ![w] = "log_new"] /\ UNCHANGED audit /\
          \E u, e, c : job' = Overtake(w, u, e, c)
      BY <1>6, <2>3 DEF SaveNewProfile, StoreProfile, Goto
    <3>2. job'[w] = job[w]
      BY <3>1 DEF Overtake
    <3> QED
      BY <1>1, <2>1, <3>1, <3>2 DEF Neutral, Due
  <2> QED
    BY <2>2, <2>3
<1>7. ASSUME TouchProfile(w) PROVE Neutral(w) \/ (t \in Users /\ Settles(w, t))
  <2>1. pc[w] = "touch" /\ t \in Users
    BY <1>1, <1>7 DEF TouchProfile, RequestInv, Labels
  <2>2. CASE profiles[t] = None
    <3>1. pc' = [pc EXCEPT ![w] = "idle"] /\ Broken(t)
      BY <1>7, <2>2 DEF TouchProfile, Respond, Goto
    <3> QED
      BY <1>1, <2>1, <3>1 DEF Settles, Due
  <2>3. CASE profiles[t] # None
    <3>1. pc' = [pc EXCEPT ![w] = "log"] /\ UNCHANGED audit /\ job' = job
      BY <1>7, <2>3 DEF TouchProfile, Goto
    <3> QED
      BY <1>1, <2>1, <3>1 DEF Neutral, Due
  <2> QED
    BY <2>2, <2>3
<1>8. ASSUME SendMail(w) PROVE Neutral(w)
  <2>1. pc[w] = "mail" /\ pc' = [pc EXCEPT ![w] = "idle"] /\ UNCHANGED audit
    BY <1>8 DEF SendMail, Respond, Goto
  <2> QED
    BY <1>1, <2>1 DEF Neutral, Due
<1>9. ASSUME LogAction(w) PROVE t \in Users /\ Settles(w, t)
  <2>1. pc[w] \in {"log", "log_new"} /\ t \in Users
    BY <1>1, <1>9 DEF LogAction, RequestInv, Labels
  <2>2. log' = [log EXCEPT ![t] = @ + 1] /\ UNCHANGED <<changes, broken>>
        /\ (pc' = [pc EXCEPT ![w] = "idle"] \/ pc' = [pc EXCEPT ![w] = "mail"])
    BY <1>9 DEF LogAction, Respond, Goto
  <2> QED
    BY <1>1, <2>1, <2>2 DEF Settles, Due
<1> QED
  BY <1>2, <1>3, <1>4, <1>5, <1>6, <1>7, <1>8, <1>9 DEF Serve

DueTo(u) == {w \in Workers : Due(w, u)}

LEMMA LoggedStep ==
    ASSUME IndInv, EveryChangeLogged, NEW w \in Workers, Accept(w) \/ Serve(w)
    PROVE  EveryChangeLogged'
<1> SUFFICES ASSUME NEW u \in Users
             PROVE  changes'[u] = log'[u] + broken'[u] + Cardinality(DueTo(u)')
  BY DEF EveryChangeLogged, DueTo, Due
<1>1. changes[u] = log[u] + broken[u] + Cardinality(DueTo(u))
  BY DEF EveryChangeLogged, DueTo, Due
<1>2. log \in [Users -> Nat] /\ changes \in [Users -> Nat] /\ broken \in [Users -> Nat]
  BY DEF IndInv, TypeOK
<1>3. IsFiniteSet(DueTo(u)) /\ Cardinality(DueTo(u)) \in Nat
  <2>1. DueTo(u) \subseteq Workers /\ IsFiniteSet(Workers)
    BY AccountsAssumption DEF DueTo
  <2> QED
    BY <2>1, FS_Subset, FS_CardinalityType
<1>4. \A v \in Workers \ {w} : v \in DueTo(u)' <=> v \in DueTo(u)
  BY OthersDue DEF DueTo
<1>5. w \in DueTo(u) <=> Due(w, u)
  BY DEF DueTo
<1>6. w \in DueTo(u)' <=> Due(w, u)'
  BY DEF DueTo
<1>7. DueTo(u) \subseteq Workers /\ DueTo(u)' \subseteq Workers
  BY DEF DueTo
<1>8. CASE Neutral(w)
  <2>1. DueTo(u)' = DueTo(u)
    BY <1>4, <1>5, <1>6, <1>7, <1>8 DEF Neutral
  <2> QED
    BY <1>1, <1>8, <2>1 DEF Neutral, audit
<1>9. ASSUME NEW t \in Users, Incurs(w, t)
      PROVE  changes'[u] = log'[u] + broken'[u] + Cardinality(DueTo(u)')
  <2>1. CASE u = t
    <3>1. DueTo(u)' = DueTo(u) \cup {w} /\ w \notin DueTo(u)
      BY <1>4, <1>5, <1>6, <1>7, <1>9, <2>1 DEF Incurs
    <3>2. Cardinality(DueTo(u)') = Cardinality(DueTo(u)) + 1
      BY <1>3, <3>1, FS_AddElement
    <3>3. changes'[u] = changes[u] + 1 /\ log' = log /\ broken' = broken
      BY <1>2, <1>9, <2>1 DEF Incurs, Changed
    <3> QED
      BY <1>1, <1>2, <1>3, <3>2, <3>3
  <2>2. CASE u # t
    <3>1. DueTo(u)' = DueTo(u)
      BY <1>4, <1>5, <1>6, <1>7, <1>9, <2>2 DEF Incurs
    <3>2. changes'[u] = changes[u] /\ log' = log /\ broken' = broken
      BY <1>2, <1>9, <2>2 DEF Incurs, Changed
    <3> QED
      BY <1>1, <3>1, <3>2
  <2> QED
    BY <2>1, <2>2
<1>10. ASSUME NEW t \in Users, Settles(w, t)
       PROVE  changes'[u] = log'[u] + broken'[u] + Cardinality(DueTo(u)')
  <2>1. CASE u = t
    <3>1. DueTo(u)' = DueTo(u) \ {w} /\ w \in DueTo(u)
      BY <1>4, <1>5, <1>6, <1>7, <1>10, <2>1 DEF Settles
    <3>2. Cardinality(DueTo(u)') = Cardinality(DueTo(u)) - 1
      BY <1>3, <3>1, FS_RemoveElement
    <3>3. log'[u] + broken'[u] = log[u] + broken[u] + 1 /\ changes' = changes
      BY <1>2, <1>10, <2>1 DEF Settles, Broken
    <3>4. log'[u] \in Nat /\ broken'[u] \in Nat
      BY <1>2, <1>10, <2>1 DEF Settles, Broken
    <3> QED
      BY <1>1, <1>2, <1>3, <3>2, <3>3, <3>4
  <2>2. CASE u # t
    <3>1. DueTo(u)' = DueTo(u)
      BY <1>4, <1>5, <1>6, <1>7, <1>10, <2>2 DEF Settles
    <3>2. log'[u] = log[u] /\ broken'[u] = broken[u] /\ changes' = changes
      BY <1>2, <1>10, <2>2 DEF Settles, Broken
    <3> QED
      BY <1>1, <3>1, <3>2
  <2> QED
    BY <2>1, <2>2
<1> QED
  BY <1>8, <1>9, <1>10, Effect

\* No change of an account is missing in the audit log, except while its
\* request is under way or when that request ended in a server error
\* (log_action is called after the change has been stored).
THEOREM AuditComplete == Spec => []EveryChangeLogged
<1>1. ASSUME Init PROVE EveryChangeLogged
  <2>1. ASSUME NEW u \in Users PROVE DueTo(u) = {}
    BY <1>1 DEF Init, DueTo, Due
  <2>2. Cardinality({}) = 0
    BY FS_EmptySet
  <2> QED
    BY <1>1, <2>1, <2>2 DEF Init, EveryChangeLogged, DueTo, Due
<1>2. IndInv /\ EveryChangeLogged /\ [Next]_vars => EveryChangeLogged'
  <2>1. CASE UNCHANGED vars
    BY <2>1 DEF vars, audit, EveryChangeLogged
  <2>2. CASE Next
    BY <2>2, LoggedStep DEF Next
  <2> QED
    BY <2>1, <2>2
<1> QED
  BY <1>1, <1>2, AccountsInvariant, PTL DEF Spec
=============================================================================
