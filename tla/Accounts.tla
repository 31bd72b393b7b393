------------------------------ MODULE Accounts ------------------------------
(***************************************************************************)
(* The accounts application: users and their profiles (role, CPF, verified *)
(* e-mail address), the pages on which masters manage them, the page of    *)
(* one's own account, the verification links and the audit log.            *)
(*                                                                         *)
(* Gunicorn workers (Workers) serve the requests; every statement          *)
(* autocommits.  A save() writes every column of the row from the copy the *)
(* request read.  A form that is refused changes nothing and is no action. *)
(* A new password is stored by the same full-row save of one's own User as *)
(* a new address, and is not distinguished from it; the Django admin site  *)
(* and the expiry of links are not modelled.                               *)
(***************************************************************************)
EXTENDS Integers, FiniteSets

CONSTANTS
    Workers,
    Users,       \* primary keys
    Superusers,  \* those created on the command line
    Names, Emails, Cpfs,
    None,
    InitUsers,   \* the accounts there at the start: a function to rows or None
    InitProfiles,
    InitMails,   \* links sent before the start
    Signups,     \* the account forms that are sent
    MaxOps       \* bound: requests served

Roles == {"simple", "admin", "master"}

Account == [name : Names, email : Emails, active : BOOLEAN]
Profile == [role : Roles, cpf : Cpfs \cup {None}, verified : BOOLEAN]
Signup == [name : Names, email : Emails, cpf : Cpfs, role : Roles]

\* What the hash of a verification link is made of, besides the time.
Token == [user : Users, email : Emails, verified : BOOLEAN]

ASSUME AccountsAssumption ==
    /\ Superusers \subseteq Users
    /\ IsFiniteSet(Workers)
    /\ InitUsers \in [Users -> Account \cup {None}]
    /\ InitProfiles \in [Users -> Profile \cup {None}]
    /\ \A u \in Users : InitUsers[u] = None <=> InitProfiles[u] = None
    /\ \A u, v \in Users : u # v /\ InitUsers[u] # None /\ InitUsers[v] # None =>
          InitUsers[u].name # InitUsers[v].name /\ InitUsers[u].email # InitUsers[v].email
    /\ InitMails \subseteq Token /\ \A link \in InitMails : InitUsers[link.user] # None
    /\ Signups \subseteq Signup
    /\ MaxOps \in Nat
    /\ None \notin Account /\ None \notin Profile /\ None \notin Users
    /\ None \notin Cpfs /\ None \notin Signup /\ None \notin Token
    /\ None \notin [email : Emails, cpf : {None}]

VARIABLES
    users,     \* auth_user: a row or None
    profiles,  \* UserProfile: the row of a user or None
    mails,     \* verification links that were sent
    log,       \* SystemLog: how many rows name the account
    pc, job,   \* the statement a worker is at, its local variables
    ops,
    \* history
    changes,   \* how many requests stored something about the account
    broken,    \* how many of them ended in a server error
    excused    \* a write took a master away that its author could not know of

tables == <<users, profiles>>
audit == <<log, changes, broken>>
vars == <<tables, mails, audit, pc, job, ops, excused>>

\* raced (history): since the request read its rows and made its checks
\* another one wrote that row, or took a value the form holds.
NoJob == [actor |-> None, target |-> None, user |-> None, profile |-> None,
          form |-> None, raced |-> FALSE]

\* get_role.
Role(u) ==
    IF u \in Superusers THEN "master"
    ELSE IF profiles[u] = None THEN "simple" ELSE profiles[u].role

\* Accounts a request can come from: the session of an inactive one is void.
Active == {u \in Users : users[u] # None /\ users[u].active}

Masters == {u \in Active : Role(u) = "master"}

EmailTaken(e, u) == \E v \in Users \ {u} : users[v] # None /\ users[v].email = e

CpfTaken(c, u) == \E v \in Users \ {u} : profiles[v] # None /\ profiles[v].cpf = c

Begin(w, label, j) ==
    /\ pc[w] = "idle"
    /\ ops < MaxOps
    /\ ops' = ops + 1
    /\ pc' = [pc EXCEPT ![w] = label]
    /\ job' = [job EXCEPT ![w] = j]
    /\ UNCHANGED <<tables, mails, audit, excused>>

Goto(w, label) == pc' = [pc EXCEPT ![w] = label] /\ UNCHANGED ops

Respond(w) == Goto(w, "idle") /\ job' = [job EXCEPT ![w] = NoJob]

\* The jobs once w has stored a row of u that holds the address e and the CPF c.
Overtake(w, u, e, c) ==
    [v \in Workers |->
        LET j == job[v]
        IN IF v # w /\ j # NoJob
              /\ \/ j.target = u
                 \/ j.form # None /\ (j.form.email = e \/ (c # None /\ j.form.cpf = c))
           THEN [j EXCEPT !.raced = TRUE] ELSE j]

StoreUser(w, u, row) ==
    /\ users' = [users EXCEPT ![u] = row]
    /\ job' = Overtake(w, u, row.email, None)
    /\ UNCHANGED profiles

StoreProfile(w, u, row) ==
    /\ profiles' = [profiles EXCEPT ![u] = row]
    /\ job' = Overtake(w, u, None, row.cpf)
    /\ UNCHANGED users

\* The request has stored what it was for: a change of u to be logged.
Changed(u) == changes' = [changes EXCEPT ![u] = @ + 1] /\ UNCHANGED <<log, broken>>

\* A server error after a change of u has been stored.
Broken(u) == broken' = [broken EXCEPT ![u] = @ + 1] /\ UNCHANGED <<log, changes>>

\* History: w writes on stale grounds, or an actor gives up its own role.
Excuse(w, own) == excused' = (excused \/ own \/ job[w].raced)

LostRights(w) == job[w].actor \notin Masters

-----------------------------------------------------------------------------
(* Users are created: UserCreateView.                                      *)

\* Mutant: the CPF is not looked up.
OpenCreate_AnyCpf(w, a, f) ==
    /\ a \in Masters
    /\ \A u \in Users : users[u] # None => users[u].name # f.name
    /\ ~ EmailTaken(f.email, None)
    /\ Begin(w, "insert", [NoJob EXCEPT !.actor = a, !.form = f])

\* The three look-ups for a name, an address or a CPF in use.
OpenCreate(w, a, f) ==
    /\ a \in Masters
    /\ \A u \in Users : users[u] # None => users[u].name # f.name
    /\ ~ EmailTaken(f.email, None)
    /\ ~ CpfTaken(f.cpf, None)
    /\ Begin(w, "insert", [NoJob EXCEPT !.actor = a, !.form = f])

\* create_user: the column of names is unique, that of addresses is not.
InsertUser(w) ==
    /\ pc[w] = "insert"
    /\ LET f == job[w].form
       IN IF \E u \in Users : users[u] # None /\ users[u].name = f.name
          THEN Respond(w) /\ UNCHANGED <<tables, audit>>
          ELSE \E u \in Users :
                 LET row == [name |-> f.name, email |-> f.email, active |-> TRUE]
                 IN /\ users[u] = None
                    /\ users' = [users EXCEPT ![u] = row]
                    /\ job' = [Overtake(w, u, row.email, None) EXCEPT
                                 ![w].target = u, ![w].user = row]
                    /\ Goto(w, "signal")
                    /\ UNCHANGED profiles
                    /\ Changed(u)
    /\ UNCHANGED <<mails, excused>>

\* The post_save handler and the view both call get_or_create.
CreateProfile(w) ==
    /\ pc[w] = "signal"
    /\ LET u == job[w].target
           row == IF profiles[u] # None THEN profiles[u]
                  ELSE [role |-> "simple", cpf |-> None, verified |-> FALSE]
       IN /\ profiles' = [profiles EXCEPT ![u] = row]
          /\ job' = [Overtake(w, u, None, None) EXCEPT ![w].profile = row]
    /\ Goto(w, "profile")
    /\ UNCHANGED <<users, mails, audit, excused>>

\* Role and CPF are stored; the column of CPFs is unique, and a request that
\* lost the race for one leaves the account behind without it.
SaveNewProfile(w) ==
    /\ pc[w] = "profile"
    /\ LET u == job[w].target
           f == job[w].form
       IN IF CpfTaken(f.cpf, u)
          THEN Respond(w) /\ Broken(u) /\ UNCHANGED <<tables, excused>>
          ELSE /\ StoreProfile(w, u, [job[w].profile EXCEPT !.role = f.role, !.cpf = f.cpf])
               /\ Goto(w, "log_new")
               /\ Excuse(w, FALSE)
               /\ UNCHANGED audit
    /\ UNCHANGED mails

-----------------------------------------------------------------------------
(* Masters change accounts: UserToggleActiveView, UserChangeRoleView.      *)

\* Mutant: one's own account is not refused.
OpenToggle_AlsoSelf(w, a, u) ==
    /\ a \in Masters
    /\ users[u] # None
    /\ Begin(w, "toggle", [NoJob EXCEPT !.actor = a, !.target = u, !.user = users[u]])

OpenToggle(w, a, u) ==
    /\ a \in Masters
    /\ users[u] # None
    /\ u # a
    /\ Begin(w, "toggle", [NoJob EXCEPT !.actor = a, !.target = u, !.user = users[u]])

SaveToggle(w) ==
    /\ pc[w] = "toggle"
    /\ LET u == job[w].target
       IN StoreUser(w, u, [job[w].user EXCEPT !.active = ~ @]) /\ Changed(u)
    /\ Excuse(w, LostRights(w))
    /\ Goto(w, "touch")
    /\ UNCHANGED mails

\* target.profile.save(update_fields=['updated_at']).
TouchProfile(w) ==
    /\ pc[w] = "touch"
    /\ IF profiles[job[w].target] = None
       THEN Respond(w) /\ Broken(job[w].target)
       ELSE Goto(w, "log") /\ UNCHANGED <<job, audit>>
    /\ UNCHANGED <<tables, mails, excused>>

\* get_or_create reads the profile.
OpenRole(w, a, u, role) ==
    /\ a \in Masters
    /\ profiles[u] # None
    /\ Begin(w, "role", [NoJob EXCEPT !.actor = a, !.target = u,
                                      !.profile = [profiles[u] EXCEPT !.role = role]])

\* Mutant: the profile is written anew, not read and changed.
SaveRole_FreshRow(w) ==
    /\ pc[w] = "role"
    /\ LET u == job[w].target
       IN StoreProfile(w, u, [job[w].profile EXCEPT !.verified = FALSE]) /\ Changed(u)
    /\ Excuse(w, LostRights(w) \/ job[w].actor = job[w].target)
    /\ Goto(w, "log")
    /\ UNCHANGED mails

SaveRole(w) ==
    /\ pc[w] = "role"
    /\ LET u == job[w].target IN StoreProfile(w, u, job[w].profile) /\ Changed(u)
    /\ Excuse(w, LostRights(w) \/ job[w].actor = job[w].target)
    /\ Goto(w, "log")
    /\ UNCHANGED mails

-----------------------------------------------------------------------------
(* One's own account: MyAccountView.                                       *)

\* A new address that no other account has, or the same one with a new
\* password; request.user is the copy.
OpenMyAccount(w, a, e) ==
    /\ a \in Active
    /\ ~ EmailTaken(e, a)
    /\ Begin(w, "my_account",
             [NoJob EXCEPT !.actor = a, !.target = a, !.user = [users[a] EXCEPT !.email = e],
                           !.form = [email |-> e, cpf |-> None]])

SaveMyAccount(w) ==
    /\ pc[w] = "my_account"
    /\ LET u == job[w].target IN StoreUser(w, u, job[w].user) /\ Changed(u)
    /\ Excuse(w, FALSE)
    /\ Goto(w, "log")
    /\ UNCHANGED mails

-----------------------------------------------------------------------------
(* Verification: send_verification_email, VerifyEmailView.                 *)

OpenResend(w, a, u) ==
    /\ a \in Masters
    /\ profiles[u] # None
    /\ ~ profiles[u].verified
    /\ Begin(w, "mail", [NoJob EXCEPT !.actor = a, !.target = u, !.user = users[u]])

\* The link is made from the copy of the user and the profile behind it, which
\* is the one the signal stored when the account is new.  The mail may fail.
SendMail(w) ==
    /\ pc[w] = "mail"
    /\ LET u == job[w].target
           new == job[w].form # None
           link == [user |-> u, email |-> job[w].user.email,
                    verified |-> IF new THEN job[w].profile.verified ELSE profiles[u].verified]
       IN mails' \in {mails, mails \cup {link}}
    /\ Respond(w)
    /\ UNCHANGED <<tables, audit, excused>>

\* check_token, and the profile that is read after it.
OpenVerify(w, link) ==
    /\ users[link.user].email = link.email
    /\ profiles[link.user] # None
    /\ profiles[link.user].verified = link.verified
    /\ Begin(w, "verify", [NoJob EXCEPT !.target = link.user,
                 !.profile = [profiles[link.user] EXCEPT !.verified = TRUE]])

SaveVerified(w) ==
    /\ pc[w] = "verify"
    /\ LET u == job[w].target IN StoreProfile(w, u, job[w].profile) /\ Changed(u)
    /\ Excuse(w, FALSE)
    /\ Goto(w, "log")
    /\ UNCHANGED mails

\* Mutant: the row of a new account is forgotten.
LogAction_NotOfNew(w) ==
    /\ pc[w] \in {"log", "log_new"}
    /\ IF pc[w] = "log_new" THEN Goto(w, "mail") /\ UNCHANGED <<job, log>>
       ELSE Respond(w) /\ log' = [log EXCEPT ![job[w].target] = @ + 1]
    /\ UNCHANGED <<tables, mails, changes, broken, excused>>

\* log_action inserts a row; SystemLog refuses to change or delete one.
LogAction(w) ==
    /\ pc[w] \in {"log", "log_new"}
    /\ log' = [log EXCEPT ![job[w].target] = @ + 1]
    /\ IF pc[w] = "log_new" THEN Goto(w, "mail") /\ UNCHANGED job ELSE Respond(w)
    /\ UNCHANGED <<tables, mails, changes, broken, excused>>

-----------------------------------------------------------------------------
Init ==
    /\ users = InitUsers
    /\ profiles = InitProfiles
    /\ mails = InitMails
    /\ log = [u \in Users |-> 0]
    /\ changes = [u \in Users |-> 0]
    /\ broken = [u \in Users |-> 0]
    /\ pc = [w \in Workers |-> "idle"]
    /\ job = [w \in Workers |-> NoJob]
    /\ ops = 0
    /\ excused = (Masters = {})

Accept(w) ==
    \/ \E a \in Users :
          \/ \E f \in Signups : OpenCreate(w, a, f)
          \/ \E u \in Users :
                \/ OpenToggle(w, a, u)
                \/ \E role \in Roles : OpenRole(w, a, u, role)
                \/ OpenResend(w, a, u)
          \/ \E e \in Emails : OpenMyAccount(w, a, e)
    \/ \E link \in mails : OpenVerify(w, link)

Serve(w) ==
    \/ InsertUser(w) \/ CreateProfile(w) \/ SaveNewProfile(w)
    \/ SaveToggle(w) \/ TouchProfile(w) \/ SaveRole(w)
    \/ SaveMyAccount(w) \/ SendMail(w) \/ SaveVerified(w)
    \/ LogAction(w)

Next == \E w \in Workers : Accept(w) \/ Serve(w)

Spec == Init /\ [][Next]_vars

-----------------------------------------------------------------------------
Job ==
    [actor : Users \cup {None}, target : Users \cup {None}, user : Account \cup {None},
     profile : Profile \cup {None},
     form : Signup \cup [email : Emails, cpf : {None}] \cup {None}, raced : BOOLEAN]

Labels == {"idle", "insert", "signal", "profile", "log_new", "toggle", "touch",
           "role", "my_account", "mail", "verify", "log"}

TypeOK ==
    /\ users \in [Users -> Account \cup {None}]
    /\ profiles \in [Users -> Profile \cup {None}]
    /\ mails \subseteq Token
    /\ log \in [Users -> Nat] /\ changes \in [Users -> Nat] /\ broken \in [Users -> Nat]
    /\ pc \in [Workers -> Labels]
    /\ job \in [Workers -> Job]
    /\ ops \in Nat
    /\ excused \in BOOLEAN

\* There is always a master who can log in, although toggle guards only
\* against oneself and a change of role against nothing: the last one goes
\* only if a master gave up the own role, if the author of the change was no
\* master any more when it was stored, or if the change overwrote another.
SomeMaster == Masters # {} \/ excused

\* Two accounts come to share an address, which nothing in the table forbids,
\* only by a request whose look-up was overtaken (UserCreateView.post,
\* EmailUpdateForm.clean_email) or that restored an address from its copy.
EmailSharedOnlyByRace ==
    [][\A u, v \in Users :
          /\ u # v /\ users'[u] # None /\ users'[v] # None
          /\ users'[u].email = users'[v].email
          /\ users[u] = None \/ users[v] = None \/ users[u].email # users[v].email
          => \E w \in Workers : pc'[w] # pc[w] /\ job[w].raced]_vars

\* An account stays behind half created, a reader without CPF, only if another
\* request took the CPF after it was looked up (UserCreateView.post).
HalfCreatedOnlyByRace ==
    \A w \in Workers :
        pc[w] = "profile" /\ CpfTaken(job[w].form.cpf, job[w].target) => job[w].raced

\* The rows a request needs are there; unless it was overtaken, its copy is the
\* row with its own column changed, and what it looked up is still free.
RequestInv(w) ==
    LET j == job[w]
        u == j.target
    IN /\ pc[w] \in {"insert", "signal", "profile", "log_new"} => j.form \in Signup
       /\ pc[w] = "insert" => u = None
       /\ pc[w] \in Labels \ {"idle", "insert"} => u \in Users /\ users[u] # None
       /\ pc[w] = "signal" => profiles[u] = None
       /\ pc[w] \in {"profile", "log_new", "role", "verify", "mail"} => profiles[u] # None
       /\ pc[w] = "profile" => j.profile.role = "simple"
       /\ pc[w] \in {"profile", "log_new", "role", "verify"} => j.profile \in Profile
       /\ pc[w] \in {"signal", "profile", "log_new", "toggle", "my_account", "mail"} =>
             j.user \in Account
       /\ pc[w] = "mail" /\ j.form # None => j.profile \in Profile
       /\ pc[w] = "my_account" => j.form # None /\ j.user.email = j.form.email
       /\ pc[w] = "toggle" => j.actor # u
       /\ pc[w] \in {"insert", "signal", "profile"} /\ CpfTaken(j.form.cpf, u) => j.raced
       /\ pc[w] \in {"insert", "my_account"} /\ EmailTaken(j.form.email, u) => j.raced
       /\ ~ j.raced =>
             /\ pc[w] = "toggle" => j.user = users[u]
             /\ pc[w] = "my_account" => j.user = [users[u] EXCEPT !.email = j.user.email]
             /\ pc[w] = "profile" => j.profile = profiles[u]
             /\ pc[w] = "role" => j.profile = [profiles[u] EXCEPT !.role = j.profile.role]
             /\ pc[w] = "verify" => j.profile = [profiles[u] EXCEPT !.verified = TRUE]

IndInv ==
    /\ TypeOK
    /\ SomeMaster /\ HalfCreatedOnlyByRace
    /\ \A u \in Users : users[u] = None => profiles[u] = None
    /\ \A link \in mails : users[link.user] # None
    /\ \A v, w \in Workers :
          v # w /\ pc[v] = "signal" /\ pc[w] = "signal" => job[v].target # job[w].target
    /\ \A w \in Workers : RequestInv(w)

\* A toggle changes only who is active, the own page only the address, a change
\* of role only the role, a link only the verified flag, unless the request's
\* copy was overtaken: it writes the whole row (UserToggleActiveView,
\* MyAccountView, UserChangeRoleView, VerifyEmailView).
OwnColumnOnly ==
    [][\A w \in Workers : pc'[w] # pc[w] /\ ~ job[w].raced =>
          LET u == job[w].target
          IN /\ pc[w] = "toggle" => users'[u] = [users[u] EXCEPT !.active = ~ @]
             /\ pc[w] = "my_account" => users'[u].active = users[u].active
             /\ pc[w] = "role" => profiles'[u] = [profiles[u] EXCEPT !.role = profiles'[u].role]
             /\ pc[w] = "verify" => profiles'[u] = [profiles[u] EXCEPT !.verified = TRUE]]_vars

\* Each change of an account has its row in the audit log, is about to get it,
\* or belongs to a request that ended in a server error.
EveryChangeLogged ==
    \A u \in Users :
        changes[u] = log[u] + broken[u] +
            Cardinality({w \in Workers : job[w].target = u /\
                pc[w] \in {"signal", "profile", "log_new", "touch", "log"}})
=============================================================================
