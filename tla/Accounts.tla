------------------------------ MODULE Accounts ------------------------------
(***************************************************************************)
(* Accounts, password links and team management: AuthService, TeamService  *)
(* and the tables users, organizations and password_reset_tokens.          *)
(*                                                                         *)
(* As in ReviewService, a worker is a thread serving a request, and every  *)
(* call of a repository class is a transaction of its own and an action    *)
(* here.  A request starts by reading the row of its user (the dependency  *)
(* get_current_user, cached for the request) and goes on with what it read.*)
(* Login and the lists change nothing.  A password is named by what set it *)
(* last; e-mail addresses are compared in lower case everywhere, so Emails *)
(* are the lower-case ones.                                                *)
(***************************************************************************)
EXTENDS Integers, FiniteSets

CONSTANTS
    Workers,   \* threads serving requests
    Orgs,      \* identifiers of organizations
    Users,     \* identifiers of users
    Emails,    \* addresses
    Tokens,    \* the random tokens of password links
    None,      \* no identifier
    Serial,    \* TRUE: clients change one organization, or use one link, at a time
    Faults     \* TRUE: a request may die, or fail outside its handlers

ASSUME NoneAssumption == None \notin Orgs \cup Users \cup Emails \cup Tokens
ASSUME PasswordNames == {"signup", "placeholder"} \cap Tokens = {}
ASSUME FlagAssumption == Serial \in BOOLEAN /\ Faults \in BOOLEAN

VARIABLES
    orgs,        \* ids with a row in organizations
    users,       \* ids with a row in users
    row,         \* the columns of that row, the last ones when it was deleted
    tokenUser,   \* the user_id of each row of password_reset_tokens
    expired,     \* tokens older than RESET_TOKEN_TTL
    spent,       \* tokens with a used_at
    mailed,      \* tokens whose link was sent
    applied,     \* history: tokens that have changed a password
    used,        \* identifiers drawn so far
    pc,          \* where each worker is
    task         \* what it works on

links == <<tokenUser, expired, spent, mailed, applied>>
vars == <<orgs, users, row, tokenUser, expired, spent, mailed, applied, used, pc, task>>

Roles == {"owner", "admin", "member"}

NoRow == [email |-> None, org |-> None, role |-> "member", password |-> "placeholder"]
NoTask == [org |-> None, user |-> None, email |-> None, role |-> "member", token |-> None,
           sender |-> None, senderRole |-> "member"]

Row == [email    : Emails \cup {None},
        org      : Orgs \cup {None},
        role     : Roles,
        password : {"signup", "placeholder"} \cup Tokens]

\* sender and senderRole: current_user of a change, as the request has read it.
Task == [org        : Orgs \cup {None},
         user       : Users \cup {None},
         email      : Emails \cup {None},
         role       : Roles \cup {"removed"},
         token      : Tokens \cup {None},
         sender     : Users \cup {None},
         senderRole : Roles]

PC == {"idle", "create_org", "create_user", "create_token", "send_mail", "check_email",
       "read_member", "count_owners", "update_role", "delete_user",
       "update_password", "mark_used"}

Init ==
    /\ orgs = {}
    /\ users = {}
    /\ row = [u \in Users |-> NoRow]
    /\ tokenUser = [t \in Tokens |-> None]
    /\ expired = {}
    /\ spent = {}
    /\ mailed = {}
    /\ applied = {}
    /\ used = {}
    /\ pc = [w \in Workers |-> "idle"]
    /\ task = [w \in Workers |-> NoTask]

-----------------------------------------------------------------------------
(* Requests and queries. *)

Begin(w, p, k) ==
    /\ pc[w] = "idle"
    /\ pc' = [pc EXCEPT ![w] = p]
    /\ task' = [task EXCEPT ![w] = k]

Goto(w, p, q) ==
    /\ pc[w] = p
    /\ pc' = [pc EXCEPT ![w] = q]

Finish(w) ==
    /\ pc' = [pc EXCEPT ![w] = "idle"]
    /\ task' = [task EXCEPT ![w] = NoTask]

Draw(ids) == ids \cap used = {} /\ used' = used \cup ids

EmailExists(e) == \E u \in users : row[u].email = e

\* A token names its user; only he is looked up, so a removed one is refused
\* and a changed role counts at once.
CurrentUser(a) == a \in users
RequireRoles(a, allowed) == CurrentUser(a) /\ row[a].role \in allowed

Members(o) == {u \in users : row[u].org = o}
Owners(o) == {u \in Members(o) : row[u].role = "owner"}

\* With Serial, a client waits for one change of a team, and for one use of a
\* link, before it sends the next.
AdmitsChange(o) ==
    Serial => \A w \in Workers :
                 task[w].org = o =>
                     pc[w] \notin {"read_member", "count_owners", "update_role", "delete_user"}
AdmitsUse(t) ==
    Serial => \A w \in Workers :
                 task[w].token = t => pc[w] \notin {"update_password", "mark_used"}

-----------------------------------------------------------------------------
(* POST /auth/signup *)

\* Mutant: the user is inserted first.
SignupUserFirst(w, e, o, u) ==
    /\ ~EmailExists(e)
    /\ Draw({o, u})
    /\ Begin(w, "create_user",
             [NoTask EXCEPT !.org = o, !.user = u, !.email = e, !.role = "owner"])
    /\ UNCHANGED <<orgs, users, row, links>>

\* The identifiers are drawn by the constructors that follow.
Signup(w, e, o, u) ==
    /\ ~EmailExists(e)
    /\ Draw({o, u})
    /\ Begin(w, "create_org",
             [NoTask EXCEPT !.org = o, !.user = u, !.email = e, !.role = "owner"])
    /\ UNCHANGED <<orgs, users, row, links>>

CreateOrganization(w) ==
    /\ Goto(w, "create_org", "create_user")
    /\ orgs' = orgs \cup {task[w].org}
    /\ UNCHANGED <<users, row, links, used, task>>

\* Mutant: the column email is not UNIQUE.
CreateUserAnyEmail(w) ==
    LET k == task[w]
    IN  /\ pc[w] = "create_user"
        /\ users' = users \cup {k.user}
        /\ row' = [row EXCEPT ![k.user] =
                      [email |-> k.email, org |-> k.org, role |-> k.role,
                       password |-> IF k.token = None THEN "signup" ELSE "placeholder"]]
        /\ IF k.token = None THEN Finish(w)
           ELSE Goto(w, "create_user", "create_token") /\ UNCHANGED task
        /\ UNCHANGED <<orgs, links, used>>

\* Mutant: an invited user is created and nothing follows.
CreateUserOnly(w) ==
    LET k == task[w]
    IN  /\ pc[w] = "create_user"
        /\ IF EmailExists(k.email) THEN UNCHANGED <<users, row>>
           ELSE /\ users' = users \cup {k.user}
                /\ row' = [row EXCEPT ![k.user] =
                              [email |-> k.email, org |-> k.org, role |-> k.role,
                               password |-> IF k.token = None THEN "signup" ELSE "placeholder"]]
        /\ Finish(w)
        /\ UNCHANGED <<orgs, links, used>>

\* The row of a user who signs up or is invited.  Another request may have
\* taken the address meanwhile: then UNIQUE fails the insertion, and the
\* request with it.
CreateUser(w) ==
    LET k == task[w]
    IN  /\ pc[w] = "create_user"
        /\ IF EmailExists(k.email)
           THEN Finish(w) /\ UNCHANGED <<users, row>>
           ELSE /\ users' = users \cup {k.user}
                /\ row' = [row EXCEPT ![k.user] =
                              [email |-> k.email, org |-> k.org, role |-> k.role,
                               password |-> IF k.token = None THEN "signup" ELSE "placeholder"]]
                /\ IF k.token = None THEN Finish(w)
                   ELSE Goto(w, "create_user", "create_token") /\ UNCHANGED task
        /\ UNCHANGED <<orgs, links, used>>

-----------------------------------------------------------------------------
(* POST /team/invite *)

AuthoriseInvite(w, a) ==
    /\ RequireRoles(a, {"owner", "admin"})
    /\ Begin(w, "check_email", [NoTask EXCEPT !.org = row[a].org])
    /\ UNCHANGED <<orgs, users, row, links, used>>

CheckInvitee(w, e, r, u, t) ==
    /\ Goto(w, "check_email", "create_user")
    /\ ~EmailExists(e)
    /\ Draw({u, t})
    /\ task' = [task EXCEPT ![w] = [@ EXCEPT !.user = u, !.email = e, !.role = r, !.token = t]]
    /\ UNCHANGED <<orgs, users, row, links>>

\* POST /auth/forgot-password, for an address that is registered.
RequestReset(w, u, t) ==
    /\ u \in users
    /\ Draw({t})
    /\ Begin(w, "create_token", [NoTask EXCEPT !.user = u, !.token = t])
    /\ UNCHANGED <<orgs, users, row, links>>

CreateToken(w) ==
    /\ Goto(w, "create_token", "send_mail")
    /\ tokenUser' = [tokenUser EXCEPT ![task[w].token] = task[w].user]
    /\ UNCHANGED <<orgs, users, row, expired, spent, mailed, applied, used, task>>

\* A provider that cannot send raises: see Abort.
SendMail(w) ==
    /\ pc[w] = "send_mail"
    /\ mailed' = mailed \cup {task[w].token}
    /\ Finish(w)
    /\ UNCHANGED <<orgs, users, row, tokenUser, expired, spent, applied, used>>

-----------------------------------------------------------------------------
(* POST /auth/reset-password *)

\* Mutant: the token is consumed at once, before the password is changed.
ResolveTokenConsuming(w, t) ==
    /\ t \in mailed \ (expired \cup spent)
    /\ AdmitsUse(t)
    /\ Begin(w, "update_password", [NoTask EXCEPT !.user = tokenUser[t], !.token = t])
    /\ spent' = spent \cup {t}
    /\ UNCHANGED <<orgs, users, row, tokenUser, expired, mailed, applied, used>>

\* Only the mail holds the token itself.
ResolveToken(w, t) ==
    /\ t \in mailed \ (expired \cup spent)
    /\ AdmitsUse(t)
    /\ Begin(w, "update_password", [NoTask EXCEPT !.user = tokenUser[t], !.token = t])
    /\ UNCHANGED <<orgs, users, row, links, used>>

\* Mutant: the link is kept by address, and changes whoever has it now.
UpdatePasswordByEmail(w) ==
    LET k == task[w]
        e == row[k.user].email
    IN  /\ Goto(w, "update_password", "mark_used")
        /\ row' = [u \in Users |-> IF u \in users /\ row[u].email = e
                                    THEN [row[u] EXCEPT !.password = k.token]
                                    ELSE row[u]]
        /\ applied' = applied \cup {k.token}
        /\ UNCHANGED <<orgs, users, tokenUser, expired, spent, mailed, used, task>>

\* An UPDATE of a user who was removed finds no row and is no error.
UpdatePassword(w) ==
    LET k == task[w]
    IN  /\ Goto(w, "update_password", "mark_used")
        /\ row' = IF k.user \in users
                  THEN [row EXCEPT ![k.user] = [@ EXCEPT !.password = k.token]]
                  ELSE row
        /\ applied' = applied \cup {k.token}
        /\ UNCHANGED <<orgs, users, tokenUser, expired, spent, mailed, used, task>>

MarkUsed(w) ==
    /\ pc[w] = "mark_used"
    /\ spent' = spent \cup {task[w].token}
    /\ Finish(w)
    /\ UNCHANGED <<orgs, users, row, tokenUser, expired, mailed, applied, used>>

Expire(t) ==
    /\ tokenUser[t] # None
    /\ t \notin expired
    /\ expired' = expired \cup {t}
    /\ UNCHANGED <<orgs, users, row, tokenUser, spent, mailed, applied, used, pc, task>>

-----------------------------------------------------------------------------
(* PATCH /team/members/{u}/role and DELETE /team/members/{u}               *)

\* Mutant: whoever may invite may change roles too.
AuthoriseChangeOfAdmin(w, a) ==
    /\ RequireRoles(a, {"owner", "admin"})
    /\ AdmitsChange(row[a].org)
    /\ Begin(w, "read_member", [NoTask EXCEPT !.org = row[a].org, !.sender = a,
                                              !.senderRole = row[a].role])
    /\ UNCHANGED <<orgs, users, row, links, used>>

AuthoriseChange(w, a) ==
    /\ RequireRoles(a, {"owner"})
    /\ AdmitsChange(row[a].org)
    /\ Begin(w, "read_member", [NoTask EXCEPT !.org = row[a].org, !.sender = a,
                                              !.senderRole = row[a].role])
    /\ UNCHANGED <<orgs, users, row, links, used>>

ChangeOf(r) == IF r = "removed" THEN "delete_user" ELSE "update_role"

\* Mutant: the organization of the member is not compared.
ReadMemberAnywhere(w, u, r) ==
    /\ u \in users
    /\ Goto(w, "read_member",
            IF row[u].role = "owner" /\ r # "owner" THEN "count_owners" ELSE ChangeOf(r))
    /\ task' = [task EXCEPT ![w] = [@ EXCEPT !.user = u, !.role = r]]
    /\ UNCHANGED <<orgs, users, row, links, used>>

\* Mutant: a removal does not look at the role of the member.
ReadMemberRemovingFreely(w, u, r) ==
    /\ u \in Members(task[w].org)
    /\ Goto(w, "read_member",
            IF row[u].role = "owner" /\ r \in {"admin", "member"}
            THEN "count_owners" ELSE ChangeOf(r))
    /\ task' = [task EXCEPT ![w] = [@ EXCEPT !.user = u, !.role = r]]
    /\ UNCHANGED <<orgs, users, row, links, used>>

\* _get_member, and whether the last owner is in question.
ReadMember(w, u, r) ==
    /\ u \in Members(task[w].org)
    /\ Goto(w, "read_member",
            IF row[u].role = "owner" /\ r # "owner" THEN "count_owners" ELSE ChangeOf(r))
    /\ task' = [task EXCEPT ![w] = [@ EXCEPT !.user = u, !.role = r]]
    /\ UNCHANGED <<orgs, users, row, links, used>>

\* The invitee's address is taken, or the member unknown.
Reject(w) ==
    /\ pc[w] \in {"check_email", "read_member"}
    /\ Finish(w)
    /\ UNCHANGED <<orgs, users, row, links, used>>

\* Mutant: the comparison counts from zero.
RequireAnOwner(w) ==
    /\ pc[w] = "count_owners"
    /\ IF Cardinality(Owners(task[w].org)) < 1
       THEN Finish(w)
       ELSE Goto(w, "count_owners", ChangeOf(task[w].role)) /\ UNCHANGED task
    /\ UNCHANGED <<orgs, users, row, links, used>>

RequireNotLastOwner(w) ==
    /\ pc[w] = "count_owners"
    /\ IF Cardinality(Owners(task[w].org)) <= 1
       THEN Finish(w)
       ELSE Goto(w, "count_owners", ChangeOf(task[w].role)) /\ UNCHANGED task
    /\ UNCHANGED <<orgs, users, row, links, used>>

UpdateRole(w) ==
    LET k == task[w]
    IN  /\ pc[w] = "update_role"
        /\ row' = IF k.user \in users
                  THEN [row EXCEPT ![k.user] = [@ EXCEPT !.role = k.role]]
                  ELSE row
        /\ Finish(w)
        /\ UNCHANGED <<orgs, users, links, used>>

DeleteUser(w) ==
    /\ pc[w] = "delete_user"
    /\ users' = users \ {task[w].user}
    /\ Finish(w)
    /\ UNCHANGED <<orgs, row, links, used>>

-----------------------------------------------------------------------------
\* An exception no handler catches (the database, the mail server), or the
\* death of the process.
Abort(w) ==
    /\ Faults
    /\ pc[w] # "idle"
    /\ Finish(w)
    /\ UNCHANGED <<orgs, users, row, links, used>>

Request(w) ==
    \/ \E e \in Emails, o \in Orgs, u \in Users : Signup(w, e, o, u)
    \/ \E u \in Users : AuthoriseInvite(w, u) \/ AuthoriseChange(w, u)
    \/ \E u \in Users, t \in Tokens : RequestReset(w, u, t)
    \/ \E t \in Tokens : ResolveToken(w, t)

Step(w) ==
    \/ CreateOrganization(w)
    \/ CreateUser(w)
    \/ \E e \in Emails, r \in Roles, u \in Users, t \in Tokens : CheckInvitee(w, e, r, u, t)
    \/ CreateToken(w)
    \/ SendMail(w)
    \/ UpdatePassword(w)
    \/ MarkUsed(w)
    \/ \E u \in Users, r \in Roles \cup {"removed"} : ReadMember(w, u, r)
    \/ Reject(w)
    \/ RequireNotLastOwner(w)
    \/ UpdateRole(w)
    \/ DeleteUser(w)

Next ==
    \/ \E w \in Workers : Request(w) \/ Step(w) \/ Abort(w)
    \/ \E t \in Tokens : Expire(t)

Spec == Init /\ [][Next]_vars

\* A thread that has a step to take takes it: mail and database calls run
\* under timeouts.  Clients owe nothing.
FairSpec == Spec /\ \A w \in Workers : WF_vars(Step(w))

-----------------------------------------------------------------------------
(* Properties that hold under every interleaving, and when requests die.   *)

\* Every variable has its type, and every user an organization that exists: it
\* is inserted before him and never deleted.
TypeOK ==
    /\ orgs \subseteq Orgs
    /\ users \subseteq Users
    /\ row \in [Users -> Row]
    /\ tokenUser \in [Tokens -> Users \cup {None}]
    /\ expired \subseteq Tokens
    /\ spent \subseteq Tokens
    /\ mailed \subseteq Tokens
    /\ applied \subseteq Tokens
    /\ used \subseteq Orgs \cup Users \cup Tokens
    /\ pc \in [Workers -> PC]
    /\ task \in [Workers -> Task]
    /\ \A u \in users : row[u].org \in orgs

\* An address names one user: login and password reset look users up by it.
\* Signups and invitations check it one transaction before they insert.
EmailNamesOneUser ==
    \A u, v \in users : row[u].email = row[v].email => u = v

\* A link changes the password of the user it was made for and of no other,
\* whoever signs up, is invited or removed meanwhile.
PasswordFromOwnLink ==
    \A u \in Users : row[u].password \in Tokens =>
        row[u].password \in mailed /\ tokenUser[row[u].password] = u

\* A link that is used up has done its work: a request that dies half-way
\* leaves the user either the old password and a valid link, or the new one.
SpentLinkWasApplied == spent \subseteq applied

\* A worker is about to change user u, for a sender of the same organization whom
\* the request has read as an owner; with Serial he still is one.
OwnerChanges(w, u) ==
    LET k == task[w]
    IN  /\ pc[w] \in {"update_role", "delete_user"}
        /\ k.user = u
        /\ k.sender \in Users /\ row[k.sender].org = row[u].org
        /\ k.senderRole = "owner"
        /\ Serial => k.sender \in Owners(row[u].org)

\* Nobody is removed or gets another role but by a request whose sender was an
\* owner of the same organization when it was authorised, and still is one when
\* the change is made, unless several changes of the team are sent at once.
ChangesStayInOrganization ==
    [][\A u \in users : (u \notin users' \/ row'[u].role # row[u].role) =>
                             \E w \in Workers : OwnerChanges(w, u)]_vars

-----------------------------------------------------------------------------
(* Properties that need one change of a team at a time, or one use of a     *)
(* link at a time.                                                         *)

\* An organization that ever had a user has an owner.
OwnerRemains ==
    \A u \in Users : row[u].org # None => Owners(row[u].org) # {}

Directory == INSTANCE TeamDirectory WITH
                 Nobody <- None,
                 home   <- [u \in Users |-> row[u].org],
                 role   <- [u \in Users |-> IF u \in users THEN row[u].role ELSE "none"]

\* Changes of one team that are sent one after the other, interleaved with
\* invitations, signups and changes of other teams and dying anywhere, are
\* those of the directory.
ImplementsDirectory == Directory!Spec

\* While no request dies, whoever is invited gets a link to set his password,
\* or is removed.
InviteeGetsLink ==
    \A u \in Users :
        (u \in users /\ row[u].password = "placeholder")
            ~> (u \notin users \/ \E t \in mailed : tokenUser[t] = u)
=============================================================================
