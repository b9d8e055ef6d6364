--------------------------- MODULE AccountsProofs ---------------------------
(***************************************************************************)
(* Theorems about Accounts, for any number of threads, organizations,      *)
(* users, addresses and links, and requests that die anywhere.             *)
(***************************************************************************)
EXTENDS Accounts, FiniteSetTheorems, TLAPS

\* Where a request makes a user, a link, changes a member, and uses a link.
JoinPC == {"create_org", "create_user"}
LinkPC == {"create_token", "send_mail"}
ChangePC == {"count_owners", "update_role", "delete_user"}
UsePC == {"update_password", "mark_used"}

\* What a request holds at each of its steps.
WorkerShape(w) ==
    /\ pc[w] \in JoinPC \cup ChangePC \cup {"check_email", "read_member"} => task[w].org \in Orgs
    /\ pc[w] \in JoinPC \cup ChangePC \cup LinkPC \cup UsePC => task[w].user \in Users
    /\ pc[w] \in JoinPC => task[w].email \in Emails
    /\ pc[w] \in JoinPC \cup {"update_role"} => task[w].role \in Roles
    /\ pc[w] \in LinkPC \cup UsePC => task[w].token \in Tokens
    /\ pc[w] \in {"create_user", "check_email"} => task[w].org \in orgs

TypeInv == TypeOK /\ \A w \in Workers : WorkerShape(w)

\* An identifier has one request that makes something of it: the user of a
\* request that has yet to insert him has no row, and its link has no mail.
DrawnOnce(w) ==
    /\ pc[w] \in JoinPC => task[w].user \in used /\ row[task[w].user].org = None
    /\ pc[w] \in JoinPC \cup LinkPC => task[w].token \in used \cup {None}
    /\ pc[w] \in JoinPC \cup {"create_token"} => task[w].token \notin mailed
    /\ pc[w] = "send_mail" => tokenUser[task[w].token] = task[w].user

Apart(w, v) ==
    /\ pc[w] \in JoinPC /\ pc[v] \in JoinPC => task[w].user # task[v].user
    /\ pc[w] \in JoinPC \cup LinkPC /\ pc[v] \in JoinPC \cup LinkPC /\ task[w].token # None =>
           task[w].token # task[v].token

\* A change is of a member of the organization its sender owns, and a link in
\* use was mailed, to the user whose password it changes.
Authorised(w) ==
    /\ pc[w] \in ChangePC => task[w].org = row[task[w].user].org
    /\ pc[w] \in UsePC => /\ task[w].token \in mailed
                          /\ tokenUser[task[w].token] = task[w].user
    /\ pc[w] = "mark_used" => task[w].token \in applied

DrawnAreUsed ==
    /\ \A t \in mailed : t \in used /\ tokenUser[t] \in Users
    /\ \A u \in Users : row[u].org # None => u \in used

Inv ==
    /\ TypeInv
    /\ EmailNamesOneUser
    /\ PasswordFromOwnLink
    /\ SpentLinkWasApplied
    /\ DrawnAreUsed
    /\ \A w \in Workers : DrawnOnce(w) /\ Authorised(w)
    /\ \A w, v \in Workers : w # v => Apart(w, v)

-----------------------------------------------------------------------------
(* What the records are that requests pass on: Zenon takes one field at a  *)
(* time.                                                                   *)

Invited(k, u, e, r, t) == [k EXCEPT !.user = u, !.email = e, !.role = r, !.token = t]
ForLink(u, t) == [NoTask EXCEPT !.user = u, !.token = t]
Chosen(k, u, r) == [k EXCEPT !.user = u, !.role = r]
Sent(o, a, r) == [NoTask EXCEPT !.org = o, !.sender = a, !.senderRole = r]

\* The task of an invitation ...
LEMMA InvitedTask ==
    ASSUME NEW k \in Task, NEW u \in Users, NEW e \in Emails, NEW r \in Roles, NEW t \in Tokens,
           NEW x, x = Invited(k, u, e, r, t)
    PROVE  /\ x \in Task /\ x.org = k.org
           /\ x.user = u /\ x.email = e /\ x.role = r /\ x.token = t
<1>1. x \in Task
  BY DEF Task, Invited
<1>2. x.org = k.org
  BY DEF Task, Invited
<1>3. x.user = u
  BY DEF Task, Invited
<1>4. x.email = e
  BY DEF Task, Invited
<1>5. x.role = r
  BY DEF Task, Invited
<1>6. x.token = t
  BY DEF Task, Invited
<1> QED
  BY <1>1, <1>2, <1>3, <1>4, <1>5, <1>6

\* ... of a password link ...
LEMMA LinkTask ==
    ASSUME NEW u \in Users, NEW t \in Tokens, NEW x, x = ForLink(u, t)
    PROVE  x \in Task /\ x.user = u /\ x.token = t
<1>1. x \in Task
  BY DEF ForLink, Task, NoTask, Roles
<1>2. x.user = u
  BY DEF ForLink, NoTask
<1>3. x.token = t
  BY DEF ForLink, NoTask
<1> QED
  BY <1>1, <1>2, <1>3

\* ... of a change that its sender may make ...
LEMMA SentTask ==
    ASSUME NEW o \in Orgs \cup {None}, NEW a \in Users, NEW r \in Roles, NEW x, x = Sent(o, a, r)
    PROVE  x \in Task /\ x.org = o /\ x.sender = a /\ x.senderRole = r
<1>1. x \in Task
  BY DEF Sent, Task, NoTask, Roles
<1>2. x.org = o
  BY DEF Sent, NoTask
<1>3. x.sender = a
  BY DEF Sent, NoTask
<1>4. x.senderRole = r
  BY DEF Sent, NoTask
<1> QED
  BY <1>1, <1>2, <1>3, <1>4

\* ... and of that change to a member.
LEMMA ChangeTask ==
    ASSUME NEW k \in Task, NEW u \in Users, NEW r \in Roles \cup {"removed"},
           NEW x, x = Chosen(k, u, r)
    PROVE  /\ x \in Task /\ x.org = k.org /\ x.user = u /\ x.role = r
           /\ x.sender = k.sender /\ x.senderRole = k.senderRole
<1>1. x \in Task
  BY DEF Task, Chosen
<1>2. x.org = k.org
  BY DEF Task, Chosen
<1>3. x.user = u
  BY DEF Task, Chosen
<1>4. x.role = r
  BY DEF Task, Chosen
<1>5. x.sender = k.sender
  BY DEF Task, Chosen
<1>6. x.senderRole = k.senderRole
  BY DEF Task, Chosen
<1> QED
  BY <1>1, <1>2, <1>3, <1>4, <1>5, <1>6

-----------------------------------------------------------------------------
(* The invariant, one action at a time.                                    *)

\* Nobody is registered at first, and no link exists.
LEMMA InitInv == Init => Inv
BY NoneAssumption, PasswordNames
   DEF Init, Inv, TypeInv, TypeOK, WorkerShape, EmailNamesOneUser, PasswordFromOwnLink,
       SpentLinkWasApplied, DrawnAreUsed, DrawnOnce, Authorised, Apart, NoRow, NoTask, Row, Task,
       Roles, PC, JoinPC, LinkPC, ChangePC, UsePC

\* A signup draws an organization and a user that nobody else has.
LEMMA SignupInv ==
    ASSUME Inv, NEW w \in Workers, NEW e \in Emails, NEW o \in Orgs, NEW u \in Users,
           Signup(w, e, o, u)
    PROVE  Inv'
<1>1. TypeInv'
  BY DEF Inv, TypeInv, TypeOK, WorkerShape, LinkPC, UsePC, links, Signup, Draw, Begin, NoTask,
         Task, Roles, PC
<1>2. EmailNamesOneUser' /\ SpentLinkWasApplied' /\ DrawnAreUsed'
  BY DEF Inv, links, Signup, Draw, EmailNamesOneUser, SpentLinkWasApplied, DrawnAreUsed
<1>3. PasswordFromOwnLink'
  BY DEF Inv, links, Signup, PasswordFromOwnLink
<1>4. \A v \in Workers : DrawnOnce(v)' /\ Authorised(v)'
  BY NoneAssumption
     DEF Inv, TypeInv, TypeOK, ChangePC, UsePC, links, Signup, Draw, Begin, DrawnOnce,
         Authorised, DrawnAreUsed, NoTask
<1>5. \A v, x \in Workers : v # x => Apart(v, x)'
  BY DEF Inv, TypeInv, TypeOK, Signup, Draw, Begin, DrawnOnce, Apart, NoTask
<1> QED
  BY <1>1, <1>2, <1>3, <1>4, <1>5 DEF Inv

\* The organization is created; the user is not yet.
LEMMA CreateOrganizationInv ==
    ASSUME Inv, NEW w \in Workers, CreateOrganization(w)
    PROVE  Inv'
<1>1. TypeInv'
  BY DEF Inv, TypeInv, TypeOK, WorkerShape, JoinPC, LinkPC, UsePC, links, CreateOrganization,
         Goto, PC
<1>2. EmailNamesOneUser' /\ SpentLinkWasApplied' /\ DrawnAreUsed'
  BY DEF Inv, links, CreateOrganization, EmailNamesOneUser, SpentLinkWasApplied, DrawnAreUsed
<1>3. PasswordFromOwnLink'
  BY DEF Inv, links, CreateOrganization, PasswordFromOwnLink
<1>4. \A v \in Workers : DrawnOnce(v)' /\ Authorised(v)'
  BY DEF Inv, JoinPC, ChangePC, UsePC, links, CreateOrganization, Goto, DrawnOnce, Authorised
<1>5. \A v, x \in Workers : v # x => Apart(v, x)'
  BY DEF Inv, JoinPC, CreateOrganization, Goto, Apart
<1> QED
  BY <1>1, <1>2, <1>3, <1>4, <1>5 DEF Inv

\* An e-mail that is taken by now is refused, so it names one user.
LEMMA CreateUserInv ==
    ASSUME Inv, NEW w \in Workers, CreateUser(w)
    PROVE  Inv'
<1>1. TypeInv'
  <2> DEFINE k == task[w]
             joined == [email |-> k.email, org |-> k.org, role |-> k.role,
                        password |-> IF k.token = None THEN "signup" ELSE "placeholder"]
  <2>1. k \in Task /\ k.org \in orgs /\ k.user \in Users /\ joined \in Row
    BY DEF Inv, TypeInv, TypeOK, WorkerShape, JoinPC, CreateUser, Row
  <2>2. /\ users' \subseteq Users
        /\ row' \in [Users -> Row]
        /\ \A u \in users' : row'[u].org \in orgs'
    <3>1. CASE EmailExists(k.email)
      BY <3>1 DEF Inv, TypeInv, TypeOK, CreateUser
    <3>2. CASE ~EmailExists(k.email)
      <4> HIDE DEF joined
      <4>1. users' = users \cup {k.user} /\ row' = [row EXCEPT ![k.user] = joined]
        BY <3>2 DEF CreateUser, joined
      <4>2. joined.org = k.org
        BY DEF joined
      <4> QED
        BY <2>1, <4>1 DEF Inv, TypeInv, TypeOK, CreateUser
    <3> QED
      BY <3>2 DEF Inv, TypeInv, TypeOK, CreateUser
  <2>3. pc' \in [Workers -> PC]
    BY DEF Inv, TypeInv, TypeOK, CreateUser, Goto, Finish, PC
  <2>5. NoTask \in Task
    BY DEF NoTask, Task, Roles
  <2>6. task' \in [Workers -> Task]
    BY <2>5 DEF Inv, TypeInv, TypeOK, CreateUser, Finish
  <2>4. \A v \in Workers : WorkerShape(v)'
    BY DEF Inv, TypeInv, TypeOK, WorkerShape, JoinPC, LinkPC, ChangePC, UsePC, CreateUser,
           Goto, Finish, Task
  <2> QED
    BY <2>2, <2>3, <2>4, <2>6 DEF Inv, TypeInv, TypeOK, links, CreateUser
<1>2. EmailNamesOneUser' /\ SpentLinkWasApplied' /\ DrawnAreUsed'
  BY DEF Inv, TypeInv, TypeOK, WorkerShape, JoinPC, links, CreateUser, EmailExists,
         EmailNamesOneUser, SpentLinkWasApplied, DrawnAreUsed, DrawnOnce
<1>3. PasswordFromOwnLink'
  BY PasswordNames DEF Inv, TypeInv, TypeOK, UsePC, links, CreateUser, PasswordFromOwnLink
<1>4. \A v \in Workers : DrawnOnce(v)' /\ Authorised(v)'
  BY NoneAssumption, PasswordNames
     DEF Inv, TypeInv, TypeOK, WorkerShape, JoinPC, ChangePC, UsePC, links, CreateUser, Goto,
         Finish, DrawnOnce, Authorised, Apart, NoTask
<1>5. \A v, x \in Workers : v # x => Apart(v, x)'
  BY DEF Inv, TypeInv, TypeOK, JoinPC, CreateUser, Goto, Finish, Apart, NoTask
<1> QED
  BY <1>1, <1>2, <1>3, <1>4, <1>5 DEF Inv

\* An invitation that is allowed changes no table.
LEMMA AuthoriseInviteInv ==
    ASSUME Inv, NEW w \in Workers, NEW a \in Users, AuthoriseInvite(w, a)
    PROVE  Inv'
<1>1. TypeInv'
  BY DEF Inv, TypeInv, TypeOK, WorkerShape, JoinPC, LinkPC, ChangePC, UsePC, links,
         AuthoriseInvite, RequireRoles, CurrentUser, Begin, NoTask, Task, Roles, PC
<1>2. EmailNamesOneUser' /\ SpentLinkWasApplied' /\ DrawnAreUsed'
  BY DEF Inv, links, AuthoriseInvite, EmailNamesOneUser, SpentLinkWasApplied, DrawnAreUsed
<1>3. PasswordFromOwnLink'
  BY DEF Inv, links, AuthoriseInvite, PasswordFromOwnLink
<1>4. \A v \in Workers : DrawnOnce(v)' /\ Authorised(v)'
  BY DEF Inv, JoinPC, LinkPC, ChangePC, UsePC, links, AuthoriseInvite, Begin, DrawnOnce,
         Authorised
<1>5. \A v, x \in Workers : v # x => Apart(v, x)'
  BY DEF Inv, JoinPC, LinkPC, AuthoriseInvite, Begin, Apart
<1> QED
  BY <1>1, <1>2, <1>3, <1>4, <1>5 DEF Inv

\* An invitation draws a user and a link that nobody else has.
LEMMA CheckInviteeInv ==
    ASSUME Inv, NEW w \in Workers, NEW e \in Emails, NEW r \in Roles, NEW u \in Users,
           NEW t \in Tokens, CheckInvitee(w, e, r, u, t)
    PROVE  Inv'
<1> DEFINE k == Invited(task[w], u, e, r, t)
<1>a. task' = [task EXCEPT ![w] = k]
  BY DEF CheckInvitee, Invited
<1>b. task[w] \in Task
  BY DEF Inv, TypeInv, TypeOK
<1>c. /\ k \in Task /\ k.org = task[w].org
      /\ k.user = u /\ k.email = e /\ k.role = r /\ k.token = t
  BY <1>b, InvitedTask
<1> HIDE DEF k
<1>1. TypeInv'
  BY <1>a, <1>c DEF Inv, TypeInv, TypeOK, WorkerShape, links, CheckInvitee, Draw, Goto, PC
<1>2. EmailNamesOneUser' /\ SpentLinkWasApplied' /\ DrawnAreUsed'
  BY DEF Inv, links, CheckInvitee, Draw, EmailNamesOneUser, SpentLinkWasApplied, DrawnAreUsed
<1>3. PasswordFromOwnLink'
  BY DEF Inv, links, CheckInvitee, PasswordFromOwnLink
<1>4. \A v \in Workers : DrawnOnce(v)' /\ Authorised(v)'
  BY DEF Inv, TypeInv, TypeOK, ChangePC, UsePC, links, CheckInvitee, Draw, Goto, DrawnOnce,
         Authorised, DrawnAreUsed
<1>5. \A v, x \in Workers : v # x => Apart(v, x)'
  BY DEF Inv, TypeInv, TypeOK, CheckInvitee, Draw, Goto, DrawnOnce, Apart
<1> QED
  BY <1>1, <1>2, <1>3, <1>4, <1>5 DEF Inv

\* A reset draws a link for the user the e-mail names.
LEMMA RequestResetInv ==
    ASSUME Inv, NEW w \in Workers, NEW u \in Users, NEW t \in Tokens, RequestReset(w, u, t)
    PROVE  Inv'
<1>1. TypeInv'
  BY DEF Inv, TypeInv, TypeOK, WorkerShape, JoinPC, ChangePC, links, RequestReset, Draw, Begin,
         NoTask, Task, Roles, PC
<1>2. EmailNamesOneUser' /\ SpentLinkWasApplied' /\ DrawnAreUsed'
  BY DEF Inv, links, RequestReset, Draw, EmailNamesOneUser, SpentLinkWasApplied, DrawnAreUsed
<1>3. PasswordFromOwnLink'
  BY DEF Inv, links, RequestReset, PasswordFromOwnLink
<1>4. \A v \in Workers : DrawnOnce(v)' /\ Authorised(v)'
  BY DEF Inv, TypeInv, TypeOK, JoinPC, ChangePC, UsePC, links, RequestReset, Draw, Begin,
         DrawnOnce, Authorised, DrawnAreUsed
<1>5. \A v, x \in Workers : v # x => Apart(v, x)'
  BY DEF Inv, TypeInv, TypeOK, JoinPC, RequestReset, Draw, Begin, DrawnOnce, Apart
<1> QED
  BY <1>1, <1>2, <1>3, <1>4, <1>5 DEF Inv

\* The link is stored for the user of its request.
LEMMA CreateTokenInv ==
    ASSUME Inv, NEW w \in Workers, CreateToken(w)
    PROVE  Inv'
<1>1. TypeInv'
  BY DEF Inv, TypeInv, TypeOK, WorkerShape, JoinPC, LinkPC, ChangePC, CreateToken, Goto, PC
<1>2. EmailNamesOneUser' /\ SpentLinkWasApplied' /\ DrawnAreUsed'
  BY DEF Inv, CreateToken, Goto, EmailNamesOneUser, SpentLinkWasApplied, DrawnAreUsed,
         DrawnOnce
<1>3. PasswordFromOwnLink'
  BY DEF Inv, CreateToken, Goto, PasswordFromOwnLink, DrawnOnce
<1>4. \A v \in Workers : DrawnOnce(v)' /\ Authorised(v)'
  BY NoneAssumption
     DEF Inv, TypeInv, TypeOK, WorkerShape, JoinPC, LinkPC, ChangePC, UsePC, CreateToken, Goto,
         DrawnOnce, Authorised, Apart
<1>5. \A v, x \in Workers : v # x => Apart(v, x)'
  BY DEF Inv, JoinPC, LinkPC, CreateToken, Goto, Apart
<1> QED
  BY <1>1, <1>2, <1>3, <1>4, <1>5 DEF Inv

\* The mail with the link goes to the user's own address.
LEMMA SendMailInv ==
    ASSUME Inv, NEW w \in Workers, SendMail(w)
    PROVE  Inv'
<1>1. TypeInv'
  BY DEF Inv, TypeInv, TypeOK, WorkerShape, JoinPC, LinkPC, ChangePC, UsePC, SendMail, Finish,
         NoTask, Task, Roles, PC
<1>2. EmailNamesOneUser' /\ SpentLinkWasApplied' /\ DrawnAreUsed'
  BY NoneAssumption
     DEF Inv, TypeInv, WorkerShape, LinkPC, SendMail, EmailNamesOneUser, SpentLinkWasApplied,
         DrawnAreUsed, DrawnOnce
<1>3. PasswordFromOwnLink'
  BY DEF Inv, SendMail, PasswordFromOwnLink
<1>4. \A v \in Workers : DrawnOnce(v)' /\ Authorised(v)'
  BY NoneAssumption
     DEF Inv, TypeInv, TypeOK, WorkerShape, JoinPC, LinkPC, ChangePC, UsePC, SendMail, Finish,
         DrawnOnce, Authorised, Apart
<1>5. \A v, x \in Workers : v # x => Apart(v, x)'
  BY DEF Inv, JoinPC, LinkPC, SendMail, Finish, Apart, NoTask
<1> QED
  BY <1>1, <1>2, <1>3, <1>4, <1>5 DEF Inv

\* Whoever resolves a link learns its owner and nothing else.
LEMMA ResolveTokenInv ==
    ASSUME Inv, NEW w \in Workers, NEW t \in Tokens, ResolveToken(w, t)
    PROVE  Inv'
<1> DEFINE k == ForLink(tokenUser[t], t)
<1>a. task' = [task EXCEPT ![w] = k]
  BY DEF ResolveToken, Begin, ForLink
<1>b. tokenUser[t] \in Users
  BY DEF ResolveToken, Inv, DrawnAreUsed
<1>c. k \in Task /\ k.user = tokenUser[t] /\ k.token = t
  BY <1>b, LinkTask
<1> HIDE DEF k
<1>1. TypeInv'
  BY <1>a, <1>b, <1>c
     DEF Inv, TypeInv, TypeOK, WorkerShape, JoinPC, ChangePC, links, ResolveToken, Begin, PC
<1>2. EmailNamesOneUser' /\ SpentLinkWasApplied' /\ DrawnAreUsed'
  BY DEF Inv, links, ResolveToken, EmailNamesOneUser, SpentLinkWasApplied, DrawnAreUsed
<1>3. PasswordFromOwnLink'
  BY DEF Inv, links, ResolveToken, PasswordFromOwnLink
<1>4. \A v \in Workers : DrawnOnce(v)' /\ Authorised(v)'
  BY DEF Inv, TypeInv, TypeOK, JoinPC, ChangePC, links, ResolveToken, Begin, DrawnOnce,
         Authorised, DrawnAreUsed
<1>5. \A v, x \in Workers : v # x => Apart(v, x)'
  BY DEF Inv, JoinPC, LinkPC, ResolveToken, Begin, Apart
<1> QED
  BY <1>1, <1>2, <1>3, <1>4, <1>5 DEF Inv

\* The password set through a link is its owner's.
LEMMA UpdatePasswordInv ==
    ASSUME Inv, NEW w \in Workers, UpdatePassword(w)
    PROVE  Inv'
<1>1. TypeInv'
  BY DEF Inv, TypeInv, TypeOK, WorkerShape, JoinPC, LinkPC, ChangePC, UsePC, UpdatePassword,
         Goto, Row, PC
<1>2. EmailNamesOneUser' /\ SpentLinkWasApplied' /\ DrawnAreUsed'
  BY DEF Inv, UpdatePassword, EmailNamesOneUser, SpentLinkWasApplied, DrawnAreUsed
<1>3. PasswordFromOwnLink'
  BY DEF Inv, UsePC, UpdatePassword, Goto, PasswordFromOwnLink, Authorised
<1>4. \A v \in Workers : DrawnOnce(v)' /\ Authorised(v)'
  BY DEF Inv, JoinPC, ChangePC, UsePC, UpdatePassword, Goto, DrawnOnce, Authorised,
         DrawnAreUsed
<1>5. \A v, x \in Workers : v # x => Apart(v, x)'
  BY DEF Inv, JoinPC, LinkPC, UpdatePassword, Goto, Apart
<1> QED
  BY <1>1, <1>2, <1>3, <1>4, <1>5 DEF Inv

\* The link is spent after the password was set.
LEMMA MarkUsedInv ==
    ASSUME Inv, NEW w \in Workers, MarkUsed(w)
    PROVE  Inv'
<1>1. TypeInv'
  BY DEF Inv, TypeInv, TypeOK, WorkerShape, JoinPC, LinkPC, ChangePC, UsePC, MarkUsed, Finish,
         NoTask, Task, Roles, PC
<1>2. EmailNamesOneUser' /\ SpentLinkWasApplied' /\ DrawnAreUsed'
  BY DEF Inv, MarkUsed, EmailNamesOneUser, SpentLinkWasApplied, DrawnAreUsed, Authorised
<1>3. PasswordFromOwnLink'
  BY DEF Inv, MarkUsed, PasswordFromOwnLink
<1>4. \A v \in Workers : DrawnOnce(v)' /\ Authorised(v)'
  BY DEF Inv, TypeInv, TypeOK, JoinPC, ChangePC, UsePC, MarkUsed, Finish, DrawnOnce,
         Authorised, NoTask
<1>5. \A v, x \in Workers : v # x => Apart(v, x)'
  BY DEF Inv, JoinPC, LinkPC, MarkUsed, Finish, Apart
<1> QED
  BY <1>1, <1>2, <1>3, <1>4, <1>5 DEF Inv

\* A link that expires sets no password.
LEMMA ExpireInv ==
    ASSUME Inv, NEW t \in Tokens, Expire(t)
    PROVE  Inv'
<1>1. TypeInv'
  BY DEF Inv, TypeInv, TypeOK, WorkerShape, Expire
<1>2. EmailNamesOneUser' /\ SpentLinkWasApplied' /\ DrawnAreUsed'
  BY DEF Inv, Expire, EmailNamesOneUser, SpentLinkWasApplied, DrawnAreUsed
<1>3. PasswordFromOwnLink'
  BY DEF Inv, Expire, PasswordFromOwnLink
<1>4. \A v \in Workers : DrawnOnce(v)' /\ Authorised(v)'
  BY DEF Inv, Expire, DrawnOnce, Authorised
<1>5. \A v, x \in Workers : v # x => Apart(v, x)'
  BY DEF Inv, Expire, Apart
<1> QED
  BY <1>2, <1>3, <1>4, <1>5 DEF Inv, TypeInv, TypeOK, WorkerShape, Expire

\* A change that is allowed is not made yet.
LEMMA AuthoriseChangeInv ==
    ASSUME Inv, NEW w \in Workers, NEW a \in Users, AuthoriseChange(w, a)
    PROVE  Inv'
<1> DEFINE k == Sent(row[a].org, a, row[a].role)
<1>a. task' = [task EXCEPT ![w] = k]
  BY DEF AuthoriseChange, Begin, Sent
<1>b. row[a].org \in orgs /\ row[a].org \in Orgs /\ row[a].role \in Roles
  BY DEF AuthoriseChange, RequireRoles, CurrentUser, Inv, TypeInv, TypeOK, Row
<1>c. k \in Task /\ k.org = row[a].org
  BY <1>b, SentTask
<1> HIDE DEF k
<1>1. TypeInv'
  BY <1>a, <1>b, <1>c
     DEF Inv, TypeInv, TypeOK, WorkerShape, JoinPC, LinkPC, ChangePC, UsePC, links,
         AuthoriseChange, Begin, PC
<1>2. EmailNamesOneUser' /\ SpentLinkWasApplied' /\ DrawnAreUsed'
  BY DEF Inv, links, AuthoriseChange, EmailNamesOneUser, SpentLinkWasApplied, DrawnAreUsed
<1>3. PasswordFromOwnLink'
  BY DEF Inv, links, AuthoriseChange, PasswordFromOwnLink
<1>4. \A v \in Workers : DrawnOnce(v)' /\ Authorised(v)'
  BY DEF Inv, JoinPC, LinkPC, ChangePC, UsePC, links, AuthoriseChange, Begin, DrawnOnce,
         Authorised
<1>5. \A v, x \in Workers : v # x => Apart(v, x)'
  BY DEF Inv, JoinPC, LinkPC, AuthoriseChange, Begin, Apart
<1> QED
  BY <1>1, <1>2, <1>3, <1>4, <1>5 DEF Inv

\* The member that was read is of the owner's organization.
LEMMA ReadMemberInv ==
    ASSUME Inv, NEW w \in Workers, NEW u \in Users, NEW r \in Roles \cup {"removed"},
           ReadMember(w, u, r)
    PROVE  Inv'
<1> DEFINE k == Chosen(task[w], u, r)
<1>a. task' = [task EXCEPT ![w] = k]
  BY DEF ReadMember, Chosen
<1>b. task[w] \in Task
  BY DEF Inv, TypeInv, TypeOK
<1>c. k \in Task /\ k.org = task[w].org /\ k.user = u /\ k.role = r
  BY <1>b, ChangeTask
<1> HIDE DEF k
<1>1. TypeInv'
  BY <1>a, <1>c
     DEF Inv, TypeInv, TypeOK, WorkerShape, JoinPC, LinkPC, UsePC, links, ReadMember, ChangeOf,
         Goto, PC
<1>2. EmailNamesOneUser' /\ SpentLinkWasApplied' /\ DrawnAreUsed'
  BY DEF Inv, links, ReadMember, EmailNamesOneUser, SpentLinkWasApplied, DrawnAreUsed
<1>3. PasswordFromOwnLink'
  BY DEF Inv, links, ReadMember, PasswordFromOwnLink
<1>4. \A v \in Workers : DrawnOnce(v)' /\ Authorised(v)'
  BY DEF Inv, TypeInv, TypeOK, JoinPC, LinkPC, UsePC, links, ReadMember, Members, ChangeOf,
         Goto, DrawnOnce, Authorised
<1>5. \A v, x \in Workers : v # x => Apart(v, x)'
  BY DEF Inv, JoinPC, LinkPC, ReadMember, ChangeOf, Goto, Apart
<1> QED
  BY <1>1, <1>2, <1>3, <1>4, <1>5 DEF Inv

\* A rejected request leaves everything as it was.
LEMMA RejectInv ==
    ASSUME Inv, NEW w \in Workers, Reject(w)
    PROVE  Inv'
<1>1. TypeInv'
  BY DEF Inv, TypeInv, TypeOK, WorkerShape, JoinPC, LinkPC, ChangePC, UsePC, links, Reject,
         Finish, NoTask, Task, Roles, PC
<1>2. EmailNamesOneUser' /\ SpentLinkWasApplied' /\ DrawnAreUsed'
  BY DEF Inv, links, Reject, EmailNamesOneUser, SpentLinkWasApplied, DrawnAreUsed
<1>3. PasswordFromOwnLink'
  BY DEF Inv, links, Reject, PasswordFromOwnLink
<1>4. \A v \in Workers : DrawnOnce(v)' /\ Authorised(v)'
  BY DEF Inv, JoinPC, LinkPC, ChangePC, UsePC, links, Reject, Finish, DrawnOnce, Authorised
<1>5. \A v, x \in Workers : v # x => Apart(v, x)'
  BY DEF Inv, JoinPC, LinkPC, Reject, Finish, Apart
<1> QED
  BY <1>1, <1>2, <1>3, <1>4, <1>5 DEF Inv

\* Counting the owners changes no table.
LEMMA RequireNotLastOwnerInv ==
    ASSUME Inv, NEW w \in Workers, RequireNotLastOwner(w)
    PROVE  Inv'
<1>1. TypeInv'
  <2>1. pc[w] = "count_owners" /\ UNCHANGED <<orgs, users, row, links, used>>
    BY DEF RequireNotLastOwner
  <2>2. CASE Finish(w)
    BY <2>1, <2>2, NoneAssumption
       DEF Inv, TypeInv, TypeOK, WorkerShape, JoinPC, LinkPC, ChangePC, UsePC, links, Finish,
           NoTask, Row, Task, Roles, PC
  <2>3. CASE Goto(w, "count_owners", ChangeOf(task[w].role)) /\ UNCHANGED task
    BY <2>1, <2>3
       DEF Inv, TypeInv, TypeOK, WorkerShape, JoinPC, LinkPC, ChangePC, UsePC, links, Goto,
           ChangeOf, Row, Task, Roles, PC
  <2> QED
    BY <2>2, <2>3 DEF RequireNotLastOwner
<1>2. EmailNamesOneUser' /\ SpentLinkWasApplied' /\ DrawnAreUsed'
  BY DEF Inv, links, RequireNotLastOwner, EmailNamesOneUser, SpentLinkWasApplied, DrawnAreUsed
<1>3. PasswordFromOwnLink'
  BY DEF Inv, links, RequireNotLastOwner, PasswordFromOwnLink
<1>4. \A v \in Workers : DrawnOnce(v)' /\ Authorised(v)'
  BY DEF Inv, TypeInv, TypeOK, JoinPC, LinkPC, ChangePC, UsePC, links, RequireNotLastOwner,
         ChangeOf, Goto, Finish, DrawnOnce, Authorised
<1>5. \A v, x \in Workers : v # x => Apart(v, x)'
  BY DEF Inv, TypeInv, TypeOK, JoinPC, LinkPC, RequireNotLastOwner, ChangeOf, Goto, Finish,
         Apart
<1> QED
  BY <1>1, <1>2, <1>3, <1>4, <1>5 DEF Inv

\* A new role disturbs neither e-mails nor links.
LEMMA UpdateRoleInv ==
    ASSUME Inv, NEW w \in Workers, UpdateRole(w)
    PROVE  Inv'
<1>1. TypeInv'
  BY PasswordNames
     DEF Inv, TypeInv, TypeOK, WorkerShape, JoinPC, LinkPC, ChangePC, UsePC, links, UpdateRole,
         Finish, NoTask, Row, Task, Roles, PC
<1>2. EmailNamesOneUser' /\ SpentLinkWasApplied' /\ DrawnAreUsed'
  BY DEF Inv, links, UpdateRole, EmailNamesOneUser, SpentLinkWasApplied, DrawnAreUsed
<1>3. PasswordFromOwnLink'
  BY DEF Inv, links, UpdateRole, PasswordFromOwnLink
<1>4. \A v \in Workers : DrawnOnce(v)' /\ Authorised(v)'
  BY DEF Inv, TypeInv, TypeOK, JoinPC, ChangePC, UsePC, links, UpdateRole, Finish, DrawnOnce,
         Authorised, NoTask
<1>5. \A v, x \in Workers : v # x => Apart(v, x)'
  BY DEF Inv, JoinPC, LinkPC, UpdateRole, Finish, Apart
<1> QED
  BY <1>1, <1>2, <1>3, <1>4, <1>5 DEF Inv

\* A user who is removed frees an e-mail and leaves its links behind.
LEMMA DeleteUserInv ==
    ASSUME Inv, NEW w \in Workers, DeleteUser(w)
    PROVE  Inv'
<1>1. TypeInv'
  BY DEF Inv, TypeInv, TypeOK, WorkerShape, JoinPC, LinkPC, ChangePC, UsePC, links, DeleteUser,
         Finish, NoTask, Task, Roles, PC
<1>2. EmailNamesOneUser' /\ SpentLinkWasApplied' /\ DrawnAreUsed'
  BY DEF Inv, links, DeleteUser, EmailNamesOneUser, SpentLinkWasApplied, DrawnAreUsed
<1>3. PasswordFromOwnLink'
  BY DEF Inv, links, DeleteUser, PasswordFromOwnLink
<1>4. \A v \in Workers : DrawnOnce(v)' /\ Authorised(v)'
  BY DEF Inv, TypeInv, TypeOK, JoinPC, ChangePC, UsePC, links, DeleteUser, Finish, DrawnOnce,
         Authorised, NoTask
<1>5. \A v, x \in Workers : v # x => Apart(v, x)'
  BY DEF Inv, JoinPC, LinkPC, DeleteUser, Finish, Apart
<1> QED
  BY <1>1, <1>2, <1>3, <1>4, <1>5 DEF Inv

\* A request that dies leaves what it wrote.
LEMMA AbortInv ==
    ASSUME Inv, NEW w \in Workers, Abort(w)
    PROVE  Inv'
<1>1. TypeInv'
  BY DEF Inv, TypeInv, TypeOK, WorkerShape, JoinPC, LinkPC, ChangePC, UsePC, links, Abort,
         Finish, NoTask, Task, Roles, PC
<1>2. EmailNamesOneUser' /\ SpentLinkWasApplied' /\ DrawnAreUsed'
  BY DEF Inv, links, Abort, EmailNamesOneUser, SpentLinkWasApplied, DrawnAreUsed
<1>3. PasswordFromOwnLink'
  BY DEF Inv, links, Abort, PasswordFromOwnLink
<1>4. \A v \in Workers : DrawnOnce(v)' /\ Authorised(v)'
  BY DEF Inv, TypeInv, TypeOK, JoinPC, ChangePC, UsePC, links, Abort, Finish, DrawnOnce,
         Authorised, NoTask
<1>5. \A v, x \in Workers : v # x => Apart(v, x)'
  BY DEF Inv, TypeInv, TypeOK, JoinPC, Abort, Finish, Apart, NoTask
<1> QED
  BY <1>1, <1>2, <1>3, <1>4, <1>5 DEF Inv

\* Every step keeps the invariant ...
LEMMA NextInv == Inv /\ [Next]_vars => Inv'
<1> SUFFICES ASSUME Inv, [Next]_vars
             PROVE  Inv'
  OBVIOUS
<1>1. ASSUME NEW w \in Workers, Request(w)
      PROVE  Inv'
  BY <1>1, SignupInv, AuthoriseInviteInv, AuthoriseChangeInv, RequestResetInv, ResolveTokenInv
     DEF Request
<1>2. ASSUME NEW w \in Workers, Step(w)
      PROVE  Inv'
  BY <1>2, CreateOrganizationInv, CreateUserInv, CheckInviteeInv, CreateTokenInv, SendMailInv,
     UpdatePasswordInv, MarkUsedInv, ReadMemberInv, RejectInv, RequireNotLastOwnerInv,
     UpdateRoleInv, DeleteUserInv
     DEF Step
<1>3. CASE UNCHANGED vars
  BY <1>3 DEF vars, links, Inv, TypeInv, TypeOK, WorkerShape, EmailNamesOneUser,
              PasswordFromOwnLink,
       SpentLinkWasApplied, DrawnAreUsed, DrawnOnce, Authorised, Apart
<1> QED
  BY <1>1, <1>2, <1>3, AbortInv, ExpireInv DEF Next

\* ... so it holds in every state.
LEMMA InvAlways == Spec => []Inv
BY InitInv, NextInv, PTL DEF Spec

-----------------------------------------------------------------------------
(* Theorems.                                                               *)

\* Every reachable state is well-typed, and every user has an organization.
THEOREM TypeCorrect == Spec => []TypeOK
<1>1. Inv => TypeOK
  BY DEF Inv, TypeInv
<1> QED
  BY <1>1, InvAlways, PTL

\* Signups and invitations that race for an address leave it to one user.
THEOREM EmailAlwaysNamesOneUser == Spec => []EmailNamesOneUser
<1>1. Inv => EmailNamesOneUser
  BY DEF Inv
<1> QED
  BY <1>1, InvAlways, PTL

\* A password that a link set was set by a link mailed to that user.
THEOREM PasswordsComeFromOwnLinks == Spec => []PasswordFromOwnLink
<1>1. Inv => PasswordFromOwnLink
  BY DEF Inv
<1> QED
  BY <1>1, InvAlways, PTL

\* A request that dies between the password and the mark leaves no link that
\* is spent and has changed nothing.
THEOREM SpentLinksWereApplied == Spec => []SpentLinkWasApplied
<1>1. Inv => SpentLinkWasApplied
  BY DEF Inv
<1> QED
  BY <1>1, InvAlways, PTL

-----------------------------------------------------------------------------
(* Teams, when the changes of one team are sent one after the other.  Two  *)
(* owners may not leave together because a change that takes an owner away *)
(* knows another one from the count until it is made: nobody else changes  *)
(* that team, and insertions only add to it.                               *)

\* A signup founds an organization nobody is in.
Founding(w) ==
    pc[w] \in JoinPC /\ task[w].token = None =>
        /\ task[w].role = "owner"
        /\ task[w].org \in used
        /\ \A u \in Users : row[u].org # task[w].org

\* Who invites is a member, or was one.
Inviting(w) ==
    pc[w] = "check_email" \/ (pc[w] \in JoinPC /\ task[w].token # None) =>
        \E u \in Users : row[u].org = task[w].org

KeepsOwner(w) ==
    /\ pc[w] = "count_owners" => task[w].role # "owner"
    /\ /\ pc[w] = "delete_user" \/ (pc[w] = "update_role" /\ task[w].role # "owner")
       /\ task[w].user \in Owners(task[w].org)
       => \E v \in Owners(task[w].org) : v # task[w].user

TeamApart(w, v) ==
    /\ pc[w] \in ChangePC \cup {"read_member"} /\ pc[v] \in ChangePC \cup {"read_member"} =>
           task[w].org # task[v].org
    /\ pc[w] \in JoinPC /\ task[w].token = None /\ pc[v] \in JoinPC /\ task[v].token = None =>
           task[w].org # task[v].org

TeamInv ==
    /\ OwnerRemains
    /\ IsFiniteSet(users)
    /\ \A u \in Users : row[u].org # None => row[u].org \in used
    /\ \A w \in Workers : Founding(w) /\ Inviting(w) /\ KeepsOwner(w)
    /\ \A w, v \in Workers : w # v => TeamApart(w, v)

\* Without users there is no team to lose an owner.
LEMMA InitTeam == Init => TeamInv
BY FS_EmptySet
   DEF Init, TeamInv, OwnerRemains, Founding, Inviting, KeepsOwner, TeamApart, NoRow, JoinPC,
       ChangePC

\* A step of one worker that changes no membership and no role.
LEMMA QuietStep ==
    ASSUME TeamInv, Inv, NEW w \in Workers,
           users' = users, used \subseteq used',
           \A u \in Users : row'[u].org = row[u].org /\ row'[u].role = row[u].role,
           \A v \in Workers : v # w => pc'[v] = pc[v] /\ task'[v] = task[v],
           Founding(w)', Inviting(w)', KeepsOwner(w)',
           \A v \in Workers : v # w => TeamApart(w, v)'
    PROVE  TeamInv'
<1>1. \A o : Owners(o)' = Owners(o)
  BY DEF Owners, Members, Inv, TypeInv, TypeOK
<1>2. OwnerRemains' /\ IsFiniteSet(users)'
  BY <1>1 DEF TeamInv, OwnerRemains
<1>3. \A u \in Users : (row[u].org # None => row[u].org \in used)'
  BY DEF TeamInv
<1>4. \A v \in Workers : Founding(v)' /\ Inviting(v)'
  BY DEF TeamInv, Founding, Inviting
<1>5. \A v \in Workers : KeepsOwner(v)'
  <2> SUFFICES ASSUME NEW v \in Workers, v # w
               PROVE  KeepsOwner(v)'
    OBVIOUS
  <2>1. KeepsOwner(v)
    BY DEF TeamInv
  <2> QED
    BY <1>1, <2>1 DEF KeepsOwner
<1>6. \A v, x \in Workers : v # x => TeamApart(v, x)'
  BY DEF TeamInv, TeamApart
<1> QED
  BY <1>2, <1>3, <1>4, <1>5, <1>6 DEF TeamInv

\* A signup touches no team that exists.
LEMMA SignupTeam ==
    ASSUME TeamInv, Inv, NEW w \in Workers, NEW e \in Emails, NEW o \in Orgs, NEW u \in Users,
           Signup(w, e, o, u)
    PROVE  TeamInv'
<1>1. Founding(w)' /\ Inviting(w)'
  BY NoneAssumption
     DEF TeamInv, Inv, TypeInv, TypeOK, Signup, Draw, Begin, Founding, Inviting, NoTask
<1>2. KeepsOwner(w)'
  BY DEF Signup, Begin, KeepsOwner
<1>3. \A v \in Workers : v # w => TeamApart(w, v)'
  BY DEF TeamInv, Inv, TypeInv, TypeOK, ChangePC, Signup, Draw, Begin, TeamApart, Founding
<1>4. \A v \in Users : row'[v].org = row[v].org /\ row'[v].role = row[v].role
  BY DEF Signup
<1> QED
  BY <1>1, <1>2, <1>3, QuietStep DEF Signup, Draw, Begin

\* A new organization has no members yet.
LEMMA CreateOrganizationTeam ==
    ASSUME TeamInv, Inv, NEW w \in Workers, CreateOrganization(w)
    PROVE  TeamInv'
<1>1. Founding(w)' /\ Inviting(w)'
  BY DEF TeamInv, JoinPC, CreateOrganization, Goto, Founding, Inviting
<1>2. KeepsOwner(w)'
  BY DEF CreateOrganization, Goto, KeepsOwner
<1>3. \A v \in Workers : v # w => TeamApart(w, v)'
  BY DEF TeamInv, JoinPC, ChangePC, CreateOrganization, Goto, TeamApart
<1>4. \A u \in Users : row'[u].org = row[u].org /\ row'[u].role = row[u].role
  BY DEF CreateOrganization
<1> QED
  BY <1>1, <1>2, <1>3, QuietStep DEF CreateOrganization, Goto

\* An invitation that is allowed changes no team.
LEMMA AuthoriseInviteTeam ==
    ASSUME TeamInv, Inv, NEW w \in Workers, NEW a \in Users, AuthoriseInvite(w, a)
    PROVE  TeamInv'
<1>1. Founding(w)' /\ Inviting(w)'
  BY DEF Inv, TypeInv, TypeOK, JoinPC, AuthoriseInvite, Begin, Founding, Inviting
<1>2. KeepsOwner(w)'
  BY DEF AuthoriseInvite, Begin, KeepsOwner
<1>3. \A v \in Workers : v # w => TeamApart(w, v)'
  BY DEF JoinPC, ChangePC, AuthoriseInvite, Begin, TeamApart
<1>4. \A u \in Users : row'[u].org = row[u].org /\ row'[u].role = row[u].role
  BY DEF AuthoriseInvite
<1> QED
  BY <1>1, <1>2, <1>3, QuietStep DEF AuthoriseInvite, Begin

\* The invitee is a user nobody knows yet.
LEMMA CheckInviteeTeam ==
    ASSUME TeamInv, Inv, NEW w \in Workers, NEW e \in Emails, NEW r \in Roles, NEW u \in Users,
           NEW t \in Tokens, CheckInvitee(w, e, r, u, t)
    PROVE  TeamInv'
<1>1. Founding(w)' /\ Inviting(w)'
  BY NoneAssumption DEF TeamInv, Inv, TypeInv, TypeOK, CheckInvitee, Goto, Founding, Inviting
<1>2. KeepsOwner(w)'
  BY DEF CheckInvitee, Goto, KeepsOwner
<1>3. \A v \in Workers : v # w => TeamApart(w, v)'
  BY NoneAssumption DEF Inv, TypeInv, TypeOK, ChangePC, CheckInvitee, Goto, TeamApart
<1>4. \A v \in Users : row'[v].org = row[v].org /\ row'[v].role = row[v].role
  BY DEF CheckInvitee
<1> QED
  BY <1>1, <1>2, <1>3, QuietStep DEF CheckInvitee, Draw, Goto

\* Links change no team, from their request ...
LEMMA RequestResetTeam ==
    ASSUME TeamInv, Inv, NEW w \in Workers, NEW u \in Users, NEW t \in Tokens, RequestReset(w, u, t)
    PROVE  TeamInv'
<1>1. Founding(w)' /\ Inviting(w)'
  BY DEF JoinPC, RequestReset, Begin, Founding, Inviting
<1>2. KeepsOwner(w)'
  BY DEF RequestReset, Begin, KeepsOwner
<1>3. \A v \in Workers : v # w => TeamApart(w, v)'
  BY DEF JoinPC, ChangePC, RequestReset, Begin, TeamApart
<1>4. \A v \in Users : row'[v].org = row[v].org /\ row'[v].role = row[v].role
  BY DEF RequestReset
<1> QED
  BY <1>1, <1>2, <1>3, QuietStep DEF RequestReset, Draw, Begin

\* ... over their row ...
LEMMA CreateTokenTeam ==
    ASSUME TeamInv, Inv, NEW w \in Workers, CreateToken(w)
    PROVE  TeamInv'
<1>1. Founding(w)' /\ Inviting(w)'
  BY DEF JoinPC, CreateToken, Goto, Founding, Inviting
<1>2. KeepsOwner(w)'
  BY DEF CreateToken, Goto, KeepsOwner
<1>3. \A v \in Workers : v # w => TeamApart(w, v)'
  BY DEF JoinPC, ChangePC, CreateToken, Goto, TeamApart
<1>4. \A u \in Users : row'[u].org = row[u].org /\ row'[u].role = row[u].role
  BY DEF CreateToken
<1> QED
  BY <1>1, <1>2, <1>3, QuietStep DEF CreateToken, Goto

\* ... and the mail ...
LEMMA SendMailTeam ==
    ASSUME TeamInv, Inv, NEW w \in Workers, SendMail(w)
    PROVE  TeamInv'
<1>1. Founding(w)' /\ Inviting(w)'
  BY DEF JoinPC, SendMail, Finish, Founding, Inviting
<1>2. KeepsOwner(w)'
  BY DEF SendMail, Finish, KeepsOwner
<1>3. \A v \in Workers : v # w => TeamApart(w, v)'
  BY DEF JoinPC, ChangePC, SendMail, Finish, TeamApart
<1>4. \A u \in Users : row'[u].org = row[u].org /\ row'[u].role = row[u].role
  BY DEF SendMail
<1> QED
  BY <1>1, <1>2, <1>3, QuietStep DEF SendMail, Finish

\* ... to the password they set ...
LEMMA ResolveTokenTeam ==
    ASSUME TeamInv, Inv, NEW w \in Workers, NEW t \in Tokens, ResolveToken(w, t)
    PROVE  TeamInv'
<1>1. Founding(w)' /\ Inviting(w)'
  BY DEF JoinPC, ResolveToken, Begin, Founding, Inviting
<1>2. KeepsOwner(w)'
  BY DEF ResolveToken, Begin, KeepsOwner
<1>3. \A v \in Workers : v # w => TeamApart(w, v)'
  BY DEF JoinPC, ChangePC, ResolveToken, Begin, TeamApart
<1>4. \A u \in Users : row'[u].org = row[u].org /\ row'[u].role = row[u].role
  BY DEF ResolveToken
<1> QED
  BY <1>1, <1>2, <1>3, QuietStep DEF ResolveToken, Begin

\* ... which is not a column that a team is made of ...
LEMMA UpdatePasswordTeam ==
    ASSUME TeamInv, Inv, NEW w \in Workers, UpdatePassword(w)
    PROVE  TeamInv'
<1>1. Founding(w)' /\ Inviting(w)'
  BY DEF JoinPC, UpdatePassword, Goto, Founding, Inviting
<1>2. KeepsOwner(w)'
  BY DEF UpdatePassword, Goto, KeepsOwner
<1>3. \A v \in Workers : v # w => TeamApart(w, v)'
  BY DEF JoinPC, ChangePC, UpdatePassword, Goto, TeamApart
<1>4. \A u \in Users : row'[u].org = row[u].org /\ row'[u].role = row[u].role
  BY DEF UpdatePassword
<1> QED
  BY <1>1, <1>2, <1>3, QuietStep DEF UpdatePassword, Goto

\* ... and the link that is spent.
LEMMA MarkUsedTeam ==
    ASSUME TeamInv, Inv, NEW w \in Workers, MarkUsed(w)
    PROVE  TeamInv'
<1>1. Founding(w)' /\ Inviting(w)'
  BY DEF JoinPC, MarkUsed, Finish, Founding, Inviting
<1>2. KeepsOwner(w)'
  BY DEF MarkUsed, Finish, KeepsOwner
<1>3. \A v \in Workers : v # w => TeamApart(w, v)'
  BY DEF JoinPC, ChangePC, MarkUsed, Finish, TeamApart
<1>4. \A u \in Users : row'[u].org = row[u].org /\ row'[u].role = row[u].role
  BY DEF MarkUsed
<1> QED
  BY <1>1, <1>2, <1>3, QuietStep DEF MarkUsed, Finish

\* A change that is allowed is not made yet.
LEMMA AuthoriseChangeTeam ==
    ASSUME TeamInv, Inv, Serial, NEW w \in Workers, NEW a \in Users, AuthoriseChange(w, a)
    PROVE  TeamInv'
<1>1. Founding(w)' /\ Inviting(w)'
  BY DEF JoinPC, AuthoriseChange, Begin, Founding, Inviting
<1>2. KeepsOwner(w)'
  BY DEF AuthoriseChange, Begin, KeepsOwner
<1>3. \A v \in Workers : v # w => TeamApart(w, v)'
  BY DEF Inv, TypeInv, TypeOK, JoinPC, ChangePC, AuthoriseChange, AdmitsChange, Begin,
         TeamApart
<1>4. \A u \in Users : row'[u].org = row[u].org /\ row'[u].role = row[u].role
  BY DEF AuthoriseChange
<1> QED
  BY <1>1, <1>2, <1>3, QuietStep DEF AuthoriseChange, Begin

\* Reading the member changes no team.
LEMMA ReadMemberTeam ==
    ASSUME TeamInv, Inv, NEW w \in Workers, NEW u \in Users, NEW r \in Roles \cup {"removed"},
           ReadMember(w, u, r)
    PROVE  TeamInv'
<1>1. Founding(w)' /\ Inviting(w)'
  BY DEF JoinPC, ReadMember, ChangeOf, Goto, Founding, Inviting
<1>2. KeepsOwner(w)'
  BY DEF Inv, TypeInv, TypeOK, ReadMember, ChangeOf, Goto, KeepsOwner, Owners
<1>3. \A v \in Workers : v # w => TeamApart(w, v)'
  BY DEF TeamInv, ReadMember, Members, Goto, TeamApart, Founding
<1>4. \A v \in Users : row'[v].org = row[v].org /\ row'[v].role = row[v].role
  BY DEF ReadMember
<1> QED
  BY <1>1, <1>2, <1>3, QuietStep DEF ReadMember, Goto

\* A rejected request leaves every team as it was.
LEMMA RejectTeam ==
    ASSUME TeamInv, Inv, NEW w \in Workers, Reject(w)
    PROVE  TeamInv'
<1>1. Founding(w)' /\ Inviting(w)'
  BY DEF Inv, TypeInv, TypeOK, JoinPC, Reject, Finish, Founding, Inviting
<1>2. KeepsOwner(w)'
  BY DEF Reject, Finish, KeepsOwner
<1>3. \A v \in Workers : v # w => TeamApart(w, v)'
  BY DEF Inv, TypeInv, TypeOK, JoinPC, ChangePC, Reject, Finish, TeamApart
<1>4. \A u \in Users : row'[u].org = row[u].org /\ row'[u].role = row[u].role
  BY DEF Reject
<1> QED
  BY <1>1, <1>2, <1>3, QuietStep DEF Reject, Finish

\* Two owners are more than one.
LEMMA AnotherOwner ==
    ASSUME IsFiniteSet(users), NEW o, NEW u, ~(Cardinality(Owners(o)) <= 1)
    PROVE  \E v \in Owners(o) : v # u
<1> SUFFICES ASSUME Owners(o) \subseteq {u}
             PROVE  FALSE
  OBVIOUS
<1>1. IsFiniteSet({u}) /\ Cardinality({u}) = 1
  BY FS_Singleton
<1>2. Cardinality(Owners(o)) <= 1
  BY <1>1, FS_Subset
<1> QED
  BY <1>2

\* Who passes the count knows another owner, and is alone with the team.
LEMMA RequireNotLastOwnerTeam ==
    ASSUME TeamInv, Inv, NEW w \in Workers, RequireNotLastOwner(w)
    PROVE  TeamInv'
<1>1. Founding(w)' /\ Inviting(w)'
  BY DEF Inv, TypeInv, TypeOK, JoinPC, RequireNotLastOwner, ChangeOf, Goto, Finish, Founding,
         Inviting
<1>2. KeepsOwner(w)'
  <2>1. CASE pc'[w] = "idle"
    BY <2>1 DEF KeepsOwner
  <2>2. CASE pc'[w] # "idle"
    <3>1. task' = task /\ ~(Cardinality(Owners(task[w].org)) <= 1)
      BY <2>2 DEF Inv, TypeInv, TypeOK, RequireNotLastOwner, Finish
    <3>2. \E v \in Owners(task[w].org) : v # task[w].user
      <4>1. IsFiniteSet(users)
        BY DEF TeamInv
      <4>2. PICK o, u : o = task[w].org /\ u = task[w].user
        OBVIOUS
      <4> QED
        BY <3>1, <4>1, <4>2, AnotherOwner
    <3>3. Owners(task[w].org)' = Owners(task[w].org)
      BY <3>1 DEF RequireNotLastOwner, Owners, Members
    <3>4. pc'[w] # "count_owners"
      BY DEF Inv, TypeInv, TypeOK, RequireNotLastOwner, ChangeOf, Goto, Finish
    <3> QED
      BY <3>2, <3>3
         DEF Inv, TypeInv, TypeOK, RequireNotLastOwner, ChangeOf, Goto, Finish, KeepsOwner
  <2> QED
    BY <2>1, <2>2
<1>3. \A v \in Workers : v # w => TeamApart(w, v)'
  BY DEF TeamInv, Inv, TypeInv, TypeOK, JoinPC, ChangePC, RequireNotLastOwner, ChangeOf, Goto,
         Finish, TeamApart
<1>4. \A u \in Users : row'[u].org = row[u].org /\ row'[u].role = row[u].role
  BY DEF RequireNotLastOwner
<1> QED
  BY <1>1, <1>2, <1>3, QuietStep DEF Inv, TypeInv, TypeOK, RequireNotLastOwner, Goto, Finish

\* A request that dies leaves every team as it was.
LEMMA AbortTeam ==
    ASSUME TeamInv, Inv, NEW w \in Workers, Abort(w)
    PROVE  TeamInv'
<1>1. Founding(w)' /\ Inviting(w)'
  BY DEF Inv, TypeInv, TypeOK, JoinPC, Abort, Finish, Founding, Inviting
<1>2. KeepsOwner(w)'
  BY DEF Inv, TypeInv, TypeOK, Abort, Finish, KeepsOwner
<1>3. \A v \in Workers : v # w => TeamApart(w, v)'
  BY DEF Inv, TypeInv, TypeOK, JoinPC, ChangePC, Abort, Finish, TeamApart
<1>4. \A u \in Users : row'[u].org = row[u].org /\ row'[u].role = row[u].role
  BY DEF Abort
<1> QED
  BY <1>1, <1>2, <1>3, QuietStep DEF Abort, Finish

\* A member who is inserted takes nothing from any team: he was nowhere.
LEMMA CreateUserTeam ==
    ASSUME TeamInv, Inv, NEW w \in Workers, CreateUser(w)
    PROVE  TeamInv'
<1> DEFINE k == task[w]
<1>1. CASE EmailExists(k.email)
  <2>1. users' = users /\ row' = row /\ used' = used
        /\ \A v \in Workers : v # w => pc'[v] = pc[v] /\ task'[v] = task[v]
    BY <1>1 DEF CreateUser, Finish, Inv, TypeInv, TypeOK
  <2>2. pc'[w] = "idle"
    BY <1>1 DEF CreateUser, Finish, Inv, TypeInv, TypeOK
  <2>3. Founding(w)' /\ Inviting(w)' /\ KeepsOwner(w)'
    BY <2>2 DEF Founding, Inviting, KeepsOwner, JoinPC
  <2>4. \A v \in Workers : v # w => TeamApart(w, v)'
    BY <2>2 DEF TeamApart, JoinPC, ChangePC
  <2> QED
    BY <2>1, <2>3, <2>4, QuietStep
<1>2. CASE ~EmailExists(k.email)
  <2>1. /\ k \in Task /\ k.user \in Users /\ k.org \in Orgs /\ row[k.user].org = None
        /\ k.user \notin users
    BY NoneAssumption DEF Inv, TypeInv, TypeOK, CreateUser, WorkerShape, DrawnOnce, JoinPC
  <2>2. /\ users' = users \cup {k.user} /\ used' = used
        /\ row'[k.user].org = k.org /\ row'[k.user].role = k.role
        /\ \A u \in Users : u # k.user => row'[u] = row[u]
    BY <1>2, <2>1 DEF CreateUser, Inv, TypeInv, TypeOK, links
  <2>3. /\ \A v \in Workers : v # w => pc'[v] = pc[v] /\ task'[v] = task[v]
        /\ pc'[w] \in {"idle", "create_token"}
    BY <1>2 DEF CreateUser, Goto, Finish, Inv, TypeInv, TypeOK
  <2>4. /\ k.token = None => /\ k.role = "owner"
                             /\ k.org \in used
                             /\ \A u \in Users : row[u].org # k.org
        /\ k.token # None => \E u \in Users : row[u].org = k.org
    BY DEF TeamInv, Founding, Inviting, CreateUser, JoinPC
  <2>5. /\ OwnerRemains
        /\ \A u \in Users : row[u].org # None => row[u].org \in used
        /\ IsFiniteSet(users)
    BY DEF TeamInv
  <2> HIDE DEF k
  <2>6. \A o : Owners(o) \subseteq Owners(o)'
    BY <2>1, <2>2 DEF Owners, Members, Inv, TypeInv, TypeOK
  <2>7. OwnerRemains'
    <3> SUFFICES ASSUME NEW u \in Users, row'[u].org # None
                 PROVE  (Owners(row[u].org) # {})'
      BY DEF OwnerRemains
    <3>1. CASE u # k.user
      BY <3>1, <2>2, <2>5, <2>6 DEF OwnerRemains
    <3>2. CASE u = k.user /\ k.token = None
      BY <3>2, <2>1, <2>2, <2>4 DEF Owners, Members
    <3>3. CASE u = k.user /\ k.token # None
      BY <3>3, <2>1, <2>2, <2>4, <2>5, <2>6, NoneAssumption DEF OwnerRemains
    <3> QED
      BY <3>1, <3>2, <3>3
  <2>8. IsFiniteSet(users)'
    BY <2>2, <2>5, FS_AddElement
  <2>9. \A u \in Users : (row[u].org # None => row[u].org \in used)'
    BY <2>1, <2>2, <2>4, <2>5, NoneAssumption
  <2>10. \A v \in Workers : Founding(v)' /\ Inviting(v)'
    <3> SUFFICES ASSUME NEW v \in Workers, v # w
                 PROVE  Founding(v)' /\ Inviting(v)'
      BY <2>3 DEF Founding, Inviting, JoinPC
    <3>1. Founding(v) /\ Inviting(v) /\ TeamApart(w, v) /\ WorkerShape(v)
      BY DEF TeamInv, Inv, TypeInv
    <3>2. pc[w] = "create_user"
      BY DEF CreateUser
    <3>3. Founding(v)'
      <4> SUFFICES ASSUME pc[v] \in JoinPC, task[v].token = None
                   PROVE  \A u \in Users : row'[u].org # task[v].org
        BY <2>2, <2>3, <3>1 DEF Founding
      <4>1. \A u \in Users : row[u].org # task[v].org
        BY <3>1 DEF Founding
      <4>2. k.org # task[v].org
        BY <4>1, <3>1, <3>2, <2>4 DEF TeamApart, JoinPC, k
      <4> QED
        BY <4>1, <4>2, <2>2
    <3>4. Inviting(v)'
      <4> SUFFICES ASSUME pc[v] = "check_email" \/ (pc[v] \in JoinPC /\ task[v].token # None)
                   PROVE  \E u \in Users : row'[u].org = task[v].org
        BY <2>3 DEF Inviting
      <4>1. PICK u \in Users : row[u].org = task[v].org
        BY <3>1 DEF Inviting
      <4>2. task[v].org \in Orgs
        BY <3>1 DEF WorkerShape
      <4> QED
        BY <4>1, <4>2, <2>1, <2>2, NoneAssumption
    <3> QED
      BY <3>3, <3>4
  <2>11. \A v \in Workers : KeepsOwner(v)'
    <3> SUFFICES ASSUME NEW v \in Workers, v # w
                 PROVE  KeepsOwner(v)'
      BY <2>3 DEF KeepsOwner
    <3>1. KeepsOwner(v) /\ WorkerShape(v) /\ Authorised(v)
      BY DEF TeamInv, Inv, TypeInv
    <3>2. pc[v] \in ChangePC => task[v].user # k.user
      BY <3>1, <2>1, NoneAssumption DEF WorkerShape, Authorised
    <3>3. \A u \in Users, o \in Orgs : u # k.user => (u \in Owners(o)' <=> u \in Owners(o))
      BY <2>2 DEF Owners, Members
    <3> QED
      BY <3>1, <3>2, <3>3, <2>3, <2>6 DEF KeepsOwner, WorkerShape, ChangePC
  <2>12. \A v, x \in Workers : v # x => TeamApart(v, x)'
    BY <2>3 DEF TeamInv, TeamApart, JoinPC, ChangePC
  <2> QED
    BY <2>7, <2>8, <2>9, <2>10, <2>11, <2>12 DEF TeamInv
<1> QED
  BY <1>1, <1>2

\* The change itself: it touches one member, and his team keeps an owner.
LEMMA OneMemberChanged ==
    ASSUME TeamInv, Inv, NEW w \in Workers, NEW u \in Users,
           pc[w] \in {"update_role", "delete_user"}, u = task[w].user,
           users' \subseteq users, used' = used,
           \A v \in Users : row'[v].org = row[v].org,
           \A v \in Users \ {u} : row'[v].role = row[v].role /\ (v \in users' <=> v \in users),
           (Owners(row[u].org) # {})',
           pc' = [pc EXCEPT ![w] = "idle"], task' = [task EXCEPT ![w] = NoTask]
    PROVE  TeamInv'
<1>1. task[w].org = row[u].org /\ task[w].org \in Orgs
  BY DEF Inv, TypeInv, WorkerShape, Authorised, ChangePC
<1>2. \A o \in Orgs : o # row[u].org => Owners(o)' = Owners(o)
  BY DEF Owners, Members, Inv, TypeInv, TypeOK
<1>3. /\ \A v \in Workers : v # w => pc'[v] = pc[v] /\ task'[v] = task[v]
      /\ pc'[w] = "idle"
  BY DEF Inv, TypeInv, TypeOK
<1>4. OwnerRemains'
  BY <1>2 DEF OwnerRemains, TeamInv, Inv, TypeInv, TypeOK, Row
<1>5. IsFiniteSet(users)' /\ \A v \in Users : (row[v].org # None => row[v].org \in used)'
  BY FS_Subset DEF TeamInv
<1>6. \A v \in Workers : Founding(v)' /\ Inviting(v)'
  BY <1>3 DEF TeamInv, Founding, Inviting, JoinPC
<1>7. \A v \in Workers : KeepsOwner(v)'
  <2> SUFFICES ASSUME NEW v \in Workers, v # w, pc[v] \in ChangePC
               PROVE  KeepsOwner(v)'
    BY <1>3 DEF KeepsOwner, ChangePC
  <2>1. KeepsOwner(v) /\ task[v].org \in Orgs
    BY DEF TeamInv, Inv, TypeInv, WorkerShape
  <2>2. TeamApart(w, v)
    BY DEF TeamInv
  <2>3. task[v].org # task[w].org
    BY <2>2 DEF TeamApart, ChangePC
  <2>4. Owners(task[v].org)' = Owners(task[v].org)
    BY <1>1, <1>2, <1>3, <2>1, <2>3
  <2> QED
    BY <1>3, <2>1, <2>4 DEF KeepsOwner
<1>8. \A v, x \in Workers : v # x => TeamApart(v, x)'
  BY <1>3 DEF TeamInv, TeamApart, JoinPC, ChangePC
<1> QED
  BY <1>4, <1>5, <1>6, <1>7, <1>8 DEF TeamInv

\* An owner who is demoted leaves the other owner behind.
LEMMA UpdateRoleTeam ==
    ASSUME TeamInv, Inv, NEW w \in Workers, UpdateRole(w)
    PROVE  TeamInv'
<1>0. /\ task[w].user \in Users /\ task[w].org \in Orgs
      /\ task[w].org = row[task[w].user].org
  BY DEF UpdateRole, Inv, TypeInv, WorkerShape, Authorised, ChangePC
<1>1. PICK u \in Users, o \in Orgs :
          /\ u = task[w].user /\ o = task[w].org /\ o = row[u].org
          /\ pc[w] = "update_role"
  BY <1>0 DEF UpdateRole
<1>2. /\ users' = users /\ used' = used
      /\ pc' = [pc EXCEPT ![w] = "idle"] /\ task' = [task EXCEPT ![w] = NoTask]
      /\ \A v \in Users : row'[v].org = row[v].org
      /\ \A v \in Users \ {u} : row'[v].role = row[v].role
      /\ u \in users => row'[u].role = task[w].role
      /\ u \notin users => row' = row
  BY <1>1 DEF UpdateRole, Finish, Inv, TypeInv, TypeOK, Row
<1>3. Owners(o) # {} /\ KeepsOwner(w)
  BY <1>1, NoneAssumption DEF TeamInv, OwnerRemains
<1>4. Owners(o)' # {}
  <2>1. \A v \in Owners(o) : v # u => v \in Owners(o)'
    BY <1>2 DEF Owners, Members, Inv, TypeInv, TypeOK
  <2>2. CASE u \notin Owners(o)
    BY <1>3, <2>1, <2>2
  <2>3. CASE u \in Owners(o) /\ task[w].role = "owner"
    BY <1>1, <1>2, <2>3 DEF Owners, Members
  <2>4. CASE u \in Owners(o) /\ task[w].role # "owner"
    BY <1>1, <1>3, <2>1, <2>4 DEF KeepsOwner
  <2> QED
    BY <2>2, <2>3, <2>4
<1>5. (Owners(row[u].org) # {})'
  BY <1>1, <1>2, <1>4
<1> QED
  BY <1>1, <1>2, <1>5, OneMemberChanged

\* An owner who is removed leaves the other owner behind.
LEMMA DeleteUserTeam ==
    ASSUME TeamInv, Inv, NEW w \in Workers, DeleteUser(w)
    PROVE  TeamInv'
<1>0. /\ task[w].user \in Users /\ task[w].org \in Orgs
      /\ task[w].org = row[task[w].user].org
  BY DEF DeleteUser, Inv, TypeInv, WorkerShape, Authorised, ChangePC
<1>1. PICK u \in Users, o \in Orgs :
          /\ u = task[w].user /\ o = task[w].org /\ o = row[u].org
          /\ pc[w] = "delete_user"
  BY <1>0 DEF DeleteUser
<1>2. /\ users' = users \ {u} /\ used' = used /\ row' = row
      /\ pc' = [pc EXCEPT ![w] = "idle"] /\ task' = [task EXCEPT ![w] = NoTask]
  BY <1>1 DEF DeleteUser, Finish, links
<1>3. Owners(o) # {} /\ KeepsOwner(w)
  BY <1>1, NoneAssumption DEF TeamInv, OwnerRemains
<1>4. PICK v \in Owners(o) : v # u
  BY <1>1, <1>3 DEF KeepsOwner
<1>5. (Owners(row[u].org) # {})'
  BY <1>1, <1>2, <1>4 DEF Owners, Members
<1> QED
  BY <1>1, <1>2, <1>5, OneMemberChanged

\* Every step keeps the teams' invariant.
LEMMA NextTeam ==
    ASSUME Serial, TeamInv, Inv, [Next]_vars
    PROVE  TeamInv'
<1>1. ASSUME NEW w \in Workers, Request(w)
      PROVE  TeamInv'
  BY <1>1, SignupTeam, AuthoriseInviteTeam, AuthoriseChangeTeam, RequestResetTeam, ResolveTokenTeam
     DEF Request
<1>2. ASSUME NEW w \in Workers, Step(w)
      PROVE  TeamInv'
  BY <1>2, CreateOrganizationTeam, CreateUserTeam, CheckInviteeTeam, CreateTokenTeam, SendMailTeam,
     UpdatePasswordTeam, MarkUsedTeam, ReadMemberTeam, RejectTeam, RequireNotLastOwnerTeam,
     UpdateRoleTeam, DeleteUserTeam
     DEF Step
<1>3. CASE UNCHANGED <<orgs, users, row, used, pc, task>>
  BY <1>3 DEF TeamInv, OwnerRemains, Founding, Inviting, KeepsOwner, TeamApart, Owners, Members
<1> QED
  BY <1>1, <1>2, <1>3, AbortTeam DEF Next, Expire, vars

\* A team that ever had a member has an owner, when its changes are sent one
\* after the other, whoever else signs up or is invited, and wherever requests
\* die.
THEOREM OwnerAlwaysRemains == ASSUME Serial PROVE Spec => []OwnerRemains
<1>1. Inv /\ TeamInv /\ [Next]_vars => TeamInv'
  BY NextTeam
<1>2. TeamInv => OwnerRemains
  BY DEF TeamInv
<1> QED
  BY <1>1, <1>2, InitTeam, InvAlways, PTL DEF Spec

-----------------------------------------------------------------------------
(* Who sends a change.  His organization never changes, so he owns it when *)
(* the change is made if nobody else changes the team meanwhile.           *)

SentByOwner(w) ==
    LET k == task[w]
    IN  pc[w] \in ChangePC \cup {"read_member"} =>
            /\ k.sender \in Users /\ row[k.sender].org = k.org /\ k.senderRole = "owner"
            /\ Serial => k.sender \in Owners(k.org)

SenderInv == /\ Serial => TeamInv
             /\ \A w \in Workers : SentByOwner(w)

\* At first nothing is sent.
LEMMA InitSender == Init => SenderInv
BY InitTeam DEF Init, SenderInv, SentByOwner, ChangePC

\* A step that changes no membership and no role leaves the other senders owners.
LEMMA QuietSender ==
    ASSUME Inv, NEW w \in Workers, \A v \in Workers : SentByOwner(v),
           users' = users,
           \A u \in Users : row'[u].org = row[u].org /\ row'[u].role = row[u].role,
           \A v \in Workers : v # w => pc'[v] = pc[v] /\ task'[v] = task[v],
           SentByOwner(w)'
    PROVE  \A v \in Workers : SentByOwner(v)'
<1>1. \A o : Owners(o)' = Owners(o)
  BY DEF Owners, Members, Inv, TypeInv, TypeOK
<1> SUFFICES ASSUME NEW v \in Workers, v # w
             PROVE  SentByOwner(v)'
  OBVIOUS
<1>2. pc'[v] = pc[v] /\ task'[v] = task[v] /\ SentByOwner(v)
  OBVIOUS
<1> QED
  BY <1>1, <1>2 DEF SentByOwner

\* Requests change no team, and only an owner sends a change.
LEMMA RequestSender ==
    ASSUME Inv, NEW w \in Workers, \A v \in Workers : SentByOwner(v), Request(w)
    PROVE  \A v \in Workers : SentByOwner(v)'
<1>1. /\ users' = users /\ row' = row
      /\ \A v \in Workers : v # w => pc'[v] = pc[v] /\ task'[v] = task[v]
  BY DEF Request, Signup, AuthoriseInvite, AuthoriseChange, RequestReset, ResolveToken, Begin,
         Inv, TypeInv, TypeOK
<1>2. SentByOwner(w)'
  <2>1. ASSUME NEW a \in Users, AuthoriseChange(w, a)
        PROVE  SentByOwner(w)'
    <3> DEFINE k == Sent(row[a].org, a, row[a].role)
    <3>1. task' = [task EXCEPT ![w] = k]
      BY <2>1 DEF AuthoriseChange, Begin, Sent
    <3>2. a \in users /\ row[a].role = "owner" /\ row[a].org \in Orgs \cup {None}
      BY <2>1 DEF AuthoriseChange, RequireRoles, CurrentUser, Inv, TypeInv, TypeOK, Row
    <3>3. k.org = row[a].org /\ k.sender = a /\ k.senderRole = "owner"
      <4>1. row[a].role \in Roles
        BY <3>2 DEF Roles
      <4> QED
        BY <3>2, <4>1, SentTask
    <3> HIDE DEF k
    <3>4. task'[w] = k
      BY <3>1 DEF Inv, TypeInv, TypeOK
    <3>5. a \in Owners(row[a].org)'
      BY <1>1, <3>2 DEF Owners, Members
    <3> QED
      BY <1>1, <3>3, <3>4, <3>5 DEF SentByOwner
  <2>2. CASE ~\E a \in Users : AuthoriseChange(w, a)
    BY <2>2 DEF Request, Signup, AuthoriseInvite, RequestReset, ResolveToken, Begin, SentByOwner,
                ChangePC, Inv, TypeInv, TypeOK
  <2> QED
    BY <2>1, <2>2
<1> QED
  BY <1>1, <1>2, QuietSender

\* The member is read and the owners are counted for the same sender.
LEMMA ReadMemberSender ==
    ASSUME Inv, NEW w \in Workers, \A v \in Workers : SentByOwner(v),
           NEW u \in Users, NEW r \in Roles \cup {"removed"}, ReadMember(w, u, r)
    PROVE  \A v \in Workers : SentByOwner(v)'
<1> DEFINE k == Chosen(task[w], u, r)
<1>1. task' = [task EXCEPT ![w] = k] /\ task[w] \in Task
  BY DEF ReadMember, Chosen, Inv, TypeInv, TypeOK
<1>2. k.org = task[w].org /\ k.sender = task[w].sender /\ k.senderRole = task[w].senderRole
  BY <1>1, ChangeTask
<1> HIDE DEF k
<1>3. /\ users' = users /\ row' = row /\ pc[w] = "read_member" /\ task'[w] = k
      /\ \A v \in Workers : v # w => pc'[v] = pc[v] /\ task'[v] = task[v]
  BY <1>1 DEF ReadMember, Goto, Inv, TypeInv, TypeOK
<1>4. \A o : Owners(o)' = Owners(o)
  BY <1>3 DEF Owners, Members
<1>5. SentByOwner(w)'
  BY <1>2, <1>3, <1>4 DEF SentByOwner
<1> QED
  BY <1>3, <1>5, QuietSender

\* A user who is inserted was nowhere, so he has sent nothing.
LEMMA CreateUserSender ==
    ASSUME Inv, NEW w \in Workers, \A v \in Workers : SentByOwner(v), CreateUser(w)
    PROVE  \A v \in Workers : SentByOwner(v)'
<1> DEFINE k == task[w]
<1>1. k.user \in Users /\ row[k.user].org = None
  BY DEF Inv, TypeInv, CreateUser, WorkerShape, DrawnOnce, JoinPC
<1>2. /\ users \subseteq users'
      /\ \A u \in Users : u # k.user => row'[u] = row[u]
      /\ \A v \in Workers : v # w => pc'[v] = pc[v] /\ task'[v] = task[v]
      /\ pc'[w] \in {"idle", "create_token"}
  BY <1>1 DEF CreateUser, Goto, Finish, Inv, TypeInv, TypeOK
<1> HIDE DEF k
<1>3. \A o \in Orgs : Owners(o) \subseteq Owners(o)'
  BY <1>1, <1>2, NoneAssumption DEF Owners, Members, Inv, TypeInv, TypeOK
<1>4. SentByOwner(w)'
  BY <1>2 DEF SentByOwner, ChangePC
<1> SUFFICES ASSUME NEW v \in Workers, v # w, pc[v] \in ChangePC \cup {"read_member"}
             PROVE  SentByOwner(v)'
  BY <1>2, <1>4 DEF SentByOwner
<1>5. task[v].org \in Orgs /\ SentByOwner(v)
  BY DEF Inv, TypeInv, WorkerShape
<1>6. task[v].sender \in Users /\ row'[task[v].sender] = row[task[v].sender]
  BY <1>1, <1>2, <1>5, NoneAssumption DEF SentByOwner
<1> QED
  BY <1>2, <1>3, <1>5, <1>6 DEF SentByOwner

\* A change that is made touches one team, and with Serial nobody else is about
\* to change it.
LEMMA ChangeSender ==
    ASSUME Inv, SenderInv, NEW w \in Workers, UpdateRole(w) \/ DeleteUser(w)
    PROVE  \A v \in Workers : SentByOwner(v)'
<1> DEFINE u == task[w].user
<1>1. /\ pc[w] \in {"update_role", "delete_user"} /\ u \in Users
      /\ task[w].org = row[u].org
  BY DEF UpdateRole, DeleteUser, Inv, TypeInv, WorkerShape, Authorised, ChangePC
<1>2. /\ \A v \in Users : row'[v].org = row[v].org
      /\ \A v \in Users \ {u} : row'[v].role = row[v].role /\ (v \in users' <=> v \in users)
      /\ \A v \in Workers : v # w => pc'[v] = pc[v] /\ task'[v] = task[v]
      /\ pc'[w] = "idle"
  BY <1>1 DEF UpdateRole, DeleteUser, Finish, Inv, TypeInv, TypeOK, Row
<1> HIDE DEF u
<1>3. users \subseteq Users /\ users' \subseteq Users
  BY DEF UpdateRole, DeleteUser, Inv, TypeInv, TypeOK
<1>4. \A o : o # row[u].org => Owners(o)' = Owners(o)
  BY <1>2, <1>3 DEF Owners, Members
<1>5. SentByOwner(w)'
  BY <1>2 DEF SentByOwner, ChangePC
<1> SUFFICES ASSUME NEW v \in Workers, v # w, pc[v] \in ChangePC \cup {"read_member"}
             PROVE  SentByOwner(v)'
  BY <1>2, <1>5 DEF SentByOwner
<1>6. SentByOwner(v)
  BY DEF SenderInv
<1>7. Serial => task[v].org # row[u].org
  BY <1>1 DEF SenderInv, TeamInv, TeamApart, ChangePC
<1>8. Serial => Owners(task[v].org)' = Owners(task[v].org)
  BY <1>2, <1>4, <1>7
<1> QED
  BY <1>2, <1>6, <1>8 DEF SentByOwner

\* The other steps change no team and read no member.
Others(w) ==
    \/ CreateOrganization(w) \/ CreateToken(w) \/ SendMail(w) \/ UpdatePassword(w) \/ MarkUsed(w)
    \/ \E e \in Emails, r \in Roles, u \in Users, t \in Tokens : CheckInvitee(w, e, r, u, t)
    \/ Reject(w) \/ RequireNotLastOwner(w) \/ Abort(w)

LEMMA OtherSender ==
    ASSUME Inv, NEW w \in Workers, \A v \in Workers : SentByOwner(v), Others(w)
    PROVE  \A v \in Workers : SentByOwner(v)'
<1>1. users' = users /\ \A u \in Users : row'[u].org = row[u].org /\ row'[u].role = row[u].role
  <2>1. CASE UpdatePassword(w)
    BY <2>1 DEF UpdatePassword, Inv, TypeInv, TypeOK, Row
  <2>2. CASE ~UpdatePassword(w)
    BY <2>2 DEF Others, CreateOrganization, CreateToken, SendMail, MarkUsed, CheckInvitee,
                Reject, RequireNotLastOwner, Abort
  <2> QED
    BY <2>1, <2>2
<1>2. \A v \in Workers : v # w => pc'[v] = pc[v] /\ task'[v] = task[v]
  BY DEF Others, CreateOrganization, CreateToken, SendMail, UpdatePassword, MarkUsed, CheckInvitee,
         Reject, RequireNotLastOwner, Abort, Goto, Finish, Inv, TypeInv, TypeOK
<1>3. pc'[w] \in ChangePC \cup {"read_member"} =>
          pc[w] \in ChangePC \cup {"read_member"} /\ task'[w] = task[w]
  BY DEF Others, CreateOrganization, CreateToken, SendMail, UpdatePassword, MarkUsed, CheckInvitee,
         Reject, RequireNotLastOwner, Abort, Goto, Finish, ChangePC, Inv, TypeInv, TypeOK
<1>4. \A o : Owners(o)' = Owners(o)
  BY <1>1 DEF Owners, Members, Inv, TypeInv, TypeOK
<1>5. row[task[w].sender].org = task[w].org /\ task[w].sender \in Users =>
          row'[task[w].sender].org = task[w].org
  BY <1>1
<1>6. SentByOwner(w)'
  BY <1>3, <1>4, <1>5 DEF SentByOwner
<1> QED
  BY <1>1, <1>2, <1>6, QuietSender

\* Every step keeps senders owners.
LEMMA NextSender == Inv /\ SenderInv /\ [Next]_vars => SenderInv'
<1> SUFFICES ASSUME Inv, SenderInv, [Next]_vars
             PROVE  SenderInv'
  OBVIOUS
<1>1. (Serial => TeamInv)'
  BY NextTeam DEF SenderInv
<1>2. \A v \in Workers : SentByOwner(v)'
  <2>0. \A v \in Workers : SentByOwner(v)
    BY DEF SenderInv
  <2>1. ASSUME NEW w \in Workers, Request(w)
        PROVE  \A v \in Workers : SentByOwner(v)'
    BY <2>0, <2>1, RequestSender
  <2>2. ASSUME NEW w \in Workers, Others(w)
        PROVE  \A v \in Workers : SentByOwner(v)'
    BY <2>0, <2>2, OtherSender
  <2>3. CASE UNCHANGED <<users, row, pc, task>>
    BY <2>0, <2>3 DEF SentByOwner, Owners, Members
  <2>4. ASSUME NEW w \in Workers, Step(w)
        PROVE  \A v \in Workers : SentByOwner(v)'
    BY <2>0, <2>2, <2>4, ReadMemberSender, CreateUserSender, ChangeSender DEF Step, Others
  <2> QED
    BY <2>1, <2>2, <2>3, <2>4 DEF Next, Expire, vars, Others
<1> QED
  BY <1>1, <1>2 DEF SenderInv

\* Only a change that an owner of his organization sent removes a user or
\* gives him another role: not an insertion, nor a password.
LEMMA StepInOrganization ==
    ASSUME Inv, SenderInv, Next, NEW u \in users, u \notin users' \/ row'[u].role # row[u].role
    PROVE  \E w \in Workers : OwnerChanges(w, u)
<1>1. ASSUME NEW w \in Workers, UpdateRole(w) \/ DeleteUser(w)
      PROVE  OwnerChanges(w, u)
  <2>1. pc[w] \in {"update_role", "delete_user"} /\ task[w].user = u
    BY <1>1 DEF Inv, TypeInv, TypeOK, UpdateRole, DeleteUser
  <2>2. task[w].org = row[u].org
    BY <2>1 DEF Inv, Authorised, ChangePC
  <2>3. SentByOwner(w)
    BY DEF SenderInv
  <2> QED
    BY <2>1, <2>2, <2>3 DEF SentByOwner, OwnerChanges, ChangePC
<1>3. ASSUME NEW w \in Workers, UpdatePassword(w)
      PROVE  FALSE
  BY <1>3 DEF UpdatePassword
<1>4. ASSUME NEW w \in Workers, CreateUser(w)
      PROVE  FALSE
  <2>1. pc[w] = "create_user" /\ row[task[w].user].org = None
    BY <1>4 DEF Inv, CreateUser, DrawnOnce, JoinPC
  <2>2. task[w].user # u
    BY <2>1, NoneAssumption DEF Inv, TypeInv, TypeOK
  <2> QED
    BY <1>4, <2>2 DEF Inv, TypeInv, TypeOK, CreateUser
<1>5. ASSUME NEW w \in Workers, Request(w)
      PROVE  FALSE
  BY <1>5
     DEF Inv, TypeInv, TypeOK, links, Request, Signup, AuthoriseInvite, AuthoriseChange,
         RequestReset, ResolveToken
<1>6. ASSUME NEW w \in Workers, Step(w)
      PROVE  UpdateRole(w) \/ DeleteUser(w) \/ UpdatePassword(w) \/ CreateUser(w)
  BY <1>6
     DEF Inv, TypeInv, TypeOK, links, Step, CreateOrganization, CheckInvitee, CreateToken,
         SendMail, MarkUsed, ReadMember, Reject, RequireNotLastOwner
<1> QED
  BY <1>1, <1>3, <1>4, <1>5, <1>6 DEF Next, Abort, Expire

\* A user is removed, or gets another role, only by a request whose sender was
\* an owner of his organization when it was authorised, under every
\* interleaving; while the changes of a team are sent one after the other, he
\* still is one when the change is made.
THEOREM ChangesAlwaysStayInOrganization == Spec => ChangesStayInOrganization
<1>1. Inv /\ SenderInv /\ [Next]_vars =>
          [\A u \in users :
              (u \notin users' \/ row'[u].role # row[u].role) =>
                  \E w \in Workers : OwnerChanges(w, u)]_vars
  BY StepInOrganization
<1> QED
  BY <1>1, InvAlways, InitSender, NextSender, PTL DEF Spec, ChangesStayInOrganization

-----------------------------------------------------------------------------
(* Refinement: the insertion founds a team or joins one, the update and    *)
(* the deletion are the changes of the directory, and no other step shows. *)

\* At first the directory is empty.
LEMMA InitMaps == Init => Directory!Init
BY DEF Init, Directory!Init, NoRow

\* No membership and no role changes.
LEMMA StutterMaps ==
    ASSUME users' = users,
           \A u \in Users : row'[u].org = row[u].org /\ row'[u].role = row[u].role
    PROVE  UNCHANGED Directory!directoryVars
BY DEF Directory!directoryVars

\* An owner in the directory is an owner in the table.
LEMMA OwnersMap == \A o : Directory!Owners(o) = {u \in Users : u \in Owners(o)}
BY DEF Directory!Owners, Owners, Members

\* Inserting a user founds or joins a team, or is refused.
LEMMA CreateUserMaps ==
    ASSUME TeamInv, Inv, NEW w \in Workers, CreateUser(w)
    PROVE  [Directory!Next]_(Directory!directoryVars)
<1>1. CASE EmailExists(task[w].email)
  BY <1>1, StutterMaps DEF CreateUser
<1>2. CASE ~EmailExists(task[w].email)
  <2>1. /\ task[w].user \in Users /\ task[w].org \in Orgs /\ task[w].role \in Roles
        /\ row[task[w].user].org = None
    BY DEF Inv, TypeInv, CreateUser, WorkerShape, DrawnOnce, JoinPC
  <2>2. PICK u \in Users, o \in Orgs, r \in Roles :
            /\ u = task[w].user /\ o = task[w].org /\ r = task[w].role
            /\ row[u].org = None
    BY <2>1
  <2>3. /\ users' = users \cup {u}
        /\ row'[u].org = o /\ row'[u].role = r
        /\ \A v \in Users : v # u => row'[v] = row[v]
    BY <1>2, <2>2 DEF CreateUser, Inv, TypeInv, TypeOK
  <2>4. Directory!Join(u, o, r)
    BY <2>2, <2>3 DEF Directory!Join
  <2>5. CASE task[w].token = None
    <3>1. r = "owner" /\ \A v \in Users : row[v].org # o
      BY <2>2, <2>5 DEF TeamInv, Founding, CreateUser, JoinPC
    <3>2. Directory!Found(u, o)
      BY <2>4, <3>1 DEF Directory!Found
    <3> QED
      BY <3>2 DEF Directory!Next
  <2>6. CASE task[w].token # None
    <3>1. \E v \in Users : row[v].org = o
      BY <2>2, <2>6 DEF TeamInv, Inviting, CreateUser, JoinPC
    <3>2. Owners(o) # {} /\ Owners(o) \subseteq Users
      BY <3>1, NoneAssumption DEF TeamInv, OwnerRemains, Owners, Members, Inv, TypeInv, TypeOK
    <3>3. Directory!Invite(u, o, r)
      BY <2>4, <3>2, OwnersMap DEF Directory!Invite
    <3> QED
      BY <3>3 DEF Directory!Next, Directory!Roles, Roles
  <2> QED
    BY <2>5, <2>6
<1> QED
  BY <1>1, <1>2

\* Updating a role is the directory's change of role.
LEMMA UpdateRoleMaps ==
    ASSUME TeamInv, Inv, NEW w \in Workers, UpdateRole(w)
    PROVE  [Directory!Next]_(Directory!directoryVars)
<1>1. CASE task[w].user \notin users
  BY <1>1, StutterMaps DEF UpdateRole
<1>2. CASE task[w].user \in users
  <2>1. task[w].user \in Users /\ task[w].role \in Roles /\ task[w].org = row[task[w].user].org
    BY DEF Inv, TypeInv, UpdateRole, WorkerShape, Authorised, ChangePC
  <2>2. PICK u \in Users, r \in Roles : u = task[w].user /\ r = task[w].role
    BY <2>1
  <2>3. /\ users' = users /\ row'[u].role = r
        /\ \A v \in Users : row'[v].org = row[v].org
        /\ \A v \in Users : v # u => row'[v].role = row[v].role
    BY <1>2, <2>2 DEF UpdateRole, Inv, TypeInv, TypeOK, Row
  <2>4. row[u].role = "owner" /\ r # "owner" =>
            \E v \in Owners(row[u].org) : v # u
    BY <1>2, <2>1, <2>2 DEF TeamInv, KeepsOwner, UpdateRole, Owners, Members
  <2>5. Directory!ChangeRole(u, r)
    <3>1. Directory!SomeoneElseOwns(u) <=> \E v \in Users : v \in Owners(row[u].org) /\ v # u
      BY OwnersMap DEF Directory!SomeoneElseOwns
    <3>2. Owners(row[u].org) \subseteq Users
      BY DEF Owners, Members, Inv, TypeInv, TypeOK
    <3>3. row[u].role \in Roles
      BY DEF Inv, TypeInv, TypeOK, Row
    <3> QED
      BY <1>2, <2>2, <2>3, <2>4, <3>1, <3>2, <3>3 DEF Directory!ChangeRole, Roles
  <2> QED
    BY <2>5 DEF Directory!Next, Directory!Roles, Roles
<1> QED
  BY <1>1, <1>2

\* Deleting a user is the directory's removal.
LEMMA DeleteUserMaps ==
    ASSUME TeamInv, Inv, NEW w \in Workers, DeleteUser(w)
    PROVE  [Directory!Next]_(Directory!directoryVars)
<1>1. CASE task[w].user \notin users
  <2>1. users' = users /\ row' = row
    BY <1>1 DEF DeleteUser
  <2> QED
    BY <2>1, StutterMaps
<1>2. CASE task[w].user \in users
  <2>1. task[w].user \in Users /\ task[w].org = row[task[w].user].org
    BY DEF Inv, TypeInv, DeleteUser, WorkerShape, Authorised, ChangePC
  <2>2. PICK u \in Users : u = task[w].user
    BY <2>1
  <2>3. users' = users \ {u} /\ row' = row
    BY <2>2 DEF DeleteUser
  <2>4. row[u].role = "owner" => \E v \in Owners(row[u].org) : v # u
    BY <1>2, <2>1, <2>2 DEF TeamInv, KeepsOwner, DeleteUser, Owners, Members
  <2>5. Directory!Leave(u)
    <3>1. Directory!SomeoneElseOwns(u) <=> \E v \in Users : v \in Owners(row[u].org) /\ v # u
      BY OwnersMap DEF Directory!SomeoneElseOwns
    <3>2. Owners(row[u].org) \subseteq Users
      BY DEF Owners, Members, Inv, TypeInv, TypeOK
    <3>3. row[u].role \in Roles
      BY DEF Inv, TypeInv, TypeOK, Row
    <3> QED
      BY <1>2, <2>2, <2>3, <2>4, <3>1, <3>2, <3>3 DEF Directory!Leave, Roles
  <2> QED
    BY <2>5 DEF Directory!Next
<1> QED
  BY <1>1, <1>2

\* Every step of the accounts is a step of the directory, or none.
LEMMA NextMaps ==
    ASSUME TeamInv, Inv, [Next]_vars
    PROVE  [Directory!Next]_(Directory!directoryVars)
<1>1. ASSUME NEW w \in Workers, Request(w)
      PROVE  users' = users /\ row' = row
  BY <1>1 DEF Request, Signup, AuthoriseInvite, AuthoriseChange, RequestReset, ResolveToken
<1>2. ASSUME NEW w \in Workers, UpdatePassword(w)
      PROVE  /\ users' = users
             /\ \A u \in Users : row'[u].org = row[u].org /\ row'[u].role = row[u].role
  BY <1>2 DEF UpdatePassword, Inv, TypeInv, TypeOK, Row
<1>3. ASSUME NEW w \in Workers, Step(w)
      PROVE  \/ CreateUser(w) \/ UpdateRole(w) \/ DeleteUser(w) \/ UpdatePassword(w)
             \/ users' = users /\ row' = row
  BY <1>3 DEF Step, CreateOrganization, CheckInvitee, CreateToken, SendMail, MarkUsed, ReadMember,
              Reject, RequireNotLastOwner
<1>4. (\E w \in Workers : Abort(w)) \/ (\E t \in Tokens : Expire(t)) \/ UNCHANGED vars =>
          users' = users /\ row' = row
  BY DEF Abort, Expire, vars
<1> QED
  BY <1>1, <1>2, <1>3, <1>4, StutterMaps, CreateUserMaps, UpdateRoleMaps, DeleteUserMaps DEF Next

\* Teams whose changes are sent one after the other follow the directory.
THEOREM TeamsFollowDirectory == ASSUME Serial PROVE Spec => ImplementsDirectory
<1>1. Inv /\ TeamInv /\ [Next]_vars => TeamInv'
  BY NextTeam
<1>2. Inv /\ TeamInv /\ [Next]_vars => [Directory!Next]_(Directory!directoryVars)
  BY NextMaps
<1> QED
  BY <1>1, <1>2, InitMaps, InitTeam, InvAlways, PTL DEF Spec, ImplementsDirectory, Directory!Spec

=============================================================================
