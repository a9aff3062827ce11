------------------------------ MODULE Accounts ------------------------------
(***************************************************************************)
(* Signing up, logging in through GitLab, linking Telegram and changing    *)
(* group (src/internal/web/login.go, api.go; src/internal/database).  All  *)
(* write the row of a user, each after having read a copy of it.           *)
(*                                                                         *)
(* A session never changes, so a token is the number of its user.  The     *)
(* session cookie comes with a request and is replaced as a whole by what  *)
(* the request makes of it.  GitLab is external: it says who is at the     *)
(* browser.                                                                *)
(***************************************************************************)
EXTENDS Integers, Sequences

CONSTANTS
    Browsers, Requests, NoBrowser,
    Forms,      \* signup forms filled in; sub is "" with the secret of a group
    Groups,
    Logins,     \* GitLab accounts
    NoLogin,
    MaxChanges  \* bound: group changes

ASSUME AccountsAssumption ==
    /\ Forms \subseteq [name: STRING, group: Groups, sub: STRING, email: STRING]
    /\ Forms # {} /\ NoLogin \notin Logins /\ NoBrowser \notin Browsers /\ MaxChanges \in Nat

VARIABLES
    users,    \* the users table, by id
    cookie,   \* the user of each browser's token, 0 without one
    req,      \* requests being served
    handed,   \* what the projects maker has been given
    changes

vars == <<users, cookie, req, handed, changes>>

(* Where no form is looked at, any stands for none.                        *)
NoForm == CHOOSE f \in Forms : TRUE
NewRow(f) == [form |-> f, login |-> NoLogin, telegram |-> FALSE]

(* cookie: as it came; row, copy: the user read; clash: history, the rows  *)
(* that had the name of the form when it was looked for                    *)
Idle == [pc |-> "idle", browser |-> NoBrowser, cookie |-> 0,
         form |-> NoForm, row |-> 0, copy |-> NewRow(NoForm), clash |-> {}]

Init ==
    /\ users = <<>>
    /\ cookie = [b \in Browsers |-> 0]
    /\ req = [q \in Requests |-> Idle]
    /\ handed = <<>>
    /\ changes = 0

-----------------------------------------------------------------------------
(* idx_name; a row keeps the name, subgroup and e-mail it was created with *)
Named(u, form) ==
    /\ users[u].form.name = form.name /\ users[u].form.group = form.group
    /\ users[u].form.sub = form.sub

(* FirstOrCreate leaves what is empty out of its condition.                *)
Matches(u, form) ==
    /\ users[u].form.name = form.name /\ users[u].form.group = form.group
    /\ form.sub # "" => users[u].form.sub = form.sub
    /\ form.email # "" => users[u].form.email = form.email

Owners(login) == {u \in DOMAIN users : users[u].login = login}

Begin(q, b, kind) ==
    /\ req[q].pc = "idle"
    /\ req' = [req EXCEPT ![q] = [Idle EXCEPT !.pc = kind, !.browser = b, !.cookie = cookie[b]]]
    /\ UNCHANGED <<users, cookie, handed, changes>>

(* The response replaces the cookie by the one of the request, with user.  *)
Respond(q, user) ==
    /\ cookie' = [cookie EXCEPT ![req[q].browser] = user]
    /\ req' = [req EXCEPT ![q] = Idle]

(* RedirectToSignup, after whatever went wrong, and logout.                *)
RedirectToSignup(q) ==
    /\ req[q].pc \notin {"idle", "login", "telegram", "changeGroup", "handOver"}
    /\ Respond(q, 0)
    /\ UNCHANGED <<users, handed, changes>>

(* The process dies with the requests it serves.                           *)
Restart ==
    /\ req' = [q \in Requests |-> Idle]
    /\ UNCHANGED <<users, cookie, handed, changes>>

-----------------------------------------------------------------------------
(* The callback looks at nothing but the account of the user it has read.  *)
Reads(q, row, next) ==
    req' = [req EXCEPT ![q].pc = next, ![q].row = row, ![q].copy.login = users[row].login]

(* Mutant of SignupFind: the row is created without looking for it.        *)
SignupCreateOnly(q, f) ==
    /\ req[q].pc = "signup"
    /\ req' = [req EXCEPT ![q].form = f, ![q].pc = "create",
                          ![q].clash = {v \in DOMAIN users : Named(v, f)}]
    /\ UNCHANGED <<users, cookie, handed, changes>>

(* AddUser: FirstOrCreate looks for the row, ...                           *)
SignupFind(q, f) ==
    /\ req[q].pc = "signup"
    /\ LET found == {u \in DOMAIN users : Matches(u, f)}
           read  == [req[q] EXCEPT !.form = f, !.clash = {v \in DOMAIN users : Named(v, f)}]
       IN \/ /\ found = {}
             /\ req' = [req EXCEPT ![q] = [read EXCEPT !.pc = "create"]]
          \/ \E u \in found :
               /\ \A v \in found : u <= v
               /\ req' = [req EXCEPT ![q] =
                    IF users[u].login = NoLogin
                    THEN [@ EXCEPT !.pc = "session", !.row = u]
                    ELSE [read EXCEPT !.pc = "refused", !.row = u]]
    /\ UNCHANGED <<users, cookie, handed, changes>>

(* ... and creates it in a statement of its own, unless the index refuses. *)
SignupCreate(q) ==
    /\ req[q].pc = "create"
    /\ IF \E u \in DOMAIN users : Named(u, req[q].form)
       THEN req' = [req EXCEPT ![q].pc = "refused"] /\ UNCHANGED users
       ELSE /\ users' = Append(users, NewRow(req[q].form))
            /\ req' = [req EXCEPT ![q] = [@ EXCEPT !.pc = "session", !.row = Len(users'),
                                                    !.form = NoForm, !.clash = {}]]
    /\ UNCHANGED <<cookie, handed, changes>>

fillSessionForUser(q) ==
    /\ req[q].pc = "session"
    /\ Respond(q, req[q].row)
    /\ UNCHANGED <<users, handed, changes>>

(* A new oauth state in the cookie, and the token as it came.              *)
login(q) ==
    /\ req[q].pc = "login"
    /\ Respond(q, req[q].cookie)
    /\ UNCHANGED <<users, handed, changes>>

-----------------------------------------------------------------------------
(* The callback finds its oauth state in the cookie; with another one, it  *)
(* ends in RedirectToSignup.                                               *)
OauthFindSession(q) ==
    /\ req[q].pc = "oauth"
    /\ IF req[q].cookie # 0 THEN Reads(q, req[q].cookie, "gitlab")
       ELSE req' = [req EXCEPT ![q].pc = "gitlab"]
    /\ UNCHANGED <<users, cookie, handed, changes>>

(* Mutant of OauthUser: an unknown account is not refused.                 *)
OauthAnyUser(q, l) ==
    /\ req[q].pc = "gitlab"
    /\ req' = [req EXCEPT ![q].pc = "link", ![q].copy.login = l]
    /\ UNCHANGED <<users, cookie, handed, changes>>

(* GitLab says who it is.  Without a token, that says which user, too; a   *)
(* user who is linked gets a session and no other account.                 *)
OauthUser(q, l) ==
    /\ req[q].pc = "gitlab"
    /\ \/ /\ req[q].row # 0
          /\ req' = [req EXCEPT ![q].pc = IF req[q].copy.login # NoLogin THEN "session" ELSE "link",
                                ![q].copy.login = IF @ # NoLogin THEN @ ELSE l]
       \/ /\ req[q].row = 0
          /\ \E u \in Owners(l) : Reads(q, u, "session")
    /\ UNCHANGED <<users, cookie, handed, changes>>

LinkOf(q) == users' = [users EXCEPT ![req[q].row].login = req[q].copy.login]

(* Mutant of SetUserGitlabAccount: that no row was updated is not noticed. *)
LinkUnnoticed(q) ==
    /\ req[q].pc = "link" /\ Owners(req[q].copy.login) \ {req[q].row} = {}
    /\ IF users[req[q].row].login = NoLogin THEN LinkOf(q) ELSE UNCHANGED users
    /\ req' = [req EXCEPT ![q].pc = "handOver"]
    /\ UNCHANGED <<cookie, handed, changes>>

(* The update of a row that is not linked yet; the indexes refuse an       *)
(* account that another user has.                                          *)
SetUserGitlabAccount(q) ==
    /\ req[q].pc = "link"
    /\ IF users[req[q].row].login = NoLogin /\ Owners(req[q].copy.login) = {}
       THEN LinkOf(q) /\ req' = [req EXCEPT ![q].pc = "handOver"]
       ELSE req' = [req EXCEPT ![q].pc = "logout", ![q].copy = NewRow(NoForm)]
            /\ UNCHANGED users
    /\ UNCHANGED <<cookie, handed, changes>>

(* The projects maker gets the copy, not the row.                          *)
AsyncPrepareProject(q) ==
    /\ req[q].pc = "handOver"
    /\ handed' = Append(handed, <<req[q].row, req[q].copy.login>>)
    /\ Respond(q, req[q].cookie)
    /\ UNCHANGED <<users, changes>>

-----------------------------------------------------------------------------
(* validateSession reads the user, who must be linked.                     *)
TelegramBegin(q, b) ==
    /\ req[q].pc = "idle" /\ cookie[b] # 0 /\ users[cookie[b]].login # NoLogin
    /\ req' = [req EXCEPT ![q] = [Idle EXCEPT !.pc = "telegram", !.row = cookie[b]]]
    /\ UNCHANGED <<users, cookie, handed, changes>>

Served(q) == req' = [req EXCEPT ![q] = Idle] /\ UNCHANGED <<cookie, handed, changes>>

(* The callback is refused, or stores one column.                          *)
SetUserTelegramID(q) ==
    /\ req[q].pc = "telegram"
    /\ users' = [users EXCEPT ![req[q].row].telegram = TRUE]
    /\ Served(q)

TelegramRefused(q) == req[q].pc = "telegram" /\ Served(q) /\ UNCHANGED users

ChangeGroup(q, l, g) ==
    /\ req[q].pc = "idle" /\ changes < MaxChanges /\ changes' = changes + 1
    /\ \E u \in Owners(l) :
         req' = [req EXCEPT ![q] = [Idle EXCEPT !.pc = "changeGroup", !.row = u,
                                      !.copy = [users[u] EXCEPT !.form.group = g]]]
    /\ UNCHANGED <<users, cookie, handed>>

Clashes(q) == \E u \in DOMAIN users : u # req[q].row /\ Named(u, req[q].copy.form)

(* Mutant of SetUserGroupName: the copy is saved, the whole of it.         *)
SaveUser(q) ==
    /\ req[q].pc = "changeGroup"
    /\ users' = IF Clashes(q) THEN users ELSE [users EXCEPT ![req[q].row] = req[q].copy]
    /\ Served(q)

SetUserGroupName(q) ==
    /\ req[q].pc = "changeGroup"
    /\ users' = IF Clashes(q) THEN users
                ELSE [users EXCEPT ![req[q].row].form.group = req[q].copy.form.group]
    /\ Served(q)

Next ==
    \/ \E q \in Requests :
         \/ \E b \in Browsers, kind \in {"signup", "login", "oauth", "logout"} : Begin(q, b, kind)
         \/ \E f \in Forms : SignupFind(q, f)
         \/ SignupCreate(q) \/ fillSessionForUser(q) \/ login(q)
         \/ OauthFindSession(q) \/ SetUserGitlabAccount(q) \/ AsyncPrepareProject(q)
         \/ \E l \in Logins : OauthUser(q, l)
         \/ RedirectToSignup(q)
         \/ \E b \in Browsers : TelegramBegin(q, b)
         \/ SetUserTelegramID(q) \/ TelegramRefused(q)
         \/ \E l \in Logins, g \in Groups : ChangeGroup(q, l, g)
         \/ SetUserGroupName(q)
    \/ Restart

Spec == Init /\ [][Next]_vars

-----------------------------------------------------------------------------
Stage == {"idle", "signup", "login", "oauth", "logout", "create", "session", "refused",
          "gitlab", "link", "handOver", "telegram", "changeGroup"}

Row == [form: [name: STRING, group: Groups, sub: STRING, email: STRING],
        login: Logins \cup {NoLogin}, telegram: BOOLEAN]

TypeOK ==
    /\ users \in Seq(Row)
    /\ cookie \in [Browsers -> 0..Len(users)]
    /\ \A q \in Requests :
         /\ req[q].pc \in Stage /\ req[q].browser \in Browsers \cup {NoBrowser}
         /\ req[q].copy \in Row /\ req[q].form \in Forms
         /\ req[q].cookie \in 0..Len(users)
         /\ req[q].row \in 0..Len(users) /\ req[q].clash \subseteq DOMAIN users
         /\ req[q].pc \in {"session", "link", "handOver", "telegram", "changeGroup"}
              => req[q].row # 0
    /\ handed \in Seq((1..Len(users)) \X Logins) /\ changes \in 0..MaxChanges

(* However callbacks race, the projects maker is given every user at most  *)
(* once, with the account the table has and no other user has: the copy it *)
(* names the project from is right (database.go:152).                      *)
HandedAsLinked ==
    \A i, j \in DOMAIN handed :
        /\ users[handed[i][1]].login = handed[i][2]
        /\ handed[i][1] = handed[j][1] => i = j
        /\ handed[i][2] = handed[j][2] => i = j

(* A signup is refused on account of a row that is linked, that signed up  *)
(* with another e-mail, or that was not there when this one looked: two    *)
(* equal forms may race, and the second, sent again, finds the row of the  *)
(* first.  A student who came no further than the form is never shut out   *)
(* for good (database.go, AddUser).                                        *)
Refuses(u, r) ==
    \/ u = r.row /\ users[u].login # NoLogin
    \/ /\ Named(u, r.form)
       /\ \/ users[u].login # NoLogin
          \/ users[u].form.email # r.form.email
          \/ u \notin r.clash /\ Matches(u, r.form)

RefusalHasCause ==
    [][\A q \in Requests :
         req'[q].pc = "refused" /\ req[q].pc # "refused"
            => \E u \in DOMAIN users : Refuses(u, req'[q])]_vars

(* Writers that hold copies of a row lose nothing of what others store: an *)
(* account once linked stays, and so does Telegram.                        *)
NothingIsLost ==
    [][\A u \in DOMAIN users :
         /\ u \in DOMAIN users'
         /\ users[u].login # NoLogin => users'[u].login = users[u].login
         /\ users[u].telegram => users'[u].telegram
         /\ [users'[u].form EXCEPT !.group = users[u].form.group] = users[u].form]_vars

(* The login handlers keep the promise of AccountLinks: of all callbacks   *)
(* for a user or an account, one links it and is the one to hand it over.  *)
Linked  == {u \in DOMAIN users : users[u].login # NoLogin}
Pending == {req[q].row : q \in {p \in Requests : req[p].pc = "handOver"}}

Links == INSTANCE AccountLinks WITH linked <- Linked, pending <- Pending
ImplementsLinks == Links!Spec

=============================================================================
