-------------------------- MODULE Accounts_proofs --------------------------
(***************************************************************************)
(* Proofs about Accounts, for any number of browsers, requests at a time,  *)
(* forms, GitLab accounts and group changes.                               *)
(***************************************************************************)
EXTENDS Accounts, SequenceTheorems, TLAPS

FormT == [name: STRING, group: Groups, sub: STRING, email: STRING]
Request == [pc: Stage, browser: Browsers \cup {NoBrowser}, cookie: Nat,
            form: Forms, row: Nat, copy: Row, clash: SUBSET Nat]

(* What a request carries names rows of a table of n; and a request that   *)
(* is about to link or hand over an account has one.                       *)
Good(x, n) ==
    /\ x \in Request
    /\ x.cookie <= n /\ x.row <= n /\ x.clash \subseteq 1..n
    /\ x.pc \in {"session", "link", "handOver", "telegram", "changeGroup"} => x.row # 0
    /\ x.pc \in {"link", "handOver"} => x.copy.login \in Logins

Types ==
    /\ users \in Seq(Row)
    /\ cookie \in [Browsers -> 0..Len(users)]
    /\ req \in [Requests -> Request]
    /\ \A q \in Requests : Good(req[q], Len(users))
    /\ handed \in Seq((1..Len(users)) \X Logins) /\ changes \in 0..MaxChanges

(* An account has one user.                                                *)
OneOwner ==
    \A u, v \in 1..Len(users) :
        (users[u].login # NoLogin /\ users[u].login = users[v].login) => u = v

(* A request that will hand a user over has just linked it, nobody else    *)
(* has, and nobody has handed it over yet.                                 *)
HandOverHolds ==
    \A q \in Requests : req[q].pc = "handOver" =>
        /\ users[req[q].row].login = req[q].copy.login
        /\ \A p \in Requests : (req[p].pc = "handOver" /\ req[p].row = req[q].row) => p = q
        /\ \A i \in 1..Len(handed) : handed[i][1] # req[q].row

HandedHolds ==
    \A i, j \in 1..Len(handed) :
        /\ users[handed[i][1]].login = handed[i][2]
        /\ handed[i][1] = handed[j][1] => i = j

IInv == Types /\ OneOwner /\ HandOverHolds /\ HandedHolds

LEMMA Blank ==
    /\ NoForm \in Forms /\ NewRow(NoForm) \in Row
    /\ \A f \in Forms : NewRow(f) \in Row /\ f \in FormT
    /\ Idle \in Request /\ \A n \in Nat : Good(Idle, n)
  <1>1. NoForm \in Forms
    BY AccountsAssumption DEF NoForm
  <1>2. \A f \in Forms : NewRow(f) \in Row /\ f \in FormT
    BY AccountsAssumption DEF NewRow, Row, FormT
  <1>3. NewRow(NoForm) \in Row
    BY <1>1, <1>2
  <1>4. Idle \in Request
    BY <1>1, <1>3 DEF Idle, Request, Stage
  <1>5. Idle.cookie = 0 /\ Idle.row = 0 /\ Idle.clash = {} /\ Idle.pc = "idle"
    BY DEF Idle
  <1> QED
    BY <1>1, <1>2, <1>3, <1>4, <1>5 DEF Good

LEMMA InitIInv == Init => IInv
  <1> SUFFICES ASSUME Init PROVE IInv
    OBVIOUS
  <1>1. /\ users = <<>> /\ handed = <<>> /\ Len(users) = 0 /\ Len(handed) = 0
        /\ req = [q \in Requests |-> Idle] /\ changes = 0
        /\ cookie = [b \in Browsers |-> 0]
    BY DEF Init
  <1>2. \A q \in Requests : req[q] = Idle /\ Good(req[q], 0) /\ req[q].pc = "idle"
    BY <1>1, Blank DEF Idle
  <1>3. users \in Seq(Row) /\ handed \in Seq((1..0) \X Logins)
    BY <1>1
  <1>4. Types
    BY <1>1, <1>2, <1>3, Blank, AccountsAssumption DEF Types
  <1>5. OneOwner /\ HandedHolds
    BY <1>1 DEF OneOwner, HandedHolds
  <1>6. HandOverHolds
    BY <1>2 DEF HandOverHolds
  <1> QED
    BY <1>4, <1>5, <1>6 DEF IInv

(* The table only grows, rows keep their account, new ones have none; one  *)
(* request goes on and is not about to hand anything over.                 *)
LEMMA RequestGoesOn ==
    ASSUME IInv, NEW q \in Requests, NEW x, req' = [req EXCEPT ![q] = x],
           Good(x, Len(users')), x.pc # "handOver",
           users' \in Seq(Row), Len(users) <= Len(users'),
           \A u \in 1..Len(users) : users'[u].login = users[u].login,
           \A u \in 1..Len(users') : u > Len(users) => users'[u].login = NoLogin,
           handed' = handed, changes' \in 0..MaxChanges,
           cookie' \in [Browsers -> 0..Len(users')]
    PROVE  IInv'
  <1>0. /\ Types /\ OneOwner /\ HandOverHolds /\ HandedHolds
    BY DEF IInv
  <1>1. /\ req' \in [Requests -> Request] /\ req'[q] = x
        /\ \A p \in Requests : p # q => req'[p] = req[p]
    BY <1>0 DEF Types, Good
  <1>2. Len(users) \in Nat /\ Len(users') \in Nat
    BY <1>0 DEF Types
  <1>3. ASSUME NEW p \in Requests PROVE Good(req'[p], Len(users'))
    <2>1. CASE p = q
      BY <1>1, <2>1
    <2>2. CASE p # q
      <3>1. Good(req[p], Len(users)) /\ req'[p] = req[p]
        BY <1>0, <1>1, <2>2 DEF Types
      <3>2. req[p].cookie \in Nat /\ req[p].row \in Nat
        BY <3>1 DEF Good, Request
      <3> QED
        BY <1>2, <3>1, <3>2 DEF Good
    <2> QED
      BY <2>1, <2>2
  <1>4. handed \in Seq((1..Len(users)) \X Logins) /\ handed' \in Seq((1..Len(users')) \X Logins)
    <2>1. (1..Len(users)) \X Logins \subseteq (1..Len(users')) \X Logins
      BY <1>2
    <2>2. handed \in Seq((1..Len(users)) \X Logins)
      BY <1>0 DEF Types
    <2>3. handed \in Seq((1..Len(users')) \X Logins)
      BY <2>1, <2>2, SeqMonotonic
    <2> QED
      BY <2>2, <2>3
  <1>5. Types'
    BY <1>1, <1>3, <1>4 DEF Types
  <1>6. OneOwner'
    <2> SUFFICES ASSUME NEW u \in 1..Len(users'), NEW v \in 1..Len(users'),
                        users'[u].login # NoLogin, users'[u].login = users'[v].login
                 PROVE  u = v
      BY DEF OneOwner
    <2>1. u \in 1..Len(users) /\ v \in 1..Len(users)
      BY <1>2
    <2> QED
      BY <1>0, <2>1 DEF OneOwner
  <1>7. \A i \in 1..Len(handed) : handed[i][1] \in 1..Len(users) /\ handed[i][2] \in Logins
    BY <1>4
  <1>8. HandedHolds'
    BY <1>0, <1>7 DEF HandedHolds
  <1>9. HandOverHolds'
    <2> SUFFICES ASSUME NEW p \in Requests, req'[p].pc = "handOver"
                 PROVE  /\ users'[req'[p].row].login = req'[p].copy.login
                        /\ \A r \in Requests :
                             (req'[r].pc = "handOver" /\ req'[r].row = req'[p].row) => r = p
                        /\ \A i \in 1..Len(handed') : handed'[i][1] # req'[p].row
      BY DEF HandOverHolds
    <2>1. p # q /\ req'[p] = req[p]
      BY <1>1
    <2>2. req[p].row \in 1..Len(users)
      BY <1>0, <1>2, <2>1 DEF Types, Good, Request
    <2> QED
      BY <1>0, <1>1, <2>1, <2>2 DEF HandOverHolds
  <1> QED
    BY <1>5, <1>6, <1>8, <1>9 DEF IInv

(* The same where the table stays as it is.                                *)
LEMMA TableStays ==
    ASSUME IInv, NEW q \in Requests, NEW x, req' = [req EXCEPT ![q] = x],
           Good(x, Len(users)), x.pc # "handOver",
           users' = users, handed' = handed, changes' \in 0..MaxChanges,
           cookie' \in [Browsers -> 0..Len(users)]
    PROVE  IInv'
  <1>1. users \in Seq(Row) /\ Len(users) \in Nat
    BY DEF IInv, Types
  <1>2. /\ Len(users) <= Len(users')
        /\ \A u \in 1..Len(users') : u > Len(users) => users'[u].login = NoLogin
    BY <1>1
  <1> QED
    BY <1>1, <1>2, RequestGoesOn

-----------------------------------------------------------------------------
(* What every action starts from.                                          *)
LEMMA Known ==
    ASSUME IInv, NEW q \in Requests
    PROVE  /\ Len(users) \in Nat /\ users \in Seq(Row) /\ DOMAIN users = 1..Len(users)
           /\ \A u \in 1..Len(users) : users[u] \in Row
           /\ req \in [Requests -> Request]
           /\ req[q] \in Request /\ Good(req[q], Len(users))
           /\ cookie \in [Browsers -> 0..Len(users)]
           /\ changes \in 0..MaxChanges
  <1>1. users \in Seq(Row) /\ Good(req[q], Len(users)) /\ req[q] \in Request
    BY DEF IInv, Types
  <1> QED
    BY <1>1, LenProperties, ElementOfSeq DEF IInv, Types

(* The answer: the request is over and the cookie names its user.          *)
LEMMA RespondKeeps ==
    ASSUME IInv, NEW q \in Requests, NEW user \in 0..Len(users), Respond(q, user),
           UNCHANGED <<users, handed, changes>>
    PROVE  IInv'
  <1>1. req' = [req EXCEPT ![q] = Idle] /\ Good(Idle, Len(users)) /\ Idle.pc # "handOver"
    BY Known, Blank DEF Respond, Idle
  <1>2. cookie' \in [Browsers -> 0..Len(users)] /\ changes' \in 0..MaxChanges
    BY Known DEF Respond
  <1> QED
    BY <1>1, <1>2, TableStays

LEMMA SessionKeeps ==
    ASSUME IInv, NEW q \in Requests, RedirectToSignup(q) \/ fillSessionForUser(q) \/ login(q)
    PROVE  IInv'
  <1>1. 0 \in 0..Len(users) /\ req[q].row \in 0..Len(users) /\ req[q].cookie \in 0..Len(users)
    BY Known DEF Good, Request
  <1> QED
    BY <1>1, RespondKeeps DEF RedirectToSignup, fillSessionForUser, login

LEMMA BeginKeeps ==
    ASSUME IInv, NEW q \in Requests, NEW b \in Browsers,
           NEW kind \in {"signup", "login", "oauth", "logout"}, Begin(q, b, kind)
    PROVE  IInv'
  <1> DEFINE x == [Idle EXCEPT !.pc = kind, !.browser = b, !.cookie = cookie[b]]
  <1>1. req' = [req EXCEPT ![q] = x]
        /\ UNCHANGED <<users, cookie, handed, changes>>
    BY DEF Begin
  <1>2. cookie[b] \in 0..Len(users) /\ Len(users) \in Nat
    BY Known
  <1>3. x \in Request /\ x.pc = kind /\ x.cookie = cookie[b] /\ x.row = 0 /\ x.clash = {}
    <2>1. Idle.row = 0 /\ Idle.clash = {}
      BY DEF Idle
    <2>2. cookie[b] \in Nat /\ kind \in Stage /\ Idle \in Request
      BY <1>2, Blank DEF Stage
    <2> QED
      BY <2>1, <2>2 DEF Request
  <1> HIDE DEF x
  <1>4. Good(x, Len(users)) /\ x.pc # "handOver"
    BY <1>2, <1>3 DEF Good
  <1> QED
    BY <1>1, <1>4, Known, TableStays

LEMMA SignupFindKeeps ==
    ASSUME IInv, NEW q \in Requests, NEW f \in Forms, SignupFind(q, f)
    PROVE  IInv'
  <1> DEFINE clash == {v \in DOMAIN users : Named(v, f)}
             read == [req[q] EXCEPT !.form = f, !.clash = clash]
  <1>1. UNCHANGED <<users, cookie, handed, changes>>
    BY DEF SignupFind
  <1>2. /\ req[q] \in Request /\ Good(req[q], Len(users)) /\ Len(users) \in Nat
        /\ clash \subseteq 1..Len(users)
    BY Known
  <1>3. PICK x : /\ req' = [req EXCEPT ![q] = x]
                 /\ \/ x = [read EXCEPT !.pc = "create"]
                    \/ \E u \in DOMAIN users :
                         \/ x = [req[q] EXCEPT !.pc = "session", !.row = u]
                         \/ x = [read EXCEPT !.pc = "refused", !.row = u]
    <2>1. CASE req' = [req EXCEPT ![q] = [read EXCEPT !.pc = "create"]]
      BY <2>1
    <2>2. ASSUME NEW u \in DOMAIN users,
                 req' = [req EXCEPT ![q] =
                    IF users[u].login = NoLogin
                    THEN [req[q] EXCEPT !.pc = "session", !.row = u]
                    ELSE [read EXCEPT !.pc = "refused", !.row = u]]
          PROVE  \E x : /\ req' = [req EXCEPT ![q] = x]
                        /\ \/ x = [req[q] EXCEPT !.pc = "session", !.row = u]
                           \/ x = [read EXCEPT !.pc = "refused", !.row = u]
      BY <2>2
    <2> QED
      BY <2>1, <2>2 DEF SignupFind
  <1>4. clash \in SUBSET Nat
    BY <1>2
  <1> HIDE DEF clash
  <1>5. read \in Request /\ read.cookie = req[q].cookie /\ read.row = req[q].row
        /\ read.clash = clash
    BY <1>2, <1>4 DEF Request
  <1> HIDE DEF read
  <1>6. CASE x = [read EXCEPT !.pc = "create"]
    <2>1. x \in Request /\ x.pc = "create" /\ x.cookie = read.cookie /\ x.row = read.row
          /\ x.clash = read.clash
      BY <1>5, <1>6 DEF Request, Stage
    <2>2. Good(x, Len(users)) /\ x.pc # "handOver"
      BY <1>2, <1>5, <2>1 DEF Good
    <2> QED
      BY <1>1, <1>3, <2>2, Known, TableStays
  <1>7. ASSUME NEW u \in DOMAIN users, x = [req[q] EXCEPT !.pc = "session", !.row = u]
        PROVE  IInv'
    <2>1. u \in 1..Len(users) /\ u \in Nat
      BY <1>2, Known
    <2>2. x \in Request /\ x.pc = "session" /\ x.cookie = req[q].cookie /\ x.row = u
          /\ x.clash = req[q].clash
      BY <1>2, <1>7, <2>1 DEF Request, Stage
    <2>3. Good(x, Len(users)) /\ x.pc # "handOver"
      BY <1>2, <2>1, <2>2 DEF Good
    <2> QED
      BY <1>1, <1>3, <2>3, Known, TableStays
  <1>8. ASSUME NEW u \in DOMAIN users, x = [read EXCEPT !.pc = "refused", !.row = u]
        PROVE  IInv'
    <2>1. u \in 1..Len(users) /\ u \in Nat
      BY <1>2, Known
    <2>2. x \in Request /\ x.pc = "refused" /\ x.cookie = read.cookie /\ x.row = u
          /\ x.clash = read.clash
      BY <1>5, <1>8, <2>1 DEF Request, Stage
    <2>3. Good(x, Len(users)) /\ x.pc # "handOver"
      BY <1>2, <1>5, <2>1, <2>2 DEF Good
    <2> QED
      BY <1>1, <1>3, <2>3, Known, TableStays
  <1> QED
    BY <1>3, <1>6, <1>7, <1>8

LEMMA SignupCreateKeeps ==
    ASSUME IInv, NEW q \in Requests, SignupCreate(q)
    PROVE  IInv'
  <1>0. /\ req[q] \in Request /\ Good(req[q], Len(users)) /\ Len(users) \in Nat
        /\ users \in Seq(Row) /\ req \in [Requests -> Request]
        /\ cookie \in [Browsers -> 0..Len(users)] /\ changes \in 0..MaxChanges
    BY Known
  <1>1. CASE users' = users /\ req' = [req EXCEPT ![q].pc = "refused"]
    <2> DEFINE x == [req[q] EXCEPT !.pc = "refused"]
    <2>1. x \in Request /\ x.pc = "refused" /\ x.cookie = req[q].cookie
          /\ x.row = req[q].row /\ x.clash = req[q].clash
      BY <1>0 DEF Request, Stage
    <2>2. req' = [req EXCEPT ![q] = x]
      BY <1>0, <1>1
    <2> HIDE DEF x
    <2>3. Good(x, Len(users)) /\ x.pc # "handOver"
      BY <1>0, <2>1 DEF Good
    <2> QED
      BY <1>0, <1>1, <2>2, <2>3, TableStays DEF SignupCreate
  <1>2. CASE /\ users' = Append(users, NewRow(req[q].form))
             /\ req' = [req EXCEPT ![q] = [req[q] EXCEPT !.pc = "session", !.row = Len(users'),
                                                         !.form = NoForm, !.clash = {}]]
    <2> DEFINE x == [req[q] EXCEPT !.pc = "session", !.row = Len(users'),
                                   !.form = NoForm, !.clash = {}]
    <2>1. NewRow(req[q].form) \in Row /\ NewRow(req[q].form).login = NoLogin
      BY <1>0, Blank DEF Request, NewRow
    <2>2. /\ users' \in Seq(Row) /\ Len(users') = Len(users) + 1
          /\ \A u \in 1..Len(users) : users'[u] = users[u]
          /\ users'[Len(users) + 1] = NewRow(req[q].form)
      BY <1>0, <1>2, <2>1, AppendProperties
    <2>3. x \in Request /\ x.pc = "session" /\ x.cookie = req[q].cookie
          /\ x.row = Len(users') /\ x.clash = {}
      <3>1. Len(users') \in Nat /\ {} \in SUBSET Nat /\ NoForm \in Forms /\ "session" \in Stage
        BY <1>0, <2>2, Blank DEF Stage
      <3> QED
        BY <1>0, <3>1 DEF Request
    <2>4. req[q].cookie <= Len(users') /\ x.row # 0
      BY <1>0, <2>2, <2>3 DEF Good, Request
    <2>5. req' = [req EXCEPT ![q] = x]
      BY <1>2
    <2> HIDE DEF x
    <2>6. Good(x, Len(users')) /\ x.pc # "handOver"
      BY <1>0, <2>2, <2>3, <2>4 DEF Good
    <2>7. /\ Len(users) <= Len(users')
          /\ \A u \in 1..Len(users) : users'[u].login = users[u].login
          /\ \A u \in 1..Len(users') : u > Len(users) => users'[u].login = NoLogin
      BY <1>0, <2>1, <2>2
    <2>8. cookie' \in [Browsers -> 0..Len(users')]
      <3>1. 0..Len(users) \subseteq 0..Len(users')
        BY <1>0, <2>2
      <3> QED
        BY <1>0, <3>1 DEF SignupCreate
    <2> QED
      BY <1>0, <2>2, <2>5, <2>6, <2>7, <2>8, RequestGoesOn DEF SignupCreate
  <1> QED
    BY <1>1, <1>2 DEF SignupCreate

(* A request reads a user, or goes on without.                             *)
LEMMA ReadsKeeps ==
    ASSUME IInv, NEW q \in Requests, NEW u \in 1..Len(users),
           NEW next \in {"gitlab", "session"}, Reads(q, u, next),
           UNCHANGED <<users, cookie, handed, changes>>
    PROVE  IInv'
  <1>0. /\ req[q] \in Request /\ Good(req[q], Len(users)) /\ Len(users) \in Nat
        /\ users[u] \in Row /\ req \in [Requests -> Request]
    BY Known
  <1> DEFINE copy == [req[q].copy EXCEPT !.login = users[u].login]
             x == [req[q] EXCEPT !.pc = next, !.row = u, !.copy = copy]
  <1>1. copy \in Row
    BY <1>0 DEF Request, Row
  <1>2. x \in Request /\ x.pc = next /\ x.cookie = req[q].cookie /\ x.row = u
        /\ x.clash = req[q].clash
    <2> HIDE DEF copy
    <2>1. u \in Nat /\ next \in Stage
      BY <1>0 DEF Stage
    <2> QED
      BY <1>0, <1>1, <2>1 DEF Request
  <1>3. req' = [req EXCEPT ![q] = x]
    BY <1>0 DEF Reads
  <1> HIDE DEF x
  <1>4. Good(x, Len(users)) /\ x.pc # "handOver"
    BY <1>0, <1>2 DEF Good
  <1> QED
    BY <1>3, <1>4, Known, TableStays

LEMMA OauthFindSessionKeeps ==
    ASSUME IInv, NEW q \in Requests, OauthFindSession(q)
    PROVE  IInv'
  <1>0. /\ req[q] \in Request /\ Good(req[q], Len(users)) /\ Len(users) \in Nat
        /\ req \in [Requests -> Request]
    BY Known
  <1>1. CASE req[q].cookie # 0
    <2>1. req[q].cookie \in 1..Len(users)
      BY <1>0, <1>1 DEF Good, Request
    <2> QED
      BY <1>1, <2>1, ReadsKeeps DEF OauthFindSession
  <1>2. CASE req[q].cookie = 0
    <2> DEFINE x == [req[q] EXCEPT !.pc = "gitlab"]
    <2>1. x \in Request /\ x.pc = "gitlab" /\ x.cookie = req[q].cookie
          /\ x.row = req[q].row /\ x.clash = req[q].clash
      BY <1>0 DEF Request, Stage
    <2>2. req' = [req EXCEPT ![q] = x]
      BY <1>0, <1>2 DEF OauthFindSession
    <2> HIDE DEF x
    <2>3. Good(x, Len(users)) /\ x.pc # "handOver"
      BY <1>0, <2>1 DEF Good
    <2> QED
      BY <2>2, <2>3, Known, TableStays DEF OauthFindSession
  <1> QED
    BY <1>1, <1>2

LEMMA OauthUserKeeps ==
    ASSUME IInv, NEW q \in Requests, NEW l \in Logins, OauthUser(q, l)
    PROVE  IInv'
  <1>0. /\ req[q] \in Request /\ Good(req[q], Len(users)) /\ Len(users) \in Nat
        /\ req \in [Requests -> Request]
    BY Known
  <1>1. ASSUME NEW u \in Owners(l), Reads(q, u, "session") PROVE IInv'
    BY <1>1, Known, ReadsKeeps DEF OauthUser, Owners
  <1>2. CASE /\ req[q].row # 0
             /\ req' = [req EXCEPT ![q].pc = IF req[q].copy.login # NoLogin THEN "session" ELSE "link",
                                   ![q].copy.login = IF @ # NoLogin THEN @ ELSE l]
    <2> DEFINE linked == req[q].copy.login # NoLogin
               account == IF linked THEN req[q].copy.login ELSE l
               copy == [req[q].copy EXCEPT !.login = account]
               x == [req[q] EXCEPT !.pc = IF linked THEN "session" ELSE "link", !.copy = copy]
    <2>1. copy \in Row /\ copy.login = account /\ (~linked => account \in Logins)
      BY <1>0 DEF Request, Row
    <2>2. req' = [req EXCEPT ![q] = x]
      BY <1>0, <1>2
    <2> HIDE DEF copy
    <2>3. x \in Request /\ x.pc = (IF linked THEN "session" ELSE "link")
          /\ x.cookie = req[q].cookie
          /\ x.row = req[q].row /\ x.clash = req[q].clash /\ x.copy = copy
      BY <1>0, <2>1 DEF Request, Stage
    <2> HIDE DEF x, account
    <2>4. Good(x, Len(users)) /\ x.pc # "handOver"
      BY <1>0, <1>2, <2>1, <2>3 DEF Good
    <2> QED
      BY <2>2, <2>4, Known, TableStays DEF OauthUser
  <1> QED
    BY <1>1, <1>2 DEF OauthUser

(* Linking: the row had no account, the account had no user; the request   *)
(* is the only one to hand this user over, and nobody has done so before.  *)
LEMMA SetUserGitlabAccountKeeps ==
    ASSUME IInv, NEW q \in Requests, SetUserGitlabAccount(q)
    PROVE  IInv'
  <1>0. /\ req[q] \in Request /\ Good(req[q], Len(users)) /\ Len(users) \in Nat
        /\ users \in Seq(Row) /\ DOMAIN users = 1..Len(users)
        /\ \A u \in 1..Len(users) : users[u] \in Row
        /\ req \in [Requests -> Request]
        /\ cookie \in [Browsers -> 0..Len(users)] /\ changes \in 0..MaxChanges
    BY Known
  <1> DEFINE row == req[q].row
             account == req[q].copy.login
  <1>1. row \in 1..Len(users) /\ account \in Logins /\ account # NoLogin
    BY <1>0, AccountsAssumption DEF SetUserGitlabAccount, Good, Request
  <1>2. /\ Types /\ OneOwner /\ HandOverHolds /\ HandedHolds
    BY DEF IInv
  <1>3. CASE users' = users /\ req' = [req EXCEPT ![q].pc = "logout", ![q].copy = NewRow(NoForm)]
    <2> DEFINE x == [req[q] EXCEPT !.pc = "logout", !.copy = NewRow(NoForm)]
    <2>1. x \in Request /\ x.pc = "logout" /\ x.cookie = req[q].cookie
          /\ x.row = req[q].row /\ x.clash = req[q].clash
      BY <1>0, Blank DEF Request, Stage
    <2>2. req' = [req EXCEPT ![q] = x]
      BY <1>0, <1>3
    <2> HIDE DEF x
    <2>3. Good(x, Len(users)) /\ x.pc # "handOver"
      BY <1>0, <2>1 DEF Good
    <2> QED
      BY <1>0, <1>3, <2>2, <2>3, TableStays DEF SetUserGitlabAccount
  <1>4. CASE /\ users[row].login = NoLogin /\ Owners(account) = {}
             /\ users' = [users EXCEPT ![row].login = account]
             /\ req' = [req EXCEPT ![q].pc = "handOver"]
    <2>1. /\ users' \in Seq(Row) /\ Len(users') = Len(users)
          /\ users'[row].login = account
          /\ \A u \in 1..Len(users) : u # row => users'[u] = users[u]
      <3> DEFINE new == [users[row] EXCEPT !.login = account]
      <3>1. new \in Row /\ new.login = account
        BY <1>0, <1>1 DEF Row
      <3>2. users' = [users EXCEPT ![row] = new]
        BY <1>4
      <3> HIDE DEF new, row, account
      <3> QED
        BY <1>0, <1>1, <3>1, <3>2, ExceptSeq
    <2>2. /\ req' \in [Requests -> Request] /\ req'[q].pc = "handOver"
          /\ req'[q].row = row /\ req'[q].copy = req[q].copy
          /\ Good(req'[q], Len(users))
          /\ \A p \in Requests : p # q => req'[p] = req[p]
      <3> DEFINE x == [req[q] EXCEPT !.pc = "handOver"]
      <3>1. x \in Request /\ x.pc = "handOver" /\ x.cookie = req[q].cookie
            /\ x.row = req[q].row /\ x.clash = req[q].clash /\ x.copy = req[q].copy
        BY <1>0 DEF Request, Stage
      <3>2. req' = [req EXCEPT ![q] = x]
        BY <1>0, <1>4
      <3> HIDE DEF x
      <3>3. Good(x, Len(users))
        BY <1>0, <1>1, <3>1 DEF Good
      <3> QED
        BY <1>0, <3>1, <3>2, <3>3
    <2>3. handed' = handed /\ cookie' = cookie /\ changes' = changes
      BY DEF SetUserGitlabAccount
    <2>4. Types'
      <3>1. \A p \in Requests : Good(req'[p], Len(users'))
        BY <1>2, <2>1, <2>2 DEF Types
      <3> QED
        BY <1>2, <2>1, <2>2, <2>3, <3>1 DEF Types
    <2>5. OneOwner'
      <3>1. \A u \in 1..Len(users) : users[u].login # account
        BY <1>0, <1>4 DEF Owners
      <3> HIDE DEF row, account
      <3> QED
        BY <1>1, <1>2, <2>1, <3>1 DEF OneOwner
    <2>6. \A i \in 1..Len(handed) : handed[i][1] \in 1..Len(users)
                                    /\ users[handed[i][1]].login # NoLogin
      <3>1. \A i \in 1..Len(handed) : handed[i] \in (1..Len(users)) \X Logins
        BY <1>2 DEF Types
      <3> QED
        BY <1>2, <3>1, AccountsAssumption DEF HandedHolds
    <2>7. \A i \in 1..Len(handed) : handed[i][1] # row
      BY <1>4, <2>6
    <2>8. \A p \in Requests : req[p].pc = "handOver" =>
             req[p].row \in 1..Len(users) /\ req[p].row # row
      <3> SUFFICES ASSUME NEW p \in Requests, req[p].pc = "handOver"
                   PROVE  req[p].row \in 1..Len(users) /\ req[p].row # row
        OBVIOUS
      <3>1. Good(req[p], Len(users)) /\ req[p] \in Request
        BY <1>2 DEF Types
      <3>2. req[p].row \in 1..Len(users) /\ req[p].copy.login # NoLogin
        BY <1>0, <3>1, AccountsAssumption DEF Good, Request
      <3> QED
        BY <1>2, <1>4, <3>2 DEF HandOverHolds
    <2> HIDE DEF row, account
    <2>9. HandedHolds'
      BY <1>2, <2>1, <2>3, <2>6, <2>7 DEF HandedHolds
    <2>10. HandOverHolds'
      <3>1. req'[q].copy.login = account
        BY <2>2 DEF account
      <3> QED
        BY <1>2, <2>1, <2>2, <2>3, <2>7, <2>8, <3>1 DEF HandOverHolds
    <2> QED
      BY <2>4, <2>5, <2>9, <2>10 DEF IInv
  <1> QED
    BY <1>3, <1>4 DEF SetUserGitlabAccount, LinkOf

(* Handing over: the user was not among those handed over before.          *)
LEMMA AsyncPrepareProjectKeeps ==
    ASSUME IInv, NEW q \in Requests, AsyncPrepareProject(q)
    PROVE  IInv'
  <1>0. /\ req[q] \in Request /\ Good(req[q], Len(users)) /\ Len(users) \in Nat
        /\ req \in [Requests -> Request]
        /\ cookie \in [Browsers -> 0..Len(users)] /\ changes \in 0..MaxChanges
    BY Known
  <1>1. /\ Types /\ OneOwner /\ HandOverHolds /\ HandedHolds
    BY DEF IInv
  <1> DEFINE row == req[q].row
             account == req[q].copy.login
  <1>2. /\ row \in 1..Len(users) /\ account \in Logins /\ req[q].cookie \in 0..Len(users)
        /\ req[q].pc = "handOver"
    BY <1>0 DEF AsyncPrepareProject, Good, Request
  <1>3. /\ users' = users /\ changes' = changes
        /\ handed' = Append(handed, <<row, account>>)
        /\ req' = [req EXCEPT ![q] = Idle]
        /\ cookie' = [cookie EXCEPT ![req[q].browser] = req[q].cookie]
    BY DEF AsyncPrepareProject, Respond
  <1>4. /\ users[row].login = account
        /\ \A i \in 1..Len(handed) : handed[i][1] # row
        /\ \A p \in Requests : req[p].pc = "handOver" /\ p # q => req[p].row # row
    BY <1>1, <1>2 DEF HandOverHolds
  <1>5. handed \in Seq((1..Len(users)) \X Logins)
    BY <1>1 DEF Types
  <1> HIDE DEF row, account
  <1>6. <<row, account>> \in (1..Len(users)) \X Logins
    BY <1>2
  <1>7. /\ handed' \in Seq((1..Len(users)) \X Logins) /\ Len(handed') = Len(handed) + 1
        /\ Len(handed) \in Nat
        /\ \A i \in 1..Len(handed) : handed'[i] = handed[i]
        /\ handed'[Len(handed) + 1] = <<row, account>>
    BY <1>3, <1>5, <1>6, AppendProperties, LenProperties
  <1>8. /\ req' \in [Requests -> Request] /\ req'[q] = Idle /\ Good(Idle, Len(users))
        /\ req'[q].pc = "idle"
        /\ \A p \in Requests : p # q => req'[p] = req[p]
    BY <1>0, <1>3, Blank DEF Idle
  <1>9. Types'
    <2>1. \A p \in Requests : Good(req'[p], Len(users'))
      BY <1>1, <1>3, <1>8 DEF Types
    <2>2. cookie' \in [Browsers -> 0..Len(users)]
      BY <1>0, <1>2, <1>3
    <2> QED
      BY <1>1, <1>3, <1>7, <1>8, <2>1, <2>2 DEF Types
  <1>10. OneOwner'
    BY <1>1, <1>3 DEF OneOwner
  <1>11. HandedHolds'
    <2> SUFFICES ASSUME NEW i \in 1..Len(handed'), NEW j \in 1..Len(handed')
                 PROVE  /\ users[handed'[i][1]].login = handed'[i][2]
                        /\ handed'[i][1] = handed'[j][1] => i = j
      BY <1>3 DEF HandedHolds
    <2>1. /\ i \in 1..Len(handed) \/ i = Len(handed) + 1
          /\ j \in 1..Len(handed) \/ j = Len(handed) + 1
      BY <1>7
    <2>2. /\ handed'[Len(handed) + 1][1] = row /\ handed'[Len(handed) + 1][2] = account
          /\ \A k \in 1..Len(handed) : /\ handed'[k][1] = handed[k][1]
                                       /\ handed'[k][2] = handed[k][2]
                                       /\ handed'[k][1] # row
      BY <1>4, <1>7
    <2>3. \A k, l \in 1..Len(handed) :
             /\ users[handed'[k][1]].login = handed'[k][2]
             /\ handed'[k][1] = handed'[l][1] => k = l
      BY <1>1, <2>2 DEF HandedHolds
    <2>4. users[handed'[i][1]].login = handed'[i][2]
      BY <1>4, <2>1, <2>2, <2>3
    <2>5. handed'[i][1] = handed'[j][1] => i = j
      BY <2>1, <2>2, <2>3
    <2> QED
      BY <2>4, <2>5
  <1>12. HandOverHolds'
    <2> SUFFICES ASSUME NEW p \in Requests, req'[p].pc = "handOver"
                 PROVE  /\ users[req'[p].row].login = req'[p].copy.login
                        /\ \A r \in Requests :
                             (req'[r].pc = "handOver" /\ req'[r].row = req'[p].row) => r = p
                        /\ \A i \in 1..Len(handed') : handed'[i][1] # req'[p].row
      BY <1>3 DEF HandOverHolds
    <2>1. p # q /\ req'[p] = req[p] /\ req[p].row # row
      BY <1>4, <1>8
    <2>2. \A i \in 1..Len(handed') : i \in 1..Len(handed) \/ i = Len(handed) + 1
      BY <1>7
    <2>3. /\ users[req[p].row].login = req[p].copy.login
          /\ \A r \in Requests : (req[r].pc = "handOver" /\ req[r].row = req[p].row) => r = p
          /\ \A i \in 1..Len(handed) : handed[i][1] # req[p].row
      BY <1>1, <2>1 DEF HandOverHolds
    <2>4. handed'[Len(handed) + 1][1] = row
          /\ \A i \in 1..Len(handed) : handed'[i][1] = handed[i][1]
      BY <1>7
    <2>5. \A i \in 1..Len(handed') : handed'[i][1] # req[p].row
      BY <2>1, <2>2, <2>3, <2>4
    <2>6. ASSUME NEW r \in Requests, req'[r].pc = "handOver", req'[r].row = req[p].row
          PROVE  r = p
      <3>1. r # q /\ req'[r] = req[r]
        BY <1>8, <2>6
      <3> QED
        BY <2>3, <2>6, <3>1
    <2> QED
      BY <2>1, <2>3, <2>5, <2>6
  <1> QED
    BY <1>9, <1>10, <1>11, <1>12 DEF IInv

LEMMA TelegramBeginKeeps ==
    ASSUME IInv, NEW q \in Requests, NEW b \in Browsers, TelegramBegin(q, b)
    PROVE  IInv'
  <1> DEFINE x == [Idle EXCEPT !.pc = "telegram", !.row = cookie[b]]
  <1>1. cookie[b] \in 0..Len(users) /\ Len(users) \in Nat /\ cookie[b] # 0
    BY Known DEF TelegramBegin
  <1>2. x \in Request /\ x.pc = "telegram" /\ x.cookie = 0 /\ x.row = cookie[b] /\ x.clash = {}
    <2>1. cookie[b] \in Nat /\ Idle \in Request /\ Idle.cookie = 0 /\ Idle.clash = {}
      BY <1>1, Blank DEF Idle
    <2> QED
      BY <2>1 DEF Request, Stage
  <1>3. req' = [req EXCEPT ![q] = x]
    BY DEF TelegramBegin
  <1> HIDE DEF x
  <1>4. Good(x, Len(users)) /\ x.pc # "handOver"
    BY <1>1, <1>2 DEF Good
  <1> QED
    BY <1>3, <1>4, Known, TableStays DEF TelegramBegin

LEMMA ChangeGroupKeeps ==
    ASSUME IInv, NEW q \in Requests, NEW l \in Logins, NEW g \in Groups, ChangeGroup(q, l, g)
    PROVE  IInv'
  <1>0. /\ Len(users) \in Nat /\ DOMAIN users = 1..Len(users)
        /\ \A u \in 1..Len(users) : users[u] \in Row
        /\ cookie \in [Browsers -> 0..Len(users)] /\ changes \in 0..MaxChanges
    BY Known
  <1>1. PICK u \in Owners(l) :
          req' = [req EXCEPT ![q] = [Idle EXCEPT !.pc = "changeGroup", !.row = u,
                                       !.copy = [users[u] EXCEPT !.form.group = g]]]
    BY DEF ChangeGroup
  <1> DEFINE copy == [users[u] EXCEPT !.form.group = g]
             x == [Idle EXCEPT !.pc = "changeGroup", !.row = u, !.copy = copy]
  <1>2. u \in 1..Len(users) /\ u \in Nat
    BY <1>0 DEF Owners
  <1>3. copy \in Row
    BY <1>0, <1>2 DEF Row
  <1>4. req' = [req EXCEPT ![q] = x]
    BY <1>1
  <1> HIDE DEF copy
  <1>5. x \in Request /\ x.pc = "changeGroup" /\ x.cookie = 0 /\ x.row = u /\ x.clash = {}
    <2>1. Idle \in Request /\ Idle.cookie = 0 /\ Idle.clash = {}
      BY Blank DEF Idle
    <2> QED
      BY <1>2, <1>3, <2>1 DEF Request, Stage
  <1> HIDE DEF x
  <1>6. Good(x, Len(users)) /\ x.pc # "handOver"
    BY <1>0, <1>2, <1>5 DEF Good
  <1>7. changes' \in 0..MaxChanges
    BY <1>0, AccountsAssumption DEF ChangeGroup
  <1> QED
    BY <1>0, <1>4, <1>6, <1>7, TableStays DEF ChangeGroup

(* One column other than the account is stored, or nothing.                *)
LEMMA ServedKeeps ==
    ASSUME IInv, NEW q \in Requests,
           SetUserTelegramID(q) \/ TelegramRefused(q) \/ SetUserGroupName(q)
    PROVE  IInv'
  <1>0. /\ req[q] \in Request /\ Good(req[q], Len(users)) /\ Len(users) \in Nat
        /\ users \in Seq(Row) /\ DOMAIN users = 1..Len(users)
        /\ \A u \in 1..Len(users) : users[u] \in Row
        /\ cookie \in [Browsers -> 0..Len(users)] /\ changes \in 0..MaxChanges
    BY Known
  <1> DEFINE row == req[q].row
  <1>1. row \in 1..Len(users)
    BY <1>0 DEF SetUserTelegramID, TelegramRefused, SetUserGroupName, Good, Request,
       Served, Clashes, Named
  <1>2. Served(q) /\ req' = [req EXCEPT ![q] = Idle]
        /\ UNCHANGED <<cookie, handed, changes>>
    BY DEF SetUserTelegramID, TelegramRefused, SetUserGroupName, Served
  <1>3. Good(Idle, Len(users)) /\ Idle.pc # "handOver"
    BY <1>0, Blank DEF Idle
  <1>4. CASE users' = users
    BY <1>0, <1>2, <1>3, <1>4, TableStays
  <1>5. ASSUME NEW new \in Row, users' = [users EXCEPT ![row] = new],
               new.login = users[row].login
        PROVE  IInv'
    <2> HIDE DEF row
    <2>1. /\ users' \in Seq(Row) /\ Len(users') = Len(users)
          /\ users'[row] = new
          /\ \A u \in 1..Len(users) : u # row => users'[u] = users[u]
      BY <1>0, <1>1, <1>5, ExceptSeq
    <2>2. /\ Len(users) <= Len(users')
          /\ \A u \in 1..Len(users) : users'[u].login = users[u].login
          /\ \A u \in 1..Len(users') : u > Len(users) => users'[u].login = NoLogin
      BY <1>0, <1>5, <2>1
    <2> QED
      BY <1>0, <1>2, <1>3, <2>1, <2>2, RequestGoesOn
  <1>6. CASE SetUserTelegramID(q)
    <2> DEFINE new == [users[row] EXCEPT !.telegram = TRUE]
    <2>1. new \in Row /\ new.login = users[row].login
      BY <1>0, <1>1 DEF Row
    <2>2. users' = [users EXCEPT ![row] = new]
      BY <1>6 DEF SetUserTelegramID
    <2> QED
      BY <1>5, <2>1, <2>2
  <1>7. CASE SetUserGroupName(q)
    <2> DEFINE new == [users[row] EXCEPT !.form.group = req[q].copy.form.group]
    <2>1. new \in Row /\ new.login = users[row].login
      BY <1>0, <1>1 DEF Row, Request
    <2>2. users' = users \/ users' = [users EXCEPT ![row] = new]
      BY <1>7 DEF SetUserGroupName
    <2> QED
      BY <1>4, <1>5, <2>1, <2>2
  <1> QED
    BY <1>4, <1>6, <1>7 DEF TelegramRefused

(* The requests are gone, the table and what was handed over are not.      *)
LEMMA RestartKeeps ==
    ASSUME IInv, Restart
    PROVE  IInv'
  <1>1. /\ Types /\ OneOwner /\ HandOverHolds /\ HandedHolds
    BY DEF IInv
  <1>2. /\ req' = [q \in Requests |-> Idle] /\ UNCHANGED <<users, cookie, handed, changes>>
    BY DEF Restart
  <1>3. Len(users) \in Nat
    BY <1>1 DEF Types
  <1>4. \A q \in Requests : req'[q] = Idle /\ Good(Idle, Len(users)) /\ req'[q].pc = "idle"
    BY <1>2, <1>3, Blank DEF Idle
  <1>5. Types'
    BY <1>1, <1>2, <1>4, Blank DEF Types
  <1>6. OneOwner' /\ HandedHolds'
    BY <1>1, <1>2 DEF OneOwner, HandedHolds
  <1>7. HandOverHolds'
    BY <1>4 DEF HandOverHolds
  <1> QED
    BY <1>5, <1>6, <1>7 DEF IInv

LEMMA NextIInv == IInv /\ [Next]_vars => IInv'
  <1> SUFFICES ASSUME IInv, [Next]_vars PROVE IInv'
    OBVIOUS
  <1>1. CASE UNCHANGED vars
    BY <1>1 DEF vars, IInv, Types, OneOwner, HandOverHolds, HandedHolds
  <1>2. CASE Restart
    BY <1>2, RestartKeeps
  <1>3. ASSUME NEW q \in Requests, NEW b \in Browsers,
               NEW kind \in {"signup", "login", "oauth", "logout"}, Begin(q, b, kind)
        PROVE  IInv'
    BY <1>3, BeginKeeps
  <1>4. ASSUME NEW q \in Requests, NEW f \in Forms, SignupFind(q, f) PROVE IInv'
    BY <1>4, SignupFindKeeps
  <1>5. ASSUME NEW q \in Requests, NEW l \in Logins, OauthUser(q, l) PROVE IInv'
    BY <1>5, OauthUserKeeps
  <1>6. ASSUME NEW q \in Requests, NEW b \in Browsers, TelegramBegin(q, b) PROVE IInv'
    BY <1>6, TelegramBeginKeeps
  <1>7. ASSUME NEW q \in Requests, NEW l \in Logins, NEW g \in Groups, ChangeGroup(q, l, g)
        PROVE  IInv'
    BY <1>7, ChangeGroupKeeps
  <1>8. ASSUME NEW q \in Requests,
               SignupCreate(q) \/ OauthFindSession(q) \/ SetUserGitlabAccount(q)
                 \/ AsyncPrepareProject(q)
        PROVE  IInv'
    BY <1>8, SignupCreateKeeps, OauthFindSessionKeeps, SetUserGitlabAccountKeeps,
       AsyncPrepareProjectKeeps
  <1>9. ASSUME NEW q \in Requests,
               RedirectToSignup(q) \/ fillSessionForUser(q) \/ login(q)
                 \/ SetUserTelegramID(q) \/ TelegramRefused(q) \/ SetUserGroupName(q)
        PROVE  IInv'
    BY <1>9, SessionKeeps, ServedKeeps
  <1> QED
    BY <1>1, <1>2, <1>3, <1>4, <1>5, <1>6, <1>7, <1>8, <1>9 DEF Next

LEMMA SpecIInv == Spec => []IInv
  BY InitIInv, NextIInv, PTL DEF Spec

-----------------------------------------------------------------------------
(* Types hold: in particular what a request, a cookie or the projects      *)
(* maker names is a row of the table.                                      *)
THEOREM TypeCorrect == Spec => []TypeOK
  <1>1. IInv => TypeOK
    <2> SUFFICES ASSUME IInv PROVE TypeOK
      OBVIOUS
    <2>1. /\ users \in Seq(Row) /\ cookie \in [Browsers -> 0..Len(users)]
          /\ handed \in Seq((1..Len(users)) \X Logins) /\ changes \in 0..MaxChanges
          /\ DOMAIN users = 1..Len(users) /\ Len(users) \in Nat
      BY LenProperties DEF IInv, Types
    <2>2. ASSUME NEW q \in Requests
          PROVE  /\ req[q].pc \in Stage /\ req[q].browser \in Browsers \cup {NoBrowser}
                 /\ req[q].copy \in Row /\ req[q].form \in Forms
                 /\ req[q].cookie \in 0..Len(users)
                 /\ req[q].row \in 0..Len(users) /\ req[q].clash \subseteq DOMAIN users
                 /\ req[q].pc \in {"session", "link", "handOver", "telegram", "changeGroup"}
                      => req[q].row # 0
      <3>1. req[q] \in Request /\ Good(req[q], Len(users))
        BY Known
      <3> QED
        BY <2>1, <3>1 DEF Request, Good
    <2> QED
      BY <2>1, <2>2 DEF TypeOK
  <1> QED
    BY <1>1, SpecIInv, PTL

(* However callbacks race, the projects maker gets a user once, with the   *)
(* account the table has for it, which is nobody else's.                   *)
THEOREM HandedOnce == Spec => []HandedAsLinked
  <1>1. IInv => HandedAsLinked
    <2> SUFFICES ASSUME IInv, NEW i \in DOMAIN handed, NEW j \in DOMAIN handed
                 PROVE  /\ users[handed[i][1]].login = handed[i][2]
                        /\ handed[i][1] = handed[j][1] => i = j
                        /\ handed[i][2] = handed[j][2] => i = j
      BY DEF HandedAsLinked
    <2>1. /\ handed \in Seq((1..Len(users)) \X Logins)
          /\ OneOwner /\ HandedHolds
      BY DEF IInv, Types
    <2>2. /\ i \in 1..Len(handed) /\ j \in 1..Len(handed)
          /\ handed[i] \in (1..Len(users)) \X Logins
          /\ handed[j] \in (1..Len(users)) \X Logins
      BY <2>1
    <2>3. /\ handed[i][1] \in 1..Len(users) /\ handed[j][1] \in 1..Len(users)
          /\ handed[i][2] # NoLogin
      BY <2>2, AccountsAssumption
    <2>4. /\ users[handed[i][1]].login = handed[i][2]
          /\ users[handed[j][1]].login = handed[j][2]
          /\ handed[i][1] = handed[j][1] => i = j
      BY <2>1, <2>2 DEF HandedHolds
    <2> QED
      BY <2>1, <2>3, <2>4 DEF OneOwner
  <1> QED
    BY <1>1, SpecIInv, PTL

(* What a writer may do to a row it read before others wrote it.           *)
Kept(u) ==
    /\ u \in DOMAIN users'
    /\ users[u].login # NoLogin => users'[u].login = users[u].login
    /\ users[u].telegram => users'[u].telegram
    /\ [users'[u].form EXCEPT !.group = users[u].form.group] = users[u].form

LEMMA RowIsKept ==
    ASSUME IInv, NEW row \in 1..Len(users), NEW new, users' = [users EXCEPT ![row] = new],
           users[row].login # NoLogin => new.login = users[row].login,
           users[row].telegram => new.telegram,
           new.form \in FormT,
           [new.form EXCEPT !.group = users[row].form.group] = users[row].form
    PROVE  \A u \in DOMAIN users : Kept(u)
  <1> SUFFICES ASSUME NEW u \in DOMAIN users PROVE Kept(u)
    OBVIOUS
  <1>1. users \in Seq(Row) /\ DOMAIN users = 1..Len(users) /\ users[u] \in Row
    BY LenProperties, ElementOfSeq DEF IInv, Types
  <1>2. DOMAIN users' = DOMAIN users /\ users'[row] = new /\ (u # row => users'[u] = users[u])
    BY <1>1
  <1>3. CASE u = row
    BY <1>2, <1>3 DEF Kept
  <1>4. CASE u # row
    <2>1. users[u].form \in FormT
      BY <1>1 DEF Row, FormT
    <2>2. [users[u].form EXCEPT !.group = users[u].form.group] = users[u].form
      BY <2>1 DEF FormT
    <2> QED
      BY <1>2, <1>4, <2>2 DEF Kept
  <1> QED
    BY <1>3, <1>4

LEMMA StepKeeps ==
    ASSUME IInv, [Next]_vars
    PROVE  \A u \in DOMAIN users : Kept(u)
  <1>1. users \in Seq(Row) /\ DOMAIN users = 1..Len(users) /\ Len(users) \in Nat
        /\ \A u \in 1..Len(users) : users[u] \in Row /\ users[u].form \in FormT
    <2>1. users \in Seq(Row)
      BY DEF IInv, Types
    <2>2. \A u \in 1..Len(users) : users[u] \in Row
      BY <2>1, ElementOfSeq
    <2> QED
      BY <2>1, <2>2, LenProperties DEF Row, FormT
  <1>2. \A u \in 1..Len(users) :
           [users[u].form EXCEPT !.group = users[u].form.group] = users[u].form
    BY <1>1 DEF FormT
  <1>3. CASE users' = users
    BY <1>1, <1>2, <1>3 DEF Kept
  <1>4. ASSUME NEW q \in Requests, users' = Append(users, NewRow(req[q].form))
        PROVE  \A u \in DOMAIN users : Kept(u)
    <2>1. DOMAIN users' = 1..Len(users) + 1 /\ \A u \in 1..Len(users) : users'[u] = users[u]
      BY <1>1, <1>4
    <2> QED
      BY <1>1, <1>2, <2>1 DEF Kept
  <1>5. ASSUME NEW q \in Requests, SetUserGitlabAccount(q)
        PROVE  \A u \in DOMAIN users : Kept(u)
    <2> DEFINE row == req[q].row
               new == [users[row] EXCEPT !.login = req[q].copy.login]
    <2>1. row \in 1..Len(users)
      BY <1>5, Known DEF SetUserGitlabAccount, Good, Request
    <2>2. /\ new.form = users[row].form /\ new.telegram = users[row].telegram
          /\ new.form \in FormT
      BY <1>1, <2>1 DEF Row
    <2>3. CASE users[row].login = NoLogin /\ users' = [users EXCEPT ![row] = new]
      <3> HIDE DEF new, row
      <3> QED
        BY <1>2, <2>1, <2>2, <2>3, RowIsKept
    <2> QED
      BY <1>3, <1>5, <2>3 DEF SetUserGitlabAccount, LinkOf
  <1>6. ASSUME NEW q \in Requests, SetUserTelegramID(q)
        PROVE  \A u \in DOMAIN users : Kept(u)
    <2> DEFINE row == req[q].row
               new == [users[row] EXCEPT !.telegram = TRUE]
    <2>1. row \in 1..Len(users)
      BY <1>6, Known DEF SetUserTelegramID, Good, Request
    <2>2. /\ new.form = users[row].form /\ new.telegram /\ new.login = users[row].login
          /\ new.form \in FormT
      BY <1>1, <2>1 DEF Row
    <2>3. users' = [users EXCEPT ![row] = new]
      BY <1>6 DEF SetUserTelegramID
    <2> HIDE DEF new, row
    <2> QED
      BY <1>2, <2>1, <2>2, <2>3, RowIsKept
  <1>7. ASSUME NEW q \in Requests, SetUserGroupName(q)
        PROVE  \A u \in DOMAIN users : Kept(u)
    <2> DEFINE row == req[q].row
               group == req[q].copy.form.group
               form == [users[row].form EXCEPT !.group = group]
               new == [users[row] EXCEPT !.form = form]
    <2>1. row \in 1..Len(users) /\ group \in Groups
      BY <1>7, Known DEF SetUserGroupName, Good, Request, Row
    <2>2. form \in FormT /\ [form EXCEPT !.group = users[row].form.group] = users[row].form
      BY <1>1, <2>1 DEF FormT
    <2>3. new.form = form /\ new.telegram = users[row].telegram /\ new.login = users[row].login
      BY <1>1, <2>1 DEF Row
    <2>4. users' = users \/ users' = [users EXCEPT ![row] = new]
      BY <1>7 DEF SetUserGroupName
    <2> HIDE DEF new, row, form
    <2> QED
      BY <1>3, <2>1, <2>2, <2>3, <2>4, RowIsKept
  <1>8. \/ users' = users
        \/ \E q \in Requests : \/ users' = Append(users, NewRow(req[q].form))
                               \/ SetUserGitlabAccount(q) \/ SetUserTelegramID(q)
                               \/ SetUserGroupName(q)
    BY DEF Next, vars, Begin, SignupFind, SignupCreate, fillSessionForUser, login,
       OauthFindSession, AsyncPrepareProject, OauthUser, RedirectToSignup, TelegramBegin,
       TelegramRefused, ChangeGroup, Restart
  <1> QED
    BY <1>3, <1>4, <1>5, <1>6, <1>7, <1>8

(* Writers that hold copies of a row lose nothing of what others store.    *)
THEOREM NothingLost == Spec => NothingIsLost
  <1>1. IInv /\ [Next]_vars => [\A u \in DOMAIN users : Kept(u)]_vars
    BY StepKeeps
  <1>2. Spec => [][\A u \in DOMAIN users : Kept(u)]_vars
    BY <1>1, SpecIInv, PTL DEF Spec
  <1> QED
    BY <1>2 DEF NothingIsLost, Kept

-----------------------------------------------------------------------------
(* Who had the name of a form when no row was found for it has another     *)
(* e-mail, and keeps it.                                                   *)
Strange(x, table) == \A u \in x.clash : table[u].form.email # x.form.email

CauseHolds == \A q \in Requests : req[q].pc = "create" => Strange(req[q], users)

LEMMA StrangeStays ==
    ASSUME IInv, [Next]_vars, NEW x, Good(x, Len(users)), Strange(x, users)
    PROVE  Strange(x, users')
  <1>1. Len(users) \in Nat /\ DOMAIN users = 1..Len(users)
    BY LenProperties DEF IInv, Types
  <1>2. x.clash \subseteq 1..Len(users)
    BY <1>1 DEF Good, Request
  <1>3. ASSUME NEW u \in 1..Len(users)
        PROVE  users'[u].form.email = users[u].form.email
    <2>1. Kept(u)
      BY <1>1, StepKeeps
    <2>2. users'[u] \in Row
      <3>1. users' \in Seq(Row) /\ u \in DOMAIN users'
        BY <2>1, NextIInv DEF IInv, Types, Kept
      <3> QED
        BY <3>1, LenProperties, ElementOfSeq
    <2>3. [users'[u].form EXCEPT !.group = users[u].form.group].email = users'[u].form.email
      BY <2>2 DEF Row
    <2> QED
      BY <2>1, <2>3 DEF Kept
  <1> QED
    BY <1>2, <1>3 DEF Strange

(* Looking for the row of a form: one that is found and refused is linked; *)
(* where none is, whoever has the name has another e-mail.                 *)
LEMMA SignupFindCauses ==
    ASSUME IInv, NEW q \in Requests, NEW f \in Forms, SignupFind(q, f)
    PROVE  /\ req'[q].pc \in {"create", "session", "refused"}
           /\ req'[q].pc = "create" => Strange(req'[q], users)
           /\ req'[q].pc = "refused" => \E u \in DOMAIN users : Refuses(u, req'[q])
  <1> DEFINE clash == {v \in DOMAIN users : Named(v, f)}
             found == {u \in DOMAIN users : Matches(u, f)}
             read == [req[q] EXCEPT !.form = f, !.clash = clash]
  <1>1. req[q] \in Request /\ req \in [Requests -> Request]
    BY Known
  <1>2. CASE found = {} /\ req' = [req EXCEPT ![q] = [read EXCEPT !.pc = "create"]]
    <2>1. /\ req'[q].pc = "create" /\ req'[q].form = f
          /\ req'[q].clash = clash
      BY <1>1, <1>2 DEF Request
    <2>2. \A u \in clash : users[u].form.email # f.email
      BY <1>2 DEF Named, Matches
    <2> HIDE DEF clash
    <2> QED
      BY <2>1, <2>2 DEF Strange
  <1>3. ASSUME NEW u \in found, users[u].login = NoLogin,
               req' = [req EXCEPT ![q] = [req[q] EXCEPT !.pc = "session", !.row = u]]
        PROVE  req'[q].pc = "session"
    BY <1>1, <1>3 DEF Request
  <1>4. ASSUME NEW u \in found, users[u].login # NoLogin,
               req' = [req EXCEPT ![q] = [read EXCEPT !.pc = "refused", !.row = u]]
        PROVE  req'[q].pc = "refused" /\ \E w \in DOMAIN users : Refuses(w, req'[q])
    <2>1. req'[q].pc = "refused" /\ req'[q].row = u /\ u \in DOMAIN users
      BY <1>1, <1>4 DEF Request
    <2> QED
      BY <1>4, <2>1 DEF Refuses
  <1> QED
    BY <1>2, <1>3, <1>4 DEF SignupFind

(* Only the two steps of a signup lead to its stages.                      *)
LEMMA SignupSteps ==
    ASSUME IInv, [Next]_vars, NEW p \in Requests
    PROVE  \/ req'[p] = req[p]
           \/ req'[p].pc \notin {"create", "refused"}
           \/ \E f \in Forms : SignupFind(p, f)
           \/ SignupCreate(p)
  <1>1. req \in [Requests -> Request] /\ req[p] \in Request /\ Good(req[p], Len(users))
    BY Known
  <1>2. ASSUME NEW b \in Browsers, NEW kind \in {"signup", "login", "oauth", "logout"},
               Begin(p, b, kind)
        PROVE  req'[p].pc \notin {"create", "refused"}
    BY <1>1, <1>2 DEF Begin, Idle
  <1>3. CASE UNCHANGED vars
    BY <1>3 DEF vars
  <1>4. CASE Restart
    BY <1>4 DEF Restart, Idle
  <1>5. ASSUME NEW q \in Requests, NEW b \in Browsers,
                NEW kind \in {"signup", "login", "oauth", "logout"}, Begin(q, b, kind), q # p
         PROVE  req'[p] = req[p]
    BY <1>1, <1>5 DEF Begin
  <1>6. ASSUME NEW q \in Requests, q # p,
                \/ \E f \in Forms : SignupFind(q, f)
                \/ SignupCreate(q)
         PROVE  req'[p] = req[p]
    <2>1. CASE SignupCreate(q)
      BY <1>1, <1>6, <2>1 DEF SignupCreate
    <2>2. ASSUME NEW f \in Forms, SignupFind(q, f) PROVE req'[p] = req[p]
      BY <1>1, <1>6, <2>2 DEF SignupFind
    <2> QED
      BY <1>6, <2>1, <2>2
  <1>7. ASSUME NEW q \in Requests,
                \/ fillSessionForUser(q) \/ login(q) \/ RedirectToSignup(q)
                \/ AsyncPrepareProject(q)
                \/ SetUserTelegramID(q) \/ TelegramRefused(q) \/ SetUserGroupName(q)
         PROVE  req'[p] = req[p] \/ req'[p].pc = "idle"
    <2>1. req' = [req EXCEPT ![q] = Idle]
      BY <1>7 DEF fillSessionForUser, login, RedirectToSignup, AsyncPrepareProject, Respond,
         SetUserTelegramID, TelegramRefused, SetUserGroupName, Served
    <2> QED
      BY <1>1, <2>1 DEF Idle
  <1>8. ASSUME NEW q \in Requests, OauthFindSession(q) \/ SetUserGitlabAccount(q)
         PROVE  req'[p] = req[p] \/ req'[p].pc \in {"gitlab", "handOver", "logout"}
    <2>1. CASE OauthFindSession(q)
      BY <1>1, <2>1 DEF OauthFindSession, Reads, Request
    <2>2. CASE SetUserGitlabAccount(q)
      BY <1>1, <2>2 DEF SetUserGitlabAccount, Request
    <2> QED
      BY <1>8, <2>1, <2>2
  <1>9. ASSUME NEW q \in Requests, NEW l \in Logins, OauthUser(q, l)
         PROVE  req'[p] = req[p] \/ req'[p].pc \in {"session", "link"}
    <2>1. ASSUME NEW u \in Owners(l), Reads(q, u, "session")
          PROVE  req'[p] = req[p] \/ req'[p].pc = "session"
      BY <1>1, <2>1 DEF Reads, Request
    <2>2. CASE req' = [req EXCEPT ![q].pc = IF req[q].copy.login # NoLogin THEN "session" ELSE "link",
                                  ![q].copy.login = IF @ # NoLogin THEN @ ELSE l]
      <3> DEFINE stage == IF req[q].copy.login # NoLogin THEN "session" ELSE "link"
                 account == IF req[q].copy.login # NoLogin THEN req[q].copy.login ELSE l
                 copy == [req[q].copy EXCEPT !.login = account]
      <3>1. req' = [req EXCEPT ![q] = [req[q] EXCEPT !.pc = stage, !.copy = copy]]
        BY <1>1, <2>2
      <3>2. stage \in {"session", "link"}
        OBVIOUS
      <3> HIDE DEF stage, copy
      <3> QED
        BY <1>1, <3>1, <3>2 DEF Request
    <2> QED
      BY <1>9, <2>1, <2>2 DEF OauthUser
  <1>10. ASSUME NEW q \in Requests,
                \/ \E b \in Browsers : TelegramBegin(q, b)
                \/ \E l \in Logins, g \in Groups : ChangeGroup(q, l, g)
         PROVE  req'[p] = req[p] \/ req'[p].pc \in {"telegram", "changeGroup"}
    <2>1. ASSUME NEW b \in Browsers, TelegramBegin(q, b)
          PROVE  req'[p] = req[p] \/ req'[p].pc = "telegram"
      BY <1>1, <2>1, Blank DEF TelegramBegin, Request
    <2>2. ASSUME NEW l \in Logins, NEW g \in Groups, ChangeGroup(q, l, g)
          PROVE  req'[p] = req[p] \/ req'[p].pc = "changeGroup"
      <3>1. PICK u \in Owners(l) :
              req' = [req EXCEPT ![q] = [Idle EXCEPT !.pc = "changeGroup", !.row = u,
                                           !.copy = [users[u] EXCEPT !.form.group = g]]]
        BY <2>2 DEF ChangeGroup
      <3> DEFINE copy == [users[u] EXCEPT !.form.group = g]
      <3>2. req' = [req EXCEPT ![q] = [Idle EXCEPT !.pc = "changeGroup", !.row = u, !.copy = copy]]
        BY <3>1
      <3> HIDE DEF copy
      <3> QED
        BY <1>1, <3>2, Blank DEF Request
    <2> QED
      BY <1>10, <2>1, <2>2
  <1> QED
    BY <1>2, <1>3, <1>4, <1>5, <1>6, <1>7, <1>8, <1>9, <1>10
       DEF Next

LEMMA NextCause == IInv /\ CauseHolds /\ [Next]_vars => CauseHolds'
  <1> SUFFICES ASSUME IInv, CauseHolds, [Next]_vars, NEW p \in Requests, req'[p].pc = "create"
               PROVE  Strange(req'[p], users')
    BY DEF CauseHolds
  <1>1. req \in [Requests -> Request] /\ req[p] \in Request /\ Good(req[p], Len(users))
    BY Known
  <1>2. CASE req'[p] = req[p]
    BY <1>1, <1>2, StrangeStays DEF CauseHolds
  <1>3. ASSUME NEW f \in Forms, SignupFind(p, f)
        PROVE  Strange(req'[p], users')
    BY <1>3, SignupFindCauses DEF SignupFind
  <1>4. ~SignupCreate(p)
    BY <1>1 DEF SignupCreate, Request
  <1> QED
    BY <1>2, <1>3, <1>4, SignupSteps

(* A signup is refused only on account of a row that a form sent again     *)
(* meets with good reason, or finds: a student who came no further than    *)
(* the form is let in, whatever raced.                                     *)
THEOREM RefusedWithCause == Spec => RefusalHasCause
  <1>1. Init => CauseHolds
    BY DEF Init, CauseHolds, Idle
  <1>2. ASSUME IInv, CauseHolds, [Next]_vars, NEW p \in Requests,
               req'[p].pc = "refused", req[p].pc # "refused"
        PROVE  \E u \in DOMAIN users : Refuses(u, req'[p])
    <2>1. ASSUME NEW f \in Forms, SignupFind(p, f)
          PROVE  \E u \in DOMAIN users : Refuses(u, req'[p])
      BY <1>2, <2>1, SignupFindCauses
    <2>2. ASSUME SignupCreate(p)
          PROVE  \E u \in DOMAIN users : Refuses(u, req'[p])
      <3>1. req \in [Requests -> Request] /\ req[p] \in Request
        BY <1>2, Known
      <3>2. PICK u \in DOMAIN users : Named(u, req[p].form)
        BY <1>2, <2>2, <3>1 DEF SignupCreate, Request
      <3>3. req'[p].form = req[p].form /\ req'[p].clash = req[p].clash
        BY <1>2, <2>2, <3>1 DEF SignupCreate, Request
      <3>4. u \in req[p].clash => users[u].form.email # req[p].form.email
        BY <1>2, <2>2 DEF SignupCreate, CauseHolds, Strange
      <3>5. users[u].form.email = req[p].form.email => Matches(u, req[p].form)
        BY <3>2 DEF Named, Matches
      <3> QED
        BY <3>2, <3>3, <3>4, <3>5 DEF Refuses
    <2> QED
      BY <1>2, <2>1, <2>2, SignupSteps
  <1>3. IInv /\ CauseHolds /\ [Next]_vars
        => [\A q \in Requests :
              req'[q].pc = "refused" /\ req[q].pc # "refused"
                 => \E u \in DOMAIN users : Refuses(u, req'[q])]_vars
    BY <1>2
  <1> QED
    BY <1>1, <1>3, NextCause, SpecIInv, PTL DEF Spec, RefusalHasCause

-----------------------------------------------------------------------------
(* The login handlers keep the promise of AccountLinks.                    *)
LEMMA LinkedStays ==
    ASSUME IInv, [Next]_vars, \A q \in Requests : ~SetUserGitlabAccount(q)
    PROVE  Linked' = Linked
  <1>1. /\ users \in Seq(Row) /\ DOMAIN users = 1..Len(users) /\ Len(users) \in Nat
        /\ \A u \in 1..Len(users) : users[u] \in Row
    BY LenProperties, ElementOfSeq DEF IInv, Types
  <1>2. ASSUME NEW q \in Requests, users' = Append(users, NewRow(req[q].form))
        PROVE  Linked' = Linked
    <2>1. /\ DOMAIN users' = 1..(Len(users) + 1)
          /\ \A u \in 1..Len(users) : users'[u] = users[u]
          /\ users'[Len(users) + 1].login = NoLogin
      BY <1>1, <1>2 DEF NewRow
    <2> QED
      BY <1>1, <2>1 DEF Linked
  <1>3. ASSUME NEW row \in 1..Len(users), NEW new, users' = [users EXCEPT ![row] = new],
               new.login = users[row].login
        PROVE  Linked' = Linked
    BY <1>1, <1>3 DEF Linked
  <1>4. ASSUME NEW q \in Requests, SetUserTelegramID(q) PROVE Linked' = Linked
    <2> DEFINE row == req[q].row
               new == [users[row] EXCEPT !.telegram = TRUE]
    <2>1. row \in 1..Len(users)
      BY <1>4, Known DEF SetUserTelegramID, Good, Request
    <2>2. new.login = users[row].login /\ users' = [users EXCEPT ![row] = new]
      BY <1>1, <1>4, <2>1 DEF Row, SetUserTelegramID
    <2> HIDE DEF new, row
    <2> QED
      BY <1>3, <2>1, <2>2
  <1>5. ASSUME NEW q \in Requests, SetUserGroupName(q) PROVE Linked' = Linked
    <2> DEFINE row == req[q].row
               new == [users[row] EXCEPT !.form.group = req[q].copy.form.group]
    <2>1. row \in 1..Len(users)
      BY <1>5, Known DEF SetUserGroupName, Good, Request
    <2>2. new.login = users[row].login
      BY <1>1, <2>1 DEF Row
    <2>3. users' = users \/ users' = [users EXCEPT ![row] = new]
      BY <1>5 DEF SetUserGroupName
    <2> HIDE DEF new, row
    <2> QED
      BY <1>3, <2>1, <2>2, <2>3 DEF Linked
  <1>6. CASE users' = users
    BY <1>6 DEF Linked
  <1>7. \/ users' = users
        \/ \E q \in Requests : \/ users' = Append(users, NewRow(req[q].form))
                               \/ SetUserTelegramID(q) \/ SetUserGroupName(q)
    BY DEF Next, vars, Begin, SignupFind, SignupCreate, fillSessionForUser, login,
       OauthFindSession, AsyncPrepareProject, OauthUser, RedirectToSignup, TelegramBegin,
       TelegramRefused, ChangeGroup, Restart
  <1> QED
    BY <1>2, <1>4, <1>5, <1>6, <1>7

(* A request that neither is nor becomes one with a user to hand over.     *)
Calm(q) ==
    /\ req[q].pc # "handOver" /\ req'[q].pc # "handOver"
    /\ \A p \in Requests : p # q => req'[p] = req[p]

LEMMA CalmRequest ==
    ASSUME req \in [Requests -> Request], NEW q \in Requests, NEW x,
           req' = [req EXCEPT ![q] = x],
           req[q].pc = "signup", x.pc \in {"create", "session", "refused"}
    PROVE  Calm(q)
  BY DEF Calm

LEMMA CalmKeepsPending ==
    ASSUME NEW q \in Requests, Calm(q)
    PROVE  Pending' = Pending
  <1>1. {p \in Requests : req'[p].pc = "handOver"} = {p \in Requests : req[p].pc = "handOver"}
    BY DEF Calm
  <1> QED
    BY <1>1 DEF Calm, Pending

LEMMA LinksStep ==
    ASSUME IInv, [Next]_vars
    PROVE  [Links!Next]_(Links!linkVars)
  <1>0. /\ req \in [Requests -> Request]
        /\ \A q \in Requests : req[q] \in Request /\ Good(req[q], Len(users))
        /\ users \in Seq(Row) /\ DOMAIN users = 1..Len(users) /\ Len(users) \in Nat
        /\ \A u \in 1..Len(users) : users[u] \in Row
    BY LenProperties, ElementOfSeq DEF IInv, Types
  <1>1. ASSUME NEW q \in Requests, Calm(q), \A p \in Requests : ~SetUserGitlabAccount(p)
        PROVE  UNCHANGED Links!linkVars
    BY <1>1, LinkedStays, CalmKeepsPending DEF Links!linkVars
  <1>2. CASE UNCHANGED vars
    BY <1>2 DEF vars, Links!linkVars, Linked, Pending
  <1>3. CASE Restart
    <2>1. \A q \in Requests : req'[q].pc = "idle"
      BY <1>3 DEF Restart, Idle
    <2>2. Pending' = {}
      BY <2>1 DEF Pending
    <2>3. Linked' = Linked
      BY <1>3 DEF Restart, Linked
    <2> QED
      BY <2>2, <2>3 DEF Links!Next, Links!Restart
  <1>4. ASSUME NEW q \in Requests, SetUserGitlabAccount(q)
        PROVE  [Links!Next]_(Links!linkVars)
    <2> DEFINE row == req[q].row
               account == req[q].copy.login
    <2>1. row \in 1..Len(users) /\ account # NoLogin /\ req[q].pc = "link"
      BY <1>0, <1>4, AccountsAssumption DEF SetUserGitlabAccount, Good, Request
    <2>2. CASE users[row].login = NoLogin /\ Owners(account) = {}
      <3>1. /\ users' = [users EXCEPT ![row].login = account]
            /\ req' = [req EXCEPT ![q].pc = "handOver"]
        BY <1>4, <2>2 DEF SetUserGitlabAccount, LinkOf
      <3>2. /\ DOMAIN users' = 1..Len(users) /\ users'[row].login = account
            /\ \A u \in 1..Len(users) : u # row => users'[u] = users[u]
        BY <1>0, <2>1, <3>1 DEF Row
      <3>3. Linked' = Linked \cup {row} /\ row \notin Linked
        BY <1>0, <2>1, <2>2, <3>2 DEF Linked
      <3>4. /\ req'[q].pc = "handOver" /\ req'[q].row = row
            /\ \A p \in Requests : p # q => req'[p] = req[p]
        BY <1>0, <3>1 DEF Request
      <3>5. {p \in Requests : req'[p].pc = "handOver"}
              = {p \in Requests : req[p].pc = "handOver"} \cup {q}
        BY <2>1, <3>4
      <3>6. Pending' = Pending \cup {row}
        <4> HIDE DEF row
        <4> DEFINE before == {p \in Requests : req[p].pc = "handOver"}
                   after == {p \in Requests : req'[p].pc = "handOver"}
        <4>1. after = before \cup {q} /\ q \notin before /\ before \subseteq Requests
          BY <2>1, <3>5
        <4> HIDE DEF before, after
        <4>2. {req'[p].row : p \in after} = {req[p].row : p \in before} \cup {row}
          BY <3>4, <4>1
        <4> QED
          BY <4>2 DEF Pending, before, after
      <3> HIDE DEF row
      <3> QED
        BY <3>3, <3>6 DEF Links!Next, Links!Link
    <2>3. CASE ~(users[row].login = NoLogin /\ Owners(account) = {})
      <3>1. users' = users /\ req' = [req EXCEPT ![q].pc = "logout", ![q].copy = NewRow(NoForm)]
        BY <1>4, <2>3 DEF SetUserGitlabAccount
      <3>2. Calm(q)
        BY <1>0, <2>1, <3>1 DEF Calm, Request
      <3> QED
        BY <3>1, <3>2, CalmKeepsPending DEF Links!linkVars, Linked
    <2> QED
      BY <2>2, <2>3
  <1>5. ASSUME NEW q \in Requests, AsyncPrepareProject(q)
        PROVE  [Links!Next]_(Links!linkVars)
    <2> DEFINE row == req[q].row
               before == {p \in Requests : req[p].pc = "handOver"}
               after == {p \in Requests : req'[p].pc = "handOver"}
    <2>1. /\ req[q].pc = "handOver" /\ users' = users
          /\ req' = [req EXCEPT ![q] = Idle]
      BY <1>5 DEF AsyncPrepareProject, Respond
    <2>2. /\ req'[q].pc # "handOver"
          /\ \A p \in Requests : p # q => req'[p] = req[p]
      BY <1>0, <2>1 DEF Idle
    <2>3. \A p \in before : req[p].row = row => p = q
      BY <2>1 DEF IInv, HandOverHolds
    <2>4. after = before \ {q} /\ q \in before /\ before \subseteq Requests
      BY <2>1, <2>2
    <2> HIDE DEF before, after, row
    <2>5. {req'[p].row : p \in after} = {req[p].row : p \in before} \ {row}
      BY <2>2, <2>3, <2>4 DEF row
    <2>6. Pending' = Pending \ {row} /\ row \in Pending
      BY <2>4, <2>5 DEF Pending, before, after, row
    <2>7. Linked' = Linked
      BY <2>1 DEF Linked
    <2> QED
      BY <2>6, <2>7 DEF Links!Next, Links!HandOver
  <1>6. ASSUME NEW q \in Requests, NEW b \in Browsers,
               NEW kind \in {"signup", "login", "oauth", "logout"}, Begin(q, b, kind)
        PROVE  Calm(q)
    BY <1>0, <1>6 DEF Begin, Calm, Idle
  <1>7. ASSUME NEW q \in Requests, NEW f \in Forms, SignupFind(q, f) PROVE Calm(q)
    <2> DEFINE read == [req[q] EXCEPT !.form = f,
                                      !.clash = {v \in DOMAIN users : Named(v, f)}]
    <2>1. PICK x : /\ req' = [req EXCEPT ![q] = x]
                   /\ \/ x = [read EXCEPT !.pc = "create"]
                      \/ \E u \in DOMAIN users :
                           \/ x = [req[q] EXCEPT !.pc = "session", !.row = u]
                           \/ x = [read EXCEPT !.pc = "refused", !.row = u]
      <3>1. CASE req' = [req EXCEPT ![q] = [read EXCEPT !.pc = "create"]]
        BY <3>1
      <3>2. ASSUME NEW u \in DOMAIN users,
                   req' = [req EXCEPT ![q] =
                      IF users[u].login = NoLogin
                      THEN [req[q] EXCEPT !.pc = "session", !.row = u]
                      ELSE [read EXCEPT !.pc = "refused", !.row = u]]
            PROVE  \E x : /\ req' = [req EXCEPT ![q] = x]
                          /\ \/ x = [req[q] EXCEPT !.pc = "session", !.row = u]
                             \/ x = [read EXCEPT !.pc = "refused", !.row = u]
        BY <3>2
      <3> QED
        BY <1>7, <3>1, <3>2 DEF SignupFind
    <2>2. x.pc \in {"create", "session", "refused"}
      BY <1>0, <2>1 DEF Request
    <2>3. req[q].pc = "signup"
      BY <1>7 DEF SignupFind
    <2>4. req' = [req EXCEPT ![q] = x]
      BY <2>1
    <2> QED
      BY <1>0, <2>2, <2>3, <2>4, CalmRequest
  <1>8. ASSUME NEW q \in Requests, NEW l \in Logins, OauthUser(q, l) PROVE Calm(q)
    <2>1. ASSUME NEW pc \in {"session", "link"}, NEW account,
                 req' = [req EXCEPT ![q].pc = pc, ![q].copy.login = account]
          PROVE  req'[q].pc # "handOver" /\ \A p \in Requests : p # q => req'[p] = req[p]
      BY <1>0, <2>1 DEF Request
    <2>2. ASSUME NEW u, Reads(q, u, "session")
          PROVE  req'[q].pc # "handOver" /\ \A p \in Requests : p # q => req'[p] = req[p]
      BY <1>0, <2>2 DEF Reads, Request
    <2>3. req[q].pc = "gitlab"
      BY <1>8 DEF OauthUser
    <2>4. \/ \E pc \in {"session", "link"} : \E account :
               req' = [req EXCEPT ![q].pc = pc, ![q].copy.login = account]
          \/ \E u : Reads(q, u, "session")
      BY <1>8 DEF OauthUser
    <2> QED
      BY <2>1, <2>2, <2>3, <2>4 DEF Calm
  <1>9. ASSUME NEW q \in Requests, NEW b \in Browsers, TelegramBegin(q, b) PROVE Calm(q)
    BY <1>0, <1>9 DEF TelegramBegin, Calm, Idle
  <1>10. ASSUME NEW q \in Requests, NEW l \in Logins, NEW g \in Groups, ChangeGroup(q, l, g)
         PROVE  Calm(q)
    BY <1>0, <1>10 DEF ChangeGroup, Calm, Idle
  <1>11. ASSUME NEW q \in Requests, SignupCreate(q) PROVE Calm(q)
    BY <1>0, <1>11 DEF SignupCreate, Calm, Request
  <1>12. ASSUME NEW q \in Requests, OauthFindSession(q) PROVE Calm(q)
    BY <1>0, <1>12 DEF OauthFindSession, Reads, Calm, Request
  <1>13. ASSUME NEW q \in Requests,
                RedirectToSignup(q) \/ fillSessionForUser(q) \/ login(q)
                  \/ SetUserTelegramID(q) \/ TelegramRefused(q) \/ SetUserGroupName(q)
         PROVE  Calm(q)
    BY <1>0, <1>13 DEF RedirectToSignup, fillSessionForUser, login, Respond, Calm, Idle,
       SetUserTelegramID, TelegramRefused, SetUserGroupName, Served
  <1> QED
    BY <1>1, <1>2, <1>3, <1>4, <1>5, <1>6, <1>7, <1>8, <1>9, <1>10, <1>11, <1>12, <1>13
       DEF Next

(* However callbacks, signups and restarts interleave, an account is       *)
(* linked once, by the one callback that may hand the user over.           *)
THEOREM AccountsKeepLinks == Spec => ImplementsLinks
  <1>1. Init => Links!Init
    <2> SUFFICES ASSUME Init PROVE Linked = {} /\ Pending = {}
      BY DEF Links!Init
    <2>1. users = <<>> /\ \A q \in Requests : req[q].pc = "idle"
      BY DEF Init, Idle
    <2> QED
      BY <2>1 DEF Linked, Pending
  <1>2. IInv /\ [Next]_vars => [Links!Next]_(Links!linkVars)
    BY LinksStep
  <1> QED
    BY <1>1, <1>2, SpecIInv, PTL DEF Spec, ImplementsLinks, Links!Spec

=============================================================================
