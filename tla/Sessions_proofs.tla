--------------------------- MODULE Sessions_proofs ---------------------------
(***************************************************************************)
(* Proofs about Sessions, for any number of accounts, tokens, passwords    *)
(* and requests in flight.                                                 *)
(*                                                                         *)
(* Everything rests on the version of an account moving forward by one     *)
(* with each password, which holds while no two password changes of the    *)
(* account overlap: then the copy a change holds is the current account.   *)
(***************************************************************************)
EXTENDS Sessions, TLAPS

PasswordOps == {"change", "reset"}

\* Two password changes of one account in flight are on record.
OverlapsAreRaced ==
    \A r, o \in Requests :
        /\ request[r].op \in PasswordOps /\ request[o].op \in PasswordOps
        /\ request[r].user = request[o].user /\ r # o
        => request[r].user \in raced

\* What a password change loaded is still stored.
ChangesAreCurrent ==
    \A r \in Requests :
        request[r].op \in PasswordOps /\ request[r].user \notin raced =>
            /\ request[r].row.version = account[request[r].user].version
            /\ request[r].row.mustChange = account[request[r].user].mustChange

\* A version belongs to one password, and no token is ahead of its account.
VersionRight(u, version, password) ==
    /\ version <= account[u].version
    /\ version = account[u].version => password = account[u].password

TokensRight ==
    \A t \in tokens : t.user \notin raced => VersionRight(t.user, t.version, t.password)

LoginsRight ==
    \A r \in Requests : request[r].op = "login" /\ request[r].user \notin raced =>
        VersionRight(request[r].user, request[r].row.version, request[r].row.password)

\* Passwords are new, and a person's own choice is nobody else's.
PasswordsNew ==
    /\ \A p \in temporary : p <= passwords
    /\ \A r \in Requests : request[r].new <= passwords
    /\ \A r \in Requests : request[r].op = "change" => request[r].new \notin temporary
    /\ \A r \in Requests : request[r].op = "reset" => request[r].new \in temporary

SessionInv ==
    /\ TypeOK
    /\ OverlapsAreRaced /\ ChangesAreCurrent /\ TokensRight /\ LoginsRight
    /\ PasswordsNew /\ TemporaryMustBeChanged
    /\ \A u \in People : account[u].password <= passwords

-----------------------------------------------------------------------------
(* The initial states, and lemmas about rows *)

\* The request that is not there.
LEMMA IdleType == Idle \in Request /\ Idle.op = "NONE" /\ Idle.new = 0
BY AccountsAssumption, BoundsAssumption DEF Idle, Request, Ops, Account, Passwords

LEMMA InitRight == Init => SessionInv
<1> SUFFICES ASSUME Init PROVE SessionInv
  OBVIOUS
<1>1. 0 \in Passwords /\ 0 \in 0..MaxTokens
  BY BoundsAssumption DEF Passwords
<1>2. TypeOK
  BY <1>1, IdleType DEF Init, TypeOK, Account
<1>3. \A r \in Requests : request[r].op = "NONE" /\ request[r].new = 0
  BY IdleType DEF Init
<1>4. OverlapsAreRaced /\ ChangesAreCurrent /\ TokensRight /\ LoginsRight
  BY <1>3 DEF Init, OverlapsAreRaced, ChangesAreCurrent, TokensRight, LoginsRight, PasswordOps
<1>5. PasswordsNew /\ TemporaryMustBeChanged /\ \A u \in People : account[u].password <= passwords
  BY <1>3 DEF Init, PasswordsNew, TemporaryMustBeChanged
<1> QED
  BY <1>2, <1>4, <1>5 DEF SessionInv

\* What a saved password leaves of an account.
LEMMA SavedRow ==
    \A row, current \in Account, password \in Passwords, mustChange \in BOOLEAN :
        /\ Saved(current, row, password, mustChange) \in Account
        /\ Saved(current, row, password, mustChange).version = row.version + 1
        /\ Saved(current, row, password, mustChange).password = password
        /\ row.mustChange = current.mustChange =>
              Saved(current, row, password, mustChange).mustChange = mustChange
<1> TAKE row, current \in Account, password \in Passwords, mustChange \in BOOLEAN
<1> DEFINE saved == Saved(current, row, password, mustChange)
           kept == IF row.mustChange = mustChange THEN current.mustChange ELSE mustChange
<1>1. row.version + 1 \in Nat /\ kept \in BOOLEAN
  BY DEF Account
<1>2. saved = [active |-> current.active, mustChange |-> kept,
               version |-> row.version + 1, password |-> password]
  <2>1. current = [active |-> current.active, mustChange |-> current.mustChange,
                   version |-> current.version, password |-> current.password]
    BY DEF Account
  <2>2. saved = [[[current EXCEPT !.password = password]
                       EXCEPT !.version = row.version + 1] EXCEPT !.mustChange = kept]
    BY <2>1 DEF Saved, NextVersion
  <2> QED
    BY <2>1, <2>2
<1>3. saved \in Account
  BY <1>1, <1>2 DEF Account
<1>4. saved.version = row.version + 1 /\ saved.password = password /\ saved.mustChange = kept
  BY <1>2
<1>5. row.mustChange = current.mustChange => kept = mustChange
  BY DEF Account
<1> HIDE DEF kept
<1> QED
  BY <1>3, <1>4, <1>5

\* What a request in flight holds.
LEMMA RequestParts ==
    ASSUME TypeOK, NEW r \in Requests
    PROVE  /\ request[r].op \in Ops /\ request[r].user \in People
           /\ request[r].row \in Account /\ request[r].new \in Passwords
           /\ request[r].row.version \in Nat /\ request[r].row.mustChange \in BOOLEAN
           /\ account[request[r].user] \in Account
BY DEF TypeOK, Request, Account

-----------------------------------------------------------------------------
(* Beginning *)

\* A step that writes no account and no token, and begins one request.
LEMMA BeginStep ==
    ASSUME SessionInv, NEW r \in Requests, NEW q \in Request,
           request' = [request EXCEPT ![r] = q],
           UNCHANGED <<account, tokens, issued, revoked>>,
           passwords' \in Passwords, passwords <= passwords',
           raced \subseteq raced', raced' \subseteq People,
           temporary \subseteq temporary', temporary' \subseteq temporary \cup {passwords'},
           temporary' # temporary => passwords < passwords',
           q.new <= passwords', q.op = "change" => q.new \notin temporary',
           q.op = "reset" => q.new \in temporary',
           \A o \in Requests : request[o].op = "change" /\ o # r => request[o].new \notin temporary',
           q.op \in PasswordOps \cup {"login"} => q.row = account[q.user],
           q.op \in PasswordOps => Changing(q.user) \subseteq {r} \/ q.user \in raced'
    PROVE  SessionInv'
<1>1. \A o \in Requests : request'[o] = IF o = r THEN q ELSE request[o]
  BY DEF SessionInv, TypeOK
<1>2. /\ passwords \in Nat /\ passwords' \in Nat /\ temporary \subseteq Nat
      /\ \A u \in People : account[u].password \in Nat /\ account[u].version \in Nat
      /\ \A o \in Requests : request[o].new \in Nat /\ request[o].user \in People
      /\ q.user \in People
  BY BoundsAssumption DEF SessionInv, TypeOK, Passwords, Account, Request
<1>3. TypeOK'
  BY DEF SessionInv, TypeOK
<1>4. OverlapsAreRaced'
  BY <1>1 DEF SessionInv, OverlapsAreRaced, Changing, PasswordOps
<1>5. ChangesAreCurrent'
  BY <1>1 DEF SessionInv, ChangesAreCurrent
<1>6. TokensRight'
  BY DEF SessionInv, TokensRight, VersionRight
<1>7. LoginsRight'
  BY <1>1, <1>2 DEF SessionInv, LoginsRight, VersionRight
<1>8. PasswordsNew'
  BY <1>1, <1>2 DEF SessionInv, PasswordsNew
<1>9. TemporaryMustBeChanged'
  BY <1>2 DEF SessionInv, TemporaryMustBeChanged
<1>10. \A u \in People : account'[u].password <= passwords'
  BY <1>2 DEF SessionInv
<1> QED
  BY <1>3, <1>4, <1>5, <1>6, <1>7, <1>8, <1>9, <1>10 DEF SessionInv

\* A login holds the account as it is.
LEMMA BeginLoginRight ==
    ASSUME SessionInv, NEW r \in Requests, NEW u \in People, BeginLogin(r, u)
    PROVE  SessionInv'
<1> DEFINE q == [op |-> "login", user |-> u, row |-> account[u], new |-> 0]
<1>1. q \in Request /\ 0 <= passwords /\ passwords \in Passwords /\ passwords \in Nat
  BY BoundsAssumption DEF SessionInv, TypeOK, Request, Ops, Passwords
<1>2. /\ request' = [request EXCEPT ![r] = q]
      /\ UNCHANGED <<account, passwords, temporary, tokens, issued, revoked, raced>>
  BY DEF BeginLogin, Begin
<1>3. \A o \in Requests : request[o].op = "change" => request[o].new \notin temporary
  BY DEF SessionInv, PasswordsNew
<1>4. q.op = "login" /\ q.new = 0 /\ q.user = u /\ q.row = account[u] /\ q.op \notin PasswordOps
  BY DEF PasswordOps
<1>5. raced \subseteq People
  BY DEF SessionInv, TypeOK
<1>6. /\ UNCHANGED <<account, tokens, issued, revoked>>
      /\ passwords' \in Passwords /\ passwords <= passwords'
      /\ raced \subseteq raced' /\ raced' \subseteq People
      /\ temporary \subseteq temporary' /\ temporary' \subseteq temporary \cup {passwords'}
      /\ temporary' # temporary => passwords < passwords'
      /\ q.new <= passwords'
      /\ q.op = "change" => q.new \notin temporary'
      /\ q.op = "reset" => q.new \in temporary'
      /\ \A o \in Requests :
            request[o].op = "change" /\ o # r => request[o].new \notin temporary'
      /\ q.op \in PasswordOps \cup {"login"} => q.row = account[q.user]
      /\ q.op \in PasswordOps => Changing(q.user) \subseteq {r} \/ q.user \in raced'
  <2> HIDE DEF q
  <2> QED
    BY <1>1, <1>2, <1>3, <1>4, <1>5
<1> HIDE DEF q
<1> QED
  BY <1>1, <1>2, <1>6, BeginStep

\* A password change takes the next password, and notes whom it overtakes.
LEMMA BeginPasswordRight ==
    ASSUME SessionInv, NEW r \in Requests, NEW u \in People, NEW op \in PasswordOps,
           BeginPassword(r, op, u),
           temporary' = IF op = "reset" THEN temporary \cup {passwords'} ELSE temporary
    PROVE  SessionInv'
<1> DEFINE q == [op |-> op, user |-> u, row |-> account[u], new |-> passwords']
<1>1. /\ passwords \in Nat /\ passwords' = passwords + 1 /\ passwords' \in Passwords
      /\ temporary \subseteq Nat
      /\ \A o \in Requests : request[o].new \in Nat
  BY BoundsAssumption DEF SessionInv, TypeOK, Passwords, BeginPassword, Request
<1>2. q \in Request
  BY <1>1 DEF SessionInv, TypeOK, Request, Ops, PasswordOps
<1>3. /\ request' = [request EXCEPT ![r] = q]
      /\ UNCHANGED <<account, tokens, issued, revoked>>
      /\ raced' = IF Changing(u) = {} THEN raced ELSE raced \cup {u}
  BY DEF BeginPassword, Begin
<1>4. q.op = op /\ q.new = passwords' /\ q.user = u /\ q.row = account[u]
  OBVIOUS
<1>5. raced \subseteq raced' /\ raced' \subseteq People
  BY <1>3 DEF SessionInv, TypeOK
<1>6. \A p \in temporary : p <= passwords
  BY DEF SessionInv, PasswordsNew
<1>7. \A o \in Requests : request[o].op = "change" => request[o].new \notin temporary'
  BY <1>1 DEF SessionInv, PasswordsNew
<1>8. op = "change" => passwords' \notin temporary'
  BY <1>1, <1>6
<1>9. /\ UNCHANGED <<account, tokens, issued, revoked>>
      /\ passwords' \in Passwords /\ passwords <= passwords'
      /\ raced \subseteq raced' /\ raced' \subseteq People
      /\ temporary \subseteq temporary' /\ temporary' \subseteq temporary \cup {passwords'}
      /\ temporary' # temporary => passwords < passwords'
      /\ q.new <= passwords'
      /\ q.op = "change" => q.new \notin temporary'
      /\ q.op = "reset" => q.new \in temporary'
      /\ \A o \in Requests :
            request[o].op = "change" /\ o # r => request[o].new \notin temporary'
      /\ q.op \in PasswordOps \cup {"login"} => q.row = account[q.user]
      /\ q.op \in PasswordOps => Changing(q.user) \subseteq {r} \/ q.user \in raced'
  <2> HIDE DEF q
  <2> QED
    BY <1>1, <1>3, <1>4, <1>5, <1>7, <1>8
<1> HIDE DEF q
<1> QED
  BY <1>2, <1>3, <1>9, BeginStep

-----------------------------------------------------------------------------
(* Ending *)

\* A request that ends leaves the others as they were.
LEMMA EndStep ==
    ASSUME SessionInv, NEW r \in Requests, request' = [request EXCEPT ![r] = Idle]
    PROVE  /\ request' \in [Requests -> Request]
           /\ request'[r].op = "NONE" /\ request'[r].new = 0
           /\ \A o \in Requests \ {r} : request'[o] = request[o]
BY IdleType DEF SessionInv, TypeOK

\* Rolled back.
LEMMA FailRight ==
    ASSUME SessionInv, NEW r \in Requests, Fail(r)
    PROVE  SessionInv'
<1>1. /\ request' \in [Requests -> Request]
      /\ request'[r].op = "NONE" /\ request'[r].new = 0
      /\ \A o \in Requests \ {r} : request'[o] = request[o]
      /\ UNCHANGED <<account, passwords, temporary, tokens, issued, revoked, raced>>
  BY EndStep DEF Fail
<1>2. passwords \in Nat
  BY BoundsAssumption DEF SessionInv, TypeOK, Passwords
<1>3. TypeOK' /\ (\A u \in People : account'[u].password <= passwords')
  BY <1>1 DEF SessionInv, TypeOK
<1>4. (OverlapsAreRaced /\ ChangesAreCurrent /\ TokensRight /\ LoginsRight)'
  BY <1>1 DEF SessionInv, OverlapsAreRaced, ChangesAreCurrent, TokensRight, LoginsRight,
     VersionRight, PasswordOps
<1>5. (PasswordsNew /\ TemporaryMustBeChanged)'
  BY <1>1, <1>2 DEF SessionInv, PasswordsNew, TemporaryMustBeChanged
<1> QED
  BY <1>3, <1>4, <1>5 DEF SessionInv

\* The token a commit hands out.
LEMMA IssueToken ==
    ASSUME TypeOK, NEW u \in People, NEW version \in Nat, NEW password \in Passwords,
           Issue(u, version, password)
    PROVE  /\ tokens' \subseteq Token /\ issued' \in 0..MaxTokens
           /\ \A t \in tokens' \ tokens :
                 t.user = u /\ t.version = version /\ t.password = password
<1>1. issued \in 0..MaxTokens /\ issued' = issued + 1 /\ issued < MaxTokens
  BY DEF TypeOK, Issue
<1>2. issued' \in 1..MaxTokens
  BY <1>1, BoundsAssumption
<1> QED
  BY <1>1, <1>2, BoundsAssumption DEF TypeOK, Issue, Token

\* A login answers with the version it loaded, current or not.
LEMMA CommitLoginRight ==
    ASSUME SessionInv, NEW r \in Requests, CommitLogin(r)
    PROVE  SessionInv'
<1> DEFINE q == request[r]
<1>1. /\ request' \in [Requests -> Request]
      /\ request'[r].op = "NONE" /\ request'[r].new = 0
      /\ \A o \in Requests \ {r} : request'[o] = request[o]
      /\ UNCHANGED <<account, passwords, temporary, revoked, raced>>
  BY EndStep DEF CommitLogin
<1>2. passwords \in Nat
  BY BoundsAssumption DEF SessionInv, TypeOK, Passwords
<1>3. /\ TypeOK /\ q.op = "login" /\ Issue(q.user, q.row.version, q.row.password)
      /\ q.user \in People /\ q.row.version \in Nat /\ q.row.password \in Passwords
  BY RequestParts DEF CommitLogin, SessionInv, Account
<1>4. /\ tokens' \subseteq Token /\ issued' \in 0..MaxTokens
      /\ \A t \in tokens' \ tokens :
            t.user = q.user /\ t.version = q.row.version /\ t.password = q.row.password
  BY <1>3, IssueToken
<1>5. TypeOK' /\ (\A u \in People : account'[u].password <= passwords')
  BY <1>1, <1>4 DEF SessionInv, TypeOK
<1>6. (OverlapsAreRaced /\ ChangesAreCurrent /\ LoginsRight)'
  BY <1>1 DEF SessionInv, OverlapsAreRaced, ChangesAreCurrent, LoginsRight, VersionRight,
     PasswordOps
<1>7. TokensRight'
  <2>1. \A t \in tokens : t.user \notin raced => VersionRight(t.user, t.version, t.password)
    BY DEF SessionInv, TokensRight
  <2>2. q.user \notin raced => VersionRight(q.user, q.row.version, q.row.password)
    BY <1>3 DEF SessionInv, LoginsRight
  <2> HIDE DEF q
  <2> QED
    BY <1>1, <1>4, <2>1, <2>2 DEF TokensRight, VersionRight
<1>8. (PasswordsNew /\ TemporaryMustBeChanged)'
  BY <1>1, <1>2 DEF SessionInv, PasswordsNew, TemporaryMustBeChanged
<1> QED
  BY <1>5, <1>6, <1>7, <1>8 DEF SessionInv

\* A password is written: the version moves on, and the old sessions fall behind.
LEMMA SaveRight ==
    ASSUME SessionInv, NEW r \in Requests, request[r].op \in PasswordOps,
           NEW saved \in Account,
           saved.version = request[r].row.version + 1, saved.password = request[r].new,
           /\ request[r].op = "reset"
           /\ request[r].row.mustChange = account[request[r].user].mustChange
           => saved.mustChange,
           account' = [account EXCEPT ![request[r].user] = saved],
           request' = [request EXCEPT ![r] = Idle],
           tokens' \subseteq Token, issued' \in 0..MaxTokens,
           \A t \in tokens' \ tokens :
              /\ t.user = request[r].user
              /\ t.version = request[r].row.version + 1 /\ t.password = request[r].new,
           UNCHANGED <<passwords, temporary, revoked, raced>>
    PROVE  SessionInv'
<1> DEFINE q == request[r]
           u == q.user
<1>1. /\ request' \in [Requests -> Request]
      /\ request'[r].op = "NONE" /\ request'[r].new = 0
      /\ \A o \in Requests \ {r} : request'[o] = request[o]
  BY EndStep
<1>2. /\ TypeOK /\ passwords \in Nat /\ account \in [People -> Account]
      /\ \A o \in Requests : request[o].row.version \in Nat
      /\ \A t \in tokens \cup tokens' : t.version \in Nat
      /\ \A v \in People : account[v].version \in Nat
  BY BoundsAssumption, RequestParts DEF SessionInv, TypeOK, Passwords, Account, Token
<1>3. u \in People /\ q.row \in Account /\ q.new \in Passwords /\ account[u] \in Account
  BY <1>2, RequestParts
<1>4. /\ saved \in Account /\ saved.version = q.row.version + 1 /\ saved.password = q.new
      /\ q.op = "reset" /\ q.row.mustChange = account[u].mustChange => saved.mustChange
  OBVIOUS
<1> HIDE DEF q
<1>5. /\ account'[u] = saved
      /\ \A v \in People \ {u} : account'[v] = account[v]
      /\ account' \in [People -> Account]
  BY <1>2, <1>3, <1>4 DEF q
<1>6. u \notin raced =>
         /\ q.row.version = account[u].version /\ q.row.mustChange = account[u].mustChange
         /\ \A o \in Requests \ {r} : ~(request[o].op \in PasswordOps /\ request[o].user = u)
  BY DEF SessionInv, ChangesAreCurrent, OverlapsAreRaced, q
<1> HIDE DEF u
<1>7. TypeOK'
  BY <1>1, <1>2, <1>5 DEF TypeOK
<1>8. OverlapsAreRaced'
  BY <1>1 DEF SessionInv, OverlapsAreRaced, PasswordOps
<1>9. ChangesAreCurrent'
  <2>1. \A o \in Requests \ {r} : request[o].user \in People
    BY <1>2, RequestParts
  <2> QED
    BY <1>1, <1>5, <1>6, <2>1 DEF SessionInv, ChangesAreCurrent, PasswordOps
<1>10. TokensRight'
  <2>1. SUFFICES ASSUME NEW t \in tokens', t.user \notin raced
                 PROVE  VersionRight(t.user, t.version, t.password)'
    BY DEF TokensRight
  <2>2. t.user \in People
    BY <2>1 DEF Token
  <2>3. CASE t.user = u
    <3>1. CASE t \in tokens
      <4>1. t.version <= account[u].version
        BY <2>1, <2>3, <3>1 DEF SessionInv, TokensRight, VersionRight
      <4> QED
        BY <1>2, <1>3, <1>4, <1>5, <1>6, <2>1, <2>3, <4>1 DEF VersionRight
    <3>2. CASE t \notin tokens
      <4>1. t.version = q.row.version + 1 /\ t.password = q.new
        BY <2>1, <3>2 DEF q
      <4> QED
        BY <1>2, <1>4, <1>5, <2>1, <2>3, <4>1 DEF VersionRight
    <3> QED
      BY <3>1, <3>2
  <2>4. CASE t.user # u
    <3>1. t \in tokens
      BY <2>1, <2>4 DEF u, q
    <3> QED
      BY <1>5, <2>1, <2>2, <2>4, <3>1 DEF SessionInv, TokensRight, VersionRight
  <2> QED
    BY <2>3, <2>4
<1>11. LoginsRight'
  <2>1. SUFFICES ASSUME NEW o \in Requests, request'[o].op = "login",
                        request'[o].user \notin raced
                 PROVE  VersionRight(request[o].user, request[o].row.version,
                                     request[o].row.password)'
    BY DEF LoginsRight
  <2>2. request'[o] = request[o] /\ request[o].user \in People
    BY <1>1, <1>2, <2>1, RequestParts
  <2>3. VersionRight(request[o].user, request[o].row.version, request[o].row.password)
    BY <2>1, <2>2 DEF SessionInv, LoginsRight
  <2>4. CASE request[o].user = u
    BY <1>2, <1>3, <1>4, <1>5, <1>6, <2>1, <2>2, <2>3, <2>4 DEF VersionRight
  <2>5. CASE request[o].user # u
    BY <1>5, <2>2, <2>3, <2>5 DEF VersionRight
  <2> QED
    BY <2>4, <2>5
<1>12. PasswordsNew'
  BY <1>1, <1>2 DEF SessionInv, PasswordsNew
<1>13. TemporaryMustBeChanged'
  <2>1. u \notin raced /\ q.new \in temporary => saved.mustChange
    BY <1>4, <1>6 DEF SessionInv, PasswordsNew, q, PasswordOps
  <2> QED
    BY <1>4, <1>5, <2>1 DEF SessionInv, TemporaryMustBeChanged
<1>14. \A v \in People : account'[v].password <= passwords
  <2>1. q.new <= passwords
    BY DEF SessionInv, PasswordsNew, q
  <2> QED
    BY <1>4, <1>5, <2>1 DEF SessionInv
<1> QED
  BY <1>7, <1>8, <1>9, <1>10, <1>11, <1>12, <1>13, <1>14 DEF SessionInv

\* A person's own change opens a session with the new password.
LEMMA CommitChangeRight ==
    ASSUME SessionInv, NEW r \in Requests, CommitChange(r)
    PROVE  SessionInv'
<1> DEFINE q == request[r]
<1>1. /\ TypeOK /\ q.op = "change" /\ Issue(q.user, NextVersion(q.row), q.new)
      /\ account' = [account EXCEPT ![q.user] = Saved(account[q.user], q.row, q.new, FALSE)]
      /\ request' = [request EXCEPT ![r] = Idle]
      /\ UNCHANGED <<passwords, temporary, revoked, raced>>
  BY DEF CommitChange, SessionInv
<1>2. /\ q.user \in People /\ q.new \in Passwords
      /\ NextVersion(q.row) = q.row.version + 1 /\ NextVersion(q.row) \in Nat
  BY <1>1, RequestParts DEF NextVersion
<1>3. /\ tokens' \subseteq Token /\ issued' \in 0..MaxTokens
      /\ \A t \in tokens' \ tokens :
            t.user = q.user /\ t.version = NextVersion(q.row) /\ t.password = q.new
  BY <1>1, <1>2, IssueToken
<1>4. q.op \in PasswordOps /\ q.op # "reset"
  BY <1>1 DEF PasswordOps
<1> DEFINE saved == Saved(account[q.user], q.row, q.new, FALSE)
<1>5. saved \in Account /\ saved.version = q.row.version + 1 /\ saved.password = q.new
  BY <1>1, <1>2, RequestParts, SavedRow
<1>6. account' = [account EXCEPT ![q.user] = saved]
  BY <1>1
<1> HIDE DEF saved
<1> QED
  BY <1>1, <1>2, <1>3, <1>4, <1>5, <1>6, SaveRight

\* A reset opens none.
LEMMA CommitResetRight ==
    ASSUME SessionInv, NEW r \in Requests, CommitReset(r)
    PROVE  SessionInv'
<1> DEFINE q == request[r]
<1>1. /\ TypeOK /\ q.op = "reset"
      /\ account' = [account EXCEPT ![q.user] = Saved(account[q.user], q.row, q.new, TRUE)]
      /\ request' = [request EXCEPT ![r] = Idle]
      /\ UNCHANGED <<passwords, temporary, tokens, issued, revoked, raced>>
  BY DEF CommitReset, ResetRow, SessionInv
<1>2. tokens' \subseteq Token /\ issued' \in 0..MaxTokens /\ tokens' \ tokens = {}
  BY <1>1 DEF TypeOK
<1>3. q.op \in PasswordOps
  BY <1>1 DEF PasswordOps
<1> DEFINE saved == Saved(account[q.user], q.row, q.new, TRUE)
<1>4. saved \in Account /\ saved.version = q.row.version + 1 /\ saved.password = q.new
  BY <1>1, RequestParts, SavedRow
<1>5. q.row.mustChange = account[q.user].mustChange => saved.mustChange
  BY <1>1, RequestParts, SavedRow
<1>6. account' = [account EXCEPT ![q.user] = saved]
  BY <1>1
<1> HIDE DEF saved
<1> QED
  BY <1>1, <1>2, <1>3, <1>4, <1>5, <1>6, SaveRight

-----------------------------------------------------------------------------
(* Single steps *)

\* Only the set of revoked tokens changes.
LEMMA LogoutRight ==
    ASSUME SessionInv, NEW t \in tokens, Logout(t)
    PROVE  SessionInv'
<1>1. UNCHANGED <<account, passwords, temporary, tokens, issued, request, raced>>
  BY DEF Logout
<1>2. t.jti \in 1..MaxTokens
  BY DEF SessionInv, TypeOK, Token
<1>3. TypeOK'
  BY <1>1, <1>2 DEF SessionInv, TypeOK, Logout, RevokedWith
<1> QED
  BY <1>1, <1>3 DEF SessionInv, OverlapsAreRaced, ChangesAreCurrent, TokensRight, LoginsRight,
     VersionRight, PasswordsNew, TemporaryMustBeChanged

\* The flag says nothing of passwords and versions.
LEMMA SetActiveRight ==
    ASSUME SessionInv, NEW t \in tokens, NEW u \in People, NEW value \in BOOLEAN,
           SetActive(t, u, value)
    PROVE  SessionInv'
<1>1. /\ account \in [People -> Account]
      /\ account' = [account EXCEPT ![u].active = value]
      /\ UNCHANGED <<passwords, temporary, tokens, issued, revoked, request, raced>>
  BY DEF SetActive, SessionInv, TypeOK
<1>2. account' \in [People -> Account]
  BY <1>1 DEF Account
<1>3. \A v \in People :
         /\ account'[v].version = account[v].version
         /\ account'[v].password = account[v].password
         /\ account'[v].mustChange = account[v].mustChange
  BY <1>1 DEF Account
<1>4. TypeOK'
  BY <1>1, <1>2 DEF SessionInv, TypeOK
<1>5. OverlapsAreRaced' /\ PasswordsNew'
  BY <1>1 DEF SessionInv, OverlapsAreRaced, PasswordsNew
<1>6. ChangesAreCurrent' /\ LoginsRight'
  <2>1. \A r \in Requests : request[r].user \in People
    BY RequestParts DEF SessionInv
  <2> QED
    BY <1>1, <1>3, <2>1 DEF SessionInv, ChangesAreCurrent, LoginsRight, VersionRight
<1>7. TokensRight'
  <2>1. \A s \in tokens : s.user \in People
    BY DEF SessionInv, TypeOK, Token
  <2> QED
    BY <1>1, <1>3, <2>1 DEF SessionInv, TokensRight, VersionRight
<1>8. TemporaryMustBeChanged' /\ \A v \in People : account'[v].password <= passwords'
  BY <1>1, <1>3 DEF SessionInv, TemporaryMustBeChanged
<1> QED
  BY <1>4, <1>5, <1>6, <1>7, <1>8 DEF SessionInv

\* A token less.
LEMMA ExpireRight ==
    ASSUME SessionInv, NEW t \in tokens, Expire(t)
    PROVE  SessionInv'
BY DEF Expire, SessionInv, TypeOK, OverlapsAreRaced, ChangesAreCurrent, TokensRight,
   LoginsRight, VersionRight, PasswordsNew, TemporaryMustBeChanged

\* No request is left.
LEMMA RestartRight ==
    ASSUME SessionInv, Restart
    PROVE  SessionInv'
<1>1. /\ request' = [r \in Requests |-> Idle] /\ revoked' = {}
      /\ UNCHANGED <<account, passwords, temporary, tokens, issued, raced>>
  BY DEF Restart
<1>2. \A r \in Requests : request'[r].op = "NONE" /\ request'[r].new = 0
  BY <1>1, IdleType
<1>3. passwords \in Nat
  BY BoundsAssumption DEF SessionInv, TypeOK, Passwords
<1>4. TypeOK' /\ \A u \in People : account'[u].password <= passwords'
  BY <1>1, IdleType DEF SessionInv, TypeOK
<1>5. (OverlapsAreRaced /\ ChangesAreCurrent /\ LoginsRight /\ PasswordsNew)'
  BY <1>1, <1>2, <1>3 DEF SessionInv, OverlapsAreRaced, ChangesAreCurrent, LoginsRight,
     PasswordsNew, PasswordOps
<1>6. (TokensRight /\ TemporaryMustBeChanged)'
  BY <1>1 DEF SessionInv, TokensRight, VersionRight, TemporaryMustBeChanged
<1> QED
  BY <1>4, <1>5, <1>6 DEF SessionInv

-----------------------------------------------------------------------------
(* The invariant holds *)

\* Every step keeps it.
LEMMA StepRight == SessionInv /\ [Next]_vars => SessionInv'
<1> SUFFICES ASSUME SessionInv, [Next]_vars PROVE SessionInv'
  OBVIOUS
<1>1. ASSUME NEW r \in Requests, NEW u \in People, BeginLogin(r, u) PROVE SessionInv'
  BY <1>1, BeginLoginRight
<1>2. ASSUME NEW r \in Requests, NEW t \in tokens, BeginChange(r, t) PROVE SessionInv'
  <2> DEFINE op == "change"
  <2>1. t.user \in People
    BY DEF SessionInv, TypeOK, Token
  <2>2. op \in PasswordOps /\ op # "reset" /\ BeginPassword(r, op, t.user)
    BY <1>2 DEF PasswordOps, BeginChange
  <2>3. temporary' = IF op = "reset" THEN temporary \cup {passwords'} ELSE temporary
    BY <1>2 DEF BeginChange
  <2> HIDE DEF op
  <2> QED
    BY <2>1, <2>2, <2>3, BeginPasswordRight
<1>3. ASSUME NEW r \in Requests, NEW t \in tokens, NEW u \in People, BeginReset(r, t, u)
      PROVE  SessionInv'
  <2> DEFINE op == "reset"
  <2>1. op \in PasswordOps /\ BeginPassword(r, op, u)
    BY <1>3 DEF PasswordOps, BeginReset
  <2>2. temporary' = IF op = "reset" THEN temporary \cup {passwords'} ELSE temporary
    BY <1>3 DEF BeginReset
  <2> HIDE DEF op
  <2> QED
    BY <2>1, <2>2, BeginPasswordRight
<1>4. ASSUME NEW r \in Requests, CommitLogin(r) PROVE SessionInv'
  BY <1>4, CommitLoginRight
<1>5. ASSUME NEW r \in Requests, CommitChange(r) PROVE SessionInv'
  BY <1>5, CommitChangeRight
<1>6. ASSUME NEW r \in Requests, CommitReset(r) PROVE SessionInv'
  BY <1>6, CommitResetRight
<1>7. ASSUME NEW r \in Requests, Fail(r) PROVE SessionInv'
  BY <1>7, FailRight
<1>8. ASSUME NEW t \in tokens, Logout(t) \/ Expire(t) PROVE SessionInv'
  BY <1>8, LogoutRight, ExpireRight
<1>9. ASSUME NEW t \in tokens, NEW u \in People, NEW value \in BOOLEAN,
             SetActive(t, u, value)
      PROVE  SessionInv'
  BY <1>9, SetActiveRight
<1>10. CASE Restart
  BY <1>10, RestartRight
<1>11. CASE UNCHANGED vars
  BY <1>11 DEF vars, SessionInv, TypeOK, OverlapsAreRaced, ChangesAreCurrent, TokensRight,
     LoginsRight, VersionRight, PasswordsNew, TemporaryMustBeChanged
<1> QED
  BY <1>1, <1>2, <1>3, <1>4, <1>5, <1>6, <1>7, <1>8, <1>9, <1>10, <1>11 DEF Next

\* The inductive invariant holds of the specification.
THEOREM SessionsInvariant == Spec => []SessionInv
<1> QED
  BY InitRight, StepRight, PTL DEF Spec

\* Accounts, tokens and requests keep their types.
THEOREM SessionTypeCorrect == Spec => []TypeOK
<1>1. SessionInv => TypeOK
  BY DEF SessionInv
<1> QED
  BY <1>1, SessionsInvariant, PTL

\* A password change ends the sessions of the old password: a session that is
\* accepted was opened with the password the account has.
THEOREM PasswordsEndSessions == Spec => []SessionsEndWithThePassword
<1>1. SessionInv => SessionsEndWithThePassword
  BY DEF SessionInv, TokensRight, VersionRight, Accepted, SessionsEndWithThePassword
<1> QED
  BY <1>1, SessionsInvariant, PTL

\* A password an administrator chose opens a restricted session only.
THEOREM TemporaryIsRestricted == Spec => []TemporaryMustBeChanged
<1>1. SessionInv => TemporaryMustBeChanged
  BY DEF SessionInv
<1> QED
  BY <1>1, SessionsInvariant, PTL

-----------------------------------------------------------------------------
(* Refused sessions *)

\* A step forgets every logout or none, and moves versions forward.
LEMMA StepMovesOn ==
    ASSUME SessionInv, Next
    PROVE  /\ revoked \subseteq revoked' \/ revoked' = {}
           /\ \A u \in People \ raced : account[u].version <= account'[u].version
<1>1. account \in [People -> Account] /\ \A u \in People : account[u].version \in Nat
  BY DEF SessionInv, TypeOK, Account
<1>2. CASE UNCHANGED account /\ (revoked \subseteq revoked' \/ revoked' = {})
  BY <1>1, <1>2
<1>3. ASSUME NEW r \in Requests, CommitChange(r) \/ CommitReset(r)
      PROVE  /\ revoked' = revoked
             /\ \A u \in People \ raced : account[u].version <= account'[u].version
  <2> DEFINE q == request[r]
             u == q.user
  <2>1. q.row \in Account /\ account[u] \in Account /\ q.new \in Passwords /\ u \in People
    BY RequestParts DEF SessionInv
  <2> DEFINE Moved == /\ account'[u].version = q.row.version + 1
                      /\ \A v \in People \ {u} : account'[v] = account[v]
  <2>2. ASSUME CommitChange(r) PROVE Moved
    <3>1. Saved(account[u], q.row, q.new, FALSE).version = q.row.version + 1
      BY <2>1, SavedRow
    <3> DEFINE saved == Saved(account[u], q.row, q.new, FALSE)
    <3>2. account' = [account EXCEPT ![u] = saved]
      BY <2>2 DEF CommitChange
    <3> HIDE DEF saved
    <3> QED
      BY <1>1, <2>1, <3>1, <3>2 DEF saved
  <2>3. ASSUME CommitReset(r) PROVE Moved
    <3>1. Saved(account[u], q.row, q.new, TRUE).version = q.row.version + 1
      BY <2>1, SavedRow
    <3> DEFINE saved == Saved(account[u], q.row, q.new, TRUE)
    <3>2. account' = [account EXCEPT ![u] = saved]
      BY <2>3 DEF CommitReset, ResetRow
    <3> HIDE DEF saved
    <3> QED
      BY <1>1, <2>1, <3>1, <3>2 DEF saved
  <2>4. u \notin raced => q.row.version = account[u].version
    BY <1>3 DEF SessionInv, ChangesAreCurrent, CommitChange, CommitReset, PasswordOps
  <2>5. revoked' = revoked /\ raced' = raced
    BY <1>3 DEF CommitChange, CommitReset
  <2>6. account'[u].version = q.row.version + 1 /\ \A v \in People \ {u} : account'[v] = account[v]
    BY <1>3, <2>2, <2>3
  <2> HIDE DEF u, q
  <2> QED
    BY <1>1, <2>1, <2>4, <2>5, <2>6
<1>4. ASSUME NEW t \in tokens, NEW u \in People, NEW value \in BOOLEAN,
             SetActive(t, u, value)
      PROVE  /\ revoked' = revoked
             /\ \A v \in People : account[v].version <= account'[v].version
  BY <1>1, <1>4 DEF SetActive, Account
<1>5. ASSUME NEW r \in Requests,
             \/ \E u \in People : BeginLogin(r, u)
             \/ \E t \in tokens : BeginChange(r, t)
             \/ \E t \in tokens, u \in People : BeginReset(r, t, u)
             \/ CommitLogin(r) \/ Fail(r)
      PROVE  UNCHANGED account /\ revoked' = revoked
  BY <1>5 DEF BeginLogin, BeginChange, BeginReset, BeginPassword, CommitLogin, Fail
<1>6. ASSUME NEW t \in tokens, Logout(t) \/ Expire(t)
      PROVE  UNCHANGED account /\ revoked \subseteq revoked'
  BY <1>6 DEF Logout, Expire, RevokedWith
<1>7. CASE Restart
  BY <1>2, <1>7 DEF Restart
<1> QED
  BY <1>2, <1>3, <1>4, <1>5, <1>6, <1>7 DEF Next

\* A refused session comes back only with a restart or a reactivation.
THEOREM RefusalsLast == Spec => RefusedStaysRefused
<1>1. SessionInv /\ [Next]_vars =>
         [\A t \in tokens :
            ~Accepted(t) /\ Accepted(t)' /\ t.user \notin raced =>
               \/ t.jti \in revoked /\ revoked' = {}
               \/ ~account[t.user].active]_vars
  <2> SUFFICES ASSUME SessionInv, Next, NEW t \in tokens, ~Accepted(t), Accepted(t)',
                      t.user \notin raced, account[t.user].active
               PROVE  t.jti \in revoked /\ revoked' = {}
    OBVIOUS
  <2>1. /\ t.user \in People \ raced /\ t.version \in Nat
        /\ account[t.user].version \in Nat
        /\ t.version <= account[t.user].version
    BY DEF SessionInv, TypeOK, Token, Account, TokensRight, VersionRight
  <2>2. t.jti \in revoked \/ t.version < account[t.user].version
    BY <2>1 DEF Accepted
  <2>3. t.jti \notin revoked' /\ t.version = account'[t.user].version
    BY DEF Accepted
  <2> QED
    BY <2>1, <2>2, <2>3, StepMovesOn
<1> QED
  BY <1>1, SessionsInvariant, PTL DEF Spec, RefusedStaysRefused
=============================================================================
