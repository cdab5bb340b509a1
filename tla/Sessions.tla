------------------------------ MODULE Sessions ------------------------------
(***************************************************************************)
(* Passwords and the sessions they open: login, logout, a person's own     *)
(* password change, an administrator's reset, deactivation, expiry and a   *)
(* restart of the process.                                                 *)
(*                                                                         *)
(* A token carries the token_version of its account at the time it was     *)
(* issued; every request compares it with the version stored now.  A       *)
(* handler loads the account (Begin...), and writes and commits later      *)
(* (Commit) the columns that differ from its copy, over what is committed  *)
(* by then; the row is not locked.                                         *)
(***************************************************************************)
EXTENDS Naturals, FiniteSets

CONSTANTS
    People,
    Admins, Owner,    \* who may reset, and whom nobody may
    Requests,         \* bound: the requests in flight at a time
    MaxPasswords,     \* bound: the passwords ever set
    MaxTokens         \* bound: the tokens ever issued

ASSUME AccountsAssumption == Admins \subseteq People /\ Owner \in Admins
ASSUME BoundsAssumption == MaxPasswords \in Nat /\ MaxTokens \in Nat

VARIABLES
    account,          \* users: the columns a session depends on
    passwords,        \* how many passwords were set; a new one has the next number
    temporary,        \* history: those an administrator chose
    tokens,           \* issued and not expired
    issued,           \* how many tokens were
    revoked,          \* _revoked_jtis, in the memory of the process
    request,
    raced             \* history: accounts two in flight changed the password of

vars == <<account, passwords, temporary, tokens, issued, revoked, request, raced>>

Passwords == 0..MaxPasswords
Account == [active: BOOLEAN, mustChange: BOOLEAN, version: Nat, password: Passwords]

\* "password" is history: with which password the session was opened.
Token == [jti: 1..MaxTokens, user: People, version: Nat, password: Passwords]

Ops == {"NONE", "login", "change", "reset"}
Request == [op: Ops, user: People, row: Account, new: Passwords]

Idle == [op |-> "NONE", user |-> Owner,
         row |-> [active |-> FALSE, mustChange |-> FALSE, version |-> 0, password |-> 0],
         new |-> 0]

Init ==
    /\ account = [u \in People |-> [active |-> TRUE, mustChange |-> FALSE,
                                    version |-> 0, password |-> 0]]
    /\ passwords = 0 /\ temporary = {}
    /\ tokens = {} /\ issued = 0 /\ revoked = {}
    /\ request = [r \in Requests |-> Idle]
    /\ raced = {}

-----------------------------------------------------------------------------
(* Who is calling *)

\* optional_user
Accepted(t) ==
    /\ t \in tokens
    /\ t.jti \notin revoked
    /\ account[t.user].active
    /\ t.version = account[t.user].version

\* require_user: a temporary password opens a restricted session.
FullyUsable(t) == Accepted(t) /\ ~account[t.user].mustChange

\* require_admin and _assert_may_manage
MayReset(t, u) ==
    /\ FullyUsable(t) /\ t.user \in Admins
    /\ u # Owner /\ u # t.user
    /\ u \in Admins => t.user = Owner

-----------------------------------------------------------------------------
(* Requests: begin with the account as loaded, commit or fail *)

Changing(u) == {r \in Requests : request[r].op \in {"change", "reset"} /\ request[r].user = u}

Begin(r, op, u, new) ==
    /\ request[r] = Idle
    /\ request' = [request EXCEPT ![r] = [op |-> op, user |-> u, row |-> account[u], new |-> new]]

\* Takes the next password and notes whom else it overtakes.
BeginPassword(r, op, u) ==
    /\ passwords < MaxPasswords
    /\ passwords' = passwords + 1
    /\ Begin(r, op, u, passwords')
    /\ raced' = IF Changing(u) = {} THEN raced ELSE raced \cup {u}
    /\ UNCHANGED <<account, tokens, issued, revoked>>

\* login_user, by somebody who knows the password.
BeginLogin(r, u) ==
    /\ account[u].active
    /\ Begin(r, "login", u, 0)
    /\ UNCHANGED <<account, passwords, temporary, tokens, issued, revoked, raced>>

\* change_password, in the session t by somebody who knows the current password.
BeginChange(r, t) ==
    /\ Accepted(t)
    /\ BeginPassword(r, "change", t.user)
    /\ UNCHANGED temporary

\* reset_user_password
BeginReset(r, t, u) ==
    /\ MayReset(t, u)
    /\ BeginPassword(r, "reset", u)
    /\ temporary' = temporary \cup {passwords'}

\* The next token, as create_user_token makes it from the copy the handler holds.
Issue(u, version, password) ==
    /\ issued < MaxTokens
    /\ issued' = issued + 1
    /\ tokens' = tokens \cup {[jti |-> issued', user |-> u, version |-> version,
                               password |-> password]}

CommitLogin(r) ==
    LET q == request[r] IN
    /\ q.op = "login"
    /\ Issue(q.user, q.row.version, q.row.password)
    /\ request' = [request EXCEPT ![r] = Idle]
    /\ UNCHANGED <<account, passwords, temporary, revoked, raced>>

\* Mutant of NextVersion: the sessions of the old password are kept.
SameVersion(row) == row.version

NextVersion(row) == row.version + 1

\* The columns the ORM writes: mustChange only if it differs from the loaded copy.
Saved(current, row, password, mustChange) ==
    [current EXCEPT !.password = password,
                    !.version = NextVersion(row),
                    !.mustChange = IF row.mustChange = mustChange THEN @ ELSE mustChange]

CommitChange(r) ==
    LET q == request[r] IN
    /\ q.op = "change"
    /\ account' = [account EXCEPT ![q.user] = Saved(@, q.row, q.new, FALSE)]
    /\ Issue(q.user, NextVersion(q.row), q.new)
    /\ request' = [request EXCEPT ![r] = Idle]
    /\ UNCHANGED <<passwords, temporary, revoked, raced>>

\* Mutant of ResetRow: the flag is left as it is.
ResetRowOnly(current, q) == Saved(current, q.row, q.new, q.row.mustChange)

ResetRow(current, q) == Saved(current, q.row, q.new, TRUE)

CommitReset(r) ==
    LET q == request[r] IN
    /\ q.op = "reset"
    /\ account' = [account EXCEPT ![q.user] = ResetRow(@, q)]
    /\ request' = [request EXCEPT ![r] = Idle]
    /\ UNCHANGED <<passwords, temporary, tokens, issued, revoked, raced>>

\* Broken off: the transaction rolls back.
Fail(r) ==
    /\ request[r] # Idle
    /\ request' = [request EXCEPT ![r] = Idle]
    /\ UNCHANGED <<account, passwords, temporary, tokens, issued, revoked, raced>>

-----------------------------------------------------------------------------
(* Single steps *)

\* Mutant of RevokedWith: the set holds the last logout.
LastRevoked(t) == {t.jti}

\* revoke_token
RevokedWith(t) == revoked \cup {t.jti}

Logout(t) ==
    /\ Accepted(t)
    /\ revoked' = RevokedWith(t)
    /\ UNCHANGED <<account, passwords, temporary, tokens, issued, request, raced>>

\* The column is_active of update_user_status; who may be asked is MayReset's rule.
SetActive(t, u, value) ==
    /\ MayReset(t, u)
    /\ account[u].active # value
    /\ account' = [account EXCEPT ![u].active = value]
    /\ UNCHANGED <<passwords, temporary, tokens, issued, revoked, request, raced>>

\* decode_token refuses an expired token for good.
Expire(t) ==
    /\ t \in tokens
    /\ tokens' = tokens \ {t}
    /\ UNCHANGED <<account, passwords, temporary, issued, revoked, request, raced>>

\* The process ends and starts: what was in its memory is gone.
Restart ==
    /\ revoked # {} \/ \E r \in Requests : request[r] # Idle
    /\ revoked' = {}
    /\ request' = [r \in Requests |-> Idle]
    /\ UNCHANGED <<account, passwords, temporary, tokens, issued, raced>>

Next ==
    \/ \E r \in Requests :
          \/ \E u \in People : BeginLogin(r, u)
          \/ \E t \in tokens : BeginChange(r, t)
          \/ \E t \in tokens, u \in People : BeginReset(r, t, u)
          \/ CommitLogin(r)
          \/ CommitChange(r)
          \/ CommitReset(r)
          \/ Fail(r)
    \/ \E t \in tokens : Logout(t) \/ Expire(t)
    \/ \E t \in tokens, u \in People, value \in BOOLEAN : SetActive(t, u, value)
    \/ Restart

Spec == Init /\ [][Next]_vars

-----------------------------------------------------------------------------
(* Properties *)

\* Accounts, tokens and requests keep their types.
TypeOK ==
    /\ account \in [People -> Account]
    /\ passwords \in Passwords /\ temporary \subseteq Passwords
    /\ tokens \subseteq Token /\ issued \in 0..MaxTokens
    /\ revoked \subseteq 1..MaxTokens
    /\ request \in [Requests -> Request]
    /\ raced \subseteq People

\* "Immediately revoke all previously issued JWTs": an accepted session was opened
\* with the password the account has now, unless two password changes of the
\* account overlapped and one of them took the other's version.
SessionsEndWithThePassword ==
    \A t \in tokens :
        Accepted(t) /\ t.user \notin raced => t.password = account[t.user].password

\* A password somebody else chose never opens an unrestricted session.
TemporaryMustBeChanged ==
    \A u \in People \ raced : account[u].password \in temporary => account[u].mustChange

\* A session that was refused is accepted again only when the process has
\* forgotten the logout or the account is reactivated.
RefusedStaysRefused ==
    [][\A t \in tokens :
          ~Accepted(t) /\ Accepted(t)' /\ t.user \notin raced =>
              \/ t.jti \in revoked /\ revoked' = {}
              \/ ~account[t.user].active]_vars
=============================================================================
