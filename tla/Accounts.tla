------------------------------ MODULE Accounts ------------------------------
(***************************************************************************)
(* Registration, login, logout, sessions and the review of new users:      *)
(* auth-service.ts, admin-service.ts, their routes, auth-context.ts and    *)
(* db/seed-admin.ts over the tables users and sessions.                    *)
(*                                                                         *)
(* A call is one request.  Each of its statements is one step; between two *)
(* of them other calls run, so what the first has read may be out of date  *)
(* when the second one acts on it.  Any step may fail, and any answer may  *)
(* be lost after the work was done.  A browser sends the cookie it has     *)
(* when the request leaves, and takes the cookie of the answer.            *)
(*                                                                         *)
(* Rows of users are never deleted and logins are unique, so a user is its *)
(* login; a session is its token, the number of its row.  The display name *)
(* and the e-mail, the hash of the password and of the token, and dates    *)
(* are left out, and so are the requests that only read.                   *)
(***************************************************************************)
EXTENDS Integers, Sequences

CONSTANTS
    Logins,
    Passwords,
    Browsers,
    Calls,          \* requests that may run at the same time
    Nobody,         \* a null login, and a row that is not there
    MaxCalls,       \* bound: requests made
    MaxUpsets       \* bound: seeds, failures and expiries

Row ==
    [status : {"pending", "active", "rejected"}, role : {"user", "admin"},
     password : Passwords, verifiedBy : Logins \cup {Nobody}]

ASSUME AccountsAssumption ==
    /\ Nobody \notin Logins /\ Nobody \notin Row
    /\ Browsers # {} /\ Passwords # {}
    /\ MaxCalls \in Nat
    /\ MaxUpsets \in Nat

VARIABLES
    users,          \* the row of each login, or Nobody
    sessions,       \* the rows of sessions
    cookie,         \* the session cookie of each browser, 0 when there is none
    calls,
    verdicts,       \* history: the reviews that were answered with the updated user
    made,           \* how much of the bounds is used
    upsets

vars == <<users, sessions, cookie, calls, verdicts, made, upsets>>

Session == [user : Logins, revoked : BOOLEAN, expired : BOOLEAN]

Verdict == [user : Logins, by : Logins, status : {"active", "rejected"}]

\* token is the cookie that was sent, or the one to set; actor the user that
\* requireCurrentUser has found, with the role read then; late says that the
\* session of the cookie had been revoked before the request was sent.
Call ==
    [pc : {"idle", "register", "login", "admit", "logout", "resolve", "review", "answered"},
     op : {"none", "register", "login", "logout", "active", "rejected"},
     browser : Browsers, login : Logins \cup {Nobody}, password : Passwords, token : Nat,
     actor : Logins \cup {Nobody}, role : {"user", "admin"}, late : BOOLEAN,
     answer : {"none", "ok", "failed", "login_taken", "invalid_credentials",
               "account_not_active", "session_required", "forbidden", "pending_user_not_found"}]

IsRow(l) == users[l] # Nobody

Revoked(t) == t # 0 /\ sessions[t].revoked

ResolvesRevoked(t) ==
    /\ t # 0
    /\ ~sessions[t].expired
    /\ users[sessions[t].user].status = "active"

\* The where clause of resolveSession, joined with the session's user.
Resolves(t) ==
    /\ t # 0
    /\ ~sessions[t].revoked /\ ~sessions[t].expired
    /\ users[sessions[t].user].status = "active"

IdleCall(b, pw) ==
    [pc |-> "idle", op |-> "none", browser |-> b, login |-> Nobody, password |-> pw, token |-> 0,
     actor |-> Nobody, role |-> "user", late |-> FALSE, answer |-> "none"]

Init ==
    /\ users = [l \in Logins |-> Nobody]
    /\ sessions = <<>>
    /\ cookie = [b \in Browsers |-> 0]
    /\ calls = [c \in Calls |-> IdleCall(CHOOSE b \in Browsers : TRUE, CHOOSE p \in Passwords : TRUE)]
    /\ verdicts = <<>>
    /\ made = 0
    /\ upsets = 0

Upset == upsets < MaxUpsets /\ upsets' = upsets + 1

Finish(c, answer) == calls' = [calls EXCEPT ![c].pc = "answered", ![c].answer = answer]

-----------------------------------------------------------------------------
(* Requests. *)

Receive(c, b, op, pc, l, pw) ==
    /\ calls[c].pc = "idle"
    /\ made < MaxCalls
    /\ made' = made + 1
    /\ calls' = [calls EXCEPT ![c] =
                   [IdleCall(b, pw) EXCEPT !.pc = pc, !.op = op, !.login = l,
                                           !.token = cookie[b], !.late = Revoked(cookie[b])]]
    /\ UNCHANGED <<users, sessions, cookie, verdicts, upsets>>

ReceiveRegister(c, b, l, pw) == Receive(c, b, "register", "register", l, pw)
ReceiveLogin(c, b, l, pw) == Receive(c, b, "login", "login", l, pw)
ReceiveLogout(c, b) == Receive(c, b, "logout", "logout", Nobody, CHOOSE p \in Passwords : TRUE)
ReceiveReview(c, b, l, status) == Receive(c, b, status, "resolve", l, CHOOSE p \in Passwords : TRUE)

-----------------------------------------------------------------------------
(* registerUser *)

InsertUser(c) ==
    LET l == calls[c].login
    IN  /\ calls[c].pc = "register"
        /\ \/ /\ ~IsRow(l)
              /\ users' = [users EXCEPT ![l] =
                             [status |-> "pending", role |-> "user",
                              password |-> calls[c].password, verifiedBy |-> Nobody]]
              /\ Finish(c, "ok")
           \/ IsRow(l) /\ Finish(c, "login_taken") /\ UNCHANGED users
        /\ UNCHANGED <<sessions, cookie, verdicts, made, upsets>>

-----------------------------------------------------------------------------
(* loginUser *)

FindUserOfAnyStatus(c) ==
    LET row == users[calls[c].login]
        known == row # Nobody /\ row.password = calls[c].password
    IN  /\ calls[c].pc = "login"
        /\ \/ ~known /\ Finish(c, "invalid_credentials")
           \/ known /\ calls' = [calls EXCEPT ![c].pc = "admit"]
        /\ UNCHANGED <<users, sessions, cookie, verdicts, made, upsets>>

\* The row is read once; the password and the status are checked on it.
FindUser(c) ==
    LET row == users[calls[c].login]
        known == row # Nobody /\ row.password = calls[c].password
    IN  /\ calls[c].pc = "login"
        /\ \/ ~known /\ Finish(c, "invalid_credentials")
           \/ known /\ row.status # "active" /\ Finish(c, "account_not_active")
           \/ known /\ row.status = "active" /\ calls' = [calls EXCEPT ![c].pc = "admit"]
        /\ UNCHANGED <<users, sessions, cookie, verdicts, made, upsets>>

AnswerBeforeSession(c) ==
    /\ calls[c].pc = "admit"
    /\ calls' = [calls EXCEPT ![c].pc = "answered", ![c].answer = "ok",
                              ![c].token = Len(sessions) + 1]
    /\ UNCHANGED <<users, sessions, cookie, verdicts, made, upsets>>

InsertSession(c) ==
    /\ calls[c].pc = "admit"
    /\ sessions' = Append(sessions, [user |-> calls[c].login, revoked |-> FALSE, expired |-> FALSE])
    /\ calls' = [calls EXCEPT ![c].pc = "answered", ![c].answer = "ok",
                              ![c].token = Len(sessions) + 1]
    /\ UNCHANGED <<users, cookie, verdicts, made, upsets>>

-----------------------------------------------------------------------------
(* revokeSession *)

Revoke(c) ==
    LET t == calls[c].token
    IN  /\ calls[c].pc = "logout"
        /\ sessions' = IF t = 0 THEN sessions ELSE [sessions EXCEPT ![t].revoked = TRUE]
        /\ Finish(c, "ok")
        /\ UNCHANGED <<users, cookie, verdicts, made, upsets>>

-----------------------------------------------------------------------------
(* requireCurrentUser, then updatePendingUserStatus *)

Resolve(c) ==
    LET t == calls[c].token
    IN  /\ calls[c].pc = "resolve"
        /\ \/ /\ Resolves(t)
              /\ calls' = [calls EXCEPT ![c].pc = "review", ![c].actor = sessions[t].user,
                                        ![c].role = users[sessions[t].user].role]
           \/ ~Resolves(t) /\ Finish(c, "session_required")
        /\ UNCHANGED <<users, sessions, cookie, verdicts, made, upsets>>

IsPending(l) == IsRow(l) /\ users[l].status = "pending"

ReviewAnyUser(c) ==
    LET l == calls[c].login
        admin == calls[c].role = "admin"
    IN  /\ calls[c].pc = "review"
        /\ \/ ~(admin /\ IsRow(l)) /\ Finish(c, "forbidden") /\ UNCHANGED <<users, verdicts>>
           \/ /\ admin /\ IsRow(l)
              /\ users' = [users EXCEPT ![l].status = calls[c].op, ![l].verifiedBy = calls[c].actor]
              /\ verdicts' = Append(verdicts, [user |-> l, by |-> calls[c].actor,
                                               status |-> calls[c].op])
              /\ Finish(c, "ok")
        /\ UNCHANGED <<sessions, cookie, made, upsets>>

\* The role is the one that was read with the session.  One UPDATE checks that the
\* user is pending and changes it.
Review(c) ==
    LET l == calls[c].login
        admin == calls[c].role = "admin"
    IN  /\ calls[c].pc = "review"
        /\ \/ ~admin /\ Finish(c, "forbidden") /\ UNCHANGED <<users, verdicts>>
           \/ admin /\ ~IsPending(l) /\ Finish(c, "pending_user_not_found")
              /\ UNCHANGED <<users, verdicts>>
           \/ /\ admin /\ IsPending(l)
              /\ users' = [users EXCEPT ![l].status = calls[c].op, ![l].verifiedBy = calls[c].actor]
              /\ verdicts' = Append(verdicts, [user |-> l, by |-> calls[c].actor,
                                               status |-> calls[c].op])
              /\ Finish(c, "ok")
        /\ UNCHANGED <<sessions, cookie, made, upsets>>

-----------------------------------------------------------------------------
(* What else happens. *)

\* The answer arrives: login sets the cookie, logout clears whichever there is.
Answered(c) ==
    LET call == calls[c]
    IN  /\ call.pc = "answered"
        /\ cookie' = IF call.answer # "ok" THEN cookie
                     ELSE CASE call.op = "login"  -> [cookie EXCEPT ![call.browser] = call.token]
                            [] call.op = "logout" -> [cookie EXCEPT ![call.browser] = 0]
                            [] OTHER              -> cookie
        /\ calls' = [calls EXCEPT ![c].pc = "idle"]
        /\ UNCHANGED <<users, sessions, verdicts, made, upsets>>

\* A statement fails, or the answer is lost.
Fails(c) ==
    /\ calls[c].pc # "idle" /\ calls[c].answer # "failed"
    /\ Finish(c, "failed")
    /\ Upset
    /\ UNCHANGED <<users, sessions, cookie, verdicts, made>>

Expires(t) ==
    /\ ~sessions[t].expired
    /\ sessions' = [sessions EXCEPT ![t].expired = TRUE]
    /\ Upset
    /\ UNCHANGED <<users, cookie, calls, verdicts, made>>

\* seedAdmin: an upsert that leaves verified_by alone.
SeedAdmin(l, pw) ==
    /\ users' = [users EXCEPT ![l] =
                   [status |-> "active", role |-> "admin", password |-> pw,
                    verifiedBy |-> IF IsRow(l) THEN users[l].verifiedBy ELSE Nobody]]
    /\ Upset
    /\ UNCHANGED <<sessions, cookie, calls, verdicts, made>>

Request(c, b) ==
    \/ ReceiveLogout(c, b)
    \/ \E l \in Logins, pw \in Passwords : ReceiveRegister(c, b, l, pw) \/ ReceiveLogin(c, b, l, pw)
    \/ \E l \in Logins, status \in {"active", "rejected"} : ReceiveReview(c, b, l, status)

CallStep(c) ==
    \/ \E b \in Browsers : Request(c, b)
    \/ InsertUser(c) \/ FindUser(c) \/ InsertSession(c) \/ Revoke(c) \/ Resolve(c) \/ Review(c)
    \/ Answered(c) \/ Fails(c)

Next ==
    \/ \E c \in Calls : CallStep(c)
    \/ \E t \in DOMAIN sessions : Expires(t)
    \/ \E l \in Logins, pw \in Passwords : SeedAdmin(l, pw)

Spec == Init /\ [][Next]_vars

-----------------------------------------------------------------------------
(* Properties. *)

\* Rows and calls have their types, and what refers to a row finds it.
TypeOK ==
    /\ users \in [Logins -> Row \cup {Nobody}]
    /\ sessions \in Seq(Session)
    /\ \A t \in DOMAIN sessions : IsRow(sessions[t].user)
    /\ cookie \in [Browsers -> 0 .. Len(sessions)]
    /\ calls \in [Calls -> Call]
    /\ \A c \in Calls : calls[c].token \in 0 .. Len(sessions)
    /\ verdicts \in Seq(Verdict)
    /\ made \in 0 .. MaxCalls
    /\ upsets \in 0 .. MaxUpsets

\* The tables, read while any number of calls is half done, behave like Membership: a
\* session needs a user who is active now, not only when the row was read, and a review
\* needs an administrator who still is one.
Standing == [l \in Logins |-> IF IsRow(l) THEN users[l].status ELSE "stranger"]
Admins == {l \in Logins : IsRow(l) /\ users[l].role = "admin"}
LiveSessions == {t \in DOMAIN sessions : ~sessions[t].revoked /\ ~sessions[t].expired}
Admitted == {sessions[t].user : t \in LiveSessions}

M == INSTANCE Membership WITH
    People <- Logins, standing <- Standing, admins <- Admins, admitted <- Admitted

ImplementsMembership == M!Spec

\* Of all reviews of a user, in any order and number, one is answered with success: the user
\* has that status and that reviewer ever after, unless the seed made an administrator of it,
\* and the reviewer is an administrator and somebody else.
DecidedOnce ==
    /\ \A i, j \in DOMAIN verdicts : verdicts[i].user = verdicts[j].user => i = j
    /\ \A i \in DOMAIN verdicts :
         LET v == verdicts[i]
         IN  /\ IsRow(v.user) /\ IsRow(v.by)
             /\ users[v.user].verifiedBy = v.by
             /\ users[v.user].status = v.status \/ users[v.user].role = "admin"
             /\ users[v.by].role = "admin" /\ users[v.by].status = "active"
             /\ v.by # v.user

\* A request that is sent after its session was revoked does nothing, even if the answer
\* of the logout was lost and the browser still has the cookie.
RevokedIsRefused ==
    \A c \in Calls :
        calls[c].late /\ calls[c].op \in {"active", "rejected"}
        => calls[c].pc # "review" /\ calls[c].answer # "ok"

=============================================================================
