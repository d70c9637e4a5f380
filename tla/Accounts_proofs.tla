--------------------------- MODULE Accounts_proofs ---------------------------
(***************************************************************************)
(* For any number of users, browsers and concurrent requests the accounts  *)
(* keep what Membership promises.  The rows that a request has read may be *)
(* out of date when it acts, but what it relies on cannot be: nobody who   *)
(* is active or an administrator ever ceases to be.                        *)
(***************************************************************************)
EXTENDS Accounts, TLAPS

IsActive(l) == IsRow(l) /\ users[l].status = "active"
IsAdmin(l) == IsRow(l) /\ users[l].role = "admin"
IsReview(c) == calls[c].op \in {"active", "rejected"}

AdminsAreActive == \A l \in Logins : IsAdmin(l) => IsActive(l)

SessionsAreOfActive == \A t \in DOMAIN sessions : IsActive(sessions[t].user)

\* What a call has read, and still relies on.
CallIsSound(c) ==
    /\ calls[c].pc \in {"register", "login", "admit", "resolve", "review"} => calls[c].login \in Logins
    /\ calls[c].pc = "admit" => calls[c].op = "login" /\ IsActive(calls[c].login)
    /\ calls[c].pc \in {"register", "login", "logout"} => calls[c].op = calls[c].pc
    /\ calls[c].pc \in {"resolve", "review"} => IsReview(c)
    /\ calls[c].pc = "review" =>
         /\ calls[c].actor \in Logins /\ IsActive(calls[c].actor)
         /\ calls[c].role = "admin" => IsAdmin(calls[c].actor)

CallsAreSound == \A c \in Calls : CallIsSound(c)

\* A session stays revoked.
LateIsRevoked == \A c \in Calls : calls[c].late /\ IsReview(c) => Revoked(calls[c].token)

IInv ==
    /\ TypeOK
    /\ AdminsAreActive
    /\ SessionsAreOfActive
    /\ CallsAreSound
    /\ LateIsRevoked
    /\ RevokedIsRefused
    /\ DecidedOnce

-----------------------------------------------------------------------------
(* What the actions that write one call do to it. *)

Answers == {"none", "ok", "failed", "login_taken", "invalid_credentials", "account_not_active",
            "session_required", "forbidden", "pending_user_not_found"}

\* The other calls stay as they are.
OthersStay(c) == \A d \in Calls : d # c => calls'[d] = calls[d]

\* The call keeps what the request said.
SameRequest(c) ==
    /\ calls'[c].op = calls[c].op
    /\ calls'[c].login = calls[c].login
    /\ calls'[c].late = calls[c].late

\* The members of Call, whatever the sets of its fields.
LEMMA FieldsWritten ==
  ASSUME NEW PC, NEW Op, NEW B, NEW L, NEW P, NEW A, NEW R, NEW Ans,
         NEW call \in [pc : PC, op : Op, browser : B, login : L, password : P, token : Nat,
                       actor : A, role : R, late : BOOLEAN, answer : Ans],
         NEW pc \in PC, NEW answer \in Ans
  PROVE  LET new == [call EXCEPT !.pc = pc, !.answer = answer]
         IN  /\ new \in [pc : PC, op : Op, browser : B, login : L, password : P, token : Nat,
                         actor : A, role : R, late : BOOLEAN, answer : Ans]
             /\ new.pc = pc /\ new.answer = answer
             /\ new.op = call.op /\ new.login = call.login /\ new.late = call.late
             /\ new.token = call.token
OBVIOUS

LEMMA FinishedIsCall ==
  ASSUME NEW call \in Call, NEW answer \in Answers
  PROVE  LET new == [call EXCEPT !.pc = "answered", !.answer = answer]
         IN  /\ new \in Call /\ new.pc = "answered" /\ new.answer = answer
             /\ new.op = call.op /\ new.login = call.login /\ new.late = call.late
             /\ new.token = call.token
<1> DEFINE PCs == {"idle", "register", "login", "admit", "logout", "resolve", "review", "answered"}
           Ops == {"none", "register", "login", "logout", "active", "rejected"}
           Roles == {"user", "admin"}
           People == Logins \cup {Nobody}
<1>1. Call = [pc : PCs, op : Ops, browser : Browsers, login : People, password : Passwords,
              token : Nat, actor : People, role : Roles, late : BOOLEAN, answer : Answers]
  BY DEF Call, Answers
<1>2. "answered" \in PCs
  OBVIOUS
<1> HIDE DEF PCs, Ops, Roles, People
<1> QED
  BY <1>1, <1>2, FieldsWritten

LEMMA FinishWrites ==
  ASSUME TypeOK, NEW c \in Calls, NEW answer \in Answers, Finish(c, answer)
  PROVE  /\ calls' \in [Calls -> Call]
         /\ OthersStay(c) /\ SameRequest(c)
         /\ calls'[c].token = calls[c].token
         /\ calls'[c].pc = "answered" /\ calls'[c].answer = answer
<1>1. calls \in [Calls -> Call] /\ calls[c] \in Call
  BY DEF TypeOK
<1>2. calls' = [calls EXCEPT ![c] = [calls[c] EXCEPT !.pc = "answered", !.answer = answer]]
  BY <1>1 DEF Finish
<1> DEFINE new == [calls[c] EXCEPT !.pc = "answered", !.answer = answer]
<1>3. /\ new \in Call /\ new.pc = "answered" /\ new.answer = answer
      /\ new.op = calls[c].op /\ new.login = calls[c].login /\ new.late = calls[c].late
      /\ new.token = calls[c].token
  BY <1>1, FinishedIsCall
<1>4. calls' = [calls EXCEPT ![c] = new]
  BY <1>2
<1> HIDE DEF new
<1>5. calls' \in [Calls -> Call] /\ calls'[c] = new /\ \A d \in Calls : d # c => calls'[d] = calls[d]
  BY <1>1, <1>3, <1>4
<1> QED
  BY <1>3, <1>5 DEF OthersStay, SameRequest

LEMMA ReceiveWrites ==
  ASSUME TypeOK, NEW c \in Calls, NEW b \in Browsers, NEW pw \in Passwords,
         NEW op \in {"register", "login", "logout", "active", "rejected"},
         NEW pc \in {"register", "login", "logout", "resolve"},
         NEW l \in Logins \cup {Nobody}, Receive(c, b, op, pc, l, pw)
  PROVE  /\ calls' \in [Calls -> Call]
         /\ OthersStay(c)
         /\ calls'[c].pc = pc /\ calls'[c].op = op /\ calls'[c].login = l
         /\ calls'[c].token = cookie[b] /\ calls'[c].token \in 0 .. Len(sessions)
         /\ calls'[c].late = Revoked(cookie[b]) /\ calls'[c].answer = "none"
<1>1. cookie[b] \in 0 .. Len(sessions) /\ cookie[b] \in Nat
  BY DEF TypeOK
<1>2. Revoked(cookie[b]) \in BOOLEAN
  BY <1>1 DEF TypeOK, Revoked, Session
<1> DEFINE call == [IdleCall(b, pw) EXCEPT !.pc = pc, !.op = op, !.login = l,
                                           !.token = cookie[b], !.late = Revoked(cookie[b])]
<1>3. call \in Call
  BY <1>1, <1>2 DEF Call, IdleCall
<1>4. /\ call.pc = pc /\ call.op = op /\ call.login = l /\ call.token = cookie[b]
      /\ call.late = Revoked(cookie[b]) /\ call.answer = "none"
  BY DEF IdleCall
<1>5. calls' = [calls EXCEPT ![c] = call]
  BY DEF Receive
<1> HIDE DEF call
<1> QED
  BY <1>1, <1>3, <1>4, <1>5 DEF TypeOK, OthersStay

-----------------------------------------------------------------------------
(* What no action takes back, and what follows from it. *)

UsersKeep ==
    \A l \in Logins : /\ IsRow(l) => IsRow(l)'
                      /\ IsActive(l) => IsActive(l)'
                      /\ IsAdmin(l) => IsAdmin(l)'

\* All rows that exist are as they were.
RowsStay == \A l \in Logins : IsRow(l) => users'[l] = users[l]

SessionsKeep ==
    \A t \in DOMAIN sessions : /\ t \in DOMAIN sessions'
                               /\ sessions'[t].user = sessions[t].user
                               /\ sessions[t].revoked => sessions'[t].revoked

\* What is to be shown of the call that a step is about.
LateIsSound(c) ==
    calls[c].late /\ IsReview(c) =>
        Revoked(calls[c].token) /\ calls[c].pc # "review" /\ calls[c].answer # "ok"

LEMMA OtherCalls ==
  ASSUME IInv, NEW c \in Calls, OthersStay(c), UsersKeep, SessionsKeep,
         CallIsSound(c)', LateIsSound(c)'
  PROVE  CallsAreSound' /\ LateIsRevoked' /\ RevokedIsRefused'
<1> SUFFICES ASSUME NEW d \in Calls
             PROVE  CallIsSound(d)' /\ LateIsSound(d)'
  BY DEF CallsAreSound, LateIsRevoked, RevokedIsRefused, LateIsSound, IsReview
<1>1. CASE d = c
  BY <1>1
<1>2. CASE d # c
  <2>1. calls'[d] = calls[d]
    BY <1>2 DEF OthersStay
  <2>2. CallIsSound(d) /\ LateIsSound(d) /\ calls[d] \in Call /\ calls[d].token \in 0 .. Len(sessions)
    BY DEF IInv, TypeOK, CallsAreSound, LateIsRevoked, RevokedIsRefused, LateIsSound, IsReview
  <2>3. calls[d].actor \in Logins \cup {Nobody} /\ calls[d].login \in Logins \cup {Nobody}
    BY <2>2 DEF Call
  <2>4. CallIsSound(d)'
    BY <2>1, <2>2, <2>3 DEF CallIsSound, UsersKeep, IsReview
  <2>5. Revoked(calls[d].token) => Revoked(calls[d].token)'
    BY <2>2, <2>1 DEF Revoked, SessionsKeep, IInv, TypeOK
  <2> QED
    BY <2>1, <2>2, <2>4, <2>5 DEF LateIsSound, IsReview
<1> QED
  BY <1>1, <1>2

\* The verdicts stand as long as no row changes.
LEMMA VerdictsStand ==
  ASSUME IInv, RowsStay, UNCHANGED verdicts
  PROVE  DecidedOnce'
<1> USE DEF IInv
<1>1. \A i \in DOMAIN verdicts : verdicts[i] \in Verdict
  BY DEF TypeOK
<1>2. \A i \in DOMAIN verdicts :
        LET v == verdicts[i]
        IN  /\ v.user \in Logins /\ v.by \in Logins /\ IsRow(v.user) /\ IsRow(v.by)
            /\ users'[v.user] = users[v.user] /\ users'[v.by] = users[v.by]
  BY <1>1 DEF DecidedOnce, RowsStay, Verdict
<1> QED
  BY <1>2 DEF DecidedOnce, IsRow

\* A step that changes neither table.
LEMMA TablesStay ==
  ASSUME IInv, UNCHANGED <<users, sessions, verdicts>>
  PROVE  /\ UsersKeep /\ SessionsKeep
         /\ AdminsAreActive' /\ SessionsAreOfActive' /\ DecidedOnce'
<1>1. UsersKeep /\ SessionsKeep /\ RowsStay
  BY DEF UsersKeep, SessionsKeep, RowsStay, IsRow, IsActive, IsAdmin
<1>2. AdminsAreActive' /\ SessionsAreOfActive'
  BY DEF IInv, AdminsAreActive, SessionsAreOfActive, IsRow, IsActive, IsAdmin
<1> QED
  BY <1>1, <1>2, VerdictsStand

-----------------------------------------------------------------------------
(* The actions. *)

LEMMA InitInv == Init => IInv
<1> SUFFICES ASSUME Init PROVE IInv
  OBVIOUS
<1> DEFINE b == CHOOSE x \in Browsers : TRUE
           pw == CHOOSE x \in Passwords : TRUE
<1>1. b \in Browsers /\ pw \in Passwords
  BY AccountsAssumption
<1> HIDE DEF b, pw
<1>2. /\ IdleCall(b, pw) \in Call /\ IdleCall(b, pw).pc = "idle" /\ IdleCall(b, pw).late = FALSE
      /\ IdleCall(b, pw).token = 0
  BY <1>1 DEF IdleCall, Call
<1>3. calls = [c \in Calls |-> IdleCall(b, pw)]
  BY DEF Init, b, pw
<1>4. TypeOK
  BY <1>2, <1>3, AccountsAssumption DEF Init, TypeOK
<1>5. CallsAreSound /\ LateIsRevoked /\ RevokedIsRefused
  BY <1>2, <1>3 DEF CallsAreSound, CallIsSound, LateIsRevoked, RevokedIsRefused
<1>6. AdminsAreActive /\ SessionsAreOfActive /\ DecidedOnce
  BY DEF Init, AdminsAreActive, SessionsAreOfActive, DecidedOnce, IsAdmin, IsActive, IsRow
<1> QED
  BY <1>4, <1>5, <1>6 DEF IInv

LEMMA ReceiveStep ==
  ASSUME IInv, NEW c \in Calls, NEW b \in Browsers, Request(c, b)
  PROVE  IInv'
<1> DEFINE pw0 == CHOOSE p \in Passwords : TRUE
<1>1. pw0 \in Passwords
  BY AccountsAssumption
<1>2. PICK op \in {"register", "login", "logout", "active", "rejected"},
           pc \in {"register", "login", "logout", "resolve"},
           l \in Logins \cup {Nobody}, pw \in Passwords :
        /\ Receive(c, b, op, pc, l, pw)
        /\ pc \in {"register", "login", "resolve"} => l \in Logins
        /\ pc # "resolve" => op = pc
        /\ pc = "resolve" => op \in {"active", "rejected"}
  <2>1. CASE ReceiveLogout(c, b)
    BY <1>1, <2>1 DEF ReceiveLogout
  <2>2. CASE \E l \in Logins, pw \in Passwords : ReceiveRegister(c, b, l, pw) \/ ReceiveLogin(c, b, l, pw)
    BY <2>2 DEF ReceiveRegister, ReceiveLogin
  <2>3. CASE \E l \in Logins, status \in {"active", "rejected"} : ReceiveReview(c, b, l, status)
    BY <1>1, <2>3 DEF ReceiveReview
  <2> QED
    BY <2>1, <2>2, <2>3 DEF Request
<1>3. UNCHANGED <<users, sessions, cookie, verdicts, upsets>> /\ made < MaxCalls /\ made' = made + 1
  BY <1>2 DEF Receive
<1>4. /\ calls' \in [Calls -> Call] /\ OthersStay(c)
      /\ calls'[c].pc = pc /\ calls'[c].op = op /\ calls'[c].login = l
      /\ calls'[c].token = cookie[b] /\ calls'[c].token \in 0 .. Len(sessions)
      /\ calls'[c].late = Revoked(cookie[b]) /\ calls'[c].answer = "none"
  BY <1>2, ReceiveWrites DEF IInv
<1>5. TypeOK'
  <2>1. made' \in 0 .. MaxCalls
    BY <1>3, AccountsAssumption DEF IInv, TypeOK
  <2>2. \A d \in Calls : calls'[d].token \in 0 .. Len(sessions)
    BY <1>4 DEF IInv, TypeOK, OthersStay
  <2> QED
    BY <1>3, <1>4, <2>1, <2>2 DEF IInv, TypeOK, IsRow
<1>6. CallIsSound(c)'
  BY <1>2, <1>4 DEF CallIsSound, IsReview
<1>7. calls'[c].late => Revoked(calls[c].token)'
  BY <1>3, <1>4 DEF Revoked
<1>8. LateIsSound(c)'
  BY <1>2, <1>4, <1>7 DEF LateIsSound
<1>9. UsersKeep /\ SessionsKeep /\ AdminsAreActive' /\ SessionsAreOfActive' /\ DecidedOnce'
  BY <1>3, TablesStay
<1> QED
  BY <1>4, <1>5, <1>6, <1>8, <1>9, OtherCalls DEF IInv

\* A step that writes no table and moves one call on.
LEMMA QuietStep ==
  ASSUME IInv, NEW c \in Calls, UNCHANGED <<users, sessions, verdicts, made>>,
         calls' \in [Calls -> Call], OthersStay(c), calls'[c].token \in 0 .. Len(sessions),
         cookie' \in [Browsers -> 0 .. Len(sessions)], upsets' \in 0 .. MaxUpsets,
         CallIsSound(c)', LateIsSound(c)'
  PROVE  IInv'
<1>1. TypeOK'
  <2>1. \A d \in Calls : calls'[d].token \in 0 .. Len(sessions)
    BY DEF IInv, TypeOK, OthersStay
  <2> QED
    BY <2>1 DEF IInv, TypeOK, IsRow
<1> QED
  BY <1>1, TablesStay, OtherCalls DEF IInv

LEMMA FinishIsSound ==
  ASSUME IInv, NEW c \in Calls, NEW answer \in Answers, Finish(c, answer),
         \A t \in DOMAIN sessions : t \in DOMAIN sessions' /\ (sessions[t].revoked => sessions'[t].revoked),
         IsReview(c) => answer # "ok" \/ ~calls[c].late
  PROVE  CallIsSound(c)' /\ LateIsSound(c)'
<1>1. /\ SameRequest(c) /\ calls'[c].token = calls[c].token
      /\ calls'[c].pc = "answered" /\ calls'[c].answer = answer
  BY FinishWrites DEF IInv
<1>2. CallIsSound(c)'
  BY <1>1 DEF CallIsSound
<1>3. calls[c].late /\ IsReview(c) => Revoked(calls[c].token) /\ calls[c].token \in 0 .. Len(sessions)
  BY DEF IInv, LateIsRevoked, TypeOK
<1>4. calls[c].late /\ IsReview(c) => Revoked(calls[c].token)'
  BY <1>1, <1>3 DEF Revoked, IInv, TypeOK
<1> QED
  BY <1>1, <1>2, <1>4 DEF LateIsSound, SameRequest, IsReview

LEMMA FinishStep ==
  ASSUME IInv, NEW c \in Calls, NEW answer \in Answers \ {"ok"}, Finish(c, answer),
         UNCHANGED <<users, sessions, cookie, verdicts, made>>, upsets' \in 0 .. MaxUpsets
  PROVE  IInv'
<1>1. /\ calls' \in [Calls -> Call] /\ OthersStay(c)
      /\ calls'[c].token = calls[c].token
  BY FinishWrites DEF IInv
<1>2. CallIsSound(c)' /\ LateIsSound(c)'
  BY FinishIsSound
<1> QED
  BY <1>1, <1>2, QuietStep DEF IInv, TypeOK

LEMMA FailsStep ==
  ASSUME IInv, NEW c \in Calls, Fails(c)
  PROVE  IInv'
<1>1. upsets' \in 0 .. MaxUpsets
  BY AccountsAssumption DEF Fails, Upset, IInv, TypeOK
<1> QED
  BY <1>1, FinishStep DEF Fails, Answers

LEMMA SessionUsers ==
  ASSUME TypeOK
  PROVE  \A t \in DOMAIN sessions : sessions[t] \in Session /\ sessions[t].user \in Logins
<1>1. \A t \in DOMAIN sessions : sessions[t] \in Session
  BY DEF TypeOK
<1> QED
  BY <1>1 DEF Session

LEMMA InsertUserStep ==
  ASSUME IInv, NEW c \in Calls, InsertUser(c)
  PROVE  IInv'
<1> DEFINE l == calls[c].login
           row == [status |-> "pending", role |-> "user",
                   password |-> calls[c].password, verifiedBy |-> Nobody]
<1>1. l \in Logins /\ ~IsReview(c) /\ calls[c] \in Call
  BY DEF InsertUser, IInv, CallsAreSound, CallIsSound, IsReview, TypeOK
<1>2. CASE ~IsRow(l) /\ users' = [users EXCEPT ![l] = row] /\ Finish(c, "ok")
  <2>1. row \in Row /\ row # Nobody /\ row.status = "pending" /\ row.role = "user"
    BY <1>1, AccountsAssumption DEF Row, Call
  <2> HIDE DEF row
  <2>2. UNCHANGED <<sessions, cookie, verdicts, made, upsets>>
    BY DEF InsertUser
  <2>3. users \in [Logins -> Row \cup {Nobody}]
    BY DEF IInv, TypeOK
  <2>4. UsersKeep /\ RowsStay /\ SessionsKeep
    BY <1>1, <1>2, <2>1, <2>2, <2>3 DEF UsersKeep, RowsStay, SessionsKeep, IsRow, IsActive, IsAdmin
  <2>5. \A t \in DOMAIN sessions : sessions[t].user \in Logins
    BY SessionUsers DEF IInv
  <2>6. AdminsAreActive' /\ SessionsAreOfActive' /\ (\A t \in DOMAIN sessions : IsRow(sessions[t].user))'
    BY <1>1, <1>2, <2>1, <2>2, <2>3, <2>4, <2>5
       DEF AdminsAreActive, SessionsAreOfActive, UsersKeep, IInv, TypeOK, IsAdmin, IsActive, IsRow
  <2>7. /\ calls' \in [Calls -> Call] /\ OthersStay(c) /\ calls'[c].token = calls[c].token
    BY <1>2, FinishWrites DEF IInv, Answers
  <2>8. CallIsSound(c)' /\ LateIsSound(c)'
    BY <1>1, <1>2, <2>2, FinishIsSound DEF Answers
  <2>9. TypeOK'
    <3>1. \A d \in Calls : calls'[d].token \in 0 .. Len(sessions)
      BY <2>7 DEF IInv, TypeOK, OthersStay
    <3>2. users' \in [Logins -> Row \cup {Nobody}]
      BY <1>1, <1>2, <2>1, <2>3
    <3> QED
      BY <2>2, <2>6, <2>7, <3>1, <3>2 DEF IInv, TypeOK
  <2> QED
    BY <2>2, <2>4, <2>6, <2>7, <2>8, <2>9, OtherCalls, VerdictsStand DEF IInv
<1>3. CASE Finish(c, "login_taken") /\ UNCHANGED users
  BY <1>3, FinishStep DEF InsertUser, Answers, IInv, TypeOK
<1> QED
  BY <1>2, <1>3 DEF InsertUser

LEMMA FindUserStep ==
  ASSUME IInv, NEW c \in Calls, FindUser(c)
  PROVE  IInv'
<1> DEFINE row == users[calls[c].login]
<1>1. UNCHANGED <<users, sessions, cookie, verdicts, made, upsets>> /\ upsets' \in 0 .. MaxUpsets
  BY DEF FindUser, IInv, TypeOK
<1>2. CASE row # Nobody /\ row.status = "active" /\ calls' = [calls EXCEPT ![c].pc = "admit"]
  <2>1. calls[c] \in Call /\ calls \in [Calls -> Call] /\ calls[c].token \in 0 .. Len(sessions)
    BY DEF IInv, TypeOK
  <2>2. calls' = [calls EXCEPT ![c] = [calls[c] EXCEPT !.pc = "admit"]]
    BY <1>2, <2>1
  <2>3. [calls[c] EXCEPT !.pc = "admit"] \in Call
    BY <2>1 DEF Call
  <2>4. calls' \in [Calls -> Call] /\ OthersStay(c)
    BY <2>1, <2>2, <2>3 DEF OthersStay
  <2>5. /\ calls'[c].pc = "admit" /\ SameRequest(c) /\ calls'[c].token = calls[c].token
    BY <2>1, <2>2 DEF SameRequest, Call
  <2>6. calls[c].op = "login" /\ calls[c].login \in Logins
    BY DEF FindUser, IInv, CallsAreSound, CallIsSound
  <2>7. CallIsSound(c)' /\ LateIsSound(c)'
    BY <1>1, <1>2, <2>5, <2>6 DEF CallIsSound, LateIsSound, SameRequest, IsReview, IsActive, IsRow
  <2> QED
    BY <1>1, <2>1, <2>4, <2>5, <2>7, QuietStep DEF IInv, TypeOK
<1>3. CASE Finish(c, "invalid_credentials") \/ Finish(c, "account_not_active")
  BY <1>1, <1>3, FinishStep DEF Answers
<1> QED
  BY <1>2, <1>3 DEF FindUser

LEMMA InsertSessionStep ==
  ASSUME IInv, NEW c \in Calls, InsertSession(c)
  PROVE  IInv'
<1> DEFINE row == [user |-> calls[c].login, revoked |-> FALSE, expired |-> FALSE]
<1>1. /\ calls[c] \in Call /\ calls \in [Calls -> Call] /\ sessions \in Seq(Session)
      /\ calls[c].op = "login" /\ calls[c].login \in Logins /\ IsActive(calls[c].login)
  BY DEF InsertSession, IInv, TypeOK, CallsAreSound, CallIsSound
<1>2. /\ sessions' = Append(sessions, row) /\ UNCHANGED <<users, cookie, verdicts, made, upsets>>
  BY DEF InsertSession
<1>3. row \in Session /\ row.user = calls[c].login
  BY <1>1 DEF Session
<1> HIDE DEF row
<1>4. /\ sessions' \in Seq(Session) /\ Len(sessions') = Len(sessions) + 1
      /\ DOMAIN sessions' = DOMAIN sessions \cup {Len(sessions) + 1}
      /\ \A t \in DOMAIN sessions : sessions'[t] = sessions[t]
      /\ sessions'[Len(sessions) + 1] = row
  BY <1>1, <1>2, <1>3
<1>5. UsersKeep /\ RowsStay /\ SessionsKeep
  BY <1>2, <1>4 DEF UsersKeep, RowsStay, SessionsKeep, IsRow, IsActive, IsAdmin
<1>6. AdminsAreActive' /\ SessionsAreOfActive' /\ (\A t \in DOMAIN sessions : IsRow(sessions[t].user))'
  <2>1. AdminsAreActive'
    BY <1>2 DEF IInv, AdminsAreActive, IsRow, IsActive, IsAdmin
  <2>2. \A t \in DOMAIN sessions' : IsActive(sessions'[t].user)
    BY <1>1, <1>3, <1>4 DEF IInv, SessionsAreOfActive
  <2> QED
    BY <1>2, <2>1, <2>2 DEF SessionsAreOfActive, IsActive, IsRow
<1> DEFINE call == [calls[c] EXCEPT !.pc = "answered", !.answer = "ok", !.token = Len(sessions) + 1]
<1>7. calls' = [calls EXCEPT ![c] = call]
  BY <1>1 DEF InsertSession
<1>12. Len(sessions) + 1 \in Nat
  BY <1>1
<1>8. /\ call \in Call /\ call.pc = "answered" /\ call.op = "login"
      /\ call.token = Len(sessions) + 1
  BY <1>1, <1>12 DEF Call
<1> HIDE DEF call
<1>9. calls' \in [Calls -> Call] /\ OthersStay(c) /\ calls'[c] = call
  BY <1>1, <1>7, <1>8 DEF OthersStay
<1>10. CallIsSound(c)' /\ LateIsSound(c)'
  BY <1>8, <1>9 DEF CallIsSound, LateIsSound, IsReview
<1>11. TypeOK'
  <2>1. \A d \in Calls : calls'[d].token \in 0 .. Len(sessions')
    BY <1>1, <1>4, <1>8, <1>9 DEF IInv, TypeOK, OthersStay
  <2>2. cookie' \in [Browsers -> 0 .. Len(sessions')]
    BY <1>1, <1>2, <1>4 DEF IInv, TypeOK
  <2> QED
    BY <1>2, <1>4, <1>6, <1>9, <2>1, <2>2 DEF IInv, TypeOK
<1> QED
  BY <1>2, <1>5, <1>6, <1>9, <1>10, <1>11, OtherCalls, VerdictsStand DEF IInv

LEMMA RevokeStep ==
  ASSUME IInv, NEW c \in Calls, Revoke(c)
  PROVE  IInv'
<1> DEFINE t == calls[c].token
<1>1. /\ UNCHANGED <<users, cookie, verdicts, made, upsets>> /\ Finish(c, "ok")
      /\ sessions' = IF t = 0 THEN sessions ELSE [sessions EXCEPT ![t].revoked = TRUE]
      /\ calls[c].op = "logout"
  BY DEF Revoke, IInv, CallsAreSound, CallIsSound
<1>2. sessions \in Seq(Session) /\ t \in 0 .. Len(sessions)
  BY DEF IInv, TypeOK
<1>3. \A u \in DOMAIN sessions : sessions[u] \in Session /\ sessions[u].user \in Logins
  BY SessionUsers DEF IInv
<1>4. /\ sessions' \in Seq(Session) /\ Len(sessions') = Len(sessions) /\ DOMAIN sessions' = DOMAIN sessions
      /\ \A u \in DOMAIN sessions : /\ sessions'[u].user = sessions[u].user
                                    /\ sessions[u].revoked => sessions'[u].revoked
  <2>1. CASE t = 0
    BY <1>1, <1>2, <2>1
  <2>2. CASE t # 0
    <3>1. t \in DOMAIN sessions /\ sessions' = [sessions EXCEPT ![t] = [sessions[t] EXCEPT !.revoked = TRUE]]
      BY <1>1, <1>2, <2>2
    <3>2. [sessions[t] EXCEPT !.revoked = TRUE] \in Session
      BY <1>3, <3>1 DEF Session
    <3>3. /\ [sessions[t] EXCEPT !.revoked = TRUE].user = sessions[t].user
          /\ [sessions[t] EXCEPT !.revoked = TRUE].revoked
      BY <1>3, <3>1 DEF Session
    <3> QED
      BY <1>2, <3>1, <3>2, <3>3
  <2> QED
    BY <2>1, <2>2
<1> HIDE DEF t
<1>5. UsersKeep /\ RowsStay /\ SessionsKeep
  BY <1>1, <1>4 DEF UsersKeep, RowsStay, SessionsKeep, IsRow, IsActive, IsAdmin
<1>6. AdminsAreActive' /\ SessionsAreOfActive' /\ (\A u \in DOMAIN sessions : IsRow(sessions[u].user))'
  <2>1. AdminsAreActive'
    BY <1>1 DEF IInv, AdminsAreActive, IsRow, IsActive, IsAdmin
  <2>2. \A u \in DOMAIN sessions' : IsActive(sessions'[u].user)
    BY <1>4 DEF IInv, SessionsAreOfActive
  <2> QED
    BY <1>1, <2>1, <2>2 DEF SessionsAreOfActive, IsActive, IsRow
<1>7. /\ calls' \in [Calls -> Call] /\ OthersStay(c) /\ calls'[c].token = calls[c].token
  BY <1>1, FinishWrites DEF IInv, Answers
<1>8. CallIsSound(c)' /\ LateIsSound(c)'
  BY <1>1, <1>4, FinishIsSound DEF Answers, IsReview
<1>9. TypeOK'
  <2>1. \A d \in Calls : calls'[d].token \in 0 .. Len(sessions')
    BY <1>4, <1>7 DEF IInv, TypeOK, OthersStay
  <2> QED
    BY <1>1, <1>4, <1>6, <1>7, <2>1 DEF IInv, TypeOK
<1> QED
  BY <1>1, <1>5, <1>6, <1>7, <1>8, <1>9, OtherCalls, VerdictsStand DEF IInv

LEMMA ExpiresStep ==
  ASSUME IInv, NEW t \in DOMAIN sessions, Expires(t)
  PROVE  IInv'
<1>1. /\ UNCHANGED <<users, cookie, calls, verdicts, made>> /\ upsets' \in 0 .. MaxUpsets
      /\ sessions' = [sessions EXCEPT ![t] = [sessions[t] EXCEPT !.expired = TRUE]]
  BY AccountsAssumption DEF Expires, Upset, IInv, TypeOK
<1>2. sessions \in Seq(Session) /\ sessions[t] \in Session
  BY SessionUsers DEF IInv, TypeOK
<1>3. /\ [sessions[t] EXCEPT !.expired = TRUE] \in Session
      /\ [sessions[t] EXCEPT !.expired = TRUE].user = sessions[t].user
      /\ [sessions[t] EXCEPT !.expired = TRUE].revoked = sessions[t].revoked
  BY <1>2 DEF Session
<1>4. /\ sessions' \in Seq(Session) /\ Len(sessions') = Len(sessions) /\ DOMAIN sessions' = DOMAIN sessions
      /\ \A u \in DOMAIN sessions : /\ sessions'[u].user = sessions[u].user
                                    /\ sessions'[u].revoked = sessions[u].revoked
  BY <1>1, <1>2, <1>3
<1>5. RowsStay
  BY <1>1 DEF RowsStay
<1>6. AdminsAreActive' /\ SessionsAreOfActive' /\ (\A u \in DOMAIN sessions : IsRow(sessions[u].user))'
  <2>1. AdminsAreActive'
    BY <1>1 DEF IInv, AdminsAreActive, IsRow, IsActive, IsAdmin
  <2>2. \A u \in DOMAIN sessions' : IsActive(sessions'[u].user)
    BY <1>4 DEF IInv, SessionsAreOfActive
  <2> QED
    BY <1>1, <2>1, <2>2 DEF SessionsAreOfActive, IsActive, IsRow
<1>7. \A c \in Calls : CallIsSound(c) => CallIsSound(c)'
  BY <1>1 DEF CallIsSound, IsReview, IsActive, IsAdmin, IsRow
<1>8. \A c \in Calls : Revoked(calls[c].token) => Revoked(calls[c].token)'
  BY <1>1, <1>4 DEF Revoked, IInv, TypeOK
<1>9. CallsAreSound' /\ LateIsRevoked' /\ RevokedIsRefused'
  BY <1>1, <1>7, <1>8 DEF IInv, CallsAreSound, LateIsRevoked, RevokedIsRefused, IsReview
<1>10. TypeOK'
  BY <1>1, <1>4, <1>6 DEF IInv, TypeOK
<1> QED
  BY <1>1, <1>5, <1>6, <1>9, <1>10, VerdictsStand DEF IInv

LEMMA ResolveStep ==
  ASSUME IInv, NEW c \in Calls, Resolve(c)
  PROVE  IInv'
<1> DEFINE t == calls[c].token
<1>1. /\ UNCHANGED <<users, sessions, cookie, verdicts, made, upsets>> /\ upsets' \in 0 .. MaxUpsets
      /\ calls[c].pc = "resolve" /\ IsReview(c) /\ calls[c].login \in Logins
  BY DEF Resolve, IInv, TypeOK, CallsAreSound, CallIsSound
<1>2. CASE /\ Resolves(t)
           /\ calls' = [calls EXCEPT ![c].pc = "review", ![c].actor = sessions[t].user,
                                     ![c].role = users[sessions[t].user].role]
  <2>1. /\ calls[c] \in Call /\ calls \in [Calls -> Call] /\ t \in DOMAIN sessions /\ t # 0
        /\ users \in [Logins -> Row \cup {Nobody}] /\ t \in 0 .. Len(sessions)
    BY <1>2 DEF IInv, TypeOK, Resolves
  <2>2. /\ sessions[t].user \in Logins /\ IsActive(sessions[t].user) /\ ~Revoked(t)
    BY <1>2, <2>1, SessionUsers DEF Resolves, IInv, TypeOK, Revoked, SessionsAreOfActive
  <2>3. users[sessions[t].user] \in Row /\ users[sessions[t].user].role \in {"user", "admin"}
    BY <2>1, <2>2 DEF IsActive, IsRow, Row
  <2> DEFINE user == sessions[t].user
             role == users[sessions[t].user].role
             call == [calls[c] EXCEPT !.pc = "review", !.actor = user, !.role = role]
  <2>4. calls' = [calls EXCEPT ![c] = call]
    BY <1>2, <2>1
  <2>5. user \in Logins /\ IsActive(user) /\ role \in {"user", "admin"} /\ role = users[user].role
    BY <2>2, <2>3
  <2> HIDE DEF user, role, t
  <2>6. /\ call \in Call /\ call.pc = "review" /\ call.actor = user /\ call.role = role
        /\ call.op = calls[c].op /\ call.late = calls[c].late /\ call.token = calls[c].token
        /\ call.login = calls[c].login
    BY <2>1, <2>5 DEF Call
  <2> HIDE DEF call
  <2>7. calls' \in [Calls -> Call] /\ OthersStay(c) /\ calls'[c] = call
    BY <2>1, <2>4, <2>6 DEF OthersStay
  <2>8. CallIsSound(c)'
    BY <1>1, <2>5, <2>6, <2>7 DEF CallIsSound, IsReview, IsActive, IsAdmin, IsRow
  <2>9. ~calls[c].late
    BY <1>1, <2>2 DEF IInv, LateIsRevoked, t
  <2>10. LateIsSound(c)'
    BY <2>6, <2>7, <2>9 DEF LateIsSound
  <2> QED
    BY <1>1, <2>1, <2>6, <2>7, <2>8, <2>10, QuietStep DEF IInv, TypeOK, t
<1>3. CASE Finish(c, "session_required")
  BY <1>1, <1>3, FinishStep DEF Answers
<1> QED
  BY <1>2, <1>3 DEF Resolve


LEMMA ReviewStep ==
  ASSUME IInv, NEW c \in Calls, Review(c)
  PROVE  IInv'
<1> DEFINE l == calls[c].login
           actor == calls[c].actor
           op == calls[c].op
<1>1. /\ UNCHANGED <<sessions, cookie, made, upsets>> /\ upsets' \in 0 .. MaxUpsets
      /\ calls[c].pc = "review"
  BY DEF Review, IInv, TypeOK
<1>2. /\ op \in {"active", "rejected"} /\ l \in Logins /\ actor \in Logins /\ IsActive(actor)
      /\ calls[c].role = "admin" => IsAdmin(actor)
      /\ ~calls[c].late
  BY <1>1 DEF IInv, CallsAreSound, CallIsSound, IsReview, RevokedIsRefused, TypeOK, Call
<1>3. CASE /\ calls[c].role = "admin" /\ IsPending(l)
           /\ users' = [users EXCEPT ![l].status = op, ![l].verifiedBy = actor]
           /\ verdicts' = Append(verdicts, [user |-> l, by |-> actor, status |-> op])
           /\ Finish(c, "ok")
  <2> DEFINE row == [users[l] EXCEPT !.status = op, !.verifiedBy = actor]
             verdict == [user |-> l, by |-> actor, status |-> op]
  <2>1. /\ users \in [Logins -> Row \cup {Nobody}] /\ users[l] \in Row /\ users[l].status = "pending"
        /\ verdicts \in Seq(Verdict)
    BY <1>2, <1>3 DEF IInv, TypeOK, IsPending, IsRow
  <2>2. users' = [users EXCEPT ![l] = row]
    BY <1>3, <2>1
  <2>3. /\ row \in Row /\ row # Nobody /\ row.status = op /\ row.verifiedBy = actor
        /\ row.role = users[l].role
    BY <1>2, <2>1, AccountsAssumption DEF Row
  <2>4. verdict \in Verdict /\ verdict.user = l /\ verdict.by = actor /\ verdict.status = op
    BY <1>2 DEF Verdict
  <2>5. verdicts' = Append(verdicts, verdict)
    BY <1>3
  <2> HIDE DEF row, verdict
  <2>6. ~IsActive(l) /\ ~IsAdmin(l) /\ users[l].role = "user"
    BY <1>2, <2>1, AccountsAssumption DEF IsActive, IsAdmin, IInv, AdminsAreActive, Row, IsRow
  <2>7. /\ users' \in [Logins -> Row \cup {Nobody}] /\ users'[l] = row
        /\ \A k \in Logins : k # l => users'[k] = users[k]
    BY <1>2, <2>1, <2>2, <2>3
  <2>8. UsersKeep /\ SessionsKeep
    BY <1>1, <2>3, <2>6, <2>7 DEF UsersKeep, SessionsKeep, IsRow, IsActive, IsAdmin
  <2>9. \A t \in DOMAIN sessions : sessions[t].user \in Logins
    BY SessionUsers DEF IInv
  <2>10. AdminsAreActive' /\ SessionsAreOfActive' /\ (\A t \in DOMAIN sessions : IsRow(sessions[t].user))'
    <3>1. AdminsAreActive'
      BY <2>3, <2>6, <2>7 DEF AdminsAreActive, IInv, IsAdmin, IsActive, IsRow
    <3>2. \A t \in DOMAIN sessions : IsActive(sessions[t].user)'
      BY <1>1, <2>8, <2>9 DEF UsersKeep, IInv, SessionsAreOfActive, IsActive, IsRow
    <3> QED
      BY <1>1, <3>1, <3>2 DEF SessionsAreOfActive, IsActive, IsRow
  <2>11. calls' \in [Calls -> Call] /\ OthersStay(c) /\ calls'[c].token = calls[c].token
    BY <1>3, FinishWrites DEF IInv, Answers
  <2>12. CallIsSound(c)' /\ LateIsSound(c)'
    BY <1>1, <1>2, <1>3, FinishIsSound DEF Answers
  <2>13. verdicts' \in Seq(Verdict)
    BY <2>1, <2>4, <2>5
  <2>14. TypeOK'
    <3>1. \A d \in Calls : calls'[d].token \in 0 .. Len(sessions)
      BY <2>11 DEF IInv, TypeOK, OthersStay
    <3> QED
      BY <1>1, <2>7, <2>10, <2>11, <2>13, <3>1 DEF IInv, TypeOK
  <2>15. DecidedOnce'
    <3> DEFINE Stands(v) == /\ IsRow(v.user) /\ IsRow(v.by)
                            /\ users[v.user].verifiedBy = v.by
                            /\ users[v.user].status = v.status \/ users[v.user].role = "admin"
                            /\ users[v.by].role = "admin" /\ users[v.by].status = "active"
                            /\ v.by # v.user
    <3>1. /\ DOMAIN verdicts' = DOMAIN verdicts \cup {Len(verdicts) + 1}
          /\ \A i \in DOMAIN verdicts : verdicts'[i] = verdicts[i]
          /\ verdicts'[Len(verdicts) + 1] = verdict
      BY <2>1, <2>5
    <3>2. \A i \in DOMAIN verdicts :
            verdicts[i] \in Verdict /\ verdicts[i].user \in Logins /\ verdicts[i].by \in Logins
      <4>1. \A i \in DOMAIN verdicts : verdicts[i] \in Verdict
        BY <2>1
      <4> QED
        BY <4>1 DEF Verdict
    <3>3. \A i \in DOMAIN verdicts : Stands(verdicts[i])
      BY DEF IInv, DecidedOnce
    <3>4. \A i \in DOMAIN verdicts : verdicts[i].user # l /\ verdicts[i].by # l
      <4> SUFFICES ASSUME NEW i \in DOMAIN verdicts PROVE verdicts[i].user # l /\ verdicts[i].by # l
        OBVIOUS
      <4>1. verdicts[i].status \in {"active", "rejected"}
        BY <3>2 DEF Verdict
      <4> QED
        BY <4>1, <3>3, <2>1, <2>6
    <3> DEFINE Lasts(v) == /\ users'[v.user] # Nobody /\ users'[v.by] # Nobody
                           /\ users'[v.user].verifiedBy = v.by
                           /\ users'[v.user].status = v.status \/ users'[v.user].role = "admin"
                           /\ users'[v.by].role = "admin" /\ users'[v.by].status = "active"
                           /\ v.by # v.user
    <3>5. \A i \in DOMAIN verdicts : Lasts(verdicts[i])
      BY <3>2, <3>3, <3>4, <2>7 DEF IsRow
    <3>6. actor # l /\ users'[actor] = users[actor] /\ IsAdmin(actor)
      BY <1>2, <1>3, <2>6, <2>7
    <3>7. Lasts(verdict)
      BY <3>6, <1>2, <2>3, <2>4, <2>7 DEF IsAdmin, IsActive, IsRow
    <3>8. \A i, j \in DOMAIN verdicts : verdicts[i].user = verdicts[j].user => i = j
      BY DEF IInv, DecidedOnce
    <3>9. \A i, j \in DOMAIN verdicts' : verdicts'[i].user = verdicts'[j].user => i = j
      BY <3>1, <3>4, <3>8, <2>4
    <3>10. \A i \in DOMAIN verdicts' : Lasts(verdicts'[i])
      BY <3>1, <3>5, <3>7
    <3> QED
      BY <3>9, <3>10 DEF DecidedOnce, IsRow
  <2> QED
    BY <2>8, <2>10, <2>11, <2>12, <2>14, <2>15, OtherCalls DEF IInv
<1>4. CASE (Finish(c, "forbidden") \/ Finish(c, "pending_user_not_found")) /\ UNCHANGED <<users, verdicts>>
  BY <1>1, <1>4, FinishStep DEF Answers
<1> QED
  BY <1>3, <1>4 DEF Review

LEMMA AnsweredStep ==
  ASSUME IInv, NEW c \in Calls, Answered(c)
  PROVE  IInv'
<1>1. /\ UNCHANGED <<users, sessions, verdicts, made, upsets>> /\ upsets' \in 0 .. MaxUpsets
      /\ calls[c] \in Call /\ calls \in [Calls -> Call]
      /\ calls[c].token \in 0 .. Len(sessions) /\ cookie \in [Browsers -> 0 .. Len(sessions)]
      /\ calls' = [calls EXCEPT ![c].pc = "idle"]
  BY DEF Answered, IInv, TypeOK
<1> DEFINE call == [calls[c] EXCEPT !.pc = "idle"]
<1>2. calls' = [calls EXCEPT ![c] = call]
  BY <1>1
<1>3. /\ call \in Call /\ call.pc = "idle" /\ call.op = calls[c].op /\ call.late = calls[c].late
      /\ call.token = calls[c].token /\ call.answer = calls[c].answer
  BY <1>1 DEF Call
<1> HIDE DEF call
<1>4. calls' \in [Calls -> Call] /\ OthersStay(c) /\ calls'[c] = call
  BY <1>1, <1>2, <1>3 DEF OthersStay
<1>5. cookie' \in [Browsers -> 0 .. Len(sessions)]
  <2>1. 0 \in 0 .. Len(sessions)
    BY <1>1
  <2>2. \/ cookie' = cookie
        \/ cookie' = [cookie EXCEPT ![calls[c].browser] = calls[c].token]
        \/ cookie' = [cookie EXCEPT ![calls[c].browser] = 0]
    BY DEF Answered
  <2> QED
    BY <1>1, <2>1, <2>2
<1>6. CallIsSound(c)'
  BY <1>3, <1>4 DEF CallIsSound
<1>7. LateIsSound(c)'
  BY <1>1, <1>3, <1>4 DEF LateIsSound, IsReview, Revoked, IInv, LateIsRevoked, RevokedIsRefused
<1> QED
  BY <1>1, <1>3, <1>4, <1>5, <1>6, <1>7, QuietStep

LEMMA SeedAdminStep ==
  ASSUME IInv, NEW l \in Logins, NEW pw \in Passwords, SeedAdmin(l, pw)
  PROVE  IInv'
<1> DEFINE by == IF IsRow(l) THEN users[l].verifiedBy ELSE Nobody
           row == [status |-> "active", role |-> "admin", password |-> pw, verifiedBy |-> by]
<1>1. /\ UNCHANGED <<sessions, cookie, calls, verdicts, made>> /\ upsets' \in 0 .. MaxUpsets
      /\ users' = [users EXCEPT ![l] = row]
  BY AccountsAssumption DEF SeedAdmin, Upset, IInv, TypeOK
<1>2. users \in [Logins -> Row \cup {Nobody}]
  BY DEF IInv, TypeOK
<1>3. by \in Logins \cup {Nobody} /\ (IsRow(l) => by = users[l].verifiedBy)
  BY <1>2 DEF IsRow, Row
<1> HIDE DEF by
<1>4. /\ row \in Row /\ row # Nobody /\ row.status = "active" /\ row.role = "admin"
      /\ row.verifiedBy = by
  BY <1>3, AccountsAssumption DEF Row
<1> HIDE DEF row
<1>5. /\ users' \in [Logins -> Row \cup {Nobody}] /\ users'[l] = row
      /\ \A k \in Logins : k # l => users'[k] = users[k]
  BY <1>1, <1>2, <1>4
<1>6. UsersKeep
  BY <1>4, <1>5 DEF UsersKeep, IsRow, IsActive, IsAdmin
<1>7. \A t \in DOMAIN sessions : sessions[t].user \in Logins
  BY SessionUsers DEF IInv
<1>8. AdminsAreActive' /\ SessionsAreOfActive' /\ (\A t \in DOMAIN sessions : IsRow(sessions[t].user))'
  <2>1. AdminsAreActive'
    BY <1>4, <1>5 DEF AdminsAreActive, IInv, IsAdmin, IsActive, IsRow
  <2>2. \A t \in DOMAIN sessions : IsActive(sessions[t].user)'
    BY <1>1, <1>6, <1>7 DEF UsersKeep, IInv, SessionsAreOfActive, IsActive, IsRow
  <2> QED
    BY <1>1, <2>1, <2>2 DEF SessionsAreOfActive, IsActive, IsRow
<1>9. TypeOK'
  BY <1>1, <1>5, <1>8 DEF IInv, TypeOK
<1>10. \A c \in Calls : CallIsSound(c)'
  <2> SUFFICES ASSUME NEW c \in Calls PROVE CallIsSound(c)'
    OBVIOUS
  <2>1. CallIsSound(c) /\ calls[c] \in Call
    BY DEF IInv, CallsAreSound, TypeOK
  <2>2. calls[c].actor \in Logins \cup {Nobody} /\ calls[c].login \in Logins \cup {Nobody}
    BY <2>1 DEF Call
  <2> QED
    BY <1>1, <1>6, <2>1, <2>2 DEF CallIsSound, UsersKeep, IsReview
<1>11. CallsAreSound' /\ LateIsRevoked' /\ RevokedIsRefused'
  BY <1>1, <1>10 DEF IInv, CallsAreSound, LateIsRevoked, RevokedIsRefused, IsReview, Revoked
<1>12. DecidedOnce'
  <2>1. \A i \in DOMAIN verdicts : verdicts[i] \in Verdict
    BY DEF IInv, TypeOK
  <2>2. \A i \in DOMAIN verdicts : verdicts[i].user \in Logins /\ verdicts[i].by \in Logins
    BY <2>1 DEF Verdict
  <2> SUFFICES ASSUME NEW i \in DOMAIN verdicts
               PROVE  LET v == verdicts[i]
                      IN  /\ users'[v.user] # Nobody /\ users'[v.by] # Nobody
                          /\ users'[v.user].verifiedBy = v.by
                          /\ users'[v.user].status = v.status \/ users'[v.user].role = "admin"
                          /\ users'[v.by].role = "admin" /\ users'[v.by].status = "active"
                          /\ v.by # v.user
    BY <1>1 DEF IInv, DecidedOnce, IsRow
  <2>3. LET v == verdicts[i]
        IN  /\ IsRow(v.user) /\ IsRow(v.by)
            /\ users[v.user].verifiedBy = v.by
            /\ users[v.user].status = v.status \/ users[v.user].role = "admin"
            /\ users[v.by].role = "admin" /\ users[v.by].status = "active"
            /\ v.by # v.user
    BY DEF IInv, DecidedOnce
  <2>4. \A k \in Logins : IsRow(k) =>
          /\ users'[k] # Nobody /\ users'[k].verifiedBy = users[k].verifiedBy
          /\ users'[k] = users[k] \/ (users'[k].role = "admin" /\ users'[k].status = "active")
    BY <1>3, <1>4, <1>5 DEF IsRow
  <2>5. verdicts[i].user \in Logins /\ verdicts[i].by \in Logins
    BY <2>2
  <2> QED
    BY <2>3, <2>4, <2>5
<1> QED
  BY <1>8, <1>9, <1>11, <1>12 DEF IInv

LEMMA StutterStep ==
  ASSUME IInv, UNCHANGED vars
  PROVE  IInv'
<1>1. TypeOK'
  BY DEF vars, IInv, TypeOK, IsRow
<1>2. AdminsAreActive' /\ SessionsAreOfActive' /\ DecidedOnce'
  BY TablesStay DEF vars
<1>3. CallsAreSound' /\ LateIsRevoked' /\ RevokedIsRefused'
  BY DEF vars, IInv, CallsAreSound, CallIsSound, LateIsRevoked, RevokedIsRefused, IsReview, Revoked,
         IsActive, IsAdmin, IsRow
<1> QED
  BY <1>1, <1>2, <1>3 DEF IInv

LEMMA Invariance == Spec => []IInv
<1>1. ASSUME IInv, [Next]_vars PROVE IInv'
  <2>1. ASSUME NEW c \in Calls, CallStep(c) PROVE IInv'
    BY <1>1, <2>1, ReceiveStep, InsertUserStep, FindUserStep, InsertSessionStep, RevokeStep,
       ResolveStep, ReviewStep, AnsweredStep, FailsStep DEF CallStep
  <2> QED
    BY <1>1, <2>1, ExpiresStep, SeedAdminStep, StutterStep DEF Next
<1> QED
  BY <1>1, InitInv, PTL DEF Spec

-----------------------------------------------------------------------------
(* The theorems. *)

\* Rows and calls have their types, and sessions refer to users who exist: the foreign key of
\* sessions and the tokens that browsers and requests hold.
THEOREM TypeCorrect == Spec => []TypeOK
<1>1. IInv => TypeOK
  BY DEF IInv
<1> QED
  BY <1>1, Invariance, PTL

\* However many administrators review however many users at once, updatePendingUserStatus
\* answers one review of each user with success.
THEOREM ReviewedOnce == Spec => []DecidedOnce
<1>1. IInv => DecidedOnce
  BY DEF IInv
<1> QED
  BY <1>1, Invariance, PTL

\* requireCurrentUser refuses whatever is sent after revokeSession, whoever still has the cookie.
THEOREM RevokedStaysOut == Spec => []RevokedIsRefused
<1>1. IInv => RevokedIsRefused
  BY DEF IInv
<1> QED
  BY <1>1, Invariance, PTL
-----------------------------------------------------------------------------
(* The refinement of Membership, action by action. *)

\* Who is admitted depends on the users of the live sessions alone.
LEMMA MappedStays ==
  ASSUME UNCHANGED <<users, sessions>>
  PROVE  UNCHANGED M!vars
BY DEF M!vars, Standing, Admins, Admitted, LiveSessions, IsRow

LEMMA ApplyMapped ==
  ASSUME IInv, NEW c \in Calls, InsertUser(c)
  PROVE  M!Next \/ UNCHANGED M!vars
<1> DEFINE l == calls[c].login
           row == [status |-> "pending", role |-> "user",
                   password |-> calls[c].password, verifiedBy |-> Nobody]
<1>1. l \in Logins /\ calls[c] \in Call /\ users \in [Logins -> Row \cup {Nobody}]
      /\ UNCHANGED sessions
  BY DEF InsertUser, IInv, CallsAreSound, CallIsSound, TypeOK
<1>2. CASE ~IsRow(l) /\ users' = [users EXCEPT ![l] = row]
  <2>1. row \in Row /\ row # Nobody /\ row.status = "pending" /\ row.role = "user"
    BY <1>1, AccountsAssumption DEF Row, Call
  <2> HIDE DEF row, l
  <2>2. users'[l] = row /\ \A k \in Logins : k # l => users'[k] = users[k]
    BY <1>1, <1>2
  <2>3. Standing[l] = "stranger" /\ Standing' = [Standing EXCEPT ![l] = "pending"]
    BY <1>1, <1>2, <2>1, <2>2 DEF Standing, IsRow
  <2>4. Admins' = Admins
    BY <1>1, <1>2, <2>1, <2>2 DEF Admins, IsRow
  <2>5. Admitted' = Admitted
    BY <1>1 DEF Admitted, LiveSessions
  <2>6. M!Apply(l)
    BY <2>3, <2>4, <2>5 DEF M!Apply
  <2> QED
    BY <1>1, <2>6 DEF M!Next
<1>3. CASE UNCHANGED users
  BY <1>1, <1>3, MappedStays
<1> QED
  BY <1>2, <1>3 DEF InsertUser

LEMMA EnterMapped ==
  ASSUME IInv, NEW c \in Calls, InsertSession(c)
  PROVE  M!Next
<1> DEFINE l == calls[c].login
           row == [user |-> l, revoked |-> FALSE, expired |-> FALSE]
           n == Len(sessions) + 1
<1>1. l \in Logins /\ IsActive(l) /\ sessions \in Seq(Session) /\ UNCHANGED users
      /\ sessions' = Append(sessions, row)
  BY DEF InsertSession, IInv, CallsAreSound, CallIsSound, TypeOK
<1>2. row \in Session /\ row.user = l /\ ~row.revoked /\ ~row.expired
  BY <1>1 DEF Session
<1> HIDE DEF row, l
<1>3. /\ DOMAIN sessions' = DOMAIN sessions \cup {n} /\ sessions'[n] = row
      /\ \A t \in DOMAIN sessions : sessions'[t] = sessions[t]
  BY <1>1, <1>2
<1> HIDE DEF n
<1>4. Standing' = Standing /\ Admins' = Admins /\ Standing[l] = "active"
  BY <1>1 DEF Standing, Admins, IsActive, IsRow
<1>5. LiveSessions' = LiveSessions \cup {n}
  BY <1>2, <1>3 DEF LiveSessions
<1>6. Admitted' = Admitted \cup {l}
  BY <1>2, <1>3, <1>5 DEF Admitted, LiveSessions
<1>7. M!Enter(l)
  BY <1>4, <1>6 DEF M!Enter
<1> QED
  BY <1>1, <1>7 DEF M!Next

\* A session that ends: its user leaves, unless it has another one.
LEMMA LeaveMapped ==
  ASSUME IInv, NEW t \in DOMAIN sessions, UNCHANGED users,
         DOMAIN sessions' = DOMAIN sessions,
         \A u \in DOMAIN sessions : sessions'[u].user = sessions[u].user,
         \A u \in DOMAIN sessions : u # t => sessions'[u] = sessions[u],
         t \notin LiveSessions'
  PROVE  M!Next \/ UNCHANGED M!vars
<1> DEFINE l == sessions[t].user
<1>1. l \in Logins
  BY SessionUsers DEF IInv
<1>2. Standing' = Standing /\ Admins' = Admins
  BY DEF Standing, Admins, IsRow
<1>3. LiveSessions' = LiveSessions \ {t}
  BY DEF LiveSessions
<1>4. Admitted' = {sessions[u].user : u \in LiveSessions \ {t}}
  BY <1>3 DEF Admitted, LiveSessions
<1>5. Admitted' = Admitted \/ Admitted' = Admitted \ {l}
  BY <1>4 DEF Admitted
<1>6. CASE Admitted' = Admitted
  BY <1>2, <1>6 DEF M!vars
<1>7. CASE Admitted' = Admitted \ {l}
  <2>1. M!Leave(l)
    BY <1>2, <1>7 DEF M!Leave
  <2> QED
    BY <1>1, <2>1 DEF M!Next
<1> QED
  BY <1>5, <1>6, <1>7

LEMMA RevokeMapped ==
  ASSUME IInv, NEW c \in Calls, Revoke(c)
  PROVE  M!Next \/ UNCHANGED M!vars
<1> DEFINE t == calls[c].token
<1>1. /\ UNCHANGED users /\ t \in 0 .. Len(sessions) /\ sessions \in Seq(Session)
      /\ sessions' = IF t = 0 THEN sessions ELSE [sessions EXCEPT ![t].revoked = TRUE]
  BY DEF Revoke, IInv, TypeOK
<1>2. CASE t = 0
  BY <1>1, <1>2, MappedStays
<1>3. CASE t # 0
  <2>1. t \in DOMAIN sessions /\ sessions[t] \in Session
        /\ sessions' = [sessions EXCEPT ![t] = [sessions[t] EXCEPT !.revoked = TRUE]]
    BY <1>1, <1>3, SessionUsers DEF IInv
  <2>2. /\ [sessions[t] EXCEPT !.revoked = TRUE].user = sessions[t].user
        /\ [sessions[t] EXCEPT !.revoked = TRUE].revoked
    BY <2>1 DEF Session
  <2> HIDE DEF t
  <2>3. /\ DOMAIN sessions' = DOMAIN sessions /\ sessions'[t].revoked
        /\ \A u \in DOMAIN sessions : sessions'[u].user = sessions[u].user
        /\ \A u \in DOMAIN sessions : u # t => sessions'[u] = sessions[u]
    BY <1>1, <2>1, <2>2
  <2>4. t \notin LiveSessions'
    BY <2>3 DEF LiveSessions
  <2> QED
    BY <1>1, <2>1, <2>3, <2>4, LeaveMapped
<1> QED
  BY <1>2, <1>3

LEMMA ExpiresMapped ==
  ASSUME IInv, NEW t \in DOMAIN sessions, Expires(t)
  PROVE  M!Next \/ UNCHANGED M!vars
<1>1. /\ UNCHANGED users /\ sessions \in Seq(Session) /\ sessions[t] \in Session
      /\ sessions' = [sessions EXCEPT ![t] = [sessions[t] EXCEPT !.expired = TRUE]]
  BY SessionUsers DEF Expires, IInv, TypeOK
<1>2. /\ [sessions[t] EXCEPT !.expired = TRUE].user = sessions[t].user
      /\ [sessions[t] EXCEPT !.expired = TRUE].expired
  BY <1>1 DEF Session
<1>3. /\ DOMAIN sessions' = DOMAIN sessions /\ sessions'[t].expired
      /\ \A u \in DOMAIN sessions : sessions'[u].user = sessions[u].user
      /\ \A u \in DOMAIN sessions : u # t => sessions'[u] = sessions[u]
  BY <1>1, <1>2
<1>4. t \notin LiveSessions'
  BY <1>3 DEF LiveSessions
<1> QED
  BY <1>1, <1>3, <1>4, LeaveMapped

LEMMA DecideMapped ==
  ASSUME IInv, NEW c \in Calls, Review(c)
  PROVE  M!Next \/ UNCHANGED M!vars
<1> DEFINE l == calls[c].login
           actor == calls[c].actor
           op == calls[c].op
<1>1. /\ op \in {"active", "rejected"} /\ l \in Logins /\ actor \in Logins /\ IsActive(actor)
      /\ calls[c].role = "admin" => IsAdmin(actor)
      /\ UNCHANGED sessions /\ users \in [Logins -> Row \cup {Nobody}]
  BY DEF Review, IInv, CallsAreSound, CallIsSound, IsReview, TypeOK
<1>2. CASE /\ calls[c].role = "admin" /\ IsPending(l)
           /\ users' = [users EXCEPT ![l].status = op, ![l].verifiedBy = actor]
  <2> DEFINE row == [users[l] EXCEPT !.status = op, !.verifiedBy = actor]
  <2>1. /\ users[l] \in Row /\ users[l].status = "pending" /\ users' = [users EXCEPT ![l] = row]
    BY <1>1, <1>2 DEF IsPending, IsRow
  <2>2. /\ row \in Row /\ row # Nobody /\ row.status = op /\ row.role = users[l].role
    BY <1>1, <2>1, AccountsAssumption DEF Row
  <2> HIDE DEF row, l, actor, op
  <2>3. users'[l] = row /\ \A k \in Logins : k # l => users'[k] = users[k]
    BY <1>1, <2>1
  <2>4. Standing[l] = "pending" /\ Standing' = [Standing EXCEPT ![l] = op]
    BY <1>1, <2>1, <2>2, <2>3, AccountsAssumption DEF Standing, IsRow
  <2>5. Admins' = Admins
    BY <1>1, <2>1, <2>2, <2>3, AccountsAssumption DEF Admins, IsRow
  <2>6. Admitted' = Admitted
    BY <1>1 DEF Admitted, LiveSessions
  <2>7. actor \in Admins /\ actor # l /\ Standing[actor] = "active"
    BY <1>1, <1>2, <2>1 DEF Admins, Standing, IsAdmin, IsActive, IsRow
  <2>8. M!Decide(l, op)
    BY <2>4, <2>5, <2>6, <2>7 DEF M!Decide
  <2> QED
    BY <1>1, <2>8 DEF M!Next
<1>3. CASE UNCHANGED users
  BY <1>1, <1>3, MappedStays
<1> QED
  BY <1>2, <1>3 DEF Review

LEMMA InstallMapped ==
  ASSUME IInv, NEW l \in Logins, NEW pw \in Passwords, SeedAdmin(l, pw)
  PROVE  M!Next
<1> DEFINE by == IF IsRow(l) THEN users[l].verifiedBy ELSE Nobody
           row == [status |-> "active", role |-> "admin", password |-> pw, verifiedBy |-> by]
<1>1. UNCHANGED sessions /\ users \in [Logins -> Row \cup {Nobody}]
      /\ users' = [users EXCEPT ![l] = row]
  BY DEF SeedAdmin, IInv, TypeOK
<1>2. by \in Logins \cup {Nobody}
  BY <1>1 DEF IsRow, Row
<1> HIDE DEF by
<1>3. row \in Row /\ row # Nobody /\ row.status = "active" /\ row.role = "admin"
  BY <1>2, AccountsAssumption DEF Row
<1> HIDE DEF row
<1>4. users'[l] = row /\ \A k \in Logins : k # l => users'[k] = users[k]
  BY <1>1
<1>5. Standing' = [Standing EXCEPT ![l] = "active"]
  BY <1>3, <1>4 DEF Standing, IsRow
<1>6. Admins' = Admins \cup {l}
  BY <1>3, <1>4 DEF Admins, IsRow
<1>7. Admitted' = Admitted
  BY <1>1 DEF Admitted, LiveSessions
<1>8. M!Install(l)
  BY <1>5, <1>6, <1>7 DEF M!Install
<1> QED
  BY <1>8 DEF M!Next

\* The accounts implement Membership: a session needs a user who is active when it begins, and
\* one administrator's decision, never the user's own, stands between a registration and that,
\* although loginUser and requireCurrentUser act on rows they read earlier.
THEOREM AccountsImplementMembership == Spec => ImplementsMembership
<1>1. Init => M!Init
  BY DEF Init, M!Init, Standing, Admins, Admitted, LiveSessions, IsRow
<1>2. ASSUME IInv, [Next]_vars PROVE M!Next \/ UNCHANGED M!vars
  <2>1. ASSUME NEW c \in Calls, CallStep(c) PROVE M!Next \/ UNCHANGED M!vars
    <3>1. CASE InsertUser(c)
      BY <1>2, <3>1, ApplyMapped
    <3>2. CASE InsertSession(c)
      BY <1>2, <3>2, EnterMapped
    <3>3. CASE Revoke(c)
      BY <1>2, <3>3, RevokeMapped
    <3>4. CASE Review(c)
      BY <1>2, <3>4, DecideMapped
    <3>5. CASE (\E b \in Browsers : Request(c, b)) \/ FindUser(c) \/ Resolve(c) \/ Answered(c) \/ Fails(c)
      <4>1. UNCHANGED <<users, sessions>>
        BY <3>5 DEF Request, ReceiveLogout, ReceiveRegister, ReceiveLogin, ReceiveReview, Receive,
                    FindUser, Resolve, Answered, Fails
      <4> QED
        BY <4>1, MappedStays
    <3> QED
      BY <2>1, <3>1, <3>2, <3>3, <3>4, <3>5 DEF CallStep
  <2>2. CASE UNCHANGED vars
    BY <2>2, MappedStays DEF vars
  <2> QED
    BY <1>2, <2>1, <2>2, ExpiresMapped, InstallMapped DEF Next
<1> QED
  BY <1>1, <1>2, Invariance, PTL DEF Spec, ImplementsMembership, M!Spec

=============================================================================
