---------------------------- MODULE AdminAccess ----------------------------
(***************************************************************************)
(* Who may act: logins behind the rate limiter, sessions and the two       *)
(* authentication middlewares (backend/admin, wired in backend/app).       *)
(* Requests run concurrently.  scs loads the session of a request before   *)
(* the handler and commits it when the handler answers.  Limiter and       *)
(* sessions live in memory and end with the process: a restarted server    *)
(* is in Init again, and a cookie it does not know counts as none.         *)
(***************************************************************************)
EXTENDS RateLimiter, FiniteSets

CONSTANTS
    User,       \* logins
    Admin,      \* BootstrapAdminLogin
    Nobody,     \* no user in the session
    TTL,        \* SessionConfig.TTL
    Token       \* 1..n, bound: session tokens generated

ASSUME UserAssumption == Admin \in User /\ Nobody \notin User
ASSUME SessionAssumption == TTL \in Nat \ {0} /\ Token \subseteq Nat \ {0} /\ Key # {}

VARIABLES
    up,        \* the process serves
    status,    \* the table users, by login
    store,     \* the sessions in memory, by token
    cookie,    \* cookie[c]: the token the browser at address c sends, 0 for none
    call,      \* call[s]: the request in the slot
    issued     \* history: by token, the user and the time of the login

sessionVars == <<store, cookie, call, issued>>
vars == <<limiter, up, status, sessionVars>>

Session == [user: User \cup {Nobody}, deadline: Int]
NoSession == [user |-> Nobody, deadline |-> -1]

\* Where a request is: at its route's handler, in the middle of a login, working
\* for the user of its session, or about to answer.
Route == {"login", "session", "logout", "form logout", "documents", "read", "upload"}

\* token, data and save (its status) are the session scs attached to the request,
\* as is the user who logs in.
Call == [step: Route \cup {"idle", "authenticate", "start", "work", "respond"},
         client: Key, token: Token \cup {0}, data: Session,
         save: {"unmodified", "modified", "destroyed"}, as: User \cup {Nobody}]

Idle == [step |-> "idle", client |-> CHOOSE c \in Key : TRUE, token |-> 0,
         data |-> NoSession, save |-> "unmodified", as |-> Nobody]

\* Roles other than the bootstrap administrator's are given out of band.
Role(u) == IF u = Admin THEN "admin" ELSE "operator"

\* Every variable has the type of the row, session or Go value it models.
TypeOK ==
    /\ LimiterTypeOK
    /\ up \in BOOLEAN
    /\ status \in [User -> {"missing", "active", "disabled"}]
    /\ store \in [Token -> Session]
    /\ cookie \in [Key -> Token \cup {0}]
    /\ call \in [Slot -> Call]
    /\ issued \in [Token -> [user: User \cup {Nobody}, at: Int]]

Init ==
    /\ LimiterInit
    /\ up = FALSE
    /\ \E s \in {"missing", "active"} :
         status = [u \in User |-> IF u = Admin THEN s ELSE "active"]
    /\ store = [t \in Token |-> NoSession]
    /\ cookie = [c \in Key |-> 0]
    /\ call = [s \in Slot |-> Idle]
    /\ issued = [t \in Token |-> [user |-> Nobody, at |-> -1]]

----------------------------------------------------------------------------
(* The process *)

\* EnsureBootstrapAdmin lets the server start if the administrator exists, or
\* creates the row if a password is configured.
Start(configured) ==
    /\ ~up /\ up' = TRUE
    /\ configured \/ status[Admin] # "missing"
    /\ status' = [status EXCEPT ![Admin] = IF @ = "missing" THEN "active" ELSE @]
    /\ UNCHANGED <<limiter, sessionVars>>

\* Accounts are disabled by hand, in the database.
Disable(u) ==
    /\ status[u] = "active"
    /\ status' = [status EXCEPT ![u] = "disabled"]
    /\ UNCHANGED <<limiter, up, sessionVars>>

----------------------------------------------------------------------------
(* Sessions: scs.SessionManager with Lifetime = IdleTimeout = TTL *)

Goto(s, step) == call' = [call EXCEPT ![s].step = step]

\* LoadAndSave before the handler.  With an idle timeout every session found is
\* marked as modified, to be written back.
Receive(s, c, route) ==
    LET t == cookie[c]
        found == t # 0 /\ store[t] # NoSession /\ now <= store[t].deadline
    IN  /\ up /\ call[s].step = "idle"
        /\ call' = [call EXCEPT ![s] =
             [Idle EXCEPT !.step = route, !.client = c,
                          !.token = IF found THEN t ELSE 0,
                          !.data = IF found THEN store[t] ELSE NoSession,
                          !.save = IF found THEN "modified" ELSE "unmodified"]]
        /\ UNCHANGED <<limiter, up, status, store, cookie, issued>>

\* Mutant: every request prolongs the session.
CommittedAnew(s) == [call[s].data EXCEPT !.deadline = now + TTL]

\* What the session is written back with: Lifetime bounds the idle timeout.
Committed(s) == call[s].data

\* LoadAndSave when the handler answers.
Respond(s) ==
    /\ call[s].step \in {"work", "respond"}
    /\ CASE call[s].save = "modified" ->
              /\ store' = [store EXCEPT ![call[s].token] = Committed(s)]
              /\ cookie' = [cookie EXCEPT ![call[s].client] = call[s].token]
         [] call[s].save = "destroyed" ->
              /\ cookie' = [cookie EXCEPT ![call[s].client] = 0]
              /\ UNCHANGED store
         [] OTHER -> UNCHANGED <<store, cookie>>
    /\ call' = [call EXCEPT ![s] = Idle]
    /\ UNCHANGED <<limiter, up, status, issued>>

\* Destroy: the store forgets the token at once, the browser with the answer.
Destroy(s) ==
    /\ store' = [t \in Token |-> IF t = call[s].token THEN NoSession ELSE store[t]]
    /\ call' = [call EXCEPT ![s] = [@ EXCEPT !.step = "respond", !.token = 0,
                                           !.data = NoSession, !.save = "destroyed"]]

----------------------------------------------------------------------------
(* Login *)

\* LoginRateLimitMiddleware
LimitLogin(s) ==
    /\ call[s].step = "login"
    /\ \/ ReadClock(s) /\ UNCHANGED call
       \/ Admit(s, call[s].client) /\ Goto(s, "authenticate")
       \/ Refuse(s, call[s].client) /\ Goto(s, "respond")
    /\ UNCHANGED <<up, status, store, cookie, issued>>

\* PostLogin and PostLoginJSON up to Authenticate: the input is malformed, or the
\* login is empty, unknown, disabled or comes with a wrong password.
Authenticate(s, u) ==
    /\ call[s].step = "authenticate"
    /\ \/ Goto(s, "respond")
       \/ /\ status[u] = "active"
          /\ call' = [call EXCEPT ![s].step = "start", ![s].as = u]
    /\ UNCHANGED <<limiter, up, status, store, cookie, issued>>

\* A token nobody has seen; the code draws it at random.
FreshToken == {t \in Token : issued[t].user = Nobody /\ \A v \in 1..(t - 1) :
                               v \in Token => issued[v].user # Nobody}

\* Mutant: the login keeps the token the browser came with.
KeepToken(s) == IF call[s].token # 0 THEN {call[s].token} ELSE FreshToken

\* RenewToken
RenewToken(s) == FreshToken

\* The rest of the login, after the password was compared: a new token with a new
\* lifetime.  The first disjunct is the error of RenewToken.
StartSession(s) ==
    /\ call[s].step = "start"
    /\ \/ call' = [call EXCEPT ![s].step = "respond", ![s].as = Nobody] /\ UNCHANGED <<store, issued>>
       \/ \E t \in RenewToken(s) :
            /\ store' = [v \in Token |-> IF v = call[s].token THEN NoSession ELSE store[v]]
            /\ call' = [call EXCEPT ![s] =
                 [@ EXCEPT !.step = "respond", !.token = t, !.save = "modified", !.as = Nobody,
                           !.data = [user |-> call[s].as, deadline |-> now + TTL]]]
            /\ issued' = [issued EXCEPT ![t] =
                            IF @.user = Nobody THEN [user |-> call[s].as, at |-> now] ELSE @]
    /\ UNCHANGED <<limiter, up, status, cookie>>

----------------------------------------------------------------------------
(* Everything else *)

\* RequireAuth trusts the session; /logout is behind it.
RequireAuth(s) ==
    /\ call[s].step \in {"documents", "form logout"}
    /\ IF call[s].data.user = Nobody THEN Goto(s, "respond") /\ UNCHANGED store
       ELSE IF call[s].step = "documents" THEN Goto(s, "work") /\ UNCHANGED store
       ELSE Destroy(s)
    /\ UNCHANGED <<limiter, up, status, cookie, issued>>

\* RequireAPIAuth asks the database for the user, RequireAPIRoles for the role.
RequireAPIAuth(s) ==
    LET u == call[s].data.user
    IN  /\ call[s].step \in {"read", "upload"}
        /\ IF u # Nobody /\ status[u] # "active" THEN Destroy(s)
           ELSE /\ UNCHANGED store
                /\ IF u # Nobody /\ (call[s].step = "upload" => Role(u) = "admin")
                     THEN Goto(s, "work") ELSE Goto(s, "respond")
        /\ UNCHANGED <<limiter, up, status, cookie, issued>>

\* PostLogoutJSON and GetSessionJSON, which nothing guards.
PostLogoutJSON(s) ==
    /\ call[s].step = "logout" /\ Destroy(s)
    /\ UNCHANGED <<limiter, up, status, cookie, issued>>

GetSessionJSON(s) ==
    /\ call[s].step = "session" /\ Goto(s, "respond")
    /\ UNCHANGED <<limiter, up, status, store, cookie, issued>>

Next ==
    \/ Tick /\ UNCHANGED <<up, status, sessionVars>>
    \/ \E configured \in BOOLEAN : Start(configured)
    \/ \E u \in User : Disable(u)
    \/ \E s \in Slot :
        \/ \E c \in Key, route \in Route : Receive(s, c, route)
        \/ LimitLogin(s) \/ StartSession(s) \/ Respond(s)
        \/ RequireAuth(s) \/ RequireAPIAuth(s) \/ PostLogoutJSON(s) \/ GetSessionJSON(s)
        \/ \E u \in User : Authenticate(s, u)

Spec == Init /\ [][Next]_vars

----------------------------------------------------------------------------
(* Properties *)

\* A token stands for the user it was issued to, in the store and in every request
\* in flight, whatever other requests of the browser log in or write back
\* (PostLogin rotates the token before it stores the user).
SessionKeepsItsUser ==
    /\ \A t \in Token : store[t].user \in {Nobody, issued[t].user}
    /\ \A s \in Slot : call[s].token # 0 => call[s].data.user = issued[call[s].token].user

\* All variables are well typed, and sessions belong to who logged in (PostLogin,
\* PostLoginJSON).
SessionsAreSound == TypeOK /\ SessionKeepsItsUser

\* No request is recognised later than TTL after the login, however often requests
\* write the session back: "TTL controls the absolute lifetime of a session"
\* (session.go).
SessionEndsAfterTTL ==
    [][\A s \in Slot : call[s].step = "idle" /\ call'[s].token # 0
         => now <= issued[call'[s].token].at + TTL]_vars
=============================================================================
