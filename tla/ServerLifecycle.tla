-------------------------- MODULE ServerLifecycle --------------------------
(***************************************************************************)
(* The end of `serve`: requests in flight, the counting handler in front   *)
(* of the router (handlerLifecycle in backend/app/server.go), and runServe *)
(* with its graceful and its forced stop (backend/internal/runner/serve.go)*)
(* up to the return that lets withOwnedDatabase release the database.      *)
(***************************************************************************)
EXTENDS Integers, FiniteSets

CONSTANT Request   \* one HTTP request each, on a connection of its own

ASSUME RequestAssumption == IsFiniteSet(Request)

VARIABLES
    closing,    \* handlerLifecycle.closing
    active,     \* handlerLifecycle.active
    closes,     \* how often the channel drained was closed
    request,    \* request[r]: where the request is
    listener,   \* the socket of http.Server
    forced,     \* http.Server.Close has cut every connection
    serverErr,  \* the channel serverErr, of capacity 1
    main,       \* the statement runServe waits at
    expired,    \* the deadline of shutdownCtx has passed
    owned       \* withOwnedDatabase still holds the database lock

lifecycleVars ==
    <<closing, active, closes, request, listener, forced, serverErr, main, expired, owned>>

\* Every variable has its type; the count of handlers is never negative.
LifecycleTypeOK ==
    /\ closing \in BOOLEAN /\ forced \in BOOLEAN
    /\ expired \in BOOLEAN /\ owned \in BOOLEAN
    /\ active \in Nat /\ closes \in Nat
    /\ request \in [Request -> {"idle", "accepted", "admitted", "finished"}]
    /\ listener \in {"open", "closed", "failed"}
    /\ serverErr \in {"none", "closed", "failed", "taken"}
    /\ main \in {"select", "Shutdown", "http.Shutdown", "wait http", "wait drained",
                 "Close", "http.Close", "wait Close", "wait serverErr", "returned"}

LifecycleInit ==
    /\ closing = FALSE /\ active = 0 /\ closes = 0
    /\ request = [r \in Request |-> "idle"]
    /\ listener = "open" /\ forced = FALSE /\ serverErr = "none"
    /\ main = "select" /\ expired = FALSE /\ owned = TRUE

----------------------------------------------------------------------------
(* Requests *)

\* The http.Server accepts a connection and reads the request from it.
Accept(r) ==
    /\ listener = "open" /\ request[r] = "idle"
    /\ request' = [request EXCEPT ![r] = "accepted"]
    /\ UNCHANGED <<closing, active, closes, listener, forced, serverErr, main, expired, owned>>

\* ServeHTTP up to the call of the router: 503 once the server is closing.
ServeHTTP(r) ==
    /\ request[r] = "accepted"
    /\ \/ /\ closing
          /\ request' = [request EXCEPT ![r] = "finished"]
          /\ UNCHANGED active
       \/ /\ ~closing
          /\ request' = [request EXCEPT ![r] = "admitted"]
          /\ active' = active + 1
    /\ UNCHANGED <<closing, closes, listener, forced, serverErr, main, expired, owned>>

\* Mutant: the last handler out does not close the channel.
DoneSilently(r) ==
    /\ request[r] = "admitted"
    /\ request' = [request EXCEPT ![r] = "finished"]
    /\ active' = active - 1
    /\ UNCHANGED <<closing, closes, listener, forced, serverErr, main, expired, owned>>

\* The deferred done, also after a panic of the handler.
Done(r) ==
    /\ request[r] = "admitted"
    /\ request' = [request EXCEPT ![r] = "finished"]
    /\ active' = active - 1
    /\ closes' = closes + (IF closing /\ active = 1 THEN 1 ELSE 0)
    /\ UNCHANGED <<closing, listener, forced, serverErr, main, expired, owned>>

----------------------------------------------------------------------------
(* The http.Server *)

\* The goroutine of runServe sends what ListenAndServe returns.
ListenAndServe ==
    /\ serverErr = "none"
    /\ \/ listener = "closed" /\ serverErr' = "closed" /\ UNCHANGED listener
       \/ listener = "open" /\ serverErr' = "failed" /\ listener' = "failed"
    /\ UNCHANGED <<closing, active, closes, request, forced, main, expired, owned>>

CloseListener == listener' = IF listener = "open" THEN "closed" ELSE listener

----------------------------------------------------------------------------
(* runServe *)

Advance(from, to) == main = from /\ main' = to

\* stop
Stop ==
    /\ closing' = TRUE
    /\ closes' = closes + (IF ~closing /\ active = 0 THEN 1 ELSE 0)

\* The select: the listener failed, or the process was told to stop.
Select ==
    /\ \/ /\ serverErr # "none" /\ serverErr' = "taken"
          /\ Advance("select", "Close")
       \/ /\ Advance("select", "Shutdown")
          /\ UNCHANGED serverErr
    /\ UNCHANGED <<closing, active, closes, request, listener, forced, expired, owned>>

\* Shutdown: first stop,
ShutdownStop ==
    /\ Advance("Shutdown", "http.Shutdown")
    /\ Stop
    /\ UNCHANGED <<active, request, listener, forced, serverErr, expired, owned>>

\* then http.Server.Shutdown, which closes the listener,
ShutdownHTTP ==
    /\ Advance("http.Shutdown", "wait http")
    /\ CloseListener
    /\ UNCHANGED <<closing, active, closes, request, forced, serverErr, expired, owned>>

\* The time of gracefulShutdownTimeout is over.
Deadline ==
    /\ main \in {"Shutdown", "http.Shutdown", "wait http", "wait drained"}
    /\ ~expired /\ expired' = TRUE
    /\ UNCHANGED <<closing, active, closes, request, listener, forced, serverErr, main, owned>>

\* and waits until no connection it knows of is busy or the deadline passes.  A
\* connection accepted last may not be known to it yet.
ShutdownReturns ==
    /\ \/ expired /\ Advance("wait http", "Close")
       \/ /\ \A r \in Request : request[r] # "admitted"
          /\ Advance("wait http", "wait drained")
    /\ UNCHANGED <<closing, active, closes, request, listener, forced, serverErr, expired, owned>>

\* Shutdown's own select.
ShutdownDrained ==
    /\ \/ closes > 0 /\ Advance("wait drained", "wait serverErr")
       \/ expired /\ Advance("wait drained", "Close")
    /\ UNCHANGED <<closing, active, closes, request, listener, forced, serverErr, expired, owned>>

\* Close: stop once more,
CloseStop ==
    /\ Advance("Close", "http.Close")
    /\ Stop
    /\ UNCHANGED <<active, request, listener, forced, serverErr, expired, owned>>

\* cut the connections, which ends the reads and the context of every handler,
CloseHTTP ==
    /\ Advance("http.Close", "wait Close")
    /\ CloseListener /\ forced' = TRUE
    /\ UNCHANGED <<closing, active, closes, request, serverErr, expired, owned>>

\* runServe returns; withOwnedDatabase then releases the lock.
Return == main' = "returned" /\ owned' = FALSE

\* Mutant: Close returns without the wait.
CloseAtOnce ==
    /\ main = "wait Close" /\ Return
    /\ UNCHANGED <<closing, active, closes, request, listener, forced, serverErr, expired>>

\* and wait for the handlers without a deadline.
CloseReturns ==
    /\ main = "wait Close" /\ closes > 0
    /\ IF serverErr = "taken" THEN Return
                              ELSE main' = "wait serverErr" /\ UNCHANGED owned
    /\ UNCHANGED <<closing, active, closes, request, listener, forced, serverErr, expired>>

\* The receive from serverErr that ends shutdownServer.
AwaitServer ==
    /\ main = "wait serverErr" /\ serverErr # "none"
    /\ serverErr' = "taken" /\ Return
    /\ UNCHANGED <<closing, active, closes, request, listener, forced, expired>>

Finished == main = "returned" /\ UNCHANGED lifecycleVars

Runner ==
    \/ ShutdownStop \/ ShutdownHTTP \/ ShutdownReturns \/ ShutdownDrained
    \/ CloseStop \/ CloseHTTP \/ CloseReturns \/ AwaitServer

LifecycleNext ==
    \/ \E r \in Request : Accept(r) \/ ServeHTTP(r) \/ Done(r)
    \/ ListenAndServe \/ Select \/ Deadline \/ Runner \/ Finished

\* runServe runs on, time passes, a failed listener is noticed and the goroutine
\* sends.  A handler may wait for its client for ever, but not once the
\* connection is cut.
Fairness ==
    /\ WF_lifecycleVars(Runner) /\ WF_lifecycleVars(Deadline)
    /\ WF_lifecycleVars(ListenAndServe /\ listener = "closed")
    /\ WF_lifecycleVars(Select /\ serverErr # "none")
    /\ \A r \in Request : WF_lifecycleVars(forced /\ Done(r))

LifecycleSpec == LifecycleInit /\ [][LifecycleNext]_lifecycleVars

FairSpec == LifecycleSpec /\ Fairness

----------------------------------------------------------------------------
(* Properties *)

\* The database lock is released only when no handler runs and none can start:
\* "a caller must not release database ownership while application code is
\* active" (server.go, Close).
OwnershipOutlivesHandlers ==
    ~owned => closing /\ \A r \in Request : request[r] # "admitted"

\* The channel drained is closed at most once, whoever of stop and done comes
\* first and although Shutdown and Close both stop: a second close panics.
DrainedClosesOnce == closes <= 1

\* The server is drained once, and before the database goes (stop, done, Close).
DrainsBeforeRelease == DrainedClosesOnce /\ OwnershipOutlivesHandlers

\* Once runServe leaves its select, it returns and releases the database, even
\* if a handler is stuck on its client (shutdownServer).
ShutdownEnds == main # "select" ~> ~owned

\* A running handler is cut off only by a stop that ran out of time or after the
\* listener failed; otherwise its client gets the answer (Shutdown, Close).
CutOnlyAfterDeadline ==
    [][~forced /\ forced' /\ (\E r \in Request : request[r] = "admitted")
         => expired \/ serverErr = "taken"]_lifecycleVars
=============================================================================
