---------------------------- MODULE PortalRequest ----------------------------
(***************************************************************************)
(* The PKCS#11 module's portal client (src/module/portal.c).  A caller     *)
(* blocks in portal_request while the client's own thread sends the method *)
(* call, subscribes to the Response and completes the request with the     *)
(* first of: a Response, an error reply, the timeout, a change of the      *)
(* portal's owner, a cancellation.  Whatever comes later finds the request *)
(* completed, and a request given up without a Response must be closed at  *)
(* the portal, at the path it was really exported at.                      *)
(*                                                                         *)
(* A caller acquires a grant with two requests (CreateSession, Acquire-    *)
(* Credential), may sign once, and releases the grant.  One application    *)
(* thread may call C_Finalize (src/module/module.c), which cancels, waits  *)
(* for acquisitions, releases and drains the client.                       *)
(*                                                                         *)
(* Each callback of the client's thread, and each section between two      *)
(* blocking calls of a caller, is one action.  Owners of the bus name are  *)
(* numbered: odd epochs have an owner, even ones none, and an owner exits  *)
(* when it loses the name.  A method call reaches an owner before a Close  *)
(* sent after it; replies and signals arrive in any order.                 *)
(***************************************************************************)
EXTENDS Naturals, FiniteSets

CONSTANTS
    Caller,      \* application threads that use the client
    Exports,     \* the paths a portal exports a request at: the one the
                 \* client predicts, or another
    MaxEpoch     \* bound: changes of the owner of the portal's bus name

ASSUME PortalRequestAssumption ==
    /\ Exports \subseteq {"predicted", "other"}
    /\ MaxEpoch \in Nat \ {0}

VARIABLES
    \* callers
    phase,       \* where each caller is
    gen,         \* owner_generation of its acquisition and of its grant
    \* the client: shared state and its thread
    view,        \* owner_generation: the owner the client knows of
    available,   \* the generation whose capabilities were accepted, or 0
    dirty, retry,    \* capabilities_dirty, capabilities_retry_at is set
    probed,      \* the generation being probed (probe_lock), or 0
    invalidated, \* callers whose session handle is in the table
    req,         \* the PortalRequests
    calls,       \* requests with a method callback outstanding
    loop,        \* the client's thread
    finalizer, cancelling,   \* C_Finalize, and its queued cancel_requests
    \* the bus and the portal
    epoch, portal, at, reply, response, closes, session, sessionClose, notice

callerVars == <<phase, gen>>
ownerVars  == <<view, available, dirty, retry>>
stopVars   == <<finalizer, cancelling>>
busVars    == <<portal, at, reply, response>>
sessionVars == <<session, sessionClose, notice>>
vars == <<callerVars, ownerVars, probed, invalidated, req, calls, loop, stopVars, epoch,
          busVars, closes, sessionVars>>

Kind == {"create", "acquire", "sign"}
Request == Caller \X Kind
Path == {"predicted", "other"}
Answer == {"ok", "refused"}

\* PortalRequest: its owner (sentTo, 0 before it is sent), paths and outcome.
RequestRecord ==
    [state : {"none", "posted", "live", "done"},
     result : Answer \cup {"none", "timeout", "failed", "cancelled", "invalidated"},
     sentTo : 0..MaxEpoch,
     returned : Path \cup {"none"},
     closed : Path \cup {"none"}]

TypeOK ==
    /\ phase \in [Caller -> {"idle", "probing", "probed", "admitted", "creating", "acquiring",
                             "held", "signing", "released", "failed"}]
    /\ gen \in [Caller -> 0..MaxEpoch]
    /\ view \in 0..epoch /\ epoch \in 0..MaxEpoch
    /\ available \in 0..MaxEpoch /\ dirty \in BOOLEAN /\ retry \in BOOLEAN
    /\ probed \in 0..MaxEpoch /\ invalidated \in SUBSET Caller
    /\ req \in [Request -> RequestRecord]
    /\ calls \in SUBSET {r \in Request : req[r].sentTo # 0}
    /\ loop \in {"running", "draining", "aborting", "stopping", "forced", "stopped", "killed"}
    /\ finalizer \in {"none", "waiting", "freeing"} /\ cancelling \in {"no", "queued", "ran"}
    /\ portal \in [Request -> {"none", "sent", "open", "ended"}]
    /\ at \in [Request -> Path \cup {"none"}]
    /\ reply \in [Request -> {"none", "path", "refused", "lost", "missed"}]
    /\ response \in [Request -> Answer \cup {"none"}]
    /\ closes \in [Request -> SUBSET Path]
    /\ session \in [Caller -> {"none", "open", "granted", "closed"}]
    /\ sessionClose \in SUBSET Caller /\ notice \in SUBSET Caller

\* portal_client_new: it waits until it knows whether the name has an owner.
Init ==
    /\ phase = [c \in Caller |-> "idle"] /\ gen = [c \in Caller |-> 0]
    /\ epoch \in {0, 1} /\ view = epoch
    /\ available = 0 /\ dirty = (view = 1) /\ retry = FALSE /\ probed = 0
    /\ invalidated = {} /\ calls = {} /\ loop = "running"
    /\ req = [r \in Request |-> [state |-> "none", result |-> "none", sentTo |-> 0,
                                 returned |-> "none", closed |-> "none"]]
    /\ finalizer = "none" /\ cancelling = "no"
    /\ portal = [r \in Request |-> "none"] /\ at = [r \in Request |-> "none"]
    /\ reply = [r \in Request |-> "none"] /\ response = [r \in Request |-> "none"]
    /\ closes = [r \in Request |-> {}]
    /\ session = [c \in Caller |-> "none"] /\ sessionClose = {} /\ notice = {}

-----------------------------------------------------------------------------
HasOwner(e) == e % 2 = 1
Live == {r \in Request : req[r].state = "live"}
Looping == loop \notin {"stopped", "killed"}
Cancelled == cancelling = "ran" \/ loop # "running"
Responded(r) == req[r].result \in Answer

\* portal_client_grant_gone.
GrantGone(c) == ~HasOwner(view) \/ view # gen[c] \/ c \in invalidated

\* request_complete and request_close_at_portal: the requests R end with a
\* result; the ones that were sent and have neither a Response nor a refused
\* call are closed where the portal said they are, or else where they should be.
Complete(R, result, methodFailed) ==
    LET Where(r) == IF req[r].returned # "none" THEN req[r].returned ELSE "predicted"
        Abandons(r) == req[r].sentTo # 0 /\ result \notin Answer /\ ~methodFailed
    IN
    /\ req' = [r \in Request |->
                  IF r \in R
                  THEN [req[r] EXCEPT !.state = "done", !.result = result,
                                      !.closed = IF Abandons(r) THEN Where(r) ELSE @]
                  ELSE req[r]]
    /\ closes' = [r \in Request |->
                  IF r \in R /\ Abandons(r) THEN closes[r] \cup {Where(r)} ELSE closes[r]]

-----------------------------------------------------------------------------
\* Callers.

\* portal_client_available -> probe_capabilities: under probe_lock, ask the
\* owner for its capabilities; not without an owner, nor before a retry is due.
ProbeStart(c) ==
    /\ phase[c] = "idle" /\ finalizer = "none"
    /\ probed = 0 /\ dirty /\ HasOwner(view)
    /\ probed' = view
    /\ phase' = [phase EXCEPT ![c] = "probing"]
    /\ UNCHANGED <<gen, ownerVars, invalidated, req, calls, loop, stopVars, epoch, busVars,
                   closes, sessionVars>>

ProbeSkip(c) ==
    /\ phase[c] = "idle" /\ finalizer = "none"
    /\ probed = 0 /\ (~dirty \/ ~HasOwner(view) \/ retry)
    /\ phase' = [phase EXCEPT ![c] = "probed"]
    /\ UNCHANGED <<gen, ownerVars, probed, invalidated, req, calls, loop, stopVars, epoch,
                   busVars, closes, sessionVars>>

AcceptAnyCapabilities(answered, mechanisms) ==
    /\ available' = IF answered /\ mechanisms THEN probed ELSE 0
    /\ dirty' = ~answered /\ retry' = ~answered

\* The answer counts only if the owner that was asked is still the owner.
AcceptCapabilities(answered, mechanisms) ==
    IF view = probed
    THEN /\ available' = IF answered /\ mechanisms THEN probed ELSE 0
         /\ dirty' = ~answered /\ retry' = ~answered
    ELSE UNCHANGED <<available, dirty, retry>>

ProbeDone(c) ==
    /\ phase[c] = "probing"
    /\ \E answered, mechanisms \in BOOLEAN : AcceptCapabilities(answered, mechanisms)
    /\ probed' = 0
    /\ phase' = [phase EXCEPT ![c] = "probed"]
    /\ UNCHANGED <<gen, view, invalidated, req, calls, loop, stopVars, epoch, busVars, closes,
                   sessionVars>>

\* portal_client_available returns.
Admit(c) ==
    /\ phase[c] = "probed"
    /\ phase' = [phase EXCEPT ![c] = IF available # 0 THEN "admitted" ELSE "failed"]
    /\ UNCHANGED <<gen, ownerVars, probed, invalidated, req, calls, loop, stopVars, epoch,
                   busVars, closes, sessionVars>>

\* portal_request: hand a request to the client's thread and wait.
Post(c, kind) == req' = [req EXCEPT ![<<c, kind>>].state = "posted"]

\* portal_client_acquire reads the owner and calls create_session.
CreateSession(c) ==
    /\ phase[c] = "admitted"
    /\ gen' = [gen EXCEPT ![c] = view]
    /\ Post(c, "create")
    /\ phase' = [phase EXCEPT ![c] = "creating"]
    /\ UNCHANGED <<ownerVars, probed, invalidated, calls, loop, stopVars, epoch, busVars,
                   closes, sessionVars>>

\* portal_client_release, close_session.
CloseSession(c) == sessionClose' = sessionClose \cup {c}

Returned(c, kind) == req[<<c, kind>>].state = "done"
Succeeded(c, kind) == req[<<c, kind>>].result = "ok"

\* create_session returns; AcquireCredential follows.
Created(c) ==
    /\ phase[c] = "creating" /\ Returned(c, "create")
    /\ IF Succeeded(c, "create")
       THEN Post(c, "acquire") /\ phase' = [phase EXCEPT ![c] = "acquiring"]
       ELSE phase' = [phase EXCEPT ![c] = "failed"] /\ UNCHANGED req
    /\ UNCHANGED <<gen, ownerVars, probed, invalidated, calls, loop, stopVars, epoch, busVars,
                   closes, sessionVars>>

AcquiredLeavesSession(c) ==
    /\ phase[c] = "acquiring" /\ Returned(c, "acquire")
    /\ \E certificate \in BOOLEAN :
          IF Succeeded(c, "acquire") /\ ~GrantGone(c) /\ certificate
          THEN phase' = [phase EXCEPT ![c] = "held"] /\ UNCHANGED sessionClose
          ELSE /\ phase' = [phase EXCEPT ![c] = "failed"]
               /\ sessionClose' = IF Succeeded(c, "acquire") THEN sessionClose \cup {c}
                                  ELSE sessionClose
    /\ UNCHANGED <<gen, ownerVars, probed, invalidated, req, calls, loop, stopVars, epoch,
                   busVars, closes, session, notice>>

\* portal_client_acquire returns a grant, or closes the session: the request
\* failed, the grant is gone already, or the result has no certificate.
Acquired(c) ==
    /\ phase[c] = "acquiring" /\ Returned(c, "acquire")
    /\ \E certificate \in BOOLEAN :
          IF Succeeded(c, "acquire") /\ ~GrantGone(c) /\ certificate
          THEN phase' = [phase EXCEPT ![c] = "held"] /\ UNCHANGED sessionClose
          ELSE /\ phase' = [phase EXCEPT ![c] = "failed"]
               /\ CloseSession(c)
    /\ UNCHANGED <<gen, ownerVars, probed, invalidated, req, calls, loop, stopVars, epoch,
                   busVars, closes, session, notice>>

\* operation (Sign or Decrypt) under the grant, and its end.
Operation(c) ==
    /\ phase[c] = "held" /\ finalizer = "none"
    /\ req[<<c, "sign">>].state = "none" /\ ~GrantGone(c)
    /\ Post(c, "sign")
    /\ phase' = [phase EXCEPT ![c] = "signing"]
    /\ UNCHANGED <<gen, ownerVars, probed, invalidated, calls, loop, stopVars, epoch, busVars,
                   closes, sessionVars>>

Signed(c) ==
    /\ phase[c] = "signing" /\ Returned(c, "sign")
    /\ phase' = [phase EXCEPT ![c] = "held"]
    /\ UNCHANGED <<gen, ownerVars, probed, invalidated, req, calls, loop, stopVars, epoch,
                   busVars, closes, sessionVars>>

\* release_grant: a grant that is gone is not closed again.
Release(c) ==
    /\ phase[c] = "held"
    /\ IF GrantGone(c) THEN UNCHANGED sessionClose ELSE CloseSession(c)
    /\ phase' = [phase EXCEPT ![c] = "released"]
    /\ UNCHANGED <<gen, ownerVars, probed, invalidated, req, calls, loop, stopVars, epoch,
                   busVars, closes, session, notice>>

\* C_Finalize: it has the module's lock, which an operation holds throughout;
\* an acquisition does not hold it and is cancelled.
Finalize ==
    /\ finalizer = "none"
    /\ \A c \in Caller : phase[c] # "signing"
    /\ finalizer' = "waiting"
    /\ cancelling' = IF \E c \in Caller : phase[c] \in {"probing", "probed", "admitted",
                                                        "creating", "acquiring"}
                     THEN "queued" ELSE "no"
    /\ UNCHANGED <<callerVars, ownerVars, probed, invalidated, req, calls, loop, epoch, busVars,
                   closes, sessionVars>>

\* portal_client_free: when every acquisition returned and the grant is
\* released, the drain is queued and the client's thread joined.
Free ==
    /\ finalizer = "waiting"
    /\ \A c \in Caller : phase[c] \in {"idle", "failed", "released"}
    /\ finalizer' = "freeing"
    /\ UNCHANGED <<callerVars, ownerVars, probed, invalidated, req, calls, loop, cancelling,
                   epoch, busVars, closes, sessionVars>>

-----------------------------------------------------------------------------
\* Callbacks of the client's thread.

CurrentAny(r) == HasOwner(view)

\* The owner is still the one the caller saw.
Current(r) == HasOwner(view) /\ view = gen[r[1]]
\* request_start: not for another owner than the caller saw, nor while
\* cancelled; subscribe to the predicted path, then call.  A call to an owner
\* that is gone is answered by the bus.
RequestStart(r) ==
    /\ Looping /\ req[r].state = "posted"
    /\ IF Cancelled \/ ~Current(r)
       THEN /\ Complete({r}, IF Cancelled THEN "cancelled" ELSE "invalidated", FALSE)
            /\ UNCHANGED <<calls, portal, reply>>
       ELSE /\ req' = [req EXCEPT ![r].state = "live", ![r].sentTo = view]
            /\ calls' = calls \cup {r}
            /\ IF view = epoch
               THEN portal' = [portal EXCEPT ![r] = "sent"] /\ UNCHANGED reply
               ELSE /\ portal' = [portal EXCEPT ![r] = "ended"]
                    /\ \E how \in {"refused", "lost"} : reply' = [reply EXCEPT ![r] = how]
            /\ UNCHANGED closes
    /\ UNCHANGED <<callerVars, ownerVars, probed, invalidated, loop, stopVars, epoch, at,
                   response, sessionVars>>

\* on_response: the signal is matched with the subscription when it arrives.
Subscribed(r) == IF req[r].returned = "other" THEN "other" ELSE "predicted"

OnResponse(r) ==
    /\ Looping /\ response[r] # "none"
    /\ req[r].state = "live" /\ at[r] = Subscribed(r)
    /\ Complete({r}, response[r], FALSE)
    /\ response' = [response EXCEPT ![r] = "none"]
    /\ UNCHANGED <<callerVars, ownerVars, probed, invalidated, calls, loop, stopVars, epoch,
                   portal, at, reply, sessionVars>>

\* on_request_timeout.
OnRequestTimeout(r) ==
    /\ Looping /\ req[r].state = "live"
    /\ Complete({r}, "timeout", FALSE)
    /\ UNCHANGED <<callerVars, ownerVars, probed, invalidated, calls, loop, stopVars, epoch,
                   busVars, sessionVars>>

\* call_finished: the last callback ends a drain.
CallFinished(r) ==
    /\ calls' = calls \ {r}
    /\ loop' = IF loop \in {"draining", "aborting"} /\ calls = {r} THEN "stopping" ELSE loop

LateReplyIgnored(r) == UNCHANGED <<req, closes>>

\* A completed request's reply may be the first news of where to close it.
LateReply(r) ==
    IF ~Responded(r) /\ at[r] # req[r].closed
    THEN /\ req' = [req EXCEPT ![r].closed = at[r]]
         /\ closes' = [closes EXCEPT ![r] = @ \cup {at[r]}]
    ELSE UNCHANGED <<req, closes>>

\* on_method_returned with the path the portal exported.
OnMethodReturned(r) ==
    /\ Looping /\ r \in calls /\ reply[r] = "path"
    /\ IF req[r].state = "done"
       THEN LateReply(r)
       ELSE req' = [req EXCEPT ![r].returned = at[r]] /\ UNCHANGED closes
    /\ reply' = [reply EXCEPT ![r] = "none"]
    /\ CallFinished(r)
    /\ UNCHANGED <<callerVars, ownerVars, probed, invalidated, stopVars, epoch, portal, at,
                   response, sessionVars>>

\* on_method_returned with an error: the portal's refusal, the bus's answer for
\* an owner that is gone, METHOD_TIMEOUT_MS, or the drain's cancellation.  Only
\* a refusal proves that there is no request to close.
OnMethodFailed(r) ==
    /\ Looping /\ r \in calls
    /\ \E how \in {"refused", "lost", "missed"} :
          /\ (how = "missed" \/ how = reply[r])
          /\ IF req[r].state = "done" THEN UNCHANGED <<req, closes>>
             ELSE Complete({r}, "failed", how = "refused")
          /\ reply' = [reply EXCEPT ![r] = IF how = "missed" THEN "missed" ELSE "none"]
    /\ CallFinished(r)
    /\ UNCHANGED <<callerVars, ownerVars, probed, invalidated, stopVars, epoch, portal, at,
                   response, sessionVars>>

\* owner_changed: what was known of the last owner is dropped, and every live
\* request ends.
OwnerChanged ==
    /\ loop = "running" /\ view < epoch
    /\ view' = view + 1
    /\ available' = 0 /\ dirty' = TRUE /\ retry' = FALSE
    /\ Complete(Live, "invalidated", FALSE)
    /\ UNCHANGED <<callerVars, probed, invalidated, calls, loop, stopVars, epoch, busVars,
                   sessionVars>>

\* on_grant_invalidated and on_session_closed.
OnGrantInvalidated(c) ==
    /\ loop = "running" /\ c \in notice
    /\ notice' = notice \ {c}
    /\ invalidated' = invalidated \cup {c}
    /\ UNCHANGED <<callerVars, ownerVars, probed, req, calls, loop, stopVars, epoch, busVars,
                   closes, session, sessionClose>>

CancelRequestsOnce ==
    /\ Looping /\ cancelling = "queued"
    /\ cancelling' = "no"
    /\ Complete(Live, "cancelled", FALSE)
    /\ UNCHANGED <<callerVars, ownerVars, probed, invalidated, calls, loop, finalizer, epoch,
                   busVars, sessionVars>>

\* cancel_requests.
CancelRequests ==
    /\ Looping /\ cancelling = "queued"
    /\ cancelling' = "ran"
    /\ Complete(Live, "cancelled", FALSE)
    /\ UNCHANGED <<callerVars, ownerVars, probed, invalidated, calls, loop, finalizer, epoch,
                   busVars, sessionVars>>

BeginDrainAtOnce ==
    /\ finalizer = "freeing" /\ loop = "running" /\ cancelling # "queued"
    /\ loop' = "stopping"
    /\ UNCHANGED <<callerVars, ownerVars, probed, invalidated, req, calls, stopVars, epoch,
                   busVars, closes, sessionVars>>

\* begin_drain: sources run in the order they were queued.
BeginDrain ==
    /\ finalizer = "freeing" /\ loop = "running" /\ cancelling # "queued"
    /\ loop' = IF calls = {} THEN "stopping" ELSE "draining"
    /\ UNCHANGED <<callerVars, ownerVars, probed, invalidated, req, calls, stopVars, epoch,
                   busVars, closes, sessionVars>>

\* drain_expired: first the outstanding calls are cancelled, then the loop is
\* stopped without them.
DrainExpired ==
    /\ loop \in {"draining", "aborting"}
    /\ loop' = IF loop = "draining" THEN "aborting" ELSE "forced"
    /\ UNCHANGED <<callerVars, ownerVars, probed, invalidated, req, calls, stopVars, epoch,
                   busVars, closes, sessionVars>>

\* stop_loop, at idle priority.
StopLoop ==
    /\ loop \in {"stopping", "forced"}
    /\ loop' = IF loop = "stopping" THEN "stopped" ELSE "killed"
    /\ UNCHANGED <<callerVars, ownerVars, probed, invalidated, req, calls, stopVars, epoch,
                   busVars, closes, sessionVars>>

-----------------------------------------------------------------------------
\* The bus and the portal.

\* The name gains an owner, or its owner exits: sessions and requests end with
\* it and the bus answers the calls it did not.
OwnerChange ==
    /\ epoch < MaxEpoch
    /\ epoch' = epoch + 1
    /\ portal' = [r \in Request |-> IF portal[r] = "none" THEN "none" ELSE "ended"]
    /\ reply' = [r \in Request |-> IF portal[r] = "sent" /\ r \in calls THEN "lost" ELSE reply[r]]
    /\ session' = [c \in Caller |-> IF session[c] = "none" THEN "none" ELSE "closed"]
    /\ UNCHANGED <<callerVars, ownerVars, probed, invalidated, req, calls, loop, stopVars, at,
                   response, closes, sessionClose, notice>>

\* The portal refuses a call, or exports a request and returns its path.
PortalRefuses(r) ==
    /\ portal[r] = "sent"
    /\ portal' = [portal EXCEPT ![r] = "ended"]
    /\ reply' = [reply EXCEPT ![r] = IF r \in calls THEN "refused" ELSE "missed"]
    /\ UNCHANGED <<callerVars, ownerVars, probed, invalidated, req, calls, loop, stopVars,
                   epoch, at, response, closes, sessionVars>>

PortalExports(r) ==
    /\ portal[r] = "sent"
    /\ portal' = [portal EXCEPT ![r] = "open"]
    /\ \E p \in Exports : at' = [at EXCEPT ![r] = p]
    /\ reply' = [reply EXCEPT ![r] = IF r \in calls THEN "path" ELSE "missed"]
    /\ UNCHANGED <<callerVars, ownerVars, probed, invalidated, req, calls, loop, stopVars,
                   epoch, response, closes, sessionVars>>

\* It answers: a session, a grant on an open session, a signature under a
\* grant; or a refusal.
PortalResponds(r) ==
    LET c == r[1] IN
    /\ portal[r] = "open"
    /\ portal' = [portal EXCEPT ![r] = "ended"]
    /\ \/ /\ response' = [response EXCEPT ![r] = "ok"]
          /\ \/ r[2] = "create" /\ session[c] = "none"
                /\ session' = [session EXCEPT ![c] = "open"]
             \/ r[2] = "acquire" /\ session[c] = "open"
                /\ session' = [session EXCEPT ![c] = "granted"]
             \/ r[2] = "sign" /\ session[c] = "granted" /\ UNCHANGED session
       \/ response' = [response EXCEPT ![r] = "refused"] /\ UNCHANGED session
    /\ UNCHANGED <<callerVars, ownerVars, probed, invalidated, req, calls, loop, stopVars,
                   epoch, at, reply, closes, sessionClose, notice>>

\* A Response that nobody is subscribed to when it arrives.
ResponseDropped(r) ==
    /\ response[r] # "none"
    /\ ~(req[r].state = "live" /\ at[r] = Subscribed(r))
    /\ response' = [response EXCEPT ![r] = "none"]
    /\ UNCHANGED <<callerVars, ownerVars, probed, invalidated, req, calls, loop, stopVars,
                   epoch, portal, at, reply, closes, sessionVars>>

\* Request.Close and Session.Close arrive, after the calls sent before them.
CloseArrives(r, p) ==
    /\ p \in closes[r] /\ portal[r] # "sent"
    /\ closes' = [closes EXCEPT ![r] = @ \ {p}]
    /\ portal' = [portal EXCEPT ![r] = IF @ = "open" /\ at[r] = p THEN "ended" ELSE @]
    /\ UNCHANGED <<callerVars, ownerVars, probed, invalidated, req, calls, loop, stopVars,
                   epoch, at, reply, response, sessionVars>>

SessionCloseArrives(c) ==
    /\ c \in sessionClose /\ \A k \in Kind : portal[<<c, k>>] # "sent"
    /\ sessionClose' = sessionClose \ {c}
    /\ session' = [session EXCEPT ![c] = "closed"]
    /\ UNCHANGED <<callerVars, ownerVars, probed, invalidated, req, calls, loop, stopVars,
                   epoch, busVars, closes, notice>>

\* The portal ends a session itself: the token was removed, or the grant expired.
PortalEndsSession(c) ==
    /\ session[c] \in {"open", "granted"}
    /\ session' = [session EXCEPT ![c] = "closed"]
    /\ notice' = notice \cup {c}
    /\ UNCHANGED <<callerVars, ownerVars, probed, invalidated, req, calls, loop, stopVars,
                   epoch, busVars, closes, sessionClose>>

-----------------------------------------------------------------------------
CallerStep(c) ==
    \/ ProbeStart(c) \/ ProbeSkip(c) \/ ProbeDone(c) \/ Admit(c) \/ CreateSession(c)
    \/ Created(c) \/ Acquired(c) \/ Operation(c) \/ Signed(c) \/ Release(c)

ClientStep ==
    \/ \E r \in Request : \/ RequestStart(r) \/ OnResponse(r) \/ OnRequestTimeout(r)
                          \/ OnMethodReturned(r) \/ OnMethodFailed(r)
    \/ \E c \in Caller : OnGrantInvalidated(c)
    \/ OwnerChanged \/ CancelRequests \/ BeginDrain \/ DrainExpired \/ StopLoop

PortalStep ==
    \/ OwnerChange
    \/ \E r \in Request : \/ PortalRefuses(r) \/ PortalExports(r) \/ PortalResponds(r)
                          \/ ResponseDropped(r)
                          \/ \E p \in Path : CloseArrives(r, p)
    \/ \E c \in Caller : SessionCloseArrives(c) \/ PortalEndsSession(c)

Next == (\E c \in Caller : CallerStep(c)) \/ Finalize \/ Free \/ ClientStep \/ PortalStep

Spec == Init /\ [][Next]_vars

\* The client's thread runs what is queued and the drain's timer; callers go
\* on when they are woken, and GetCapabilities has its own timeout.  Neither
\* the portal, its user, nor the five-minute request timeout is relied on.
FairSpec ==
    /\ Spec
    /\ \A r \in Request : WF_vars(RequestStart(r))
    /\ \A c \in Caller : WF_vars(ProbeDone(c) \/ Admit(c) \/ CreateSession(c) \/ Created(c)
                                 \/ Acquired(c))
    /\ WF_vars(CancelRequests) /\ WF_vars(BeginDrain) /\ WF_vars(DrainExpired)
    /\ WF_vars(StopLoop) /\ WF_vars(Free)
    /\ \A c \in Caller : WF_vars(finalizer = "waiting" /\ Release(c))

-----------------------------------------------------------------------------
\* A request that its caller gave up on does not stay open at the portal
\* (request_complete, on_method_returned): a Close to the path it was exported
\* at is on its way, or the reply that names this path is.  The only request
\* left behind is one at an unpredicted path whose reply never came.
AbandonedRequestIsClosed ==
    \A r \in Request :
        (req[r].state = "done" /\ ~Responded(r) /\ portal[r] = "open") =>
            \/ at[r] \in closes[r]
            \/ r \in calls /\ reply[r] = "path" /\ Looping
            \/ at[r] = "other" /\ (reply[r] = "missed" \/ loop = "killed")

\* A grant at the portal belongs to a caller or is about to be closed
\* (portal_client_acquire, release_grant, portal_client_free): no timeout,
\* cancellation, change of owner or late notice leaves one that nobody holds.
NoOrphanGrant ==
    \A c \in Caller :
        session[c] = "granted" =>
            phase[c] \in {"acquiring", "held", "signing"} \/ c \in sessionClose

\* The requests of one acquisition, and the operations under its grant, all go
\* to the owner its session was made by (request_start): a session handle is
\* never shown to another process that took over the bus name.
SessionStaysWithItsOwner ==
    \A c \in Caller, k \in {"acquire", "sign"} :
        req[<<c, k>>].sentTo # 0 => req[<<c, k>>].sentTo = req[<<c, "create">>].sentTo

\* The portal counts as available only on the word of the owner the client
\* knows of (probe_capabilities, owner_changed): a late answer of an earlier
\* owner does not restore it.
AvailabilityIsCurrent == available \in {0, view}

\* The client's thread stops (begin_drain, drain_expired) when no caller waits
\* for it, which would be for ever, and when no method callback is outstanding,
\* unless two grace periods have passed.
StoppedLoopOwesNothing ==
    loop \in {"stopping", "forced", "stopped", "killed"} =>
        /\ \A r \in Request : req[r].state \notin {"posted", "live"}
        /\ loop \in {"stopping", "stopped"} => calls = {}

\* C_Finalize returns although the portal and its user never answer and no
\* request times out, wherever it finds an acquisition.
FinalizeEnds == finalizer # "none" ~> loop \in {"stopped", "killed"}
=============================================================================
