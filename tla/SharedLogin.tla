----------------------------- MODULE SharedLogin -----------------------------
(***************************************************************************)
(* Signing and decrypting under one grant (src/broker/operations.c): every *)
(* operation opens the grant's device session on a worker, logs in if it   *)
(* must, and runs on the token.  Operations that need a login share one;   *)
(* its prompt (src/core/pin.c) belongs to the session, not to any of them. *)
(*                                                                         *)
(* Coordinator callbacks are atomic.  A worker holds the device lock over  *)
(* C_Login and over C_Sign, which other threads' steps interleave with;    *)
(* opening and closing a device session take one step while it is free.   *)
(* The operation lock is kept while a key that always asks for a PIN is    *)
(* being authenticated, with the device lock released.                     *)
(*                                                                         *)
(* Abstracted: the grant is given (Core); a token needs a login before its *)
(* private keys can be used; a device session is identified by not having  *)
(* been closed (initialised), so handles are never reused; the attempts of *)
(* a prompt and the queue it waits in are PinPrompt's.  Refusals that      *)
(* differ only in their wording (locked, incorrect, no display, device)    *)
(* are "failed".                                                           *)
(***************************************************************************)
EXTENDS FiniteSets

CONSTANTS
    Op,                  \* operations of the session
    NoOp,                \* no operation
    AlwaysAuthenticate,  \* the values a read of CKA_ALWAYS_AUTHENTICATE returns
    Others,              \* whether other grants may hold sessions on the token
    Cancellable,         \* bound: the operations that callers cancel
    Resettable           \* bound: whether a token no other grant uses may lose its login once

ASSUME SharedLoginAssumption ==
    /\ NoOp \notin Op /\ {"free", "login"} \cap (Op \cup {NoOp}) = {}
    /\ AlwaysAuthenticate \subseteq BOOLEAN
    /\ Others \subseteq BOOLEAN

VARIABLES
    authority,   \* the grant: live, expired (is_expired), closed
    \* operations
    stage, result, cancelled, answer, stale, retried,
    \* the shared login
    busy,        \* login_in_progress
    waiters, retryLogin, idle,   \* login_waiters, retry_login, login_cancel_idle
    loginCancelled,              \* login_cancellable
    performed, outcome,          \* of the LoginInteraction
    early,       \* history: the operations that ran when the login began
    \* its prompt
    prompt, deferred, promptIdle, attempt,
    \* the device session
    deviceLock, operationLock, device, loggedIn, initialised,
    closeRelease, loginRelease,
    \* the token; others: other grants hold sessions on it
    others, tokenIn, gone, resets

operationVars == <<stage, result, cancelled, answer, stale, retried>>
loginVars     == <<busy, waiters, retryLogin, idle, loginCancelled, performed, outcome, early>>
promptVars    == <<prompt, deferred, promptIdle, attempt>>
deviceVars    == <<deviceLock, operationLock, device, loggedIn, initialised>>
releaseVars   == <<closeRelease, loginRelease>>
tokenVars     == <<others, tokenIn, gone, resets>>
vars == <<authority, operationVars, loginVars, promptVars, deviceVars, releaseVars, tokenVars>>

Failure == {"cancelled", "timeout", "removed", "failed"}
Outcome == Failure \cup {"ok"}

TypeOK ==
    /\ authority \in {"live", "expired", "closed"}
    /\ stage \in [Op -> {"new", "opening", "opened", "waiting", "running", "authenticating",
                         "asked", "resuming", "signing", "signed", "done"}]
    /\ result \in [Op -> Outcome \cup {"none", "login", "ready", "retry"}]
    /\ cancelled \in [Op -> BOOLEAN]
    /\ answer \in [Op -> Outcome \cup {"none"}]
    /\ stale \in SUBSET Op /\ retried \in SUBSET Op
    /\ busy \in BOOLEAN /\ waiters \in SUBSET Op
    /\ retryLogin \in SUBSET waiters /\ idle \in SUBSET waiters
    /\ loginCancelled \in BOOLEAN /\ performed \in BOOLEAN
    /\ outcome \in Outcome \cup {"none"} /\ early \in SUBSET Op
    /\ prompt \in {"none", "queued", "refreshing", "asking", "working"}
    /\ deferred \in {"none", "cancelled", "timeout", "failed"}
    /\ promptIdle \in BOOLEAN /\ attempt \in Outcome \cup {"none", "wrong"}
    /\ deviceLock \in Op \cup {"free", "login"} /\ operationLock \in Op \cup {NoOp}
    /\ device \in {"closed", "open"} /\ loggedIn \in BOOLEAN /\ initialised \in BOOLEAN
    /\ closeRelease \in BOOLEAN /\ loginRelease \in {"none", "queued", "done"}
    /\ others \in Others /\ tokenIn \in BOOLEAN /\ gone \in BOOLEAN /\ resets \in BOOLEAN

-----------------------------------------------------------------------------
\* operation_still_authorised, and the error it leaves.
Authorised(o) == ~cancelled[o] /\ authority = "live"
Unauthorised(o) == IF cancelled[o] THEN "cancelled" ELSE "failed"

\* certificate_pin_login_is_cancelling.
IsCancelling == loginCancelled \/ deferred # "none"

Running(o) == stage[o] \in {"running", "authenticating", "asked", "resuming", "signing"}
Unfinished == {o \in Op : stage[o] \notin {"new", "done"}}
PromptActive == prompt \in {"refreshing", "asking", "working"}

\* certificate_device_close: closing the last session of the process on the
\* token ends its login.
CloseDevice ==
    /\ device' = "closed"
    /\ loggedIn' = FALSE
    /\ initialised' = FALSE
    /\ tokenIn' = (tokenIn /\ (others \/ device = "closed"))

\* xcc_session_close_internal, or an invalidation that ends in it, when "ends":
\* every unfinished operation is cancelled and the device released by a worker
\* unless it is known to be closed.  done: the operations that end with this.
EndSession(ends, done) ==
    LET closes == ends /\ authority # "closed" IN
    /\ authority' = IF closes THEN "closed" ELSE authority
    /\ cancelled' = [o \in Op |-> cancelled[o] \/ (closes /\ o \in Unfinished \ done)]
    /\ closeRelease' = (closeRelease \/ (closes /\ ~(deviceLock = "free" /\ device = "closed")))

EndSessionUnheard(ends, done) ==
    UNCHANGED idle

\* The idles that a close leaves to waiters (on_waiter_cancelled).
EndSessionIdle(ends, done) ==
    idle' = idle \cup (IF ends /\ authority # "closed" THEN waiters \ done ELSE {})

Answer(o, a) ==
    /\ stage' = [stage EXCEPT ![o] = "done"]
    /\ answer' = [answer EXCEPT ![o] = a]
    /\ result' = [result EXCEPT ![o] = "none"]

OpenOperation(o) ==
    /\ stage' = [stage EXCEPT ![o] = "opening"]
    /\ result' = [result EXCEPT ![o] = "none"]
    /\ stale' = stale \ {o}

Init ==
    /\ authority = "live"
    /\ stage = [o \in Op |-> "new"] /\ result = [o \in Op |-> "none"]
    /\ cancelled = [o \in Op |-> FALSE] /\ answer = [o \in Op |-> "none"]
    /\ stale = {} /\ retried = {}
    /\ busy = FALSE /\ waiters = {} /\ retryLogin = {} /\ idle = {}
    /\ loginCancelled = FALSE /\ performed = FALSE /\ outcome = "none" /\ early = {}
    /\ prompt = "none" /\ deferred = "none" /\ promptIdle = FALSE /\ attempt = "none"
    /\ deviceLock = "free" /\ operationLock = NoOp
    /\ device = "closed" /\ loggedIn = FALSE /\ initialised = FALSE
    /\ closeRelease = FALSE /\ loginRelease = "none"
    /\ others \in Others /\ tokenIn \in {FALSE, others} /\ gone = FALSE /\ resets = FALSE

-----------------------------------------------------------------------------
\* Callers, time and the token.

\* certificate_broker_perform, whose guards on the grant are Core's.
Perform(o) ==
    /\ stage[o] = "new"
    /\ IF authority = "live"
       THEN OpenOperation(o) /\ UNCHANGED answer
       ELSE Answer(o, "failed") /\ UNCHANGED stale
    /\ UNCHANGED <<authority, cancelled, retried, loginVars, promptVars, deviceVars, releaseVars,
                   tokenVars>>

\* The request's cancellable; on_waiter_cancelled queues an idle.
Cancel(o) ==
    /\ o \in Cancellable /\ o \in Unfinished /\ ~cancelled[o]
    /\ cancelled' = [cancelled EXCEPT ![o] = TRUE]
    /\ idle' = idle \cup ({o} \cap waiters)
    /\ UNCHANGED <<authority, stage, result, answer, stale, retried, busy, waiters, retryLogin,
                   loginCancelled, performed, outcome, early, promptVars, deviceVars,
                   releaseVars, tokenVars>>

Expire ==
    /\ authority = "live"
    /\ authority' = "expired"
    /\ UNCHANGED <<operationVars, loginVars, promptVars, deviceVars, releaseVars, tokenVars>>

CloseSession ==
    /\ authority # "closed"
    /\ EndSession(TRUE, {}) /\ EndSessionIdle(TRUE, {})
    /\ UNCHANGED <<stage, result, answer, stale, retried, busy, waiters, retryLogin,
                   loginCancelled, performed, outcome, early, promptVars, deviceVars,
                   loginRelease, tokenVars>>

\* Another program resets the token: its login is lost.
TokenReset ==
    /\ Resettable /\ ~others /\ ~resets /\ tokenIn
    /\ tokenIn' = FALSE /\ resets' = TRUE
    /\ UNCHANGED <<authority, operationVars, loginVars, promptVars, deviceVars, releaseVars, others,
                   gone>>

\* Another grant of this process logs in: the token's sessions share it.
OthersLogin ==
    /\ others /\ ~tokenIn /\ ~gone
    /\ tokenIn' = TRUE
    /\ UNCHANGED <<authority, operationVars, loginVars, promptVars, deviceVars, releaseVars,
                   others, gone, resets>>

TokenRemoved ==
    /\ ~gone
    /\ gone' = TRUE /\ tokenIn' = FALSE
    /\ UNCHANGED <<authority, operationVars, loginVars, promptVars, deviceVars, releaseVars, others,
                   resets>>

-----------------------------------------------------------------------------
\* Opening the device.

\* certificate_device_open fails, perhaps with the session just opened.
OpenFails ==
    \/ UNCHANGED <<device, loggedIn>>
    \/ device = "closed" /\ ~gone /\ device' = "open" /\ loggedIn' = FALSE

\* open_thread and certificate_device_open.  A refused operation may return
\* before it has the lock.
OpenThread(o) ==
    /\ stage[o] = "opening"
    /\ stage' = [stage EXCEPT ![o] = "opened"]
    /\ \/ /\ ~Authorised(o)
          /\ result' = [result EXCEPT ![o] = Unauthorised(o)]
          /\ UNCHANGED <<device, loggedIn>>
       \/ /\ Authorised(o) /\ deviceLock = "free"
          /\ OpenFails
          /\ result' = [result EXCEPT ![o] = IF gone THEN "removed" ELSE "failed"]
       \/ /\ Authorised(o) /\ deviceLock = "free" /\ ~gone
          /\ device' = "open"
          /\ loggedIn' = tokenIn
          /\ result' = [result EXCEPT ![o] = IF tokenIn THEN "ready" ELSE "login"]
    /\ UNCHANGED <<authority, cancelled, answer, stale, retried, loginVars, promptVars, deviceLock,
                   operationLock, initialised, releaseVars, tokenVars>>

\* on_opened: the worker failed, or the operation ended meanwhile.
OpenedFails(o) ==
    /\ stage[o] = "opened"
    /\ LET error == IF cancelled[o] THEN "cancelled"
                    ELSE IF result[o] \in Failure THEN result[o]
                    ELSE IF authority # "live" THEN "failed" ELSE "none"
       IN /\ error # "none"
          /\ Answer(o, error)
          /\ EndSession(error = "removed", {o})
          /\ EndSessionIdle(error = "removed", {o})
    /\ UNCHANGED <<stale, retried, busy, waiters, retryLogin, loginCancelled, performed, outcome,
                   early, promptVars, deviceVars, loginRelease, tokenVars>>

Opened(o) == stage[o] = "opened" /\ Authorised(o) /\ result[o] \in {"login", "ready"}

JoinLoginAlways(o) ==
    /\ Opened(o) /\ busy
    /\ stage' = [stage EXCEPT ![o] = "waiting"]
    /\ waiters' = waiters \cup {o}
    /\ UNCHANGED <<authority, result, cancelled, answer, stale, retried, busy, retryLogin, idle,
                   loginCancelled, performed, outcome, early, promptVars, deviceVars,
                   releaseVars, tokenVars>>

\* A login is in progress: wait for it, or for the one after a cancelled one.
JoinLogin(o) ==
    /\ Opened(o) /\ busy
    /\ stage' = [stage EXCEPT ![o] = "waiting"]
    /\ waiters' = waiters \cup {o}
    /\ retryLogin' = IF IsCancelling THEN retryLogin \cup {o} ELSE retryLogin
    /\ UNCHANGED <<authority, result, cancelled, answer, stale, retried, busy, idle,
                   loginCancelled, performed, outcome, early, promptVars, deviceVars,
                   releaseVars, tokenVars>>

\* The snapshot predates a login that has ended.
OpenAgain(o) ==
    /\ Opened(o) /\ ~busy /\ result[o] = "login" /\ o \in stale
    /\ OpenOperation(o)
    /\ UNCHANGED <<authority, cancelled, answer, retried, loginVars, promptVars, deviceVars,
                   releaseVars, tokenVars>>

\* certificate_pin_login_full: no prompt can be shown, or it is queued.
StartLogin(o) ==
    /\ Opened(o) /\ ~busy /\ result[o] = "login" /\ o \notin stale
    /\ \/ /\ Answer(o, "failed")
          /\ stale' = stale \cup {q \in Op \ {o} : stage[q] \in {"opening", "opened"}}
          /\ UNCHANGED <<loginVars, promptVars>>
       \/ /\ stage' = [stage EXCEPT ![o] = "waiting"]
          /\ busy' = TRUE /\ waiters' = {o} /\ outcome' = "none"
          /\ early' = {q \in Op : Running(q)}
          /\ prompt' = "queued"
          /\ UNCHANGED <<result, answer, stale, retryLogin, idle, loginCancelled, performed,
                         deferred, promptIdle, attempt>>
    /\ UNCHANGED <<authority, cancelled, retried, deviceVars, releaseVars, tokenVars>>

RunOperationAtOnce(o) ==
    /\ Opened(o) /\ result[o] = "ready"
    /\ stage' = [stage EXCEPT ![o] = "running"]
    /\ UNCHANGED <<authority, result, cancelled, answer, stale, retried, loginVars, promptVars,
                   deviceVars, releaseVars, tokenVars>>

RunOperation(o) ==
    /\ Opened(o) /\ ~busy /\ result[o] = "ready"
    /\ stage' = [stage EXCEPT ![o] = "running"]
    /\ UNCHANGED <<authority, result, cancelled, answer, stale, retried, loginVars, promptVars,
                   deviceVars, releaseVars, tokenVars>>

-----------------------------------------------------------------------------
\* The end of a login (finish_login).  Waiters that joined it while it was being
\* cancelled open again; the others get its outcome (apply_login_outcome).  The
\* first to report a removed token ends the session, which cancels the others.
FinishLogin(end) ==
    LET heirs == waiters \ retryLogin
        kept == {o \in heirs : ~cancelled[o]}
        removed == end = "removed" /\ kept # {}
        over == IF end = "ok" THEN heirs \ kept ELSE heirs
    IN
    \E told \in IF removed THEN {{o} : o \in kept} ELSE {kept} :
        /\ busy' = FALSE /\ performed' = FALSE /\ loginCancelled' = FALSE
        /\ waiters' = {} /\ retryLogin' = {} /\ idle' = {} /\ early' = {}
        /\ outcome' = "none"
        /\ stage' = [o \in Op |-> IF o \in waiters \cap retryLogin THEN "opening"
                                  ELSE IF o \in over THEN "done"
                                  ELSE IF o \in heirs THEN "running" ELSE stage[o]]
        /\ answer' = [o \in Op |-> IF o \in over THEN IF o \in told THEN end ELSE "cancelled"
                                   ELSE answer[o]]
        /\ result' = [o \in Op |-> IF o \in waiters THEN "none" ELSE result[o]]
        /\ stale' = stale \cup {o \in Op : stage[o] \in {"opening", "opened"}}
        /\ EndSession(removed, over)

FinishPromptKeepsLogin(answered) ==
    LET end == IF answered = "ok" /\ loginCancelled THEN "cancelled" ELSE answered IN
    /\ prompt' = "none" /\ deferred' = "none" /\ attempt' = "none" /\ promptIdle' = FALSE
    /\ FinishLogin(end) /\ UNCHANGED loginRelease

\* on_pin_done: a login that succeeded although it was cancelled is undone, by
\* closing the device session, before the login ends.
FinishPrompt(answered) ==
    LET end == IF answered = "ok" /\ loginCancelled THEN "cancelled" ELSE answered IN
    /\ prompt' = "none" /\ deferred' = "none" /\ attempt' = "none" /\ promptIdle' = FALSE
    /\ IF end # "ok" /\ performed
       THEN /\ loginCancelled' = TRUE
            /\ outcome' = end
            /\ loginRelease' = "queued"
            /\ UNCHANGED <<authority, stage, result, cancelled, answer, stale, busy, waiters,
                           retryLogin, idle, performed, early, closeRelease>>
       ELSE FinishLogin(end) /\ UNCHANGED loginRelease

\* certificate_pin_prompt_answer while a worker borrows the prompt.
Defer(answered) ==
    /\ deferred' = IF deferred = "none" THEN answered ELSE deferred
    /\ UNCHANGED <<authority, stage, result, cancelled, answer, stale, loginVars, prompt, attempt,
                   releaseVars>>

-----------------------------------------------------------------------------
\* The prompt (pin.c): queued behind the other prompts of the process, of which
\* those of this session's operations are modelled.

PromptStart ==
    /\ prompt = "queued" /\ \A o \in Op : stage[o] # "asked"
    /\ IF loginCancelled
       THEN FinishPrompt("cancelled")
       ELSE /\ prompt' = "refreshing"
            /\ UNCHANGED <<authority, stage, result, cancelled, answer, stale, loginVars,
                           deferred, promptIdle, attempt, releaseVars>>
    /\ UNCHANGED <<retried, deviceVars, tokenVars>>

\* refresh_thread has read the token's flags (on_refresh_done).
PromptRefreshed ==
    /\ prompt = "refreshing"
    /\ IF deferred # "none" THEN FinishPrompt(deferred)
       ELSE IF loginCancelled THEN FinishPrompt("cancelled")
       ELSE \/ FinishPrompt("failed")
            \/ /\ prompt' = "asking"
               /\ UNCHANGED <<authority, stage, result, cancelled, answer, stale, loginVars,
                              deferred, promptIdle, attempt, releaseVars>>
    /\ UNCHANGED <<retried, deviceVars, tokenVars>>

\* certificate_pin_prompt_submit.
UserSubmits ==
    /\ prompt = "asking"
    /\ prompt' = "working"
    /\ UNCHANGED <<authority, operationVars, loginVars, deferred, promptIdle, attempt, deviceVars,
                   releaseVars, tokenVars>>

\* The user or the dialog gives up, also while the PIN is being checked.
UserDismisses ==
    /\ prompt \in {"asking", "working"}
    /\ \E answered \in {"cancelled", "failed"} :
           IF prompt = "working" THEN Defer(answered) /\ UNCHANGED promptIdle
                                 ELSE FinishPrompt(answered)
    /\ UNCHANGED <<retried, deviceVars, tokenVars>>

\* on_login_timeout.
LoginTimeout ==
    /\ prompt = "working"
    /\ Defer("timeout")
    /\ UNCHANGED <<promptIdle, retried, deviceVars, tokenVars>>

\* The prompt's on_cancelled_idle.
PromptCancelled ==
    /\ promptIdle
    /\ IF prompt \in {"refreshing", "working"}
       THEN Defer("cancelled") /\ promptIdle' = FALSE
       ELSE FinishPrompt("cancelled")
    /\ UNCHANGED <<retried, deviceVars, tokenVars>>

WaiterCancelledEndsLogin(o) ==
    /\ o \in idle
    /\ Answer(o, "cancelled")
    /\ waiters' = waiters \ {o} /\ retryLogin' = retryLogin \ {o} /\ idle' = idle \ {o}
    /\ loginCancelled' = (loginCancelled \/ waiters = {o})
    /\ promptIdle' = (promptIdle \/ (waiters = {o} /\ prompt # "none"))
    /\ busy' = (busy /\ waiters # {o})
    /\ UNCHANGED <<authority, cancelled, stale, retried, performed, outcome, early, prompt,
                   deferred, attempt, deviceVars, releaseVars, tokenVars>>

\* waiter_cancelled_idle: the last waiter to leave cancels the login.
WaiterCancelled(o) ==
    /\ o \in idle
    /\ Answer(o, "cancelled")
    /\ waiters' = waiters \ {o} /\ retryLogin' = retryLogin \ {o} /\ idle' = idle \ {o}
    /\ loginCancelled' = (loginCancelled \/ waiters = {o})
    /\ promptIdle' = (promptIdle \/ (waiters = {o} /\ prompt # "none"))
    /\ UNCHANGED <<authority, cancelled, stale, retried, busy, performed, outcome, early, prompt,
                   deferred, attempt, deviceVars, releaseVars, tokenVars>>

LoginThreadUnchecked ==
    /\ prompt = "working" /\ attempt = "none" /\ deviceLock = "free"
    /\ IF loginCancelled
       THEN attempt' = "cancelled" /\ UNCHANGED <<device, loggedIn, deviceLock>>
       ELSE IF gone
       THEN attempt' = "removed" /\ UNCHANGED <<device, loggedIn, deviceLock>>
       ELSE \/ /\ OpenFails
               /\ attempt' = "failed" /\ UNCHANGED deviceLock
            \/ /\ device' = "open" /\ loggedIn' = tokenIn
               /\ attempt' = IF tokenIn THEN "ok" ELSE "none"
               /\ deviceLock' = IF tokenIn THEN "free" ELSE "login"
    /\ UNCHANGED <<authority, operationVars, loginVars, prompt, deferred, promptIdle,
                   operationLock, initialised, releaseVars, tokenVars>>

\* do_login, up to C_Login.
LoginThread ==
    /\ prompt = "working" /\ attempt = "none" /\ deviceLock = "free"
    /\ IF loginCancelled \/ authority # "live"
       THEN /\ attempt' = IF loginCancelled THEN "cancelled" ELSE "failed"
            /\ UNCHANGED <<device, loggedIn, deviceLock>>
       ELSE IF gone
       THEN attempt' = "removed" /\ UNCHANGED <<device, loggedIn, deviceLock>>
       ELSE \/ /\ OpenFails
               /\ attempt' = "failed" /\ UNCHANGED deviceLock
            \/ /\ device' = "open" /\ loggedIn' = tokenIn
               /\ attempt' = IF tokenIn THEN "ok" ELSE "none"
               /\ deviceLock' = IF tokenIn THEN "free" ELSE "login"
    /\ UNCHANGED <<authority, operationVars, loginVars, prompt, deferred, promptIdle,
                   operationLock, initialised, releaseVars, tokenVars>>

\* C_Login returns; it cannot be interrupted.
LoginReturns ==
    /\ deviceLock = "login"
    /\ deviceLock' = "free"
    /\ \/ /\ ~gone
          /\ attempt' = "ok" /\ performed' = TRUE /\ loggedIn' = TRUE /\ tokenIn' = TRUE
       \/ /\ \E error \in {"wrong", "failed", "removed"} :
                 (error = "removed" => gone) /\ attempt' = error
          /\ UNCHANGED <<performed, loggedIn, tokenIn>>
    /\ UNCHANGED <<authority, operationVars, busy, waiters, retryLogin, idle, loginCancelled,
                   outcome, early, prompt, deferred, promptIdle, operationLock, device,
                   initialised, releaseVars, others, gone, resets>>

\* on_login_done.
LoginDone ==
    /\ prompt = "working" /\ attempt # "none"
    /\ IF deferred # "none" THEN FinishPrompt(deferred)
       ELSE IF attempt # "wrong" THEN FinishPrompt(attempt)
       ELSE \/ FinishPrompt("failed")
            \/ /\ prompt' = "asking" /\ attempt' = "none"
               /\ UNCHANGED <<authority, stage, result, cancelled, answer, stale, loginVars,
                              deferred, promptIdle, releaseVars>>
    /\ UNCHANGED <<retried, deviceVars, tokenVars>>

-----------------------------------------------------------------------------
\* Releases of the device (release_thread, on_device_released).

ReleaseClosed ==
    /\ closeRelease /\ deviceLock = "free"
    /\ CloseDevice
    /\ closeRelease' = FALSE
    /\ UNCHANGED <<authority, operationVars, loginVars, promptVars, deviceLock, operationLock,
                   loginRelease, others, gone, resets>>

ReleaseLogin ==
    /\ loginRelease = "queued" /\ deviceLock = "free"
    /\ CloseDevice
    /\ loginRelease' = "done"
    /\ UNCHANGED <<authority, operationVars, loginVars, promptVars, deviceLock, operationLock,
                   closeRelease, others, gone, resets>>

LoginReleased ==
    /\ loginRelease = "done"
    /\ loginRelease' = "none"
    /\ FinishLogin(outcome)
    /\ UNCHANGED <<retried, promptVars, deviceVars, tokenVars>>

-----------------------------------------------------------------------------
\* Running on the token.

\* sign_thread, up to the token: both locks, a fresh login state, SignInit.  The
\* token may refuse any of it.
SignThread(o) ==
    /\ stage[o] = "running"
    /\ \/ /\ ~Authorised(o)
          /\ stage' = [stage EXCEPT ![o] = "signed"]
          /\ result' = [result EXCEPT ![o] = Unauthorised(o)]
          /\ UNCHANGED <<loggedIn, initialised, deviceLock, operationLock>>
       \/ /\ Authorised(o) /\ operationLock = NoOp /\ deviceLock = "free"
          /\ device = "closed" \/ ~tokenIn
          /\ loggedIn' = (loggedIn /\ tokenIn)
          /\ stage' = [stage EXCEPT ![o] = "signed"]
          /\ result' = [result EXCEPT ![o] = IF device = "open" /\ gone THEN "removed"
                                             ELSE "retry"]
          /\ UNCHANGED <<initialised, deviceLock, operationLock>>
       \/ /\ Authorised(o) /\ operationLock = NoOp /\ deviceLock = "free"
          /\ device = "open"
          /\ stage' = [stage EXCEPT ![o] = "signed"]
          /\ result' = [result EXCEPT ![o] = "failed"]
          /\ UNCHANGED <<loggedIn, initialised, deviceLock, operationLock>>
       \/ /\ Authorised(o) /\ operationLock = NoOp /\ deviceLock = "free"
          /\ device = "open" /\ tokenIn
          /\ loggedIn' = TRUE
          /\ initialised' = TRUE
          /\ operationLock' = o
          /\ \E always \in AlwaysAuthenticate :
                 /\ stage' = [stage EXCEPT ![o] = IF always THEN "authenticating" ELSE "signing"]
                 /\ deviceLock' = IF always THEN "free" ELSE o
          /\ UNCHANGED result
    /\ UNCHANGED <<authority, cancelled, answer, stale, retried, loginVars, promptVars, device,
                   releaseVars, tokenVars>>

\* prompt_context_pin: the operation's own prompt reaches the screen.
AskContext(o) ==
    /\ stage[o] = "authenticating" /\ ~PromptActive
    /\ stage' = [stage EXCEPT ![o] = "asked"]
    /\ UNCHANGED <<authority, result, cancelled, answer, stale, retried, loginVars, promptVars,
                   deviceVars, releaseVars, tokenVars>>

\* on_context_pin_done, after do_context_login or without it.
ContextAnswered(o, end) ==
    /\ \/ stage[o] = "asked"
       \/ stage[o] = "authenticating" /\ (end = "cancelled" => cancelled[o])
                                      /\ end \in {"cancelled", "failed"}
    /\ end = "ok" => deviceLock = "free" /\ Authorised(o) /\ initialised /\ ~gone
    /\ end = "removed" => gone \/ ~initialised
    /\ stage' = [stage EXCEPT ![o] = "resuming"]
    /\ result' = [result EXCEPT ![o] = end]
    /\ UNCHANGED <<authority, cancelled, answer, stale, retried, loginVars, promptVars,
                   deviceVars, releaseVars, tokenVars>>

\* A decryption that fails on the token does not say why (sign_thread).
Masked(error) == IF error = "removed" THEN "failed" ELSE error

ResumeAnywhere(o) ==
    /\ stage[o] = "resuming" /\ deviceLock = "free"
    /\ LET error == IF result[o] # "ok" THEN result[o]
                    ELSE IF ~Authorised(o) THEN Unauthorised(o) ELSE "none"
       IN IF error = "none"
          THEN /\ stage' = [stage EXCEPT ![o] = "signing"]
               /\ deviceLock' = o
               /\ result' = [result EXCEPT ![o] = "none"]
               /\ UNCHANGED <<operationLock, device, loggedIn, initialised, tokenIn>>
          ELSE /\ stage' = [stage EXCEPT ![o] = "signed"]
               /\ result' = [result EXCEPT ![o] = error]
               /\ operationLock' = NoOp
               /\ CloseDevice
               /\ UNCHANGED deviceLock
    /\ UNCHANGED <<authority, cancelled, answer, stale, retried, loginVars, promptVars,
                   releaseVars, others, gone, resets>>

\* authenticate_context goes on under the device lock; a refusal closes the
\* device session, whichever it is by now.
Resume(o) ==
    /\ stage[o] = "resuming" /\ deviceLock = "free"
    /\ LET error == IF result[o] # "ok" THEN result[o]
                    ELSE IF ~Authorised(o) THEN Unauthorised(o)
                    ELSE IF ~initialised THEN "removed" ELSE "none"
       IN IF error = "none"
          THEN /\ stage' = [stage EXCEPT ![o] = "signing"]
               /\ deviceLock' = o
               /\ result' = [result EXCEPT ![o] = "none"]
               /\ UNCHANGED <<operationLock, device, loggedIn, initialised, tokenIn>>
          ELSE /\ stage' = [stage EXCEPT ![o] = "signed"]
               /\ \E told \in {error} \cup (IF result[o] = "ok" THEN {Masked(error)} ELSE {}) :
                      result' = [result EXCEPT ![o] = told]
               /\ operationLock' = NoOp
               /\ CloseDevice
               /\ UNCHANGED deviceLock
    /\ UNCHANGED <<authority, cancelled, answer, stale, retried, loginVars, promptVars,
                   releaseVars, others, gone, resets>>

\* C_Sign or C_Decrypt returns.
TokenSigns(o) ==
    /\ stage[o] = "signing"
    /\ \E end \in {"ok", "failed", "removed"} :
           /\ end = "ok" => ~gone
           /\ end = "removed" => gone
           /\ result' = [result EXCEPT ![o] = end]
    /\ stage' = [stage EXCEPT ![o] = "signed"]
    /\ initialised' = FALSE
    /\ deviceLock' = "free" /\ operationLock' = NoOp
    /\ UNCHANGED <<authority, cancelled, answer, stale, retried, loginVars, promptVars, device,
                   loggedIn, releaseVars, tokenVars>>

\* on_signed, when the operation opens the device once more.
SignAgain(o) ==
    /\ stage[o] = "signed" /\ result[o] = "retry" /\ ~cancelled[o] /\ o \notin retried
    /\ retried' = retried \cup {o}
    /\ OpenOperation(o)
    /\ UNCHANGED <<authority, cancelled, answer, loginVars, promptVars, deviceVars, releaseVars,
                   tokenVars>>

\* on_signed, when it ends.
Signed(o) ==
    /\ stage[o] = "signed" /\ (result[o] = "retry" => cancelled[o] \/ o \in retried)
    /\ LET end == IF cancelled[o] THEN "cancelled"
                  ELSE IF result[o] = "retry" THEN "failed" ELSE result[o]
       IN /\ Answer(o, end)
          /\ EndSession(end = "removed", {o}) /\ EndSessionIdle(end = "removed", {o})
    /\ UNCHANGED <<stale, retried, busy, waiters, retryLogin, loginCancelled, performed, outcome,
                   early, promptVars, deviceVars, loginRelease, tokenVars>>

-----------------------------------------------------------------------------
ContextCancelled(o) == cancelled[o] /\ ContextAnswered(o, "cancelled")

\* What the coordinator runs for an operation, and for the login.
Callbacks(o) ==
    \/ OpenedFails(o) \/ JoinLogin(o) \/ OpenAgain(o) \/ StartLogin(o) \/ RunOperation(o)
    \/ WaiterCancelled(o) \/ ContextCancelled(o) \/ SignAgain(o) \/ Signed(o)

LoginCallbacks == PromptStart \/ PromptCancelled \/ LoginDone \/ LoginReleased

\* Workers between calls into the token's driver, and those calls.
Threads == ReleaseClosed \/ ReleaseLogin \/ \E o \in Op : OpenThread(o) \/ SignThread(o) \/ Resume(o)
Driver  == PromptRefreshed \/ LoginThread \/ LoginReturns \/ \E o \in Op : TokenSigns(o)

Environment ==
    \/ Expire \/ CloseSession \/ TokenReset \/ OthersLogin \/ TokenRemoved
    \/ UserSubmits \/ UserDismisses \/ LoginTimeout
    \/ \E o \in Op : \/ Perform(o) \/ Cancel(o) \/ AskContext(o)
                     \/ \E end \in Outcome : ContextAnswered(o, end)

Next == Environment \/ LoginCallbacks \/ Threads \/ Driver \/ \E o \in Op : Callbacks(o)

Spec == Init /\ [][Next]_vars

\* The coordinator's loop runs every callback and threads get their locks; the
\* driver may hang, callers and users may stay silent.
FairSpec ==
    /\ Spec /\ WF_vars(LoginCallbacks) /\ WF_vars(Threads)
    /\ \A o \in Op : WF_vars(Callbacks(o))

-----------------------------------------------------------------------------
\* What must hold.

\* Waiters always have a login that will end: login_in_progress holds exactly
\* while a prompt, or the release of a cancelled login, is still to report.
WaitersAreServed ==
    /\ waiters = {o \in Op : stage[o] = "waiting"}
    /\ waiters # {} => busy
    /\ busy <=> (prompt # "none" \/ loginRelease # "none")

\* A closed session keeps no device session open: whatever was being opened or
\* logged in when it closed is refused under the device lock or released.
ClosedSessionHasNoDevice ==
    authority = "closed" /\ ~closeRelease /\ deviceLock = "free" => device = "closed"

\* While a login is in progress no operation starts on the token ("A cancelled
\* interaction cannot authenticate new requests", on_opened).
LoginExcludesNewWork == busy => \A o \in Op : Running(o) => o \in early

\* Cancelling the last waiter cancels the login but takes no other operation
\* with it: whoever joins until it has settled asks again.
CancelledLoginTakesNobody ==
    loginCancelled /\ prompt # "none" => \A o \in waiters : o \in retryLogin \/ cancelled[o]

\* A login that the token granted although its prompt was cancelled or timed out
\* is undone before it ends and its waiters go on (on_pin_done), unless other
\* grants' sessions keep the token logged in.
CancelledLoginIsUndone ==
    [][busy /\ ~busy' /\ performed /\ tokenIn /\ ~others
       => ~loginCancelled /\ deferred = "none"]_vars

\* The token signs on the device session the operation was initialised on, even
\* if that session was closed while its key's PIN was asked for.
SignsOnItsOwnSession ==
    \A o \in Op : stage[o] = "signing" =>
        operationLock = o /\ deviceLock = o /\ device = "open" /\ initialised

\* An operation reports a removed token, and ends the grant with "token_removed",
\* only when the token was removed (docs/IMPL-INTERFACE.md, invalidation
\* vocabulary).  The code breaks it: another operation's cancelled login may
\* close the session that an operation's key is being authenticated on.
TokenRemovedMeansRemoval ==
    \A o \in Op : answer[o] = "removed" => gone

\* A cancelled waiter is answered although C_Login never returns, and when the
\* driver returns, closing the session ends every operation.
OperationsAreAnswered ==
    /\ \A o \in Op : (stage[o] = "waiting" /\ cancelled[o]) ~> (stage[o] = "done")
    /\ WF_vars(Driver) =>
          (authority = "closed") ~> (\A o \in Op : stage[o] \in {"new", "done"})
=============================================================================
