-------------------------------- MODULE Core --------------------------------
(***************************************************************************)
(* The certificate core: one coordinator thread that owns requests,        *)
(* sessions and choosers (src/core), the desktop thread it delivers to,    *)
(* the workers it starts, the token watcher that feeds it, and the callers *)
(* on any thread that submit, cancel, close, change owner and shut down.   *)
(*                                                                         *)
(* A function posted with xcc_context_post is a pending flag of what it    *)
(* will run on (phase "posted", ask, closing, reply, ...): every post is   *)
(* eventually run once, in any order, which is weaker than the FIFO main   *)
(* loop.  A coordinator callback is one action, except where it drains the *)
(* watcher's queue: there it is split at every event (variable drain), so  *)
(* the other threads run between the events and the decision that follows. *)
(*                                                                         *)
(* Abstracted: certificates and filters (a Presence is one insertion of a  *)
(* token, carrying one matching certificate); revision numbers (a reply is *)
(* fresh until the chooser's revision moves); the broker's login, modelled *)
(* in SharedLogin, of which a signature keeps the last check and outcome.  *)
(***************************************************************************)
EXTENDS Integers, Sequences, FiniteSets

CONSTANTS
    Session,        \* sessions that may be created
    Acquire,        \* acquisition requests
    Sign,           \* signature requests
    SessionOf,      \* the session of each request
    Presence,       \* insertions of tokens
    TokenOf,        \* the identity (serial, label, model, maker) of a presence
    Serialless,     \* the identities that have no serial number
    Matching,       \* the presences whose certificate passes the filters
    Settings,       \* bound: what callers ask for and where the process runs
    CancelReasons,  \* the reasons callers pass to xcc_request_cancel
    Movable,        \* bound: the presences that are inserted or removed
    MayShutDown,    \* bound: whether xcc_context_shutdown_async is called
    Cancellable,    \* bound: the requests that callers cancel
    MaxGeneration,  \* bound: changes of the frontend owner
    NoCard,         \* no candidate
    NoRequest       \* no request

Request == Acquire \cup Sign

ASSUME CoreAssumption ==
    /\ Acquire \cap Sign = {}
    /\ NoRequest \notin Request
    /\ SessionOf \in [Request -> Session]
    /\ Presence \cap {NoCard, "none", "dismissed", "failed"} = {}
    /\ NoCard \notin {"none", "dismissed", "failed"}
    /\ MaxGeneration \in Nat
    /\ \A x \in Settings : x \in [malformed: SUBSET Request, silent: SUBSET Acquire,
                                 display: BOOLEAN]
    /\ CancelReasons \subseteq {"cancelled", "owner_gone", "backend_gone"}

VARIABLES
    shut,        \* shutdown: running, asked, stopping, posted, done
    watching,    \* the watcher thread runs
    ownerGen,    \* last generation passed to xcc_context_set_owner_generation
    generation,  \* the generation the coordinator has applied
    setting,     \* fixed: the requests whose specification is refused
                 \* (validation_error), the acquisitions with interaction_forbidden,
                 \* and whether a chooser can be shown
    drain,       \* the coordinator callback in progress, with the events left to drain
    \* requests
    phase, intent, code, cancelled, error, ask,
    work,        \* the request's worker: enumeration or signature
    snap, again, \* its snapshot, and enumerate_again
    chooser, choices, readingTokens, reply, fresh,
    chosen,      \* pending_chosen and pending_error
    cand,        \* r->candidate: the snapshot handed to the caller
    \* sessions
    sess, gen, grant, pending, expired, closing, notice,
    \* tokens
    card,        \* physical state of each presence
    seen,        \* presences the watcher has announced
    events,      \* queued watcher events
    gone         \* history: presences whose removal the coordinator has handled

shutVars    == <<shut, watching>>
ownerVars   == <<ownerGen, generation, setting>>
answerVars  == <<phase, error, ask>>
cancelVars  == <<intent, code, cancelled>>
workVars    == <<work, snap, again>>
chooserVars == <<chooser, choices, readingTokens, reply, fresh, chosen>>
requestVars == <<answerVars, cancelVars, workVars, chooserVars>>
grantVars   == <<grant, pending, expired, cand>>
sessionVars == <<sess, gen, closing, notice, grantVars>>
tokenVars   == <<card, seen, events, gone>>
vars == <<shutVars, ownerVars, drain, requestVars, sessionVars, tokenVars>>

Code == {"ok", "cancelled", "owner_gone", "no_session", "backend_gone", "invalid",
         "device", "interaction_required", "no_display", "token_removed"}
Reason == {"none"} \cup (Code \ {"ok"})
Phase == {"new", "posted", "active", "answered", "reading", "rollback", "told", "gone", "detached"}
Event == [card: Presence, added: BOOLEAN]
NoDrain == [kind |-> "idle", req |-> NoRequest, left |-> 0]

ControlTypeOK ==
    /\ shut \in {"running", "asked", "stopping", "posted", "done"}
    /\ watching \in BOOLEAN
    /\ ownerGen \in 0..MaxGeneration /\ generation \in 0..ownerGen
    /\ setting \in Settings
    /\ drain \in [kind: {"idle", "watch", "consent", "snapshot"},
                  req: Acquire \cup {NoRequest}, left: Nat]

RequestTypeOK ==
    /\ phase \in [Request -> Phase]
    /\ intent \in [Request -> Reason]
    /\ code \in [Request -> Code]
    /\ cancelled \in [Request -> BOOLEAN]
    /\ error \in [Request -> Code]
    /\ ask \in [Request -> {"never", "ran"} \cup CancelReasons]
    /\ work \in [Request -> {"none", "reading", "read", "failed", "cancelled",
                             "signing", "signed", "removed"}]
    /\ snap \in [Request -> SUBSET Presence]
    /\ again \in [Request -> BOOLEAN]
    /\ cand \in [Request -> Presence \cup {NoCard}]

ChooserTypeOK ==
    /\ chooser \in [Request -> {"none", "open", "done"}]
    /\ choices \in [Request -> SUBSET Presence]
    /\ readingTokens \in [Request -> BOOLEAN]
    /\ reply \in [Request -> Presence \cup {"none", "dismissed", "failed"}]
    /\ fresh \in [Request -> BOOLEAN]
    /\ chosen \in [Request -> Presence \cup {"none", "dismissed", "failed"}]

SessionTypeOK ==
    /\ sess \in [Session -> {"none", "open", "closed"}]
    /\ gen \in [Session -> 0..MaxGeneration]
    /\ grant \in [Session -> Presence \cup {NoCard}]
    /\ pending \in [Session -> BOOLEAN]
    /\ expired \in [Session -> BOOLEAN]
    /\ closing \in [Session -> BOOLEAN]
    /\ notice \in [Session -> {"none", "queued", "told"}]

TokenTypeOK ==
    /\ card \in [Presence -> {"absent", "in", "out"}]
    /\ seen \in SUBSET Presence
    /\ events \in Seq(Event) /\ drain.left <= Len(events)
    /\ gone \in SUBSET Presence

TypeOK ==
    /\ ControlTypeOK /\ RequestTypeOK /\ ChooserTypeOK /\ SessionTypeOK /\ TokenTypeOK

-----------------------------------------------------------------------------
\* Vocabulary of the source.

\* certificate_token_same: identity needs a serial number.
SameToken(p, q) == TokenOf[p] = TokenOf[q] /\ TokenOf[p] \notin Serialless

\* r is in c->requests: added by validation, removed by completion_ack.
InList(r) == phase[r] \in {"active", "answered", "reading", "rollback", "told"}
Answered(r) == phase[r] \in {"answered", "reading", "rollback", "told", "gone", "detached"}
Enumerating(r) == r \in Acquire /\ work[r] \in {"reading", "read", "failed", "cancelled"}

Stopping == shut \in {"stopping", "posted", "done"}
ShutdownPosted == shut \in {"posted", "done"}

\* The coordinator's loop runs and is between callbacks.
Idle == drain = NoDrain /\ ~ShutdownPosted

PostsQueuedButReplies ==
    \/ \E r \in Request : phase[r] \in {"posted", "rollback", "told"} \/ ask[r] \in CancelReasons
    \/ \E s \in Session : closing[s]
    \/ generation # ownerGen

\* Functions posted to the coordinator that it has not run (c->posts, ui_pending).
PostsQueued ==
    \/ \E r \in Request : \/ phase[r] \in {"posted", "rollback", "told"}
                          \/ ask[r] \in CancelReasons \/ reply[r] # "none"
    \/ \E s \in Session : closing[s]
    \/ generation # ownerGen

\* xcc_request_complete: a recorded cancellation replaces the result.
CompleteWith(r, e, newCode, newCancelled) ==
    /\ phase' = [phase EXCEPT ![r] = "answered"]
    /\ error' = [error EXCEPT ![r] = IF newCode[r] # "ok" THEN newCode[r]
                                     ELSE IF newCancelled[r] THEN "cancelled" ELSE e]
Complete(r, e) == CompleteWith(r, e, code, cancelled)

EndSessionsUnanswered(S, why, told, R) ==
    LET hit(r) == r \in R \/ (phase[r] = "active" /\ SessionOf[r] \in S) IN
    /\ sess' = [s \in Session |-> IF s \in S THEN "closed" ELSE sess[s]]
    /\ notice' = [s \in Session |-> IF s \in S /\ told THEN "queued" ELSE notice[s]]
    /\ intent' = [r \in Request |-> IF hit(r) /\ intent[r] = "none" THEN why ELSE intent[r]]
    /\ code' = [r \in Request |-> IF hit(r) /\ code[r] = "ok" THEN why ELSE code[r]]
    /\ cancelled' = [r \in Request |-> cancelled[r] \/ hit(r)]

\* xcc_session_close_internal and xcc_session_invalidate_internal on the open
\* sessions of S, after the requests R have been cancelled: "why" is the error of
\* their requests, and only an invalidation is told to the desktop.
EndSessions(S, why, told, R) ==
    LET hit(r) == InList(r) /\ SessionOf[r] \in S
        cut(r) == r \in R \/ (hit(r) /\ ~Answered(r))
    IN
    /\ sess' = [s \in Session |-> IF s \in S THEN "closed" ELSE sess[s]]
    /\ notice' = [s \in Session |-> IF s \in S /\ told THEN "queued" ELSE notice[s]]
    /\ intent' = [r \in Request |-> IF hit(r) /\ intent[r] = "none" THEN why ELSE intent[r]]
    /\ code' = [r \in Request |-> IF r \in R \/ (cut(r) /\ code[r] = "ok") THEN why ELSE code[r]]
    /\ cancelled' = [r \in Request |-> cancelled[r] \/ cut(r)]

Open == {s \in Session : sess[s] = "open"}

-----------------------------------------------------------------------------
Init ==
    /\ shut = "running" /\ watching = TRUE
    /\ ownerGen = 0 /\ generation = 0
    /\ setting \in Settings
    /\ drain = NoDrain
    /\ phase = [r \in Request |-> "new"]
    /\ intent = [r \in Request |-> "none"] /\ code = [r \in Request |-> "ok"]
    /\ cancelled = [r \in Request |-> FALSE] /\ error = [r \in Request |-> "ok"]
    /\ ask = [r \in Request |-> "never"]
    /\ work = [r \in Request |-> "none"] /\ snap = [r \in Request |-> {}]
    /\ again = [r \in Request |-> FALSE]
    /\ chooser = [r \in Request |-> "none"] /\ choices = [r \in Request |-> {}]
    /\ readingTokens = [r \in Request |-> FALSE]
    /\ reply = [r \in Request |-> "none"] /\ fresh = [r \in Request |-> FALSE]
    /\ chosen = [r \in Request |-> "none"] /\ cand = [r \in Request |-> NoCard]
    /\ sess = [s \in Session |-> "none"] /\ gen = [s \in Session |-> 0]
    /\ grant = [s \in Session |-> NoCard] /\ pending = [s \in Session |-> FALSE]
    /\ expired = [s \in Session |-> FALSE] /\ closing = [s \in Session |-> FALSE]
    /\ notice = [s \in Session |-> "none"]
    /\ card \in [Presence -> {"absent", "in"}]
    /\ \A p, q \in Presence : card[p] = "in" /\ card[q] = "in" /\ p # q => TokenOf[p] # TokenOf[q]
    /\ seen = {p \in Presence : card[p] = "in"}
    /\ events = <<>> /\ gone = {}

-----------------------------------------------------------------------------
\* Callers, on any thread.

\* xcc_session_new blocks until session_new_register has run.
CreateSession(s) ==
    /\ Idle /\ ~Stopping /\ sess[s] = "none"
    /\ sess' = [sess EXCEPT ![s] = "open"]
    /\ gen' = [gen EXCEPT ![s] = generation]
    /\ UNCHANGED <<shutVars, ownerVars, drain, requestVars, closing, notice, grantVars, tokenVars>>

\* xcc_acquire_async, xcc_sign_async: a context that posted its shutdown refuses.
Submit(r) ==
    /\ phase[r] = "new" /\ sess[SessionOf[r]] # "none" /\ shut # "done"
    /\ IF ShutdownPosted
       THEN /\ phase' = [phase EXCEPT ![r] = "detached"]
            /\ error' = [error EXCEPT ![r] = "backend_gone"]
       ELSE /\ phase' = [phase EXCEPT ![r] = "posted"]
            /\ UNCHANGED error
    /\ UNCHANGED <<shutVars, ownerVars, drain, ask, cancelVars, workVars, chooserVars, sessionVars,
                   tokenVars>>

\* xcc_request_cancel: the intent is visible at once, the rest is posted.
Cancel(r, why) ==
    /\ r \in Cancellable /\ ask[r] = "never"
    /\ phase[r] \notin {"new", "gone"} /\ ~Stopping
    /\ intent' = [intent EXCEPT ![r] = IF @ = "none" THEN why ELSE @]
    /\ ask' = [ask EXCEPT ![r] = why]
    /\ UNCHANGED <<shutVars, ownerVars, drain, phase, error, code, cancelled, workVars,
                   chooserVars, sessionVars, tokenVars>>

CloseSession(s) ==
    /\ sess[s] = "open" /\ ~closing[s] /\ ~ShutdownPosted
    /\ closing' = [closing EXCEPT ![s] = TRUE]
    /\ UNCHANGED <<shutVars, ownerVars, drain, requestVars, sess, gen, notice, grantVars, tokenVars>>

SetOwnerGeneration ==
    /\ ownerGen < MaxGeneration /\ ~ShutdownPosted
    /\ ownerGen' = ownerGen + 1
    /\ UNCHANGED <<shutVars, generation, setting, drain, requestVars, sessionVars, tokenVars>>

ShutdownAsync ==
    /\ MayShutDown /\ shut = "running"
    /\ shut' = "asked"
    /\ UNCHANGED <<watching, ownerVars, drain, requestVars, sessionVars, tokenVars>>

\* The chooser's user answers from a view that is current when it answers; a
\* stale view is a reply that waited.  xcc_choose and xcc_ui_cancel drop
\* replies once the context is stopping.
Reply(r) ==
    /\ chooser[r] = "open" /\ reply[r] = "none" /\ ~Stopping
    /\ \E answer \in choices[r] \cup {"dismissed", "failed"} :
           reply' = [reply EXCEPT ![r] = answer]
    /\ fresh' = [fresh EXCEPT ![r] = TRUE]
    /\ UNCHANGED <<shutVars, ownerVars, drain, answerVars, cancelVars, workVars, chooser, choices,
                   readingTokens, chosen, sessionVars, tokenVars>>

\* Time passes the grant's deadline (expires_at).
PassDeadline(s) ==
    /\ grant[s] # NoCard /\ sess[s] = "open" /\ ~expired[s]
    /\ expired' = [expired EXCEPT ![s] = TRUE]
    /\ UNCHANGED <<shutVars, ownerVars, drain, requestVars, sess, gen, closing, notice, grant,
                   pending, cand, tokenVars>>

-----------------------------------------------------------------------------
\* Tokens and the watcher thread.  TokenWatch models its debounce.

Insert(p) ==
    /\ p \in Movable /\ card[p] = "absent"
    /\ \A q \in Presence : card[q] = "in" => TokenOf[q] # TokenOf[p]
    /\ card' = [card EXCEPT ![p] = "in"]
    /\ UNCHANGED <<shutVars, ownerVars, drain, requestVars, sessionVars, seen, events, gone>>

Remove(p) ==
    /\ p \in Movable /\ card[p] = "in"
    /\ card' = [card EXCEPT ![p] = "out"]
    /\ UNCHANGED <<shutVars, ownerVars, drain, requestVars, sessionVars, seen, events, gone>>

\* watch_emit, for a removal or an insertion the watcher has settled.
WatchEmit(p, added) ==
    /\ watching
    /\ \/ /\ ~added /\ p \in seen /\ card[p] = "out"
          /\ seen' = seen \ {p}
       \/ /\ added /\ p \notin seen /\ card[p] = "in"
          /\ \A q \in seen : TokenOf[q] # TokenOf[p]
          /\ seen' = seen \cup {p}
    /\ events' = Append(events, [card |-> p, added |-> added])
    /\ UNCHANGED <<shutVars, ownerVars, drain, requestVars, sessionVars, card, gone>>

\* The same token left and came back within the debounce: no event.
WatchMiss(p, q) ==
    /\ watching /\ p \in seen /\ card[p] = "out" /\ card[q] = "in" /\ TokenOf[p] = TokenOf[q]
    /\ seen' = (seen \ {p}) \cup {q}
    /\ UNCHANGED <<shutVars, ownerVars, drain, requestVars, sessionVars, card, events, gone>>

-----------------------------------------------------------------------------
\* Coordinator: token events.

\* certificate_tokens_dispatch_pending detaches the events queued now; the
\* callback k, on behalf of r, continues once it has handled them.
BeginDrain(k, r) == drain' = [kind |-> k, req |-> r, left |-> Len(events)]

WatchDispatch ==
    /\ Idle /\ events # <<>>
    /\ BeginDrain("watch", NoRequest)
    /\ UNCHANGED <<shutVars, ownerVars, requestVars, sessionVars, tokenVars>>

\* The consents that the removal of p cancels (xcc_acquire_token_event).
RevokedNever(p) == {}
Revoked(p) ==
    {r \in Acquire : /\ phase[r] = "active" /\ chooser[r] = "done" /\ ~cancelled[r]
                     /\ chosen[r] \in Presence /\ SameToken(chosen[r], p)}

\* xcc_acquire_token_event on the others: a chooser is shown anew, a running
\* enumeration repeated (enumerate_again), and a missing one started.
Shown == {r \in Acquire : phase[r] = "active" /\ chooser[r] = "open"}
Watching ==
    {r \in Acquire : /\ phase[r] = "active"
                     /\ chooser[r] = "open" \/ (chooser[r] = "none" /\ Enumerating(r))}
Outdated(p, added) ==
    {r \in Acquire : \/ r \in Watching /\ Enumerating(r)
                     \/ /\ phase[r] = "active" /\ chooser[r] = "done" /\ chosen[r] \in Presence
                        /\ added \/ r \notin Revoked(p)}
Restarted == {r \in Watching : ~Enumerating(r)}

\* The sessions that the removal of p invalidates.
Holders(p) == {s \in Open : grant[s] # NoCard /\ SameToken(grant[s], p)}

\* token_event: the acquisitions first, then the sessions of a removed token.
TokenEvent(p, added) ==
    /\ again' = [r \in Request |-> r \in Outdated(p, added) \/ (again[r] /\ r \notin Restarted)]
    /\ work' = [r \in Request |-> IF r \in Restarted THEN "reading" ELSE work[r]]
    /\ choices' = [r \in Request |-> IF r \in Shown /\ ~added THEN {} ELSE choices[r]]
    /\ readingTokens' = [r \in Request |-> IF r \in Shown THEN added ELSE readingTokens[r]]
    /\ fresh' = [r \in Request |-> fresh[r] /\ ~(r \in Shown /\ (added => ~readingTokens[r]))]
    /\ IF added
       THEN UNCHANGED <<sess, notice, intent, code, cancelled, gone>>
       ELSE /\ EndSessions(Holders(p), "token_removed", TRUE, Revoked(p))
            /\ gone' = gone \cup {p}

DispatchEvent ==
    /\ drain.left > 0
    /\ TokenEvent(Head(events).card, Head(events).added)
    /\ events' = Tail(events)
    /\ drain' = IF drain.kind = "watch" /\ drain.left = 1 THEN NoDrain
                ELSE [kind |-> drain.kind, req |-> drain.req, left |-> drain.left - 1]
    /\ UNCHANGED <<shutVars, ownerVars, answerVars, snap, chooser, reply, chosen, gen, closing,
                   grantVars, card, seen>>

-----------------------------------------------------------------------------
\* Coordinator: starting requests.

\* xcc_request_validate and xcc_session_check_principal.
Validation(r) ==
    IF Stopping THEN "backend_gone"
    ELSE IF intent[r] # "none" \/ code[r] # "ok" \/ cancelled[r] THEN "cancelled"
    ELSE IF sess[SessionOf[r]] = "open" /\ gen[SessionOf[r]] = generation THEN "ok"
    ELSE "no_session"

\* A malformed request is refused before its session is looked at.
RefuseSpec(r) ==
    /\ Idle /\ phase[r] = "posted" /\ r \in setting.malformed
    /\ Complete(r, IF Validation(r) \in {"backend_gone", "cancelled"} THEN Validation(r)
                   ELSE "invalid")
    /\ UNCHANGED <<shutVars, ownerVars, drain, ask, cancelVars, workVars, chooserVars,
                   sessionVars, tokenVars>>

\* xcc_acquire_start: one grant and one unanswered acquisition per session.
AcquireRefusal(r) ==
    IF Validation(r) = "ok" /\ (\/ grant[SessionOf[r]] # NoCard
                                \/ \E q \in Acquire \ {r} : SessionOf[q] = SessionOf[r]
                                                           /\ phase[q] = "active")
    THEN "invalid" ELSE Validation(r)

StartAcquire(r) ==
    /\ Idle /\ phase[r] = "posted" /\ r \notin setting.malformed
    /\ IF AcquireRefusal(r) # "ok"
       THEN Complete(r, AcquireRefusal(r)) /\ UNCHANGED workVars
       ELSE /\ phase' = [phase EXCEPT ![r] = "active"]
            /\ work' = [work EXCEPT ![r] = "reading"]
            /\ again' = [again EXCEPT ![r] = FALSE]
            /\ UNCHANGED <<error, snap>>
    /\ UNCHANGED <<shutVars, ownerVars, drain, ask, cancelVars, chooserVars, sessionVars,
                   tokenVars>>

\* The guards of certificate_broker_perform.
SignRefusalNotPending(r) ==
    IF Validation(r) # "ok" THEN Validation(r)
    ELSE IF grant[SessionOf[r]] = NoCard \/ expired[SessionOf[r]] THEN "device" ELSE "ok"
SignRefusal(r) ==
    IF Validation(r) # "ok" THEN Validation(r)
    ELSE IF pending[SessionOf[r]] THEN "invalid"
    ELSE IF grant[SessionOf[r]] = NoCard \/ expired[SessionOf[r]] THEN "device" ELSE "ok"

\* xcc_sign_start.
StartSign(r) ==
    /\ Idle /\ phase[r] = "posted" /\ r \notin setting.malformed
    /\ IF SignRefusal(r) # "ok"
       THEN Complete(r, SignRefusal(r)) /\ UNCHANGED work
       ELSE /\ phase' = [phase EXCEPT ![r] = "active"]
            /\ work' = [work EXCEPT ![r] = "signing"]
            /\ UNCHANGED error
    /\ UNCHANGED <<shutVars, ownerVars, drain, ask, cancelVars, snap, again, chooserVars,
                   sessionVars, tokenVars>>

-----------------------------------------------------------------------------
\* Workers.

\* enumerate_thread reads the slots, or fails.
EnumerateRead(r) ==
    /\ work[r] = "reading"
    /\ \/ /\ work' = [work EXCEPT ![r] = "read"]
          /\ snap' = [snap EXCEPT ![r] = {p \in Presence : card[p] = "in"}]
       \/ /\ work' = [work EXCEPT ![r] = "failed"]
          /\ UNCHANGED snap
    /\ UNCHANGED <<shutVars, ownerVars, drain, answerVars, cancelVars, again, chooserVars,
                   sessionVars, tokenVars>>

\* sign_thread: operation_still_authorised under the device lock, then the token.
SignWork(r) ==
    /\ work[r] = "signing"
    /\ LET s == SessionOf[r]
           authorised == ~cancelled[r] /\ sess[s] = "open" /\ ~expired[s]
       IN \E outcome \in {"signed", "failed", "removed"} :
              /\ outcome # "failed" => authorised
              /\ work' = [work EXCEPT ![r] = outcome]
    /\ UNCHANGED <<shutVars, ownerVars, drain, answerVars, cancelVars, snap, again,
                   chooserVars, sessionVars, tokenVars>>

-----------------------------------------------------------------------------
\* Coordinator: an enumeration's result (on_enumerated).

\* certificate_tokens_enumerate_finish reports a cancelled task, then the
\* queued events are handled while r still counts as enumerating.
EnumerationDone(r) ==
    /\ Idle /\ work[r] \in {"read", "failed"} /\ r \in Acquire
    /\ work' = [work EXCEPT ![r] = IF cancelled[r] THEN "cancelled" ELSE @]
    /\ BeginDrain("snapshot", r)
    /\ UNCHANGED <<shutVars, ownerVars, answerVars, cancelVars, snap, again, chooserVars,
                   sessionVars, tokenVars>>

Deciding(k, r) == drain.kind = k /\ drain.req = r /\ drain.left = 0

\* A recorded consent that nothing has cancelled.
Uncancelled(r) == code[r] = "ok" /\ chosen[r] \in Presence /\ ~cancelled[r]

SnapshotFor(r) == Deciding("snapshot", r) /\ ~(intent[r] # "none" /\ chooser[r] # "open")

\* on_enumerated frees its candidates; a restarted enumeration reads anew.
DropSnapshot(r, next) ==
    /\ work' = [work EXCEPT ![r] = next]
    /\ snap' = [snap EXCEPT ![r] = {}]

\* Acquisitions that end before any chooser: the enumeration was cancelled or
\* failed, or the user may not or cannot be asked.
EndsUnshown(r) ==
    /\ SnapshotFor(r) /\ chooser[r] = "none"
    /\ \/ work[r] = "cancelled" /\ Complete(r, "cancelled")
       \/ work[r] = "failed" /\ Complete(r, "device")
       \/ work[r] = "read" /\ r \in setting.silent /\ Complete(r, "interaction_required")
       \/ work[r] = "read" /\ r \notin setting.silent /\ ~setting.display /\ Complete(r, "no_display")

\* Requests that end here: cancelled before a chooser, failed, refused, or
\* with a consent whose candidate is not in the fresh snapshot.
SnapshotEnds(r) ==
    LET choice == IF chooser[r] = "done" /\ work[r] = "read"
                  THEN {p \in snap[r] \cap Matching : SameToken(chosen[r], p)} ELSE {}
    IN
    /\ \/ /\ Deciding("snapshot", r) /\ intent[r] # "none" /\ chooser[r] # "open"
          /\ Complete(r, "cancelled")
       \/ /\ SnapshotFor(r) /\ chooser[r] = "done" /\ Uncancelled(r)
          /\ \/ work[r] # "read" /\ Complete(r, "device")
             \/ work[r] = "read" /\ ~again[r] /\ choice = {} /\ Complete(r, "token_removed")
       \/ EndsUnshown(r)
    /\ DropSnapshot(r, "none")
    /\ drain' = NoDrain
    /\ UNCHANGED <<shutVars, ownerVars, ask, cancelVars, again, chooserVars, sessionVars,
                   tokenVars>>

\* A consent that waited for this snapshot is settled by on_chooser_done, with
\* the fresh candidate, or with the refusal that made the candidate irrelevant.
SnapshotConsent(r) ==
    /\ SnapshotFor(r) /\ chooser[r] = "done"
    /\ \/ /\ ~Uncancelled(r)
          /\ UNCHANGED chosen
       \/ /\ Uncancelled(r)
          /\ work[r] = "read" /\ ~again[r]
          /\ \E p \in snap[r] \cap Matching :
                 SameToken(chosen[r], p) /\ chosen' = [chosen EXCEPT ![r] = p]
    /\ DropSnapshot(r, "none")
    /\ BeginDrain("consent", r)
    /\ UNCHANGED <<shutVars, ownerVars, answerVars, cancelVars, again, chooser, choices,
                   readingTokens, reply, fresh, sessionVars, tokenVars>>

\* start_enumeration once more: an event arrived behind the snapshot.
SnapshotAgain(r) ==
    /\ SnapshotFor(r) /\ again[r] /\ work[r] = "read"
    /\ \/ chooser[r] = "done" /\ Uncancelled(r)
       \/ chooser[r] # "done" /\ r \notin setting.silent /\ setting.display
    /\ DropSnapshot(r, "reading")
    /\ again' = [again EXCEPT ![r] = FALSE]
    /\ drain' = NoDrain
    /\ UNCHANGED <<shutVars, ownerVars, answerVars, cancelVars, chooserVars, sessionVars,
                   tokenVars>>

\* The refresh of an open chooser failed: its cancellation will close it.
SnapshotFailsChooser(r) ==
    /\ SnapshotFor(r) /\ chooser[r] = "open" /\ work[r] # "read"
    /\ code' = [code EXCEPT ![r] = IF work[r] = "failed" THEN "device" ELSE @]
    /\ cancelled' = [cancelled EXCEPT ![r] = TRUE]
    /\ DropSnapshot(r, "none")
    /\ drain' = NoDrain
    /\ UNCHANGED <<shutVars, ownerVars, answerVars, intent, again, chooserVars,
                   sessionVars, tokenVars>>

\* certificate_chooser_show or certificate_chooser_update: a new revision.
SnapshotShown(r) ==
    /\ SnapshotFor(r) /\ chooser[r] # "done" /\ work[r] = "read" /\ ~again[r]
    /\ r \notin setting.silent /\ setting.display
    /\ chooser' = [chooser EXCEPT ![r] = "open"]
    /\ choices' = [choices EXCEPT ![r] = snap[r] \cap Matching]
    /\ readingTokens' = [readingTokens EXCEPT ![r] = FALSE]
    /\ fresh' = [fresh EXCEPT ![r] = FALSE]
    /\ DropSnapshot(r, "none")
    /\ drain' = NoDrain
    /\ UNCHANGED <<shutVars, ownerVars, answerVars, cancelVars, again, reply, chosen,
                   sessionVars, tokenVars>>

-----------------------------------------------------------------------------
\* Coordinator: the chooser's answer (chooser_finish, on_chooser_done).

FinishChooser(r, answer) ==
    /\ chooser' = [chooser EXCEPT ![r] = "done"]
    /\ chosen' = [chosen EXCEPT ![r] = answer]
    /\ choices' = [choices EXCEPT ![r] = {}]
    /\ readingTokens' = [readingTokens EXCEPT ![r] = FALSE]
    /\ fresh' = [fresh EXCEPT ![r] = FALSE]
    /\ BeginDrain("consent", r)

\* certificate_chooser_choose takes only the current revision; cancel and fail
\* carry none.  A reply to a finished chooser finds no interaction.
HandleReply(r) ==
    /\ Idle /\ reply[r] # "none"
    /\ IF chooser[r] = "open" /\ (reply[r] \in Presence => fresh[r] /\ reply[r] \in choices[r])
       THEN FinishChooser(r, reply[r])
       ELSE /\ fresh' = [fresh EXCEPT ![r] = FALSE]
            /\ UNCHANGED <<drain, chooser, choices, readingTokens, chosen>>
    /\ reply' = [reply EXCEPT ![r] = "none"]
    /\ UNCHANGED <<shutVars, ownerVars, answerVars, cancelVars, workVars, sessionVars,
                   tokenVars>>

\* on_cancelled_idle.
ChooserCancelled(r) ==
    /\ Idle /\ chooser[r] = "open" /\ cancelled[r]
    /\ FinishChooser(r, "dismissed")
    /\ UNCHANGED <<shutVars, ownerVars, answerVars, cancelVars, workVars, reply, sessionVars,
                   tokenVars>>

ConsentWaitsAlways(r) ==
    /\ Deciding("consent", r)
    /\ drain' = NoDrain
    /\ UNCHANGED <<shutVars, ownerVars, requestVars, sessionVars, tokenVars>>

\* A worker is still reading: its callback settles the recorded consent.
ConsentWaits(r) ==
    /\ Deciding("consent", r) /\ Enumerating(r)
    /\ drain' = NoDrain
    /\ UNCHANGED <<shutVars, ownerVars, requestVars, sessionVars, tokenVars>>

ConsentFor(r) == Deciding("consent", r) /\ ~Enumerating(r)
Consented(r) == ConsentFor(r) /\ Uncancelled(r)

\* Why finish_acquire refuses a consent.
Refusal(r) ==
    IF intent[r] # "none" THEN "cancelled"
    ELSE IF sess[SessionOf[r]] # "open" THEN "no_session"
    ELSE IF TokenOf[chosen[r]] \in Serialless THEN "device" ELSE "ok"

ConsentEnds(r) ==
    /\ \/ ConsentFor(r) /\ chosen[r] = "failed" /\ Complete(r, "device")
       \/ ConsentFor(r) /\ chosen[r] # "failed" /\ ~Consented(r) /\ Complete(r, "cancelled")
       \/ Consented(r) /\ Refusal(r) # "ok" /\ Complete(r, Refusal(r))
    /\ drain' = NoDrain
    /\ UNCHANGED <<shutVars, ownerVars, ask, cancelVars, workVars, chooserVars, sessionVars,
                   tokenVars>>

\* finish_acquire and xcc_session_grant.
Commit(r) ==
    /\ Consented(r) /\ Refusal(r) = "ok"
    /\ grant' = [grant EXCEPT ![SessionOf[r]] = chosen[r]]
    /\ pending' = [pending EXCEPT ![SessionOf[r]] = TRUE]
    /\ expired' = [expired EXCEPT ![SessionOf[r]] = FALSE]
    /\ cand' = [cand EXCEPT ![r] = chosen[r]]
    /\ Complete(r, "ok")
    /\ drain' = NoDrain
    /\ UNCHANGED <<shutVars, ownerVars, ask, cancelVars, workVars, chooserVars, sess, gen,
                   closing, notice, tokenVars>>

-----------------------------------------------------------------------------
\* Coordinator: a signature's result (on_signed, on_operation_done).

SignDone(r) ==
    /\ Idle /\ r \in Sign /\ work[r] \in {"signed", "failed", "removed"}
    /\ LET ended == IF work[r] = "removed" /\ ~cancelled[r]
                    THEN {SessionOf[r]} \cap Open ELSE {}
           result == IF cancelled[r] THEN "cancelled"
                     ELSE IF work[r] = "removed" THEN "token_removed"
                     ELSE IF work[r] = "signed" THEN "ok" ELSE "device"
       IN /\ EndSessions(ended, "token_removed", TRUE, {})
          /\ CompleteWith(r, result, code', cancelled')
    /\ work' = [work EXCEPT ![r] = "none"]
    /\ UNCHANGED <<shutVars, ownerVars, drain, ask, snap, again, chooserVars, gen, closing,
                   grantVars, tokenVars>>

-----------------------------------------------------------------------------
\* Coordinator: cancellation, ends of sessions, owner changes.

RunCancelRecordsOnly(r) ==
    /\ Idle /\ ask[r] \in CancelReasons
    /\ code' = [code EXCEPT ![r] = IF ~Answered(r) /\ @ = "ok" THEN ask[r] ELSE @]
    /\ ask' = [ask EXCEPT ![r] = "ran"]
    /\ UNCHANGED <<shutVars, ownerVars, drain, phase, error, intent, cancelled, workVars,
                   chooserVars, sessionVars, tokenVars>>
RunCancel(r) ==
    /\ Idle /\ ask[r] \in CancelReasons
    /\ code' = [code EXCEPT ![r] = IF ~Answered(r) /\ @ = "ok" THEN ask[r] ELSE @]
    /\ cancelled' = [cancelled EXCEPT ![r] = @ \/ ~Answered(r)]
    /\ ask' = [ask EXCEPT ![r] = "ran"]
    /\ UNCHANGED <<shutVars, ownerVars, drain, phase, error, intent, workVars, chooserVars,
                   sessionVars, tokenVars>>

RunClose(s) ==
    /\ Idle /\ closing[s]
    /\ EndSessions({s} \cap Open, "no_session", FALSE, {})
    /\ closing' = [closing EXCEPT ![s] = FALSE]
    /\ UNCHANGED <<shutVars, ownerVars, drain, answerVars, workVars, chooserVars, gen,
                   grantVars, tokenVars>>

\* on_lifetime_expired, a grace period after the deadline.
LifetimeExpired(s) ==
    /\ Idle /\ expired[s] /\ grant[s] # NoCard /\ sess[s] = "open"
    /\ EndSessions({s}, "device", TRUE, {})
    /\ UNCHANGED <<shutVars, ownerVars, drain, answerVars, workVars, chooserVars, gen, closing,
                   grantVars, tokenVars>>

RunGenerationUnanswered ==
    /\ Idle /\ generation # ownerGen
    /\ generation' = generation + 1
    /\ LET foreign(r) == phase[r] = "active" /\ gen[SessionOf[r]] # generation' IN
       /\ intent' = [r \in Request |-> IF foreign(r) THEN "owner_gone" ELSE intent[r]]
       /\ code' = [r \in Request |-> IF foreign(r) THEN "owner_gone" ELSE code[r]]
       /\ cancelled' = [r \in Request |-> cancelled[r] \/ foreign(r)]
    /\ sess' = [s \in Session |-> IF s \in Open /\ gen[s] # generation' THEN "closed" ELSE sess[s]]
    /\ UNCHANGED <<shutVars, ownerGen, setting, drain, answerVars, workVars, chooserVars, gen, closing,
                   notice, grantVars, tokenVars>>

\* generation(): requests of another owner are cancelled whatever their state,
\* and its sessions are closed without a notice.
RunGeneration ==
    /\ Idle /\ generation # ownerGen
    /\ generation' = generation + 1
    /\ LET foreign(r) == InList(r) /\ gen[SessionOf[r]] # generation' IN
       /\ intent' = [r \in Request |-> IF foreign(r) THEN "owner_gone" ELSE intent[r]]
       /\ code' = [r \in Request |-> IF foreign(r) /\ ~Answered(r) THEN "owner_gone" ELSE code[r]]
       /\ cancelled' = [r \in Request |-> cancelled[r] \/ (foreign(r) /\ ~Answered(r))]
    /\ sess' = [s \in Session |-> IF s \in Open /\ gen[s] # generation' THEN "closed" ELSE sess[s]]
    /\ UNCHANGED <<shutVars, ownerGen, setting, drain, answerVars, workVars, chooserVars, gen, closing,
                   notice, grantVars, tokenVars>>

-----------------------------------------------------------------------------
\* Delivery on the desktop thread.  completion() reads the intent, and a
\* committed acquisition it overrides goes back to the coordinator first.

DesktopIdle == \A r \in Request : phase[r] # "reading"

ReadIntentKeepsGrant(r) ==
    /\ DesktopIdle /\ phase[r] \in {"answered", "detached"}
    /\ error' = [error EXCEPT ![r] = IF intent[r] # "none" THEN intent[r] ELSE @]
    /\ phase' = [phase EXCEPT ![r] = IF @ = "detached" THEN "gone" ELSE "reading"]
    /\ UNCHANGED <<shutVars, ownerVars, drain, ask, cancelVars, workVars, chooserVars,
                   sessionVars, tokenVars>>
ReadIntent(r) ==
    /\ DesktopIdle /\ phase[r] \in {"answered", "detached"}
    /\ LET e == IF intent[r] # "none" THEN intent[r] ELSE error[r] IN
       /\ error' = [error EXCEPT ![r] = e]
       /\ phase' = [phase EXCEPT ![r] =
                       IF cand[r] # NoCard /\ e # "ok" THEN "rollback"
                       ELSE IF @ = "detached" THEN "gone" ELSE "reading"]
    /\ UNCHANGED <<shutVars, ownerVars, drain, ask, cancelVars, workVars, chooserVars,
                   sessionVars, tokenVars>>

DeliverKeepsPending(r) ==
    /\ phase[r] = "reading"
    /\ phase' = [phase EXCEPT ![r] = "told"]
    /\ UNCHANGED <<shutVars, ownerVars, drain, error, ask, cancelVars, workVars, chooserVars,
                   sessionVars, tokenVars>>
Deliver(r) ==
    /\ phase[r] = "reading"
    /\ phase' = [phase EXCEPT ![r] = "told"]
    /\ pending' = [pending EXCEPT ![SessionOf[r]] = @ /\ cand[r] = NoCard]
    /\ UNCHANGED <<shutVars, ownerVars, drain, error, ask, cancelVars, workVars, chooserVars,
                   sess, gen, closing, notice, grant, expired, cand, tokenVars>>

\* rollback_acquisition and xcc_acquire_rollback, on the coordinator.
Rollback(r) ==
    /\ Idle /\ phase[r] = "rollback"
    /\ phase' = [phase EXCEPT ![r] = "answered"]
    /\ grant' = [grant EXCEPT ![SessionOf[r]] = NoCard]
    /\ pending' = [pending EXCEPT ![SessionOf[r]] = FALSE]
    /\ expired' = [expired EXCEPT ![SessionOf[r]] = FALSE]
    /\ cand' = [cand EXCEPT ![r] = NoCard]
    /\ UNCHANGED <<shutVars, ownerVars, drain, error, ask, cancelVars, workVars, chooserVars,
                   sess, gen, closing, notice, tokenVars>>

\* completion_ack: the request is freed; what nothing reads again is forgotten.
CompletionAck(r) ==
    /\ Idle /\ phase[r] = "told"
    /\ phase' = [phase EXCEPT ![r] = "gone"]
    /\ intent' = [intent EXCEPT ![r] = "none"] /\ code' = [code EXCEPT ![r] = "ok"]
    /\ cancelled' = [cancelled EXCEPT ![r] = FALSE]
    /\ again' = [again EXCEPT ![r] = FALSE] /\ chosen' = [chosen EXCEPT ![r] = "none"]
    /\ UNCHANGED <<shutVars, ownerVars, drain, error, ask, work, snap, chooser, choices,
                   readingTokens, reply, fresh, sessionVars, tokenVars>>

DeliverNotice(s) ==
    /\ DesktopIdle /\ notice[s] = "queued"
    /\ notice' = [notice EXCEPT ![s] = "told"]
    /\ UNCHANGED <<shutVars, ownerVars, drain, requestVars, sess, gen, closing, grantVars,
                   tokenVars>>

-----------------------------------------------------------------------------
\* Shutdown.

ShutdownStartNoCancel ==
    /\ Idle /\ shut = "asked"
    /\ shut' = "stopping"
    /\ intent' = [r \in Request |-> IF InList(r) THEN "backend_gone" ELSE intent[r]]
    /\ code' = [r \in Request |-> IF InList(r) /\ ~Answered(r) THEN "backend_gone" ELSE code[r]]
    /\ notice' = [s \in Session |-> IF s \in Open THEN "queued" ELSE notice[s]]
    /\ UNCHANGED <<watching, ownerVars, drain, answerVars, cancelled, workVars, chooserVars, sess,
                   gen, closing, grantVars, tokenVars>>
ShutdownStart ==
    /\ Idle /\ shut = "asked"
    /\ shut' = "stopping"
    /\ intent' = [r \in Request |-> IF InList(r) THEN "backend_gone" ELSE intent[r]]
    /\ code' = [r \in Request |-> IF InList(r) /\ ~Answered(r) THEN "backend_gone" ELSE code[r]]
    /\ cancelled' = [r \in Request |-> cancelled[r] \/ (InList(r) /\ ~Answered(r))]
    /\ sess' = [s \in Session |-> IF s \in Open THEN "closed" ELSE sess[s]]
    /\ notice' = [s \in Session |-> IF s \in Open THEN "queued" ELSE notice[s]]
    /\ UNCHANGED <<watching, ownerVars, drain, answerVars, workVars, chooserVars, gen, closing,
                   grantVars, tokenVars>>

StopWatch ==
    /\ shut = "stopping" /\ watching
    /\ watching' = FALSE
    /\ UNCHANGED <<shut, ownerVars, drain, requestVars, sessionVars, tokenVars>>

\* xcc_context_check_shutdown, which a timer repeats.
CheckShutdown ==
    /\ Idle /\ shut = "stopping" /\ ~watching
    /\ \A r \in Request : ~InList(r) /\ chooser[r] # "open"
    /\ ~PostsQueued
    /\ shut' = "posted"
    /\ events' = <<>>
    /\ UNCHANGED <<watching, ownerVars, drain, requestVars, sessionVars, card, seen, gone>>

ShutdownDelivered ==
    /\ DesktopIdle /\ shut = "posted"
    /\ shut' = "done"
    /\ UNCHANGED <<watching, ownerVars, drain, requestVars, sessionVars, tokenVars>>

-----------------------------------------------------------------------------
Callers ==
    \/ SetOwnerGeneration \/ ShutdownAsync
    \/ \E s \in Session : CreateSession(s) \/ CloseSession(s) \/ PassDeadline(s)
    \/ \E r \in Request : Submit(r) \/ Reply(r) \/ \E why \in CancelReasons : Cancel(r, why)

Tokens ==
    \E p \in Presence :
        \/ Insert(p) \/ Remove(p)
        \/ \E added \in BOOLEAN : WatchEmit(p, added)
        \/ \E q \in Presence : WatchMiss(p, q)

Workers ==
    \/ StopWatch
    \/ \E r \in Acquire : EnumerateRead(r)
    \/ \E r \in Sign : SignWork(r)

Coordinator ==
    \/ WatchDispatch \/ DispatchEvent
    \/ RunGeneration \/ ShutdownStart \/ CheckShutdown
    \/ \E s \in Session : RunClose(s) \/ LifetimeExpired(s)
    \/ \E r \in Sign : StartSign(r) \/ SignDone(r)
    \/ \E r \in Request : RefuseSpec(r) \/ RunCancel(r) \/ CompletionAck(r)
    \/ \E r \in Acquire :
        \/ StartAcquire(r) \/ EnumerationDone(r)
        \/ SnapshotEnds(r) \/ SnapshotConsent(r) \/ SnapshotAgain(r)
        \/ SnapshotFailsChooser(r) \/ SnapshotShown(r)
        \/ HandleReply(r) \/ ChooserCancelled(r)
        \/ ConsentWaits(r) \/ ConsentEnds(r) \/ Commit(r) \/ Rollback(r)

Desktop ==
    \/ ShutdownDelivered
    \/ \E r \in Request : ReadIntent(r) \/ Deliver(r)
    \/ \E s \in Session : DeliverNotice(s)

Next == Callers \/ Tokens \/ Workers \/ Coordinator \/ Desktop

Spec == Init /\ [][Next]_vars

\* The three kinds of thread of the program run; users, callers and cards may not.
FairSpec == Spec /\ WF_vars(Coordinator) /\ WF_vars(Desktop) /\ WF_vars(Workers)

-----------------------------------------------------------------------------
\* What must hold.

\* The acquisitions that hold a grant they have not been told of.
Undelivered(s) ==
    {r \in Acquire : SessionOf[r] = s /\ cand[r] # NoCard
                     /\ phase[r] \in {"answered", "reading", "rollback"}}

\* The assertion of xcc_acquire_rollback (acquire.c): the grant it takes back
\* is still pending, whoever else used the session meanwhile.
RollbackFindsPendingGrant ==
    \A r \in Acquire : phase[r] = "rollback" =>
        pending[SessionOf[r]] /\ grant[SessionOf[r]] = cand[r]

\* A pending grant (grant_pending) has exactly one acquisition that will either
\* hand it over or take it back, however cancels, closes and retries overlap.
PendingGrantHasOneOwner ==
    \A s \in Session :
        IF pending[s]
        THEN \E r \in Acquire : Undelivered(s) = {r} /\ cand[r] = grant[s]
        ELSE Undelivered(s) = {}

\* A grant that signatures may use was reported as a success to an acquisition
\* of that session: an acquisition told an error leaves no grant behind.
UsableGrantWasReported ==
    \A s \in Session : grant[s] # NoCard /\ ~pending[s] =>
        \E r \in Acquire : /\ SessionOf[r] = s /\ cand[r] = grant[s]
                           /\ phase[r] \in {"told", "gone"} /\ error[r] = "ok"

\* token_event ends every grant on a removed token, and no consent given before
\* or while the removal waits in the queue creates one afterwards.
NoGrantOnRemovedToken ==
    \A s \in Open : grant[s] \notin gone

\* An acquisition the coordinator works on always has something that will
\* answer it: an enumeration, an open chooser, or the callback in progress.
AcquisitionContinues ==
    \A r \in Acquire : phase[r] = "active" /\ drain.req # r =>
        Enumerating(r) \/ chooser[r] = "open"

\* A signature runs on the token only under a grant whose acquisition has been
\* (or is just being) reported: certificate_broker_perform refuses a pending one.
SignatureUsesReportedGrant ==
    \A r \in Sign : work[r] \in {"signing", "signed", "removed"} =>
        \E q \in Acquire : /\ SessionOf[q] = SessionOf[r] /\ cand[q] = grant[SessionOf[r]]
                           /\ phase[q] \in {"told", "gone"} /\ error[q] = "ok"

\* Once xcc_context_check_shutdown has stopped the loop nothing is lost in it:
\* no request, worker, chooser or reply, open session or pending grant remains.
ShutdownLeavesNothing ==
    ShutdownPosted =>
        /\ \A r \in Request : /\ phase[r] \in {"new", "gone", "detached"}
                              /\ work[r] = "none" /\ chooser[r] # "open" /\ reply[r] = "none"
        /\ \A s \in Session : sess[s] # "open" /\ ~pending[s] /\ ~closing[s]

\* After a session's invalidation has been delivered to the desktop, no request
\* of it is reported as a success, whatever was queued (completion).
NoSuccessAfterNotice ==
    [][\A r \in Request : phase[r] # "told" /\ phase'[r] = "told" /\ error'[r] = "ok"
           => notice[SessionOf[r]] # "told"]_vars

\* completion decides on success only while the request's session is open and
\* belongs to the current frontend owner.
SuccessDecidedOnLiveSession ==
    [][\A r \in Request : phase[r] = "answered" /\ phase'[r] = "reading" /\ error'[r] = "ok"
           => sess[SessionOf[r]] = "open" /\ gen[SessionOf[r]] = generation]_vars

\* A request whose cancellation is recorded is answered, whatever it waits for.
\* One that can show the user nothing waits for nobody: without a display, with
\* interaction forbidden, or with a specification that is refused, it is answered
\* without a cancellation.
Unattended(r) == ~setting.display \/ r \in setting.malformed \cup setting.silent

RequestsAreAnswered ==
    \A r \in Request :
        ((intent[r] # "none" /\ phase[r] # "new") \/ (phase[r] = "posted" /\ Unattended(r)))
            ~> (phase[r] \in {"told", "gone"})

\* xcc_context_shutdown_async completes: workers, choosers and queued functions
\* all settle once it has begun.
ShutdownCompletes == (shut = "asked") ~> (shut = "done")

\* The abstract specification.  A request's answer is decided when completion
\* reads its intent; the holder is the acquisition with a committed candidate.
DecidedAnswer(r) ==
    IF phase[r] \in {"reading", "told", "gone"}
    THEN IF error[r] = "ok" THEN "ok" ELSE "error"
    ELSE "waiting"

Holding(s) == {r \in Acquire : SessionOf[r] = s /\ cand[r] # NoCard}

Lifecycle == INSTANCE GrantLifecycle WITH
    life   <- [s \in Session |-> IF sess[s] = "none" THEN "none"
                                 ELSE IF sess[s] = "open" THEN "alive" ELSE "ended"],
    holder <- [s \in Session |-> IF Holding(s) = {} THEN NoRequest
                                 ELSE CHOOSE r \in Acquire : r \in Holding(s)],
    answer <- [r \in Request |-> DecidedAnswer(r)]

\* The core implements the grant's life cycle: callers see one decision per
\* request, and only grants they were told of are ever used.
ImplementsGrantLifecycle == Lifecycle!GrantSpec

-----------------------------------------------------------------------------
\* The inductive invariant behind the grant's ownership (Core_proofs).

\* Workers, choosers and callbacks of an acquisition exist only while it is
\* unanswered; its consent is decided after its chooser has closed.
AcquisitionInv ==
    /\ \A r \in Acquire : /\ phase[r] # "active" => work[r] = "none" /\ chooser[r] # "open"
                          /\ work[r] \in {"none", "reading", "read", "failed", "cancelled"}
    /\ drain.kind \in {"consent", "snapshot"} =>
           drain.req \in Acquire /\ phase[drain.req] = "active"
    /\ drain.kind = "consent" => chooser[drain.req] = "done"

\* A committed candidate is the session's grant, at most one request holds it,
\* it is pending until completion has reported it, and then its error is none.
HolderInv ==
    /\ \A r \in Request : cand[r] # NoCard =>
           /\ r \in Acquire /\ cand[r] = grant[SessionOf[r]]
           /\ phase[r] \in {"answered", "reading", "rollback", "told", "gone"}
           /\ pending[SessionOf[r]] <=> phase[r] \in {"answered", "reading", "rollback"}
           /\ phase[r] \in {"reading", "told", "gone"} => error[r] = "ok"
    /\ \A q, r \in Request :
           cand[q] # NoCard /\ cand[r] # NoCard /\ SessionOf[q] = SessionOf[r] => q = r
    /\ \A r \in Request : phase[r] = "rollback" => cand[r] # NoCard
    /\ \A s \in Session : grant[s] # NoCard =>
           \E r \in Acquire : SessionOf[r] = s /\ cand[r] # NoCard
    /\ \A s \in Session : pending[s] => grant[s] # NoCard

\* The session of an unanswered acquisition has no grant and no other one; the
\* session of a running signature has a grant that is not pending.
UseInv ==
    /\ \A r \in Acquire : phase[r] = "active" => grant[SessionOf[r]] = NoCard
    /\ \A q, r \in Acquire :
           phase[q] = "active" /\ phase[r] = "active" /\ SessionOf[q] = SessionOf[r] => q = r
    /\ \A r \in Sign : work[r] # "none" =>
           grant[SessionOf[r]] # NoCard /\ ~pending[SessionOf[r]]

GrantInv == AcquisitionInv /\ HolderInv /\ UseInv
=============================================================================
