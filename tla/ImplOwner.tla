------------------------------ MODULE ImplOwner ------------------------------
(***************************************************************************)
(* The D-Bus adapter (certificate-impl.c, request-impl.c, session-impl.c): *)
(* one main thread that serves the frontend, the bus that says who the     *)
(* frontend is, and the core's coordinator behind two queues.              *)
(*                                                                         *)
(* posts is the coordinator's FIFO of functions (xcc_context_post), and    *)
(* deliver the main thread's FIFO of callbacks (XccDispatch).  The calls a *)
(* loop posts for several requests or sessions are one entry: they touch   *)
(* different objects.  A handler that waits for the coordinator            *)
(* (xcc_session_new, xcc_session_check_principal), or whose post can meet  *)
(* a queue closed since its first check, is split there: variable main     *)
(* says where the main thread is, and it does nothing else meanwhile.      *)
(*                                                                         *)
(* Abstracted: the options of a call and the app_id (a call with bad ones  *)
(* is answered and changes nothing), what a request does once started      *)
(* (module Core), GetCapabilities (it keeps nothing), the acknowledgement *)
(* of a completion, the texts of errors.                                   *)
(* A bus connection that does not own the name is refused whenever it      *)
(* calls, so only calls that pass the cached owner appear.                 *)
(***************************************************************************)
EXTENDS Naturals, Sequences, FiniteSets

CONSTANTS
    Frontend,       \* unique names that come to own the portal's name
    NoOwner,        \* nobody owns it, or GetNameOwner failed
    Sess,           \* session objects
    Path,           \* object paths
    PathOf,         \* the path a session is created at
    NoSess,         \* no session
    Call,           \* calls of AcquireCredential and Sign
    MayShutDown,    \* bound: whether the backend is told to quit
    LookupMayFail,  \* whether GetNameOwner may time out
    MaxChanges      \* bound: changes of the owner on the bus

ASSUME ImplAssumption ==
    /\ NoOwner \notin Frontend
    /\ NoSess \notin Sess
    /\ PathOf \in [Sess -> Path]
    /\ MaxChanges \in Nat
    /\ LookupMayFail \in BOOLEAN

VARIABLES
    bus,        \* who owns the name on the bus
    changes,    \* how often that has changed (bound)
    watch,      \* owner notifications on their way
    cached,     \* impl->frontend_owner
    resolved,   \* impl->owner_resolved
    ownerGen,   \* impl->owner_generation
    main,       \* where the main thread is
    table,      \* impl->sessions
    owner,      \* session->owner
    gen,        \* owner_generation of a core session
    sess,       \* core session: new, open, closed
    exported,   \* exported sessions
    told,       \* sessions whose SessionInvalidated was emitted
    tx,         \* transaction of a call: new, begun, live, answered
    of,         \* its session
    sender,     \* its caller
    mark,       \* its cancelled_code
    onBus,      \* calls whose Request is exported
    answer,     \* what the call was answered
    core,       \* its core request: none, posted, active, decided, done
    result,     \* the core's verdict on it
    intent,     \* requests whose cancel_intent is set
    cancelled,  \* requests whose cancellable is cancelled
    posts, deliver,
    batch,      \* callbacks the main loop has collected
    coreGen,    \* the generation the coordinator has applied
    stop        \* shutdown: running, asked, stopping, posted, done

busVars   == <<bus, changes, watch>>
ownerVars == <<cached, resolved, ownerGen>>
sessVars  == <<table, owner, gen, sess, exported, told>>
callVars  == <<tx, of, sender, mark, onBus, answer>>
coreVars  == <<core, result, intent, cancelled>>
queueVars == <<posts, deliver, batch>>
vars == <<busVars, ownerVars, main, sessVars, callVars, coreVars, queueVars, coreGen, stop>>

Owner == Frontend \cup {NoOwner}
Code  == {"none", "owner_gone", "no_session"}
Post  == [op: {"gen", "new", "check", "start", "cancel", "close", "stop"},
          gen: Nat, calls: SUBSET Call, sess: SUBSET Sess]
Callback == [op: {"completion", "notice", "shutdown"}, calls: SUBSET Call, sess: SUBSET Sess]
At(where, c, s) == [at |-> where, call |-> c, sess |-> s]
Idle == At("idle", {}, {})

OwnerTypeOK ==
    /\ bus \in Owner /\ changes \in 0..MaxChanges /\ watch \in Seq(Owner)
    /\ cached \in Owner /\ resolved \in BOOLEAN /\ ownerGen \in Nat /\ coreGen \in Nat

SessTypeOK ==
    /\ table \in [Path -> Sess \cup {NoSess}]
    /\ owner \in [Sess -> Owner]
    /\ gen \in [Sess -> Nat]
    /\ sess \in [Sess -> {"new", "open", "closed"}]
    /\ exported \in SUBSET Sess /\ told \in SUBSET Sess

CallTypeOK ==
    /\ tx \in [Call -> {"new", "begun", "live", "answered"}]
    /\ of \in [Call -> Sess \cup {NoSess}]
    /\ sender \in [Call -> Owner]
    /\ mark \in [Call -> Code]
    /\ answer \in [Call -> Code \cup {"success", "error"}]
    /\ onBus \in SUBSET Call
    /\ core \in [Call -> {"none", "posted", "active", "decided", "done"}]
    /\ result \in [Call -> {"ok", "error"}]
    /\ intent \in SUBSET Call /\ cancelled \in SUBSET Call

QueueTypeOK ==
    /\ main \in [at: {"idle", "create", "created", "refused", "check", "submit", "left"},
                 call: SUBSET Call, sess: SUBSET Sess]
    /\ posts \in Seq(Post) /\ deliver \in Seq(Callback) /\ batch \in Nat
    /\ stop \in {"running", "asked", "stopping", "posted", "done"}

TypeOK == OwnerTypeOK /\ SessTypeOK /\ CallTypeOK /\ QueueTypeOK

-----------------------------------------------------------------------------
Stopping == stop \in {"stopping", "posted", "done"}
QueueClosed == stop \in {"posted", "done"}
Requests == {c \in Call : core[c] \in {"active", "decided"}}
Live == {c \in Call : tx[c] = "live"}
Kept == {s \in Sess : \E p \in Path : table[p] = s}

Entry(o, g, C, S) == [op |-> o, gen |-> g, calls |-> C, sess |-> S]
Posted(entries) == IF QueueClosed THEN posts ELSE posts \o entries
Tell(o, C, S) == Append(deliver, [op |-> o, calls |-> C, sess |-> S])

Init ==
    /\ bus \in Owner /\ changes = 0 /\ watch = <<bus>>
    /\ cached = NoOwner /\ resolved = FALSE /\ ownerGen = 0 /\ coreGen = 0
    /\ main = Idle /\ stop = "running"
    /\ table = [p \in Path |-> NoSess]
    /\ owner = [s \in Sess |-> NoOwner] /\ gen = [s \in Sess |-> 0]
    /\ sess = [s \in Sess |-> "new"]
    /\ exported = {} /\ told = {}
    /\ tx = [c \in Call |-> "new"] /\ of = [c \in Call |-> NoSess]
    /\ sender = [c \in Call |-> NoOwner]
    /\ mark = [c \in Call |-> "none"] /\ answer = [c \in Call |-> "none"]
    /\ onBus = {}
    /\ core = [c \in Call |-> "none"] /\ result = [c \in Call |-> "error"]
    /\ intent = {} /\ cancelled = {}
    /\ posts = <<>> /\ deliver = <<>> /\ batch = 0

-----------------------------------------------------------------------------
\* The bus: the name changes hands, is released or taken.  A replacement is
\* told as vanished, then appeared.
BusChange(o) ==
    /\ o # bus /\ changes < MaxChanges
    /\ bus' = o /\ changes' = changes + 1
    /\ watch' = watch \o (IF bus = NoOwner THEN <<>> ELSE <<NoOwner>>)
                      \o (IF o = NoOwner THEN <<>> ELSE <<o>>)
    /\ UNCHANGED <<ownerVars, main, sessVars, callVars, coreVars, queueVars, coreGen, stop>>

-----------------------------------------------------------------------------
\* The main thread.

\* What xcc_request_cancel and xcc_session_close post: the first does nothing
\* once the core stops, the second for a session that is closed.
Cancels(C) == IF Stopping \/ C = {} THEN <<>> ELSE <<Entry("cancel", 0, C, {})>>
Closes(S) == IF \A s \in S : sess[s] = "closed" THEN <<>> ELSE <<Entry("close", 0, {}, S)>>

\* Forget the sessions S and cancel the transactions C with a code.
Forget(S, C, code, entries) ==
    /\ table' = [p \in Path |-> IF table[p] \in S THEN NoSess ELSE table[p]]
    /\ exported' = exported \ S
    /\ mark' = [c \in Call |-> IF c \in C THEN code ELSE mark[c]]
    /\ intent' = IF Stopping THEN intent ELSE intent \cup C
    /\ posts' = Posted(entries)

CallsOf(S) == {c \in Live : of[c] \in S}

\* invalidate_foreign_sessions: the sessions another owner loses, and their calls.
DoomedByReplacement(o) == IF o = NoOwner THEN {} ELSE {s \in Kept : owner[s] # o}
Doomed(o) == {s \in Kept : owner[s] # o \/ o = NoOwner}

ForeignCallsLeft(o) == {}
ForeignCalls(o) == CallsOf(Doomed(o))

SetFrontendOwner(o) ==
    IF o = cached
    THEN UNCHANGED <<cached, ownerGen, table, exported, mark, intent, posts>>
    ELSE /\ cached' = o /\ ownerGen' = ownerGen + 1
         /\ Forget(Doomed(o), ForeignCalls(o), "owner_gone",
                   <<Entry("gen", ownerGen + 1, {}, {})>> \o Cancels(ForeignCalls(o))
                   \o Closes(Doomed(o)))

MainUnchanged ==
    UNCHANGED <<busVars, owner, gen, sess, told, tx, of, sender, onBus, answer,
                core, result, cancelled, deliver, batch, coreGen, stop>>

Lookup == {bus} \cup (IF LookupMayFail THEN {NoOwner} ELSE {})

\* The first call of any connection, before the watch has reported: the owner
\* is looked up.  The call goes on as the actions below.
FirstLookup ==
    /\ main = Idle /\ ~resolved
    /\ resolved' = TRUE
    /\ \E o \in Lookup : SetFrontendOwner(o)
    /\ UNCHANGED main /\ MainUnchanged

\* A call (any method, either Close) by the cached owner that GetNameOwner does
\* not confirm: the cache is corrected and the call refused.
RefuseUnconfirmed ==
    /\ main = Idle /\ resolved /\ cached # NoOwner
    /\ \E o \in Lookup : o # cached /\ SetFrontendOwner(o)
    /\ UNCHANGED <<resolved, main>> /\ MainUnchanged

\* A call by the cached owner, confirmed by the bus.
Authorised == main = Idle /\ resolved /\ cached # NoOwner /\ cached = bus

\* on_frontend_appeared.
OwnerAppearsOnce(o) ==
    /\ IF resolved THEN SetFrontendOwner(cached) ELSE SetFrontendOwner(o)
    /\ resolved' = TRUE
OwnerAppears(o) == SetFrontendOwner(o) /\ resolved' = TRUE

FrontendAppeared ==
    /\ main = Idle /\ watch # <<>> /\ Head(watch) # NoOwner
    /\ watch' = Tail(watch)
    /\ OwnerAppears(Head(watch))
    /\ UNCHANGED <<main, bus, changes, owner, gen, sess, told, tx, of, sender, onBus, answer,
                   core, result, cancelled, deliver, batch, coreGen, stop>>

\* on_frontend_vanished: every session is closed and every transaction of any
\* session cancelled, whoever was cached.
FrontendVanishedUntilReplaced ==
    /\ main = Idle /\ watch # <<>> /\ Head(watch) = NoOwner
    /\ watch' = Tail(watch)
    /\ resolved' = TRUE /\ cached' = NoOwner
    /\ UNCHANGED <<bus, changes, ownerGen, main, sessVars, callVars, coreVars, queueVars,
                   coreGen, stop>>

FrontendVanished ==
    /\ main = Idle /\ watch # <<>> /\ Head(watch) = NoOwner
    /\ watch' = Tail(watch)
    /\ resolved' = TRUE
    /\ cached' = NoOwner
    /\ ownerGen' = IF cached = NoOwner THEN ownerGen ELSE ownerGen + 1
    /\ Forget(Kept, Live, "owner_gone",
              (IF cached = NoOwner THEN <<>> ELSE <<Entry("gen", ownerGen + 1, {}, {})>>)
              \o Cancels(Live) \o Closes(Kept))
    /\ UNCHANGED <<main, bus, changes, owner, gen, sess, told, tx, of, sender, onBus, answer,
                   core, result, cancelled, deliver, batch, coreGen, stop>>

\* handle_create_session up to xcc_session_new: a closed session's path may be
\* reused, an open one's not; exporting the Request may fail.
CreateSession(s) ==
    /\ Authorised
    /\ sess[s] = "new"
    /\ LET old == {t \in Sess : table[PathOf[s]] = t} IN
       /\ \A t \in old : sess[t] = "closed"
       /\ table' = [table EXCEPT ![PathOf[s]] = NoSess]
       /\ exported' = exported \ old
    /\ \/ /\ main' = At("create", {}, {s})
          /\ gen' = [gen EXCEPT ![s] = ownerGen]
          /\ posts' = Posted(<<Entry("new", 0, {}, {s})>>)
       \/ UNCHANGED <<main, gen, posts>>
    /\ UNCHANGED <<busVars, ownerVars, owner, sess, told, callVars, coreVars,
                   deliver, batch, coreGen, stop>>

\* The rest of it: the session is exported, which may fail, and kept.
CreateSessionDone ==
    /\ main.call = {}
    /\ main.at \in {"created", "refused"} \/ (main.at = "create" /\ QueueClosed)
    /\ main' = Idle
    /\ \/ /\ main.at = "created"
          /\ \E s \in main.sess :
                /\ owner' = [owner EXCEPT ![s] = cached]
                /\ table' = [table EXCEPT ![PathOf[s]] = s]
                /\ exported' = exported \cup {s}
       \/ UNCHANGED <<owner, table, exported>>
    /\ UNCHANGED <<busVars, ownerVars, gen, sess, told, callVars, coreVars,
                   queueVars, coreGen, stop>>

\* What a call on an open session begins with: a transaction that holds it.
BeginTransaction(c, s) ==
    /\ Authorised
    /\ tx[c] = "new"
    /\ s # NoSess /\ sess[s] # "closed"
    /\ tx' = [tx EXCEPT ![c] = "begun"]
    /\ of' = [of EXCEPT ![c] = s]
    /\ sender' = [sender EXCEPT ![c] = cached]
    /\ UNCHANGED <<busVars, ownerVars, sessVars, mark, onBus, answer, coreVars,
                   deliver, batch, coreGen, stop>>

\* handle_acquire_credential up to xcc_session_check_principal, which asks the
\* coordinator.
BeginAcquire(c, p) ==
    /\ BeginTransaction(c, table[p])
    /\ main' = At("check", {c}, {table[p]})
    /\ posts' = Posted(<<Entry("check", 0, {c}, {table[p]})>>)

\* handle_key_operation up to the export of its Request.
BeginKeyOperation(c, p) ==
    /\ BeginTransaction(c, table[p])
    /\ main' = At("submit", {c}, {table[p]})
    /\ UNCHANGED posts

\* transaction_free.
Free(c) ==
    /\ tx' = [tx EXCEPT ![c] = "answered"]
    /\ of' = [of EXCEPT ![c] = NoSess]
    /\ sender' = [sender EXCEPT ![c] = NoOwner]
    /\ mark' = [mark EXCEPT ![c] = "none"]

\* A begun call is answered with an error: the coordinator refused its
\* principal or is gone, or the Request cannot be exported.
RefuseCall(c) ==
    /\ main.call = {c}
    /\ main.at \in {"refused", "submit"} \/ (main.at = "check" /\ QueueClosed)
    /\ main' = Idle
    /\ Free(c)
    /\ answer' = [answer EXCEPT ![c] = "error"]
    /\ UNCHANGED <<busVars, ownerVars, sessVars, onBus, coreVars, queueVars, coreGen, stop>>

\* transaction_register, xcc_acquire_async or xcc_sign_async_parsed, and
\* bind_request.  A closed queue completes the request at once.
SubmitCall(c) ==
    /\ main.at = "submit" /\ main.call = {c}
    /\ main' = Idle
    /\ tx' = [tx EXCEPT ![c] = "live"]
    /\ onBus' = onBus \cup {c}
    /\ core' = [core EXCEPT ![c] = IF QueueClosed THEN "decided" ELSE "posted"]
    /\ posts' = Posted(<<Entry("start", 0, {c}, {})>>)
    /\ deliver' = IF QueueClosed THEN Tell("completion", {c}, {}) ELSE deliver
    /\ UNCHANGED <<busVars, ownerVars, sessVars, of, sender, mark, answer,
                   result, intent, cancelled, batch, coreGen, stop>>

\* Request.Close: the call is cancelled as by its user and unexported.
CloseRequest(c) ==
    /\ Authorised
    /\ c \in onBus
    /\ onBus' = onBus \ {c}
    /\ intent' = IF Stopping THEN intent ELSE intent \cup {c}
    /\ posts' = IF Stopping THEN posts ELSE Posted(<<Entry("cancel", 0, {c}, {})>>)
    /\ UNCHANGED <<busVars, ownerVars, main, sessVars, tx, of, sender, mark, answer,
                   core, result, cancelled, deliver, batch, coreGen, stop>>

\* Session.Close: certificate_impl_session_close and _forget.
CloseSession(s) ==
    /\ Authorised
    /\ s \in exported
    /\ Forget({s}, CallsOf({s}), "no_session", Closes({s}) \o Cancels(CallsOf({s})))
    /\ UNCHANGED <<ownerVars, main>> /\ MainUnchanged

\* An iteration of the main loop collects the callbacks that are ready, then
\* runs them; where one ends only matters to the last, that of shutdown_done.
Iterate ==
    /\ main = Idle /\ batch = 0 /\ deliver # <<>> /\ stop = "posted"
    /\ batch' = Len(deliver)
    /\ UNCHANGED <<busVars, ownerVars, main, sessVars, callVars, coreVars,
                   posts, deliver, coreGen, stop>>

Run(op) ==
    /\ main = Idle /\ deliver # <<>> /\ Head(deliver).op = op
    /\ QueueClosed => batch > 0
Ran == deliver' = Tail(deliver) /\ batch' = IF batch = 0 THEN 0 ELSE batch - 1

\* completion, core_done and transaction_respond.
AnswerOf(c) ==
    IF mark[c] # "none" THEN mark[c]
    ELSE IF c \notin intent /\ result[c] = "ok" THEN "success" ELSE "error"

CoreDone ==
    /\ Run("completion") /\ Ran
    /\ \E c \in Head(deliver).calls :
          /\ answer' = [answer EXCEPT ![c] = AnswerOf(c)]
          /\ Free(c)
          /\ onBus' = onBus \ {c}
          /\ core' = [core EXCEPT ![c] = "done"]
          /\ result' = [result EXCEPT ![c] = "error"]
          /\ intent' = intent \ {c}
          /\ cancelled' = cancelled \ {c}
    /\ UNCHANGED <<busVars, ownerVars, main, sessVars, posts, coreGen, stop>>

\* invalidated_delivery and on_core_invalidated: SessionInvalidated is emitted
\* while the table or a transaction still holds the session object.
Alive(s) == s \in Kept \/ \E c \in Live : of[c] = s
CoreInvalidated ==
    /\ Run("notice") /\ Ran
    /\ told' = told \cup {s \in Head(deliver).sess : Alive(s)}
    /\ UNCHANGED <<busVars, ownerVars, main, table, owner, gen, sess, exported,
                   callVars, coreVars, posts, coreGen, stop>>

\* certificate_impl_shutdown: the loop keeps serving until shutdown_done, runs
\* what the last iteration had collected, and closes what is left.
ShutdownAsync ==
    /\ MayShutDown /\ main = Idle /\ stop = "running"
    /\ stop' = "asked"
    /\ posts' = Posted(<<Entry("stop", 0, {}, {})>>)
    /\ UNCHANGED <<busVars, ownerVars, main, sessVars, callVars, coreVars,
                   deliver, batch, coreGen>>

ShutdownDone ==
    /\ Run("shutdown") /\ Ran
    /\ stop' = "done"
    /\ UNCHANGED <<busVars, ownerVars, main, sessVars, callVars, coreVars, posts, coreGen>>

Leave ==
    /\ main = Idle /\ stop = "done" /\ batch = 0
    /\ main' = At("left", {}, {})
    /\ table' = [p \in Path |-> NoSess]
    /\ exported' = exported \ Kept
    /\ UNCHANGED <<busVars, ownerVars, owner, gen, sess, told, callVars, coreVars,
                   queueVars, coreGen, stop>>

-----------------------------------------------------------------------------
\* The coordinator, as far as the adapter sees it.

First(op) == posts # <<>> /\ Head(posts).op = op /\ posts' = Tail(posts)

\* Close the sessions S: their requests are cancelled.
EndSessions(S, alsoCancelled) ==
    LET ended == {s \in S : sess[s] = "open"}
        hit   == {c \in Requests : of[c] \in ended} \cup alsoCancelled IN
    /\ sess' = [s \in Sess |-> IF s \in ended THEN "closed" ELSE sess[s]]
    /\ intent' = intent \cup hit
    /\ cancelled' = cancelled \cup {c \in hit : core[c] = "active"}

RunGeneration ==
    /\ First("gen")
    /\ coreGen' = Head(posts).gen
    /\ EndSessions({s \in Sess : gen[s] # coreGen'},
                   {c \in Requests : of[c] # NoSess /\ gen[of[c]] # coreGen'})
    /\ UNCHANGED <<busVars, ownerVars, main, table, owner, gen, exported, told,
                   callVars, core, result, deliver, batch, stop>>

RunNew ==
    /\ First("new")
    /\ \E s \in Head(posts).sess :
          LET valid == ~Stopping /\ gen[s] = coreGen IN
          /\ sess' = [sess EXCEPT ![s] = IF valid THEN "open" ELSE "closed"]
          /\ main' = [main EXCEPT !.at = IF valid THEN "created" ELSE "refused"]
    /\ UNCHANGED <<busVars, ownerVars, table, owner, gen, exported, told,
                   callVars, coreVars, deliver, batch, coreGen, stop>>

\* xcc_session_check_principal: the session is open, of the coordinator's
\* generation, and of the generation the adapter presents.
PrincipalOK(s) == sess[s] = "open" /\ gen[s] = coreGen
RunCheck ==
    /\ First("check")
    /\ \E s \in Head(posts).sess :
          main' = [main EXCEPT !.at =
                      IF PrincipalOK(s) /\ gen[s] = ownerGen THEN "submit" ELSE "refused"]
    /\ UNCHANGED <<busVars, ownerVars, sessVars, callVars, coreVars,
                   deliver, batch, coreGen, stop>>

\* xcc_request_validate: started, or completed with an error.
RunStart ==
    /\ First("start")
    /\ \E c \in Head(posts).calls :
          IF ~Stopping /\ c \notin intent /\ PrincipalOK(of[c])
          THEN core' = [core EXCEPT ![c] = "active"] /\ UNCHANGED deliver
          ELSE /\ core' = [core EXCEPT ![c] = "decided"]
               /\ deliver' = Tell("completion", {c}, {})
    /\ UNCHANGED <<busVars, ownerVars, main, sessVars, callVars, result, intent, cancelled,
                   batch, coreGen, stop>>

RunCancel ==
    /\ First("cancel")
    /\ cancelled' = cancelled \cup {c \in Head(posts).calls : core[c] = "active"}
    /\ UNCHANGED <<busVars, ownerVars, main, sessVars, callVars, core, result, intent,
                   deliver, batch, coreGen, stop>>

RunClose ==
    /\ First("close")
    /\ EndSessions(Head(posts).sess, {})
    /\ UNCHANGED <<busVars, ownerVars, main, table, owner, gen, exported, told,
                   callVars, core, result, deliver, batch, coreGen, stop>>

\* shutdown_start: every request is cancelled, every session invalidated.
RunStop ==
    /\ First("stop")
    /\ stop' = "stopping"
    /\ EndSessions(Sess, Requests)
    /\ deliver' = IF \E s \in Sess : sess[s] = "open"
                  THEN Tell("notice", {}, {s \in Sess : sess[s] = "open"}) ELSE deliver
    /\ UNCHANGED <<busVars, ownerVars, main, table, owner, gen, exported, told,
                   callVars, core, result, batch, coreGen>>

\* A started request ends: as a success or an error, or because it is cancelled.
Decide(c) ==
    /\ core[c] = "active"
    /\ core' = [core EXCEPT ![c] = "decided"]
    /\ \E r \in {"ok", "error"} :
          /\ r = "ok" => c \notin cancelled
          /\ result' = [result EXCEPT ![c] = r]
    /\ deliver' = Tell("completion", {c}, {})
    /\ UNCHANGED <<busVars, ownerVars, main, sessVars, callVars, intent, cancelled,
                   posts, batch, coreGen, stop>>

\* A grant expires or its token is removed: xcc_session_invalidate_internal.
\* Only a session that has been handed to a frontend can have one.
Invalidate(s) ==
    /\ ~Stopping /\ sess[s] = "open" /\ owner[s] # NoOwner
    /\ EndSessions({s}, {})
    /\ deliver' = Tell("notice", {}, {s})
    /\ UNCHANGED <<busVars, ownerVars, main, table, owner, gen, exported, told,
                   callVars, core, result, posts, batch, coreGen, stop>>

\* xcc_context_check_shutdown.
CheckShutdownUncounted ==
    /\ stop = "stopping" /\ posts = <<>>
    /\ stop' = "posted"
    /\ deliver' = Tell("shutdown", {}, {})
    /\ UNCHANGED <<busVars, ownerVars, main, sessVars, callVars, coreVars,
                   posts, batch, coreGen>>

CheckShutdown ==
    /\ stop = "stopping" /\ posts = <<>> /\ Requests = {}
    /\ stop' = "posted"
    /\ deliver' = Tell("shutdown", {}, {})
    /\ UNCHANGED <<busVars, ownerVars, main, sessVars, callVars, coreVars,
                   posts, batch, coreGen>>

-----------------------------------------------------------------------------
Handlers ==
    \/ FirstLookup \/ RefuseUnconfirmed
    \/ \E s \in Sess : CreateSession(s) \/ CloseSession(s)
    \/ \E c \in Call : \/ CloseRequest(c)
                       \/ \E p \in Path : BeginAcquire(c, p) \/ BeginKeyOperation(c, p)
    \/ ShutdownAsync

Notifications == FrontendAppeared \/ FrontendVanished

Resumed == CreateSessionDone \/ \E c \in Call : RefuseCall(c) \/ SubmitCall(c)

Callbacks == Iterate \/ CoreDone \/ CoreInvalidated \/ ShutdownDone \/ Leave

Coordinator ==
    \/ RunGeneration \/ RunNew \/ RunCheck \/ RunStart \/ RunCancel \/ RunClose \/ RunStop
    \/ CheckShutdown

Next ==
    \/ \E o \in Owner : BusChange(o)
    \/ Handlers \/ Notifications \/ Resumed \/ Callbacks \/ Coordinator
    \/ \E c \in Call : Decide(c)
    \/ \E s \in Sess : Invalidate(s)

Spec == Init /\ [][Next]_vars

\* A handler goes on once it has its answer, and the coordinator runs what is
\* posted.  An iteration of the main loop runs every source that was ready, so
\* calls that keep coming do not starve notifications or callbacks: strong
\* fairness.  A cancelled request ends (Core, RequestsAreAnswered).
FairSpec ==
    /\ Spec /\ WF_vars(Resumed) /\ WF_vars(Coordinator)
    /\ SF_vars(Notifications) /\ SF_vars(Callbacks)
    /\ \A c \in Call : WF_vars(c \in cancelled /\ Decide(c))

-----------------------------------------------------------------------------
\* What must hold.

\* Everything the adapter keeps belongs to the frontend it knows: a session in
\* the table was created by the cached owner under the current generation, and
\* is exactly what is exported for Close (set_frontend_owner).
TableBelongsToOwner ==
    /\ \A s \in Kept : owner[s] = cached /\ gen[s] = ownerGen /\ cached # NoOwner
    /\ exported = Kept

\* The cache names a former owner only while the notification that corrects it
\* is on its way.  (A lookup that fails denies everybody until the name changes
\* again.)
StaleOwnerIsNoticed ==
    watch = <<>> => cached = bus \/ (LookupMayFail /\ cached = NoOwner)

\* No call is answered with success after its caller's ownership was seen to
\* end, although its completion may have been queued before (core_done).
NoSuccessToFormerOwner ==
    [][\A c \in Call : answer[c] = "none" /\ answer'[c] = "success"
           => sender[c] = cached /\ gen[of[c]] = ownerGen]_vars

\* certificate_impl_shutdown returns with every accepted call answered.
ShutdownAnswersAll ==
    main.at = "left" => \A c \in Call : tx[c] \in {"new", "answered"}

\* A call whose frontend has lost the name is answered: no window stays open
\* for a frontend that is gone.
LostFrontendIsAnswered ==
    \A c \in Call : (tx[c] = "live" /\ sender[c] # bus) ~> (tx[c] = "answered")
=============================================================================
