-------------------------- MODULE ImplOwner_proofs ---------------------------
(***************************************************************************)
(* What TLAPS proves of the D-Bus adapter, for every set of frontends,     *)
(* sessions, paths and calls, however often the name changes hands.        *)
(***************************************************************************)
EXTENDS ImplOwner, TLAPS

-----------------------------------------------------------------------------
(* The cached owner. *)

(* The last notification on its way names who owns the name now; without   *)
(* one the cache is right, or a lookup has failed.                         *)
NoticeInv ==
  /\ watch \in Seq(Owner) /\ bus \in Owner
  /\ watch # <<>> => watch[Len(watch)] = bus
  /\ StaleOwnerIsNoticed

LEMMA LookupIsRight ==
  ASSUME NoticeInv, \E o \in Lookup : SetFrontendOwner(o), UNCHANGED <<bus, watch>>
  PROVE  NoticeInv'
<1>1. PICK o \in Lookup : SetFrontendOwner(o)
  OBVIOUS
<1>2. cached' = o
  BY <1>1 DEF SetFrontendOwner
<1>3. o = bus \/ (LookupMayFail /\ o = NoOwner)
  BY DEF Lookup
<1> QED
  BY <1>2, <1>3 DEF NoticeInv, StaleOwnerIsNoticed

LEMMA NoticeStep == NoticeInv /\ [Next]_vars => NoticeInv'
<1> SUFFICES ASSUME NoticeInv, [Next]_vars PROVE NoticeInv'
  OBVIOUS
<1>1. ASSUME NEW o \in Owner, BusChange(o) PROVE NoticeInv'
  <2> DEFINE first == IF bus = NoOwner THEN <<>> ELSE <<NoOwner>>
             then == IF o = NoOwner THEN <<>> ELSE <<o>>
  <2>1. bus' = o /\ o # bus /\ watch' = watch \o first \o then
    BY <1>1 DEF BusChange
  <2>2. watch \in Seq(Owner)
    BY DEF NoticeInv
  <2>3. CASE o = NoOwner
    <3>1. watch' = watch \o <<NoOwner>>
      BY <2>1, <2>2, <2>3
    <3>2. NoOwner \in Owner
      BY DEF Owner
    <3> HIDE DEF Owner
    <3>3. watch' \in Seq(Owner) /\ watch' # <<>> /\ watch'[Len(watch')] = o
      BY <2>2, <2>3, <3>1, <3>2
    <3> QED
      BY <2>1, <3>3 DEF NoticeInv, StaleOwnerIsNoticed
  <2>4. CASE o # NoOwner
    <3>1. watch \o first \in Seq(Owner)
      <4>1. NoOwner \in Owner
        BY DEF Owner
      <4>2. first \in Seq(Owner)
        BY <4>1
      <4> HIDE DEF first
      <4> QED
        BY <2>2, <4>2
    <3>2. watch' = (watch \o first) \o <<o>>
      BY <2>1, <2>4
    <3> HIDE DEF first
    <3>3. watch' \in Seq(Owner) /\ watch' # <<>> /\ watch'[Len(watch')] = o
      BY <3>1, <3>2
    <3> QED
      BY <2>1, <3>3 DEF NoticeInv, StaleOwnerIsNoticed
  <2> QED
    BY <2>3, <2>4
<1>2. CASE FirstLookup \/ RefuseUnconfirmed
  BY <1>2, LookupIsRight DEF FirstLookup, RefuseUnconfirmed, MainUnchanged, busVars
<1>3. CASE FrontendAppeared \/ FrontendVanished
  <2>1. watch # <<>> /\ watch' = Tail(watch) /\ bus' = bus /\ cached' = Head(watch)
    BY <1>3 DEF FrontendAppeared, FrontendVanished, OwnerAppears, SetFrontendOwner
  <2>2. watch \in Seq(Owner) /\ watch[Len(watch)] = bus
    BY <2>1 DEF NoticeInv
  <2>3. watch' \in Seq(Owner) /\ (watch' # <<>> => watch'[Len(watch')] = bus)
    BY <2>1, <2>2
  <2>4. watch' = <<>> => Head(watch) = bus
    <3>1. Len(watch) \in Nat /\ Len(watch') = Len(watch) - 1 /\ Head(watch) = watch[1]
      BY <2>1, <2>2
    <3>2. watch' = <<>> => Len(watch) = 1
      BY <2>1, <2>2, <3>1
    <3> QED
      BY <2>2, <3>1, <3>2
  <2> QED
    BY <2>1, <2>3, <2>4 DEF NoticeInv, StaleOwnerIsNoticed
<1>4. CASE UNCHANGED <<bus, watch, cached>>
  BY <1>4 DEF NoticeInv, StaleOwnerIsNoticed
<1> QED
  BY <1>1, <1>2, <1>3, <1>4
  DEF Next, Handlers, Notifications, Resumed, Callbacks, Coordinator, vars, busVars, ownerVars,
      CreateSession, CloseSession, CloseRequest, BeginAcquire, BeginKeyOperation, BeginTransaction,
      ShutdownAsync, CreateSessionDone, RefuseCall, SubmitCall, Iterate, CoreDone, CoreInvalidated,
      ShutdownDone, Leave, RunGeneration, RunNew, RunCheck, RunStart, RunCancel, RunClose, RunStop,
      CheckShutdown, Decide, Invalidate, MainUnchanged

(* A lookup by a call and the notifications of the same changes may come   *)
(* in any order (certificate_impl_sender_is_frontend, on_frontend_appeared,*)
(* on_frontend_vanished): once no notification is on its way the cache     *)
(* names the owner, unless a lookup failed.                                *)
THEOREM StaleOwnerIsAlwaysNoticed == Spec => []StaleOwnerIsNoticed
<1>1. Init => NoticeInv
  BY DEF Init, NoticeInv, StaleOwnerIsNoticed
<1>2. NoticeInv /\ [Next]_vars => NoticeInv'
  BY NoticeStep
<1>3. NoticeInv => StaleOwnerIsNoticed
  BY DEF NoticeInv
<1> QED
  BY <1>1, <1>2, <1>3, PTL DEF Spec

-----------------------------------------------------------------------------
(* Types. *)

LEMMA TypeInit == Init => TypeOK
<1> SUFFICES ASSUME Init PROVE TypeOK
  OBVIOUS
<1> USE ImplAssumption
<1>1. OwnerTypeOK
  <2>1. bus \in Owner /\ watch = <<bus>> /\ cached \in Owner
    BY DEF Init, Owner
  <2> HIDE DEF Owner
  <2>2. watch \in Seq(Owner)
    BY <2>1
  <2>3. resolved \in BOOLEAN
    BY Zenon DEF Init
  <2>4. bus \in Owner /\ changes \in 0..MaxChanges /\ ownerGen \in Nat /\ coreGen \in Nat
    BY <2>1 DEF Init
  <2> QED
    BY <2>1, <2>2, <2>3, <2>4 DEF OwnerTypeOK
<1>2. SessTypeOK
  BY DEF Init, SessTypeOK, Owner
<1>3. CallTypeOK
  BY DEF Init, CallTypeOK, Owner, Code
<1>4. QueueTypeOK
  BY DEF Init, QueueTypeOK, Idle, At
<1> QED
  BY <1>1, <1>2, <1>3, <1>4 DEF TypeOK

LEMMA EntryIsPost ==
  ASSUME NEW o \in {"gen", "new", "check", "start", "cancel", "close", "stop"}, NEW g \in Nat,
         NEW C \in SUBSET Call, NEW S \in SUBSET Sess
  PROVE  <<Entry(o, g, C, S)>> \in Seq(Post) /\ Len(<<Entry(o, g, C, S)>>) = 1
         /\ <<Entry(o, g, C, S)>>[1].op = o
BY DEF Entry, Post

LEMMA CancelsArePosts ==
  ASSUME NEW C \in SUBSET Call
  PROVE  Cancels(C) \in Seq(Post)
<1>1. <<Entry("cancel", 0, C, {})>> \in Seq(Post)
  BY EntryIsPost
<1> QED
  BY <1>1 DEF Cancels

LEMMA ClosesArePosts ==
  ASSUME NEW S \in SUBSET Sess
  PROVE  Closes(S) \in Seq(Post)
<1>1. <<Entry("close", 0, {}, S)>> \in Seq(Post)
  BY EntryIsPost
<1> QED
  BY <1>1 DEF Closes

LEMMA PostedType ==
  ASSUME posts \in Seq(Post), NEW entries \in Seq(Post)
  PROVE  Posted(entries) \in Seq(Post)
BY DEF Posted

(* What a handler that forgets sessions may change. *)
LEMMA ForgetType ==
  ASSUME TypeOK, NEW S \in SUBSET Sess, NEW C \in SUBSET Call, NEW code \in Code,
         NEW entries \in Seq(Post), Forget(S, C, code, entries)
  PROVE  /\ table' \in [Path -> Sess \cup {NoSess}] /\ exported' \in SUBSET Sess
         /\ mark' \in [Call -> Code] /\ intent' \in SUBSET Call /\ posts' \in Seq(Post)
<1>1. posts' \in Seq(Post)
  BY PostedType DEF Forget, TypeOK, QueueTypeOK
<1> QED
  BY <1>1 DEF Forget, TypeOK, SessTypeOK, CallTypeOK

LEMMA SetFrontendOwnerType ==
  ASSUME TypeOK, NEW o \in Owner, SetFrontendOwner(o)
  PROVE  /\ cached' \in Owner /\ ownerGen' \in Nat
         /\ table' \in [Path -> Sess \cup {NoSess}] /\ exported' \in SUBSET Sess
         /\ mark' \in [Call -> Code] /\ intent' \in SUBSET Call /\ posts' \in Seq(Post)
<1>1. CASE o = cached
  BY <1>1 DEF SetFrontendOwner, TypeOK, OwnerTypeOK, SessTypeOK, CallTypeOK, QueueTypeOK
<1>2. CASE o # cached
  <2> DEFINE C == ForeignCalls(o)
             S == Doomed(o)
             gone == <<Entry("gen", ownerGen + 1, {}, {})>>
  <2>1. C \in SUBSET Call /\ S \in SUBSET Sess
    BY DEF ForeignCalls, CallsOf, Live, Doomed, Kept
  <2>2. ownerGen + 1 \in Nat
    BY DEF TypeOK, OwnerTypeOK
  <2>3. cached' = o /\ ownerGen' = ownerGen + 1
        /\ Forget(S, C, "owner_gone", gone \o Cancels(C) \o Closes(S))
    BY <1>2 DEF SetFrontendOwner
  <2> HIDE DEF C, S
  <2>4. gone \in Seq(Post) /\ Cancels(C) \in Seq(Post) /\ Closes(S) \in Seq(Post)
    BY <2>1, <2>2, EntryIsPost, CancelsArePosts, ClosesArePosts
  <2> HIDE DEF gone
  <2>5. gone \o Cancels(C) \o Closes(S) \in Seq(Post)
    BY <2>4
  <2> QED
    BY <2>1, <2>2, <2>3, <2>5, ForgetType DEF Code
<1> QED
  BY <1>1, <1>2

LEMMA HeadPost ==
  ASSUME TypeOK, NEW op, First(op)
  PROVE  /\ posts \in Seq(Post) /\ posts # <<>> /\ Head(posts) \in Post /\ posts' \in Seq(Post)
         /\ Head(posts).gen \in Nat /\ Head(posts).calls \in SUBSET Call
         /\ Head(posts).sess \in SUBSET Sess
<1>1. posts \in Seq(Post) /\ posts # <<>> /\ posts' = Tail(posts)
  BY DEF First, TypeOK, QueueTypeOK
<1>2. Head(posts) \in Post /\ posts' \in Seq(Post)
  BY <1>1
<1> QED
  BY <1>1, <1>2 DEF Post

LEMMA TellType ==
  ASSUME TypeOK, NEW o \in {"completion", "notice", "shutdown"}, NEW C \in SUBSET Call,
         NEW S \in SUBSET Sess
  PROVE  Tell(o, C, S) \in Seq(Callback)
<1>1. [op |-> o, calls |-> C, sess |-> S] \in Callback
  BY DEF Callback
<1> QED
  BY <1>1 DEF Tell, TypeOK, QueueTypeOK

LEMMA RanType ==
  ASSUME TypeOK, NEW op, Run(op), Ran
  PROVE  /\ deliver' \in Seq(Callback) /\ batch' \in Nat
         /\ Head(deliver).calls \in SUBSET Call /\ Head(deliver).sess \in SUBSET Sess
<1>1. deliver \in Seq(Callback) /\ deliver # <<>> /\ deliver' = Tail(deliver) /\ batch \in Nat
  BY DEF Run, Ran, TypeOK, QueueTypeOK
<1>2. Head(deliver) \in Callback /\ deliver' \in Seq(Callback)
  BY <1>1
<1>3. batch' \in Nat
  BY <1>1 DEF Ran
<1> QED
  BY <1>2, <1>3 DEF Callback

LEMMA EndSessionsType ==
  ASSUME TypeOK, NEW S, NEW C \in SUBSET Call, EndSessions(S, C)
  PROVE  /\ sess' \in [Sess -> {"new", "open", "closed"}]
         /\ intent' \in SUBSET Call /\ cancelled' \in SUBSET Call
BY DEF EndSessions, Requests, TypeOK, SessTypeOK, CallTypeOK

LEMMA FreeType ==
  ASSUME TypeOK, NEW c \in Call, Free(c)
  PROVE  /\ tx' \in [Call -> {"new", "begun", "live", "answered"}]
         /\ of' \in [Call -> Sess \cup {NoSess}] /\ sender' \in [Call -> Owner]
         /\ mark' \in [Call -> Code]
BY DEF Free, TypeOK, CallTypeOK, Owner, Code

(* The handlers of the main thread and the notifications. *)
LEMMA HandlersType == TypeOK /\ (Handlers \/ Notifications) => TypeOK'
<1> SUFFICES ASSUME TypeOK, Handlers \/ Notifications PROVE TypeOK'
  OBVIOUS
<1> USE DEF TypeOK, OwnerTypeOK, SessTypeOK, CallTypeOK, QueueTypeOK
<1>1. ASSUME NEW o \in Owner, SetFrontendOwner(o), resolved' \in BOOLEAN, watch' \in Seq(Owner),
             UNCHANGED <<bus, changes, main, owner, gen, sess, told, tx, of, sender, onBus, answer,
                         core, result, cancelled, deliver, batch, coreGen, stop>>
      PROVE  TypeOK'
  <2>1. /\ cached' \in Owner /\ ownerGen' \in Nat
        /\ table' \in [Path -> Sess \cup {NoSess}] /\ exported' \in SUBSET Sess
        /\ mark' \in [Call -> Code] /\ intent' \in SUBSET Call /\ posts' \in Seq(Post)
    BY <1>1, SetFrontendOwnerType
  <2> QED
    BY <1>1, <2>1
<1>2. Lookup \subseteq Owner
  BY DEF Lookup, Owner
<1>3. CASE FirstLookup
  BY <1>1, <1>2, <1>3 DEF FirstLookup, MainUnchanged, busVars
<1>4. CASE RefuseUnconfirmed
  BY <1>1, <1>2, <1>4 DEF RefuseUnconfirmed, MainUnchanged, busVars
<1>5. CASE FrontendAppeared
  <2>1. watch \in Seq(Owner) /\ watch # <<>> /\ watch' = Tail(watch) /\ resolved' = TRUE
        /\ SetFrontendOwner(Head(watch))
    BY <1>5 DEF FrontendAppeared, OwnerAppears
  <2>2. Head(watch) \in Owner /\ watch' \in Seq(Owner)
    BY <2>1
  <2> QED
    BY <1>1, <1>5, <2>1, <2>2 DEF FrontendAppeared
<1>6. CASE FrontendVanished
  <2> DEFINE first == IF cached = NoOwner THEN <<>> ELSE <<Entry("gen", ownerGen + 1, {}, {})>>
             entries == first \o Cancels(Live) \o Closes(Kept)
  <2>1. /\ watch \in Seq(Owner) /\ watch # <<>> /\ watch' = Tail(watch) /\ resolved' = TRUE
        /\ cached' = NoOwner /\ ownerGen' \in Nat
    BY <1>6 DEF FrontendVanished
  <2>2. watch' \in Seq(Owner)
    BY <2>1
  <2>3. Live \in SUBSET Call /\ Kept \in SUBSET Sess
    BY DEF Live, Kept
  <2>4. first \in Seq(Post)
    <3>1. ownerGen + 1 \in Nat /\ {} \in SUBSET Call /\ {} \in SUBSET Sess
      OBVIOUS
    <3>2. <<Entry("gen", ownerGen + 1, {}, {})>> \in Seq(Post)
      BY <3>1, EntryIsPost
    <3> QED
      BY <3>2
  <2>5. Cancels(Live) \in Seq(Post) /\ Closes(Kept) \in Seq(Post)
    BY <2>3, CancelsArePosts, ClosesArePosts
  <2>6. Forget(Kept, Live, "owner_gone", entries)
    BY <1>6 DEF FrontendVanished
  <2> HIDE DEF first
  <2>7. entries \in Seq(Post)
    BY <2>4, <2>5
  <2> HIDE DEF entries
  <2>8. /\ table' \in [Path -> Sess \cup {NoSess}] /\ exported' \in SUBSET Sess
        /\ mark' \in [Call -> Code] /\ intent' \in SUBSET Call /\ posts' \in Seq(Post)
    BY <2>3, <2>6, <2>7, ForgetType DEF Code
  <2> QED
    BY <1>6, <2>1, <2>2, <2>8 DEF FrontendVanished, Owner
<1>7. ASSUME NEW s \in Sess, CreateSession(s) PROVE TypeOK'
  <2>1. <<Entry("new", 0, {}, {s})>> \in Seq(Post)
    <3>1. 0 \in Nat /\ {} \in SUBSET Call /\ {s} \in SUBSET Sess
      OBVIOUS
    <3> QED
      BY <3>1, EntryIsPost
  <2>2. posts' \in Seq(Post)
    BY <1>7, <2>1, PostedType DEF CreateSession
  <2>3. main' \in [at: {"idle", "create", "created", "refused", "check", "submit", "left"},
                   call: SUBSET Call, sess: SUBSET Sess]
    BY <1>7 DEF CreateSession, At
  <2>4. gen' \in [Sess -> Nat] /\ table' \in [Path -> Sess \cup {NoSess}] /\ exported' \in SUBSET Sess
    BY <1>7 DEF CreateSession
  <2> QED
    BY <1>7, <2>2, <2>3, <2>4 DEF CreateSession, busVars, ownerVars, callVars, coreVars
<1>8. ASSUME NEW s \in Sess, CloseSession(s) PROVE TypeOK'
  <2>1. CallsOf({s}) \in SUBSET Call
    BY DEF CallsOf, Live
  <2>2. Closes({s}) \in Seq(Post) /\ Cancels(CallsOf({s})) \in Seq(Post)
    BY <2>1, CancelsArePosts, ClosesArePosts
  <2>3. Closes({s}) \o Cancels(CallsOf({s})) \in Seq(Post)
    BY <2>2
  <2>4. /\ table' \in [Path -> Sess \cup {NoSess}] /\ exported' \in SUBSET Sess
        /\ mark' \in [Call -> Code] /\ intent' \in SUBSET Call /\ posts' \in Seq(Post)
    BY <1>8, <2>1, <2>3, ForgetType DEF CloseSession, Code
  <2> QED
    BY <1>8, <2>4 DEF CloseSession, MainUnchanged, busVars, ownerVars
<1>9. ASSUME NEW c \in Call, CloseRequest(c) PROVE TypeOK'
  <2>1. <<Entry("cancel", 0, {c}, {})>> \in Seq(Post)
    <3>1. 0 \in Nat /\ {c} \in SUBSET Call /\ {} \in SUBSET Sess
      OBVIOUS
    <3> QED
      BY <3>1, EntryIsPost
  <2>2. posts' \in Seq(Post)
    BY <1>9, <2>1, PostedType DEF CloseRequest
  <2> QED
    BY <1>9, <2>2 DEF CloseRequest, busVars, ownerVars, sessVars
<1>10. ASSUME NEW c \in Call, NEW p \in Path, BeginAcquire(c, p) \/ BeginKeyOperation(c, p) PROVE TypeOK'
  <2>1. table[p] \in Sess
    BY <1>10 DEF BeginAcquire, BeginKeyOperation, BeginTransaction
  <2>2. <<Entry("check", 0, {c}, {table[p]})>> \in Seq(Post)
    <3>1. 0 \in Nat /\ {c} \in SUBSET Call /\ {table[p]} \in SUBSET Sess
      BY <2>1
    <3> QED
      BY <3>1, EntryIsPost
  <2>3. posts' \in Seq(Post)
    BY <1>10, <2>2, PostedType DEF BeginAcquire, BeginKeyOperation
  <2>4. main' \in [at: {"idle", "create", "created", "refused", "check", "submit", "left"},
                   call: SUBSET Call, sess: SUBSET Sess]
    BY <1>10, <2>1 DEF BeginAcquire, BeginKeyOperation, At
  <2>5. /\ tx' \in [Call -> {"new", "begun", "live", "answered"}]
        /\ of' \in [Call -> Sess \cup {NoSess}] /\ sender' \in [Call -> Owner]
    <3>1. /\ tx' = [tx EXCEPT ![c] = "begun"] /\ of' = [of EXCEPT ![c] = table[p]]
          /\ sender' = [sender EXCEPT ![c] = cached]
      BY <1>10 DEF BeginAcquire, BeginKeyOperation, BeginTransaction
    <3> QED
      BY <2>1, <3>1
  <2>6. UNCHANGED <<busVars, ownerVars, sessVars, mark, onBus, answer, coreVars,
                   deliver, batch, coreGen, stop>>
    BY <1>10 DEF BeginAcquire, BeginKeyOperation, BeginTransaction
  <2> QED
    BY <2>3, <2>4, <2>5, <2>6 DEF busVars, ownerVars, sessVars, coreVars
<1>11. CASE ShutdownAsync
  <2>1. <<Entry("stop", 0, {}, {})>> \in Seq(Post)
    BY EntryIsPost
  <2>2. posts' \in Seq(Post)
    BY <1>11, <2>1, PostedType DEF ShutdownAsync
  <2> QED
    BY <1>11, <2>2 DEF ShutdownAsync, busVars, ownerVars, sessVars, callVars, coreVars
<1> QED
  BY <1>3, <1>4, <1>5, <1>6, <1>7, <1>8, <1>9, <1>10, <1>11 DEF Handlers, Notifications

(* A handler that goes on, and the callbacks. *)
LEMMA CallbacksType == TypeOK /\ (Resumed \/ Callbacks) => TypeOK'
<1> SUFFICES ASSUME TypeOK, Resumed \/ Callbacks PROVE TypeOK'
  OBVIOUS
<1> USE DEF TypeOK, OwnerTypeOK, SessTypeOK, CallTypeOK, QueueTypeOK
<1>1. CASE CreateSessionDone
  <2>1. main' \in [at: {"idle", "create", "created", "refused", "check", "submit", "left"},
                   call: SUBSET Call, sess: SUBSET Sess]
    BY <1>1 DEF CreateSessionDone, Idle, At
  <2>2. owner' \in [Sess -> Owner] /\ table' \in [Path -> Sess \cup {NoSess}] /\ exported' \in SUBSET Sess
    <3>1. CASE UNCHANGED <<owner, table, exported>>
      BY <3>1
    <3>2. CASE \E s \in main.sess :
                 /\ owner' = [owner EXCEPT ![s] = cached]
                 /\ table' = [table EXCEPT ![PathOf[s]] = s]
                 /\ exported' = exported \cup {s}
      <4>1. PICK s \in main.sess :
                 /\ owner' = [owner EXCEPT ![s] = cached]
                 /\ table' = [table EXCEPT ![PathOf[s]] = s]
                 /\ exported' = exported \cup {s}
        BY <3>2
      <4>2. s \in Sess
        OBVIOUS
      <4> QED
        BY <4>1, <4>2
    <3> QED
      BY <1>1, <3>1, <3>2 DEF CreateSessionDone
  <2> QED
    BY <1>1, <2>1, <2>2 DEF CreateSessionDone, busVars, ownerVars, callVars, coreVars, queueVars
<1>2. ASSUME NEW c \in Call, RefuseCall(c) PROVE TypeOK'
  <2>1. main' \in [at: {"idle", "create", "created", "refused", "check", "submit", "left"},
                   call: SUBSET Call, sess: SUBSET Sess]
    BY <1>2 DEF RefuseCall, Idle, At
  <2>2. answer' \in [Call -> Code \cup {"success", "error"}]
    BY <1>2 DEF RefuseCall
  <2>3. /\ tx' \in [Call -> {"new", "begun", "live", "answered"}]
        /\ of' \in [Call -> Sess \cup {NoSess}] /\ sender' \in [Call -> Owner]
        /\ mark' \in [Call -> Code]
    BY <1>2, FreeType DEF RefuseCall
  <2> QED
    BY <1>2, <2>1, <2>2, <2>3 DEF RefuseCall, busVars, ownerVars, sessVars, coreVars, queueVars
<1>3. ASSUME NEW c \in Call, SubmitCall(c) PROVE TypeOK'
  <2>1. main' \in [at: {"idle", "create", "created", "refused", "check", "submit", "left"},
                   call: SUBSET Call, sess: SUBSET Sess]
    BY <1>3 DEF SubmitCall, Idle, At
  <2>2. posts' \in Seq(Post)
    <3>1. 0 \in Nat /\ {c} \in SUBSET Call /\ {} \in SUBSET Sess
      OBVIOUS
    <3>2. <<Entry("start", 0, {c}, {})>> \in Seq(Post)
      BY <3>1, EntryIsPost
    <3> QED
      BY <1>3, <3>2, PostedType DEF SubmitCall
  <2>3. deliver' \in Seq(Callback)
    <3>1. Tell("completion", {c}, {}) \in Seq(Callback)
      BY TellType
    <3> QED
      BY <1>3, <3>1 DEF SubmitCall
  <2>4. /\ tx' \in [Call -> {"new", "begun", "live", "answered"}]
        /\ core' \in [Call -> {"none", "posted", "active", "decided", "done"}]
        /\ onBus' \in SUBSET Call
    BY <1>3 DEF SubmitCall
  <2> QED
    BY <1>3, <2>1, <2>2, <2>3, <2>4 DEF SubmitCall, busVars, ownerVars, sessVars
<1>4. CASE Iterate
  <2>1. batch' \in Nat
    BY <1>4 DEF Iterate
  <2> QED
    BY <1>4, <2>1 DEF Iterate, busVars, ownerVars, sessVars, callVars, coreVars
<1>5. CASE CoreDone
  <2>1. PICK c \in Head(deliver).calls :
          /\ answer' = [answer EXCEPT ![c] = AnswerOf(c)]
          /\ Free(c)
          /\ onBus' = onBus \ {c}
          /\ core' = [core EXCEPT ![c] = "done"]
          /\ result' = [result EXCEPT ![c] = "error"]
          /\ intent' = intent \ {c}
          /\ cancelled' = cancelled \ {c}
    BY <1>5 DEF CoreDone
  <2>2. deliver' \in Seq(Callback) /\ batch' \in Nat /\ c \in Call
    BY <1>5, RanType DEF CoreDone
  <2>3. AnswerOf(c) \in Code \cup {"success", "error"}
    BY <2>2 DEF AnswerOf
  <2>4. answer' \in [Call -> Code \cup {"success", "error"}]
    BY <2>1, <2>2, <2>3
  <2>5. /\ tx' \in [Call -> {"new", "begun", "live", "answered"}]
        /\ of' \in [Call -> Sess \cup {NoSess}] /\ sender' \in [Call -> Owner]
        /\ mark' \in [Call -> Code]
    BY <2>1, <2>2, FreeType
  <2>6. /\ core' \in [Call -> {"none", "posted", "active", "decided", "done"}]
        /\ result' \in [Call -> {"ok", "error"}]
        /\ onBus' \in SUBSET Call /\ intent' \in SUBSET Call /\ cancelled' \in SUBSET Call
    BY <2>1, <2>2
  <2>7. UNCHANGED <<busVars, ownerVars, main, sessVars, posts, coreGen, stop>>
    BY <1>5 DEF CoreDone
  <2> QED
    BY <2>2, <2>4, <2>5, <2>6, <2>7 DEF busVars, ownerVars, sessVars
<1>6. CASE CoreInvalidated
  <2>1. deliver' \in Seq(Callback) /\ batch' \in Nat /\ told' \in SUBSET Sess
    BY <1>6, RanType DEF CoreInvalidated
  <2> QED
    BY <1>6, <2>1 DEF CoreInvalidated, busVars, ownerVars, callVars, coreVars
<1>7. CASE ShutdownDone
  <2>1. deliver' \in Seq(Callback) /\ batch' \in Nat
    BY <1>7, RanType DEF ShutdownDone
  <2> QED
    BY <1>7, <2>1 DEF ShutdownDone, busVars, ownerVars, sessVars, callVars, coreVars
<1>8. CASE Leave
  <2>1. main' \in [at: {"idle", "create", "created", "refused", "check", "submit", "left"},
                   call: SUBSET Call, sess: SUBSET Sess]
    BY <1>8 DEF Leave, At
  <2>2. table' \in [Path -> Sess \cup {NoSess}] /\ exported' \in SUBSET Sess
    BY <1>8 DEF Leave
  <2> QED
    BY <1>8, <2>1, <2>2 DEF Leave, busVars, ownerVars, callVars, coreVars, queueVars
<1> QED
  BY <1>1, <1>2, <1>3, <1>4, <1>5, <1>6, <1>7, <1>8 DEF Resumed, Callbacks

(* The coordinator. *)
LEMMA CoordinatorType == TypeOK /\ Coordinator => TypeOK'
<1> SUFFICES ASSUME TypeOK, Coordinator PROVE TypeOK'
  OBVIOUS
<1> USE DEF TypeOK, OwnerTypeOK, SessTypeOK, CallTypeOK, QueueTypeOK
<1>1. ASSUME NEW S, NEW C \in SUBSET Call, EndSessions(S, C), posts' \in Seq(Post),
             coreGen' \in Nat, deliver' \in Seq(Callback),
             stop' \in {"running", "asked", "stopping", "posted", "done"},
             UNCHANGED <<busVars, ownerVars, main, table, owner, gen, exported, told,
                         callVars, core, result, batch>>
      PROVE  TypeOK'
  <2>1. /\ sess' \in [Sess -> {"new", "open", "closed"}]
        /\ intent' \in SUBSET Call /\ cancelled' \in SUBSET Call
    BY <1>1, EndSessionsType
  <2> QED
    BY <1>1, <2>1 DEF busVars, ownerVars, callVars
<1>2. Requests \in SUBSET Call
  BY DEF Requests
<1>3. CASE RunGeneration
  <2>1. posts' \in Seq(Post) /\ coreGen' \in Nat
    BY <1>3, HeadPost DEF RunGeneration
  <2>2. {c \in Requests : of[c] # NoSess /\ gen[of[c]] # coreGen'} \in SUBSET Call
    BY <1>2
  <2> QED
    BY <1>1, <1>3, <2>1, <2>2 DEF RunGeneration
<1>4. CASE RunNew
  <2>1. posts' \in Seq(Post) /\ Head(posts).sess \in SUBSET Sess
    BY <1>4, HeadPost DEF RunNew
  <2>2. sess' \in [Sess -> {"new", "open", "closed"}]
    BY <1>4, <2>1 DEF RunNew
  <2>3. main' \in [at: {"idle", "create", "created", "refused", "check", "submit", "left"},
                   call: SUBSET Call, sess: SUBSET Sess]
    BY <1>4, <2>1 DEF RunNew
  <2> QED
    BY <1>4, <2>1, <2>2, <2>3 DEF RunNew, busVars, ownerVars, callVars, coreVars
<1>5. CASE RunCheck
  <2>1. posts' \in Seq(Post)
    BY <1>5, HeadPost DEF RunCheck
  <2>2. main' \in [at: {"idle", "create", "created", "refused", "check", "submit", "left"},
                   call: SUBSET Call, sess: SUBSET Sess]
    BY <1>5 DEF RunCheck
  <2> QED
    BY <1>5, <2>1, <2>2 DEF RunCheck, busVars, ownerVars, sessVars, callVars, coreVars
<1>6. CASE RunStart
  <2>1. posts' \in Seq(Post) /\ Head(posts).calls \in SUBSET Call
    BY <1>6, HeadPost DEF RunStart
  <2>2. PICK c \in Head(posts).calls :
          IF ~Stopping /\ c \notin intent /\ PrincipalOK(of[c])
          THEN core' = [core EXCEPT ![c] = "active"] /\ UNCHANGED deliver
          ELSE /\ core' = [core EXCEPT ![c] = "decided"]
               /\ deliver' = Tell("completion", {c}, {})
    BY <1>6 DEF RunStart
  <2>3. c \in Call
    BY <2>1
  <2>4. core' \in [Call -> {"none", "posted", "active", "decided", "done"}]
    BY <2>2, <2>3
  <2>5. Tell("completion", {c}, {}) \in Seq(Callback)
    BY <2>3, TellType
  <2>6. deliver' \in Seq(Callback)
    BY <2>2, <2>5
  <2> QED
    BY <1>6, <2>1, <2>4, <2>6 DEF RunStart, busVars, ownerVars, sessVars, callVars
<1>7. CASE RunCancel
  <2>1. posts' \in Seq(Post) /\ Head(posts).calls \in SUBSET Call
    BY <1>7, HeadPost DEF RunCancel
  <2>2. cancelled' \in SUBSET Call
    BY <1>7, <2>1 DEF RunCancel
  <2> QED
    BY <1>7, <2>1, <2>2 DEF RunCancel, busVars, ownerVars, sessVars, callVars
<1>8. CASE RunClose
  <2>1. posts' \in Seq(Post)
    BY <1>8, HeadPost DEF RunClose
  <2> QED
    BY <1>1, <1>8, <2>1 DEF RunClose
<1>9. CASE RunStop
  <2>1. posts' \in Seq(Post)
    BY <1>9, HeadPost DEF RunStop
  <2>2. Tell("notice", {}, {s \in Sess : sess[s] = "open"}) \in Seq(Callback)
    BY TellType
  <2>3. deliver' \in Seq(Callback)
    BY <1>9, <2>2 DEF RunStop
  <2> QED
    BY <1>1, <1>2, <1>9, <2>1, <2>3 DEF RunStop
<1>10. CASE CheckShutdown
  <2>1. Tell("shutdown", {}, {}) \in Seq(Callback)
    BY TellType
  <2>2. deliver' \in Seq(Callback)
    BY <1>10, <2>1 DEF CheckShutdown
  <2> QED
    BY <1>10, <2>2 DEF CheckShutdown, busVars, ownerVars, sessVars, callVars, coreVars
<1> QED
  BY <1>3, <1>4, <1>5, <1>6, <1>7, <1>8, <1>9, <1>10 DEF Coordinator

LEMMA TypeStep == TypeOK /\ [Next]_vars => TypeOK'
<1> SUFFICES ASSUME TypeOK, [Next]_vars PROVE TypeOK'
  OBVIOUS
<1>1. ASSUME NEW o \in Owner, BusChange(o) PROVE TypeOK'
  <2> DEFINE first == IF bus = NoOwner THEN <<>> ELSE <<NoOwner>>
             then == IF o = NoOwner THEN <<>> ELSE <<o>>
  <2>1. /\ bus' = o /\ changes < MaxChanges /\ changes' = changes + 1
        /\ watch' = watch \o first \o then
    BY <1>1 DEF BusChange
  <2>2. first \in Seq(Owner) /\ then \in Seq(Owner)
    <3>1. NoOwner \in Owner
      BY DEF Owner
    <3> QED
      BY <3>1
  <2> HIDE DEF first, then
  <2>3. watch' \in Seq(Owner)
    BY <2>1, <2>2 DEF TypeOK, OwnerTypeOK
  <2>4. changes' \in 0..MaxChanges
    BY <2>1, ImplAssumption DEF TypeOK, OwnerTypeOK
  <2> QED
    BY <1>1, <2>1, <2>3, <2>4 DEF BusChange, ownerVars, sessVars, callVars, coreVars, queueVars,
       TypeOK, OwnerTypeOK, SessTypeOK, CallTypeOK, QueueTypeOK
<1>2. ASSUME NEW c \in Call, Decide(c) PROVE TypeOK'
  <2>1. Tell("completion", {c}, {}) \in Seq(Callback)
    BY TellType
  <2>2. /\ core' \in [Call -> {"none", "posted", "active", "decided", "done"}]
        /\ result' \in [Call -> {"ok", "error"}] /\ deliver' \in Seq(Callback)
    BY <1>2, <2>1 DEF Decide, TypeOK, CallTypeOK
  <2> QED
    BY <1>2, <2>2 DEF Decide, busVars, ownerVars, sessVars, callVars,
       TypeOK, OwnerTypeOK, SessTypeOK, CallTypeOK, QueueTypeOK
<1>3. ASSUME NEW s \in Sess, Invalidate(s) PROVE TypeOK'
  <2>1. Tell("notice", {}, {s}) \in Seq(Callback)
    BY TellType
  <2>2. deliver' \in Seq(Callback)
    BY <1>3, <2>1 DEF Invalidate
  <2>3. /\ sess' \in [Sess -> {"new", "open", "closed"}]
        /\ intent' \in SUBSET Call /\ cancelled' \in SUBSET Call
    BY <1>3, EndSessionsType DEF Invalidate
  <2> QED
    BY <1>3, <2>2, <2>3 DEF Invalidate, busVars, ownerVars, callVars,
       TypeOK, OwnerTypeOK, SessTypeOK, CallTypeOK, QueueTypeOK
<1>4. CASE UNCHANGED vars
  BY <1>4 DEF vars, busVars, ownerVars, sessVars, callVars, coreVars, queueVars,
     TypeOK, OwnerTypeOK, SessTypeOK, CallTypeOK, QueueTypeOK
<1> QED
  BY <1>1, <1>2, <1>3, <1>4, HandlersType, CallbacksType, CoordinatorType DEF Next

(* Every variable keeps to its type. *)
THEOREM TypeCorrect == Spec => []TypeOK
<1>1. Init => TypeOK
  BY TypeInit
<1>2. TypeOK /\ [Next]_vars => TypeOK'
  BY TypeStep
<1> QED
  BY <1>1, <1>2, PTL DEF Spec

-----------------------------------------------------------------------------
(* What the table holds.  A handler that waits for the coordinator stands  *)
(* between the creation of a core session under one generation and its     *)
(* entry into the table, so the invariant says where that handler is: the  *)
(* only question in the coordinator's queue is its own, and the session it *)
(* waits for is still of the current generation.                           *)

Asks(e) == e.op \in {"new", "check"}

QuestionInv ==
  /\ \A i \in 1..Len(posts) : Asks(posts[i]) =>
       main = At(IF posts[i].op = "new" THEN "create" ELSE "check", posts[i].calls, posts[i].sess)
  /\ \A i, j \in 1..Len(posts) : Asks(posts[i]) /\ Asks(posts[j]) => i = j
  /\ QueueClosed => posts = <<>>

ShutdownInv == \A i \in 1..Len(deliver) : deliver[i].op = "shutdown" => QueueClosed

CreateInv ==
  main.at \in {"create", "created"} =>
    \E s \in Sess :
      /\ main.call = {} /\ main.sess = {s}
      /\ gen[s] = ownerGen /\ cached # NoOwner
      /\ s \notin Kept /\ table[PathOf[s]] = NoSess
      /\ main.at = "created" => sess[s] # "new"

TableInv ==
  /\ \A p \in Path : table[p] # NoSess => PathOf[table[p]] = p
  /\ \A s \in Kept : sess[s] # "new"
  /\ TableBelongsToOwner

OwnInv == TypeOK /\ QuestionInv /\ ShutdownInv /\ CreateInv /\ TableInv

-----------------------------------------------------------------------------
(* The coordinator's queue. *)

Quiet(q) == \A i \in 1..Len(q) : ~Asks(q[i])

LEMMA QuietConcat ==
  ASSUME NEW q \in Seq(Post), NEW r \in Seq(Post), Quiet(q), Quiet(r)
  PROVE  q \o r \in Seq(Post) /\ Quiet(q \o r)
<1> SUFFICES ASSUME NEW i \in 1..Len(q \o r) PROVE ~Asks((q \o r)[i])
  BY DEF Quiet
<1>1. Len(q \o r) = Len(q) + Len(r) /\ Len(q) \in Nat /\ Len(r) \in Nat
  OBVIOUS
<1>2. CASE i <= Len(q)
  <2>1. (q \o r)[i] = q[i] /\ i \in 1..Len(q)
    BY <1>1, <1>2
  <2> QED
    BY <2>1 DEF Quiet
<1>3. CASE i > Len(q)
  <2>1. (q \o r)[i] = r[i - Len(q)] /\ i - Len(q) \in 1..Len(r)
    BY <1>1, <1>3
  <2> QED
    BY <2>1 DEF Quiet
<1> QED
  BY <1>1, <1>2, <1>3

LEMMA QuietEntry ==
  ASSUME NEW o \in {"gen", "start", "cancel", "close", "stop"}, NEW g \in Nat,
         NEW C \in SUBSET Call, NEW S \in SUBSET Sess
  PROVE  <<Entry(o, g, C, S)>> \in Seq(Post) /\ Quiet(<<Entry(o, g, C, S)>>)
<1>1. <<Entry(o, g, C, S)>> \in Seq(Post)
  BY EntryIsPost
<1>2. Len(<<Entry(o, g, C, S)>>) = 1 /\ <<Entry(o, g, C, S)>>[1].op = o
  BY EntryIsPost
<1> QED
  BY <1>1, <1>2 DEF Quiet, Asks

LEMMA QuietEmpty == <<>> \in Seq(Post) /\ Quiet(<<>>)
BY DEF Quiet

LEMMA QuietCancels ==
  ASSUME NEW C \in SUBSET Call
  PROVE  Cancels(C) \in Seq(Post) /\ Quiet(Cancels(C))
<1>1. 0 \in Nat /\ {} \in SUBSET Sess
  OBVIOUS
<1>2. <<Entry("cancel", 0, C, {})>> \in Seq(Post) /\ Quiet(<<Entry("cancel", 0, C, {})>>)
  BY <1>1, QuietEntry
<1> QED
  BY <1>2, QuietEmpty DEF Cancels

LEMMA QuietCloses ==
  ASSUME NEW S \in SUBSET Sess
  PROVE  Closes(S) \in Seq(Post) /\ Quiet(Closes(S))
<1>1. 0 \in Nat /\ {} \in SUBSET Call
  OBVIOUS
<1>2. <<Entry("close", 0, {}, S)>> \in Seq(Post) /\ Quiet(<<Entry("close", 0, {}, S)>>)
  BY <1>1, QuietEntry
<1> QED
  BY <1>2, QuietEmpty DEF Closes

LEMMA QuietPosted ==
  ASSUME TypeOK, Quiet(posts), NEW entries \in Seq(Post), Quiet(entries)
  PROVE  Quiet(Posted(entries))
BY QuietConcat DEF Posted, TypeOK, QueueTypeOK

LEMMA QuietOwner ==
  ASSUME TypeOK, Quiet(posts), NEW o, SetFrontendOwner(o)
  PROVE  Quiet(posts')
<1>1. CASE o = cached
  BY <1>1 DEF SetFrontendOwner, Quiet
<1>2. CASE o # cached
  <2> DEFINE C == ForeignCalls(o)
             S == Doomed(o)
             changed == <<Entry("gen", ownerGen + 1, {}, {})>>
  <2>1. C \in SUBSET Call /\ S \in SUBSET Sess
    BY DEF ForeignCalls, CallsOf, Live, Doomed, Kept
  <2>2. ownerGen + 1 \in Nat /\ {} \in SUBSET Call /\ {} \in SUBSET Sess
    BY DEF TypeOK, OwnerTypeOK
  <2>3. posts' = Posted(changed \o Cancels(C) \o Closes(S))
    BY <1>2 DEF SetFrontendOwner, Forget
  <2> HIDE DEF C, S
  <2>4. changed \in Seq(Post) /\ Quiet(changed)
    BY <2>2, QuietEntry
  <2>5. /\ Cancels(C) \in Seq(Post) /\ Quiet(Cancels(C))
        /\ Closes(S) \in Seq(Post) /\ Quiet(Closes(S))
    BY <2>1, QuietCancels, QuietCloses
  <2> HIDE DEF changed
  <2>6. changed \o Cancels(C) \in Seq(Post) /\ Quiet(changed \o Cancels(C))
    BY <2>4, <2>5, QuietConcat
  <2>7. /\ changed \o Cancels(C) \o Closes(S) \in Seq(Post)
        /\ Quiet(changed \o Cancels(C) \o Closes(S))
    BY <2>5, <2>6, QuietConcat
  <2> QED
    BY <2>3, <2>7, QuietPosted
<1> QED
  BY <1>1, <1>2

(* The last question is answered, or none was asked. *)
LEMMA QuietUnlessAsked ==
  ASSUME TypeOK, QuestionInv
  PROVE  /\ main.at \notin {"create", "check"} => Quiet(posts)
         /\ QueueClosed => Quiet(posts)
BY DEF QuestionInv, Quiet, Asks, At, TypeOK, QueueTypeOK

LEMMA QuietTail ==
  ASSUME TypeOK, QuestionInv, NEW op, First(op)
  PROVE  /\ op \in {"new", "check"} => Quiet(posts')
         /\ \A i \in 1..Len(posts') : i + 1 \in 1..Len(posts) /\ posts'[i] = posts[i + 1]
<1>1. posts \in Seq(Post) /\ posts # <<>> /\ posts' = Tail(posts) /\ posts[1].op = op
  BY DEF First, TypeOK, QueueTypeOK
<1>2. Len(posts) \in Nat \ {0}
  BY <1>1
<1>3. \A i \in 1..Len(posts') : i + 1 \in 1..Len(posts) /\ posts'[i] = posts[i + 1]
  BY <1>1
<1>4. ASSUME op \in {"new", "check"}, NEW i \in 1..Len(posts') PROVE ~Asks(posts'[i])
  <2>1. Asks(posts[1]) /\ 1 \in 1..Len(posts)
    BY <1>1, <1>2, <1>4 DEF Asks
  <2>2. 1 # i + 1
    BY <1>4
  <2> QED
    BY <1>3, <2>1, <2>2 DEF QuestionInv
<1> QED
  BY <1>3, <1>4 DEF Quiet

(* A question put while none is waiting. *)
LEMMA OneQuestion ==
  ASSUME TypeOK, QuestionInv, main = Idle, ~QueueClosed, UNCHANGED stop,
         NEW o \in {"new", "check"}, NEW C \in SUBSET Call, NEW S \in SUBSET Sess,
         posts' = posts \o <<Entry(o, 0, C, S)>>,
         main' = At(IF o = "new" THEN "create" ELSE "check", C, S)
  PROVE  QuestionInv'
<1> DEFINE e == Entry(o, 0, C, S)
<1>1. posts \in Seq(Post) /\ e \in Post
  BY DEF TypeOK, QueueTypeOK, Entry, Post
<1>2. e.op = o /\ e.calls = C /\ e.sess = S
  BY DEF Entry
<1>3. Quiet(posts)
  BY QuietUnlessAsked DEF Idle, At
<1> HIDE DEF e
<1>4. /\ Len(posts) \in Nat /\ Len(posts') = Len(posts) + 1 /\ posts'[Len(posts) + 1] = e
      /\ \A i \in 1..Len(posts) : posts'[i] = posts[i]
  BY <1>1 DEF e
<1>5. \A i \in 1..Len(posts') : Asks(posts'[i]) => i = Len(posts) + 1
  BY <1>3, <1>4 DEF Quiet
<1>6. ~QueueClosed'
  BY DEF QueueClosed
<1>7. \A i \in 1..Len(posts') : Asks(posts'[i]) =>
         main' = At(IF posts'[i].op = "new" THEN "create" ELSE "check", posts'[i].calls, posts'[i].sess)
  BY <1>2, <1>4, <1>5
<1> QED
  BY <1>5, <1>6, <1>7 DEF QuestionInv, Asks

LEMMA NoQuestion ==
  ASSUME Quiet(posts'), UNCHANGED stop, QueueClosed => posts' = <<>>
  PROVE  QuestionInv'
BY DEF Quiet, Asks, QuestionInv, QueueClosed

(* The coordinator takes an entry that asks nothing. *)
LEMMA OtherTaken ==
  ASSUME TypeOK, QuestionInv, NEW op, First(op), UNCHANGED main, ~QueueClosed'
  PROVE  QuestionInv'
<1>1. \A i \in 1..Len(posts') : i + 1 \in 1..Len(posts) /\ posts'[i] = posts[i + 1]
  BY QuietTail
<1>2. \A i \in 1..Len(posts') : Asks(posts'[i]) =>
         main' = At(IF posts'[i].op = "new" THEN "create" ELSE "check", posts'[i].calls, posts'[i].sess)
  BY <1>1 DEF QuestionInv
<1>3. \A i, j \in 1..Len(posts') : Asks(posts'[i]) /\ Asks(posts'[j]) => i = j
  <2> TAKE i, j \in 1..Len(posts')
  <2> HAVE Asks(posts'[i]) /\ Asks(posts'[j])
  <2>1. i + 1 = j + 1
    BY <1>1 DEF QuestionInv
  <2> QED
    BY <2>1
<1> QED
  BY <1>2, <1>3 DEF QuestionInv, Asks

(* A queue that is closed is empty, and stays so. *)
LEMMA ClosedStaysEmpty ==
  ASSUME QuestionInv, NEW entries, posts' = Posted(entries)
  PROVE  QueueClosed => posts' = <<>>
BY DEF QuestionInv, Posted

LEMMA OwnerChangeAsksNothing ==
  ASSUME TypeOK, QuestionInv, main = Idle, NEW o, SetFrontendOwner(o), UNCHANGED stop
  PROVE  QuestionInv'
<1>1. Quiet(posts')
  BY QuietUnlessAsked, QuietOwner DEF Idle, At
<1>2. QueueClosed => posts' = <<>>
  BY ClosedStaysEmpty DEF SetFrontendOwner, Forget, QuestionInv
<1> QED
  BY <1>1, <1>2, NoQuestion

LEMMA QuestionStep == TypeOK /\ QuestionInv /\ ShutdownInv /\ [Next]_vars => QuestionInv'
<1> SUFFICES ASSUME TypeOK, QuestionInv, ShutdownInv, [Next]_vars PROVE QuestionInv'
  OBVIOUS
<1>1. main = Idle => Quiet(posts)
  BY QuietUnlessAsked DEF Idle, At
<1>2. CASE UNCHANGED <<main, posts, stop>>
  BY <1>2 DEF QuestionInv, QueueClosed, Asks
<1>3. CASE FirstLookup \/ RefuseUnconfirmed \/ FrontendAppeared
  <2>1. main = Idle /\ UNCHANGED stop /\ \E o : SetFrontendOwner(o)
    BY <1>3 DEF FirstLookup, RefuseUnconfirmed, FrontendAppeared, OwnerAppears, MainUnchanged
  <2> QED
    BY <2>1, OwnerChangeAsksNothing
<1>4. CASE FrontendVanished
  <2> DEFINE first == IF cached = NoOwner THEN <<>> ELSE <<Entry("gen", ownerGen + 1, {}, {})>>
             entries == first \o Cancels(Live) \o Closes(Kept)
  <2>1. main = Idle /\ UNCHANGED stop /\ posts' = Posted(entries)
    BY <1>4 DEF FrontendVanished, Forget
  <2>2. Live \in SUBSET Call /\ Kept \in SUBSET Sess
    BY DEF Live, Kept
  <2>3. first \in Seq(Post) /\ Quiet(first)
    <3>1. ownerGen + 1 \in Nat /\ {} \in SUBSET Call /\ {} \in SUBSET Sess
      BY DEF TypeOK, OwnerTypeOK
    <3>2. <<Entry("gen", ownerGen + 1, {}, {})>> \in Seq(Post)
          /\ Quiet(<<Entry("gen", ownerGen + 1, {}, {})>>)
      BY <3>1, QuietEntry
    <3> QED
      BY <3>2, QuietEmpty
  <2>4. /\ Cancels(Live) \in Seq(Post) /\ Quiet(Cancels(Live))
        /\ Closes(Kept) \in Seq(Post) /\ Quiet(Closes(Kept))
    BY <2>2, QuietCancels, QuietCloses
  <2> HIDE DEF first
  <2>5. first \o Cancels(Live) \in Seq(Post) /\ Quiet(first \o Cancels(Live))
    BY <2>3, <2>4, QuietConcat
  <2>6. entries \in Seq(Post) /\ Quiet(entries)
    BY <2>4, <2>5, QuietConcat
  <2> HIDE DEF entries
  <2> QED
    BY <1>1, <2>1, <2>6, QuietPosted, ClosedStaysEmpty, NoQuestion
<1>5. ASSUME NEW s \in Sess, CreateSession(s) PROVE QuestionInv'
  <2>1. main = Idle /\ UNCHANGED stop
    BY <1>5 DEF CreateSession, Authorised
  <2>2. CASE UNCHANGED <<main, posts>>
    BY <1>2, <2>1, <2>2
  <2>3. CASE /\ main' = At("create", {}, {s})
             /\ posts' = Posted(<<Entry("new", 0, {}, {s})>>)
    <3>1. CASE QueueClosed
      <4>1. posts' = <<>>
        BY <2>3, <3>1, ClosedStaysEmpty
      <4> QED
        BY <2>1, <4>1, QuietEmpty, NoQuestion
    <3>2. CASE ~QueueClosed
      <4>1. {} \in SUBSET Call /\ {s} \in SUBSET Sess
        OBVIOUS
      <4> QED
        BY <2>1, <2>3, <3>2, <4>1, OneQuestion DEF Posted
    <3> QED
      BY <3>1, <3>2
  <2> QED
    BY <1>5, <2>2, <2>3 DEF CreateSession
<1>6. ASSUME NEW c \in Call, NEW p \in Path, BeginAcquire(c, p) PROVE QuestionInv'
  <2>1. /\ main = Idle /\ UNCHANGED stop /\ main' = At("check", {c}, {table[p]})
        /\ posts' = Posted(<<Entry("check", 0, {c}, {table[p]})>>)
    BY <1>6 DEF BeginAcquire, BeginTransaction, Authorised
  <2>2. {c} \in SUBSET Call /\ {table[p]} \in SUBSET Sess
    BY <1>6 DEF BeginAcquire, BeginTransaction, TypeOK, SessTypeOK
  <2>3. CASE QueueClosed
    <3>1. posts' = <<>>
      BY <2>1, <2>3, ClosedStaysEmpty
    <3> QED
      BY <2>1, <3>1, QuietEmpty, NoQuestion
  <2>4. CASE ~QueueClosed
    BY <2>1, <2>2, <2>4, OneQuestion DEF Posted
  <2> QED
    BY <2>3, <2>4
<1>7. ASSUME NEW c \in Call, NEW p \in Path, BeginKeyOperation(c, p) PROVE QuestionInv'
  <2>1. main = Idle /\ UNCHANGED <<stop, posts>>
    BY <1>7 DEF BeginKeyOperation, BeginTransaction, Authorised
  <2> QED
    BY <1>1, <2>1, NoQuestion DEF QuestionInv
<1>8. ASSUME NEW s \in Sess, CloseSession(s) PROVE QuestionInv'
  <2>1. main = Idle /\ UNCHANGED stop /\ posts' = Posted(Closes({s}) \o Cancels(CallsOf({s})))
    BY <1>8 DEF CloseSession, Authorised, MainUnchanged, Forget
  <2>2. CallsOf({s}) \in SUBSET Call /\ {s} \in SUBSET Sess
    BY DEF CallsOf, Live
  <2>3. /\ Closes({s}) \o Cancels(CallsOf({s})) \in Seq(Post)
        /\ Quiet(Closes({s}) \o Cancels(CallsOf({s})))
    BY <2>2, QuietCancels, QuietCloses, QuietConcat
  <2> QED
    BY <1>1, <2>1, <2>3, QuietPosted, ClosedStaysEmpty, NoQuestion
<1>9. ASSUME NEW c \in Call, CloseRequest(c) PROVE QuestionInv'
  <2>1. main = Idle /\ UNCHANGED stop
        /\ (posts' = posts \/ posts' = Posted(<<Entry("cancel", 0, {c}, {})>>))
    BY <1>9 DEF CloseRequest, Authorised
  <2>2. 0 \in Nat /\ {c} \in SUBSET Call /\ {} \in SUBSET Sess
    OBVIOUS
  <2>3. <<Entry("cancel", 0, {c}, {})>> \in Seq(Post) /\ Quiet(<<Entry("cancel", 0, {c}, {})>>)
    BY <2>2, QuietEntry
  <2>4. Quiet(posts')
    BY <1>1, <2>1, <2>3, QuietPosted
  <2>5. QueueClosed => posts' = <<>>
    BY <2>1, ClosedStaysEmpty DEF QuestionInv
  <2> QED
    BY <2>1, <2>4, <2>5, NoQuestion
<1>10. CASE ShutdownAsync
  <2>1. /\ main = Idle /\ main' = main /\ stop = "running" /\ stop' = "asked"
        /\ posts' = Posted(<<Entry("stop", 0, {}, {})>>)
    BY <1>10 DEF ShutdownAsync
  <2>2. <<Entry("stop", 0, {}, {})>> \in Seq(Post) /\ Quiet(<<Entry("stop", 0, {}, {})>>)
    BY QuietEntry
  <2>3. Quiet(posts')
    BY <1>1, <2>1, <2>2, QuietPosted
  <2>4. ~QueueClosed'
    BY <2>1 DEF QueueClosed
  <2> QED
    BY <2>3, <2>4 DEF Quiet, Asks, QuestionInv
<1>11. CASE CreateSessionDone \/ \E c \in Call : RefuseCall(c)
  <2>1. UNCHANGED <<posts, stop>> /\ (main.at \in {"created", "refused", "submit"} \/ QueueClosed)
    BY <1>11 DEF CreateSessionDone, RefuseCall, queueVars
  <2>2. Quiet(posts)
    BY <2>1, QuietUnlessAsked
  <2> QED
    BY <2>1, <2>2, NoQuestion DEF QuestionInv
<1>12. ASSUME NEW c \in Call, SubmitCall(c) PROVE QuestionInv'
  <2>1. main.at = "submit" /\ UNCHANGED stop /\ posts' = Posted(<<Entry("start", 0, {c}, {})>>)
    BY <1>12 DEF SubmitCall
  <2>2. 0 \in Nat /\ {c} \in SUBSET Call /\ {} \in SUBSET Sess
    OBVIOUS
  <2>3. <<Entry("start", 0, {c}, {})>> \in Seq(Post) /\ Quiet(<<Entry("start", 0, {c}, {})>>)
    BY <2>2, QuietEntry
  <2>4. Quiet(posts)
    BY <2>1, QuietUnlessAsked
  <2> QED
    BY <2>1, <2>3, <2>4, QuietPosted, ClosedStaysEmpty, NoQuestion
<1>13. CASE ShutdownDone
  <2>1. UNCHANGED <<main, posts>> /\ main = Idle
    BY <1>13 DEF ShutdownDone, Run
  <2>2. deliver \in Seq(Callback) /\ deliver # <<>> /\ deliver[1].op = "shutdown"
    BY <1>13 DEF ShutdownDone, Run, TypeOK, QueueTypeOK
  <2>3. 1 \in 1..Len(deliver)
    BY <2>2
  <2>4. posts = <<>>
    BY <2>2, <2>3 DEF ShutdownInv, QuestionInv
  <2> QED
    BY <1>1, <2>1, <2>4, QuietEmpty DEF QuestionInv
<1>14. CASE Leave
  <2>1. main = Idle /\ UNCHANGED <<posts, stop>>
    BY <1>14 DEF Leave, queueVars
  <2> QED
    BY <1>1, <2>1, NoQuestion DEF QuestionInv
<1>15. CASE RunNew \/ RunCheck
  <2>1. UNCHANGED stop /\ \E op \in {"new", "check"} : First(op)
    BY <1>15 DEF RunNew, RunCheck
  <2>2. Quiet(posts')
    BY <2>1, QuietTail
  <2>3. ~QueueClosed
    BY <2>1 DEF First, QuestionInv
  <2> QED
    BY <2>1, <2>2, <2>3, NoQuestion
<1>16. CASE RunGeneration \/ RunStart \/ RunCancel \/ RunClose \/ RunStop
  <2>1. UNCHANGED main /\ \E op : First(op)
    BY <1>16 DEF RunGeneration, RunStart, RunCancel, RunClose, RunStop
  <2>2. ~QueueClosed'
    BY <1>16, <2>1 DEF RunGeneration, RunStart, RunCancel, RunClose, RunStop, First, QuestionInv, QueueClosed
  <2> QED
    BY <2>1, <2>2, OtherTaken
<1>17. CASE CheckShutdown
  BY <1>17, QuietEmpty DEF CheckShutdown, QuestionInv, queueVars
<1> QED
  BY <1>2, <1>3, <1>4, <1>5, <1>6, <1>7, <1>8, <1>9, <1>10, <1>11, <1>12, <1>13, <1>14, <1>15, <1>16, <1>17
  DEF Next, Handlers, Notifications, Resumed, Callbacks, Coordinator, vars, queueVars,
      BusChange, Iterate, CoreDone, CoreInvalidated, Decide, Invalidate

-----------------------------------------------------------------------------
(* shutdown_done is posted once the coordinator's queue is closed. *)

(* A callback other than shutdown_done at the end of the queue. *)
LEMMA TellOther ==
  ASSUME TypeOK, ShutdownInv, NEW o \in {"completion", "notice"}, NEW C \in SUBSET Call,
         NEW S \in SUBSET Sess, deliver' = Tell(o, C, S), QueueClosed => QueueClosed'
  PROVE  ShutdownInv'
<1> DEFINE e == [op |-> o, calls |-> C, sess |-> S]
<1>1. deliver \in Seq(Callback) /\ e \in Callback /\ e.op # "shutdown"
  BY DEF TypeOK, QueueTypeOK, Callback
<1> HIDE DEF e
<1>2. /\ Len(deliver) \in Nat /\ Len(deliver') = Len(deliver) + 1 /\ deliver'[Len(deliver) + 1] = e
      /\ \A i \in 1..Len(deliver) : deliver'[i] = deliver[i]
  BY <1>1 DEF Tell, e
<1>3. ASSUME NEW i \in 1..Len(deliver'), deliver'[i].op = "shutdown" PROVE QueueClosed'
  <2>1. i \in 1..Len(deliver)
    BY <1>1, <1>2, <1>3
  <2> QED
    BY <1>2, <1>3, <2>1 DEF ShutdownInv
<1> QED
  BY <1>3 DEF ShutdownInv

LEMMA ShutdownTail ==
  ASSUME TypeOK, ShutdownInv, NEW op, Run(op), Ran, QueueClosed => QueueClosed'
  PROVE  ShutdownInv'
<1>1. deliver \in Seq(Callback) /\ deliver # <<>> /\ deliver' = Tail(deliver)
  BY DEF Run, Ran, TypeOK, QueueTypeOK
<1>2. \A i \in 1..Len(deliver') : i + 1 \in 1..Len(deliver) /\ deliver'[i] = deliver[i + 1]
  BY <1>1
<1> QED
  BY <1>2 DEF ShutdownInv

LEMMA ShutdownStep == TypeOK /\ QuestionInv /\ ShutdownInv /\ [Next]_vars => ShutdownInv'
<1> SUFFICES ASSUME TypeOK, QuestionInv, ShutdownInv, [Next]_vars PROVE ShutdownInv'
  OBVIOUS
<1>1. CASE UNCHANGED <<deliver, stop>>
  BY <1>1 DEF ShutdownInv, QueueClosed
<1>2. ASSUME NEW c \in Call, SubmitCall(c) PROVE ShutdownInv'
  <2>1. QueueClosed => QueueClosed'
    BY <1>2 DEF SubmitCall, QueueClosed
  <2>2. CASE deliver' = deliver
    BY <2>1, <2>2 DEF ShutdownInv
  <2>3. CASE deliver' = Tell("completion", {c}, {})
    BY <2>1, <2>3, TellOther
  <2> QED
    BY <1>2, <2>2, <2>3 DEF SubmitCall
<1>3. CASE CoreDone \/ CoreInvalidated
  <2>1. QueueClosed => QueueClosed'
    BY <1>3 DEF CoreDone, CoreInvalidated, QueueClosed
  <2> QED
    BY <1>3, <2>1, ShutdownTail DEF CoreDone, CoreInvalidated
<1>4. CASE ShutdownDone
  BY <1>4, ShutdownTail DEF ShutdownDone, QueueClosed
<1>5. CASE ShutdownAsync
  BY <1>5 DEF ShutdownAsync, ShutdownInv, QueueClosed
<1>6. CASE RunStart
  <2>1. PICK c \in Head(posts).calls : deliver' = deliver \/ deliver' = Tell("completion", {c}, {})
    BY <1>6 DEF RunStart
  <2>2. c \in Call
    BY <1>6, HeadPost DEF RunStart
  <2>3. QueueClosed => QueueClosed'
    BY <1>6 DEF RunStart, QueueClosed
  <2>4. CASE deliver' = deliver
    BY <2>3, <2>4 DEF ShutdownInv
  <2>5. CASE deliver' = Tell("completion", {c}, {})
    BY <2>2, <2>3, <2>5, TellOther
  <2> QED
    BY <2>1, <2>4, <2>5
<1>7. CASE RunStop
  <2>1. ~QueueClosed
    BY <1>7 DEF RunStop, First, QuestionInv
  <2>2. CASE deliver' = deliver
    BY <2>1, <2>2 DEF ShutdownInv
  <2>3. CASE deliver' = Tell("notice", {}, {s \in Sess : sess[s] = "open"})
    BY <2>1, <2>3, TellOther
  <2> QED
    BY <1>7, <2>2, <2>3 DEF RunStop
<1>8. CASE CheckShutdown
  BY <1>8 DEF CheckShutdown, ShutdownInv, QueueClosed
<1>9. ASSUME NEW c \in Call, Decide(c) PROVE ShutdownInv'
  <2>1. deliver' = Tell("completion", {c}, {}) /\ UNCHANGED stop
    BY <1>9 DEF Decide
  <2> QED
    BY <2>1, TellOther DEF QueueClosed
<1>10. ASSUME NEW s \in Sess, Invalidate(s) PROVE ShutdownInv'
  <2>1. deliver' = Tell("notice", {}, {s}) /\ UNCHANGED stop
    BY <1>10 DEF Invalidate
  <2> QED
    BY <2>1, TellOther DEF QueueClosed
<1> QED
  BY <1>1, <1>2, <1>3, <1>4, <1>5, <1>6, <1>7, <1>8, <1>9, <1>10
  DEF Next, Handlers, Notifications, Resumed, Callbacks, Coordinator, vars, queueVars,
      BusChange, FirstLookup, RefuseUnconfirmed, MainUnchanged, CreateSession, CloseSession, CloseRequest,
      BeginAcquire, BeginKeyOperation, BeginTransaction, FrontendAppeared, FrontendVanished,
      CreateSessionDone, RefuseCall, Iterate, Leave,
      RunGeneration, RunNew, RunCheck, RunCancel, RunClose

-----------------------------------------------------------------------------
(* The table and the session being created. *)

LEMMA KeptOnce ==
  ASSUME TypeOK, TableInv
  PROVE  /\ \A s \in Kept : s \in Sess /\ s # NoSess /\ table[PathOf[s]] = s
         /\ \A s \in Sess : table[PathOf[s]] = s => s \in Kept
BY ImplAssumption DEF Kept, TableInv, TypeOK, SessTypeOK

(* Some sessions leave the table and are unexported, and what stays still  *)
(* belongs to the owner.                                                   *)
LEMMA TableShrinks ==
  ASSUME TypeOK, TableInv, NEW S \in SUBSET Sess,
         table' = [p \in Path |-> IF table[p] \in S THEN NoSess ELSE table[p]],
         exported' = exported \ S,
         \A s \in Kept \ S : /\ owner'[s] = owner[s] /\ gen'[s] = gen[s] /\ sess'[s] # "new",
         \A s \in Kept \ S : cached' = cached /\ ownerGen' = ownerGen
  PROVE  TableInv'
<1>1. table \in [Path -> Sess \cup {NoSess}]
  BY DEF TypeOK, SessTypeOK
<1>2. \A p \in Path : table'[p] # NoSess => table'[p] = table[p] /\ table[p] \notin S
  BY <1>1
<1>3. Kept' \subseteq Kept \ S
  BY <1>1, <1>2, ImplAssumption DEF Kept
<1>4. Kept \ S \subseteq Kept'
  BY <1>1 DEF Kept
<1>5. Kept' = Kept \ S
  BY <1>3, <1>4
<1>6. exported' = Kept'
  BY <1>5 DEF TableInv, TableBelongsToOwner
<1>7. \A p \in Path : table'[p] # NoSess => PathOf[table'[p]] = p
  BY <1>2 DEF TableInv
<1>8. \A s \in Kept' : owner'[s] = cached' /\ gen'[s] = ownerGen' /\ cached' # NoOwner /\ sess'[s] # "new"
  BY <1>5 DEF TableInv, TableBelongsToOwner
<1> QED
  BY <1>6, <1>7, <1>8 DEF TableInv, TableBelongsToOwner

(* A change of the owner takes everything out of the table: what is kept   *)
(* belongs to the former owner.                                            *)
LEMMA OwnerChangeClears ==
  ASSUME TypeOK, TableInv, NEW o, SetFrontendOwner(o), UNCHANGED <<owner, gen, sess>>
  PROVE  TableInv'
<1>1. CASE o = cached
  BY <1>1 DEF SetFrontendOwner, TableInv, TableBelongsToOwner, Kept
<1>2. CASE o # cached
  <2>1. /\ table' = [p \in Path |-> IF table[p] \in Doomed(o) THEN NoSess ELSE table[p]]
        /\ exported' = exported \ Doomed(o)
    BY <1>2 DEF SetFrontendOwner, Forget
  <2>2. Doomed(o) = Kept /\ Kept \in SUBSET Sess
    BY <1>2 DEF Doomed, Kept, TableInv, TableBelongsToOwner
  <2>3. \A s \in Kept \ Doomed(o) : FALSE
    BY <2>2
  <2> QED
    BY <2>1, <2>2, <2>3, TableShrinks
<1> QED
  BY <1>1, <1>2

LEMMA SameTable ==
  ASSUME TableInv, UNCHANGED <<table, exported, owner, gen, cached, ownerGen>>,
         \A s \in Kept : sess'[s] # "new"
  PROVE  TableInv'
BY DEF TableInv, TableBelongsToOwner, Kept

(* The coordinator closes sessions; none becomes new again. *)
LEMMA EndedIsNotNew ==
  ASSUME TypeOK, NEW S, NEW C, EndSessions(S, C)
  PROVE  \A s \in Sess : sess[s] # "new" => sess'[s] # "new"
BY DEF EndSessions, TypeOK, SessTypeOK

LEMMA IdleCreates ==
  ASSUME main' = Idle
  PROVE  CreateInv'
BY DEF CreateInv, Idle, At

LEMMA StillCreating ==
  ASSUME CreateInv, UNCHANGED <<main, gen, ownerGen, cached, table>>,
         \A s \in Sess : sess[s] # "new" => sess'[s] # "new"
  PROVE  CreateInv'
BY DEF CreateInv, Kept

LEMMA TableStep ==
  ASSUME OwnInv, [Next]_vars
  PROVE  TableInv' /\ CreateInv'
<1> USE DEF OwnInv
<1>0. \A s \in Kept : s \in Sess /\ sess[s] # "new"
  BY KeptOnce DEF TableInv
<1>1. CASE UNCHANGED <<main, table, exported, owner, gen, cached, ownerGen, sess>>
  BY <1>0, <1>1, SameTable, StillCreating
<1>2. CASE FirstLookup \/ RefuseUnconfirmed \/ FrontendAppeared
  <2>1. /\ main' = Idle /\ UNCHANGED <<owner, gen, sess>> /\ \E o : SetFrontendOwner(o)
    BY <1>2 DEF FirstLookup, RefuseUnconfirmed, FrontendAppeared, OwnerAppears, MainUnchanged
  <2> QED
    BY <2>1, OwnerChangeClears, IdleCreates
<1>3. CASE FrontendVanished
  <2>1. /\ main' = Idle /\ UNCHANGED <<owner, gen, sess>>
        /\ table' = [p \in Path |-> IF table[p] \in Kept THEN NoSess ELSE table[p]]
        /\ exported' = exported \ Kept
    BY <1>3 DEF FrontendVanished, Forget
  <2>2. Kept \in SUBSET Sess
    BY DEF Kept
  <2> QED
    BY <2>1, <2>2, TableShrinks, IdleCreates
<1>4. ASSUME NEW s \in Sess, CreateSession(s) PROVE TableInv' /\ CreateInv'
  <2> DEFINE old == {t \in Sess : table[PathOf[s]] = t}
  <2>1. /\ main = Idle /\ sess[s] = "new" /\ cached # NoOwner
        /\ table' = [table EXCEPT ![PathOf[s]] = NoSess] /\ exported' = exported \ old
        /\ UNCHANGED <<cached, ownerGen, owner, sess>>
    BY <1>4 DEF CreateSession, Authorised, ownerVars
  <2>2. table \in [Path -> Sess \cup {NoSess}] /\ PathOf[s] \in Path
    BY ImplAssumption DEF TypeOK, SessTypeOK
  <2>3. \A p \in Path : table[p] \in old <=> table[p] # NoSess /\ p = PathOf[s]
    <3>1. \A p \in Path : table[p] \in old => table[p] # NoSess /\ p = PathOf[s]
      <4> SUFFICES ASSUME NEW p \in Path, table[p] \in old PROVE table[p] # NoSess /\ p = PathOf[s]
        OBVIOUS
      <4>1. table[p] \in Sess /\ table[PathOf[s]] = table[p]
        OBVIOUS
      <4>2. table[p] # NoSess
        BY <4>1, ImplAssumption
      <4>3. PathOf[table[p]] = p /\ PathOf[table[PathOf[s]]] = PathOf[s]
        BY <2>2, <4>1, <4>2 DEF TableInv
      <4> QED
        BY <4>1, <4>2, <4>3
    <3>2. table[PathOf[s]] # NoSess => table[PathOf[s]] \in old
      BY <2>2
    <3> QED
      BY <3>1, <3>2
  <2>4. table' = [p \in Path |-> IF table[p] \in old THEN NoSess ELSE table[p]]
    BY <2>1, <2>2, <2>3
  <2>5. s \notin Kept
    BY <1>0, <2>1
  <2>6. \A t \in Kept \ old : owner'[t] = owner[t] /\ gen'[t] = gen[t] /\ sess'[t] # "new"
    <3> TAKE t \in Kept \ old
    <3>1. t \in Sess /\ t # s /\ sess[t] # "new"
      BY <1>0, <2>5
    <3>2. gen'[t] = gen[t]
      BY <1>4, <3>1 DEF CreateSession, TypeOK, SessTypeOK
    <3> QED
      BY <2>1, <3>1, <3>2
  <2>7. TableInv'
    <3>1. old \in SUBSET Sess
      OBVIOUS
    <3> HIDE DEF old
    <3> QED
      BY <2>1, <2>4, <2>6, <3>1, TableShrinks
  <2>8. CASE main' = At("create", {}, {s}) /\ gen' = [gen EXCEPT ![s] = ownerGen]
    <3>1. gen'[s] = ownerGen /\ table'[PathOf[s]] = NoSess
      BY <2>1, <2>2, <2>8 DEF TypeOK, SessTypeOK
    <3>2. s \notin Kept'
      BY <2>1, <2>2, <2>5, ImplAssumption DEF Kept
    <3>3. main'.at = "create" /\ main'.call = {} /\ main'.sess = {s}
      BY <2>8 DEF At
    <3>4. CreateInv'
      BY <2>1, <3>1, <3>2, <3>3 DEF CreateInv
    <3> QED
      BY <2>7, <3>4
  <2>9. CASE UNCHANGED main
    BY <2>1, <2>7, <2>9, IdleCreates
  <2> QED
    BY <1>4, <2>8, <2>9 DEF CreateSession
<1>5. CASE CreateSessionDone
  <2>1. main' = Idle /\ UNCHANGED <<cached, ownerGen, gen, sess>> /\ main.call = {}
    BY <1>5 DEF CreateSessionDone, ownerVars
  <2>2. CASE UNCHANGED <<owner, table, exported>>
    BY <1>0, <2>1, <2>2, SameTable, IdleCreates
  <2>3. CASE /\ main.at = "created"
             /\ \E s \in main.sess : /\ owner' = [owner EXCEPT ![s] = cached]
                                     /\ table' = [table EXCEPT ![PathOf[s]] = s]
                                     /\ exported' = exported \cup {s}
    <3>1. PICK s \in Sess : /\ main.sess = {s} /\ gen[s] = ownerGen /\ cached # NoOwner
                            /\ s \notin Kept /\ table[PathOf[s]] = NoSess /\ sess[s] # "new"
      <4>1. main.at = "created"
        BY <2>3
      <4> QED
        BY <4>1 DEF CreateInv
    <3>2. /\ owner' = [owner EXCEPT ![s] = cached] /\ table' = [table EXCEPT ![PathOf[s]] = s]
          /\ exported' = exported \cup {s}
      BY <2>3, <3>1
    <3>3. /\ table \in [Path -> Sess \cup {NoSess}] /\ PathOf[s] \in Path
          /\ owner \in [Sess -> Owner]
      BY ImplAssumption DEF TypeOK, SessTypeOK
    <3>4. Kept' = Kept \cup {s}
      <4>1. Kept' \subseteq Kept \cup {s}
        BY <3>2, <3>3 DEF Kept
      <4>2. s \in Kept'
        BY <3>2, <3>3 DEF Kept
      <4>3. ASSUME NEW t \in Kept PROVE t \in Kept'
        <5>1. t \in Sess /\ t # NoSess /\ table[PathOf[t]] = t /\ PathOf[t] \in Path
          BY KeptOnce, ImplAssumption
        <5>2. table'[PathOf[t]] = t
          BY <3>1, <3>2, <3>3, <5>1
        <5> QED
          BY <5>1, <5>2 DEF Kept
      <4> QED
        BY <4>1, <4>2, <4>3
    <3>5. \A t \in Kept' : /\ owner'[t] = cached' /\ gen'[t] = ownerGen'
                           /\ cached' # NoOwner /\ sess'[t] # "new"
      BY <1>0, <2>1, <3>1, <3>2, <3>3, <3>4 DEF TableInv, TableBelongsToOwner
    <3>6. exported' = Kept'
      BY <3>2, <3>4 DEF TableInv, TableBelongsToOwner
    <3>7. \A p \in Path : table'[p] # NoSess => PathOf[table'[p]] = p
      BY <3>2, <3>3 DEF TableInv
    <3>8. TableInv'
      BY <3>5, <3>6, <3>7 DEF TableInv, TableBelongsToOwner
    <3> QED
      BY <2>1, <3>8, IdleCreates
  <2> QED
    BY <1>5, <2>2, <2>3 DEF CreateSessionDone
<1>6. ASSUME NEW s \in Sess, CloseSession(s) PROVE TableInv' /\ CreateInv'
  <2>1. /\ main' = Idle /\ UNCHANGED <<cached, ownerGen, owner, gen, sess>>
        /\ table' = [p \in Path |-> IF table[p] \in {s} THEN NoSess ELSE table[p]]
        /\ exported' = exported \ {s}
    BY <1>6 DEF CloseSession, Authorised, MainUnchanged, Forget, ownerVars
  <2>2. {s} \in SUBSET Sess
    OBVIOUS
  <2> QED
    BY <1>0, <2>1, <2>2, TableShrinks, IdleCreates
<1>7. CASE Leave
  <2>1. /\ main' = At("left", {}, {}) /\ UNCHANGED <<cached, ownerGen, owner, gen, sess>>
        /\ table' = [p \in Path |-> NoSess] /\ exported' = exported \ Kept
    BY <1>7 DEF Leave, ownerVars
  <2>2. Kept' = {} /\ exported' = {}
    BY <2>1, ImplAssumption DEF Kept, TableInv, TableBelongsToOwner
  <2>3. \A p \in Path : table'[p] = NoSess
    BY <2>1
  <2>4. TableInv'
    BY <2>2, <2>3 DEF TableInv, TableBelongsToOwner
  <2>5. CreateInv'
    BY <2>1 DEF CreateInv, At
  <2> QED
    BY <2>4, <2>5
<1>8. CASE \E c \in Call, p \in Path : BeginAcquire(c, p) \/ BeginKeyOperation(c, p)
  <2>1. /\ UNCHANGED <<cached, ownerGen, table, owner, gen, sess, exported>>
        /\ main'.at \in {"check", "submit"}
    BY <1>8 DEF BeginAcquire, BeginKeyOperation, BeginTransaction, At, ownerVars, sessVars
  <2>2. CreateInv'
    BY <2>1 DEF CreateInv
  <2> QED
    BY <1>0, <2>1, <2>2, SameTable
<1>9. CASE \E c \in Call : RefuseCall(c) \/ SubmitCall(c)
  <2>1. /\ UNCHANGED <<cached, ownerGen, table, owner, gen, sess, exported>> /\ main' = Idle
    BY <1>9 DEF RefuseCall, SubmitCall, ownerVars, sessVars
  <2> QED
    BY <1>0, <2>1, SameTable, IdleCreates
<1>10. CASE RunNew
  <2>1. /\ posts \in Seq(Post) /\ posts # <<>> /\ posts[1].op = "new" /\ Head(posts) = posts[1]
        /\ 1 \in 1..Len(posts)
    BY <1>10, HeadPost DEF RunNew, First
  <2>2. main = At("create", posts[1].calls, posts[1].sess)
    BY <2>1 DEF QuestionInv, Asks
  <2>3. PICK s \in Sess : /\ main.call = {} /\ main.sess = {s}
                            /\ gen[s] = ownerGen /\ cached # NoOwner
                            /\ s \notin Kept /\ table[PathOf[s]] = NoSess
    <3>1. main.at = "create"
      BY <2>2 DEF At
    <3>2. CreateInv
      OBVIOUS
    <3> HIDE DEF OwnInv
    <3> QED
      BY <3>1, <3>2 DEF CreateInv
  <2>4. Head(posts).sess = {s}
    BY <2>1, <2>2, <2>3 DEF At
  <2>5. /\ sess' = [sess EXCEPT ![s] = IF ~Stopping /\ gen[s] = coreGen THEN "open" ELSE "closed"]
        /\ main' = [main EXCEPT !.at = IF ~Stopping /\ gen[s] = coreGen THEN "created" ELSE "refused"]
        /\ UNCHANGED <<cached, ownerGen, table, owner, gen, exported>>
    BY <1>10, <2>4 DEF RunNew, ownerVars
  <2>6. sess'[s] # "new" /\ \A t \in Kept : sess'[t] # "new"
    BY <1>0, <2>5 DEF TypeOK, SessTypeOK
  <2>7. main'.call = {} /\ main'.sess = {s}
    BY <2>2, <2>3, <2>5 DEF At
  <2>8. CreateInv'
    BY <2>3, <2>5, <2>6, <2>7 DEF CreateInv, Kept
  <2> QED
    BY <2>5, <2>6, <2>8, SameTable
<1>11. CASE RunCheck
  <2>1. /\ posts \in Seq(Post) /\ posts # <<>> /\ posts[1].op = "check" /\ Head(posts) = posts[1]
        /\ 1 \in 1..Len(posts)
    BY <1>11, HeadPost DEF RunCheck, First
  <2>2. main = At("check", posts[1].calls, posts[1].sess)
    BY <2>1 DEF QuestionInv, Asks
  <2>3. UNCHANGED <<cached, ownerGen, table, owner, gen, sess, exported>>
        /\ main'.at \in {"submit", "refused"}
    BY <1>11, <2>2 DEF RunCheck, At, ownerVars, sessVars
  <2>4. CreateInv'
    BY <2>3 DEF CreateInv
  <2> QED
    BY <1>0, <2>3, <2>4, SameTable
<1>12. CASE RunGeneration \/ RunClose \/ RunStop \/ \E s \in Sess : Invalidate(s)
  <2>1. UNCHANGED <<main, table, exported, owner, gen, cached, ownerGen>>
        /\ \E S, C : EndSessions(S, C)
    BY <1>12 DEF RunGeneration, RunClose, RunStop, Invalidate, ownerVars
  <2>2. \A s \in Sess : sess[s] # "new" => sess'[s] # "new"
    BY <2>1, EndedIsNotNew
  <2> QED
    BY <1>0, <2>1, <2>2, SameTable, StillCreating
<1> QED
  BY <1>1, <1>2, <1>3, <1>4, <1>5, <1>6, <1>7, <1>8, <1>9, <1>10, <1>11, <1>12
  DEF Next, Handlers, Notifications, Resumed, Callbacks, Coordinator, vars, ownerVars, sessVars,
      BusChange, CloseRequest, ShutdownAsync, Iterate, CoreDone, CoreInvalidated, ShutdownDone,
      RunStart, RunCancel, CheckShutdown, Decide

LEMMA OwnInit == Init => OwnInv
<1> SUFFICES ASSUME Init PROVE OwnInv
  OBVIOUS
<1>1. TypeOK
  BY TypeInit
<1>2. QuestionInv /\ ShutdownInv
  BY DEF Init, QuestionInv, ShutdownInv, QueueClosed
<1>3. CreateInv
  BY DEF Init, CreateInv, Idle, At
<1>4. Kept = {} /\ \A p \in Path : table[p] = NoSess
  BY ImplAssumption DEF Init, Kept
<1>5. TableInv
  BY <1>4 DEF Init, TableInv, TableBelongsToOwner
<1> QED
  BY <1>1, <1>2, <1>3, <1>5 DEF OwnInv

LEMMA OwnStep == OwnInv /\ [Next]_vars => OwnInv'
BY TypeStep, QuestionStep, ShutdownStep, TableStep DEF OwnInv

(* Whatever the order of lookups, notifications and answers of the         *)
(* coordinator, the adapter keeps and exports only sessions that the owner *)
(* it knows created, under the generation it announced last                *)
(* (set_frontend_owner, invalidate_foreign_sessions).                      *)
THEOREM TableAlwaysBelongsToOwner == Spec => []TableBelongsToOwner
<1>1. OwnInv => TableBelongsToOwner
  BY DEF OwnInv, TableInv
<1> QED
  BY <1>1, OwnInit, OwnStep, PTL DEF Spec

-----------------------------------------------------------------------------
(* The calls.  A call is in exactly one place: begun by the handler that   *)
(* the main thread is in, in the coordinator's queue, at work, or in the   *)
(* queue of callbacks.                                                     *)

(* The queue q carries one entry o for each of the calls C, and no other.  *)
Carries(q, o, C) ==
  /\ \A i \in 1..Len(q) : q[i].op = o => \E c \in C : q[i].calls = {c}
  /\ \A i, j \in 1..Len(q) : q[i].op = o /\ q[j].op = o /\ q[i].calls = q[j].calls => i = j
  /\ \A c \in C : \E i \in 1..Len(q) : q[i].op = o /\ q[i].calls = {c}

In(stage) == {c \in Call : core[c] = stage}

CarryInv == Carries(posts, "start", In("posted")) /\ Carries(deliver, "completion", In("decided"))

(* The transaction, its request and its session. *)
PlaceOK(c) ==
  /\ tx[c] = "new" => core[c] = "none"
  /\ tx[c] = "begun" => core[c] = "none" /\ main.call = {c}
  /\ tx[c] = "live" => core[c] \in {"posted", "active", "decided"}
  /\ tx[c] = "answered" => core[c] \in {"none", "done"}
  /\ result[c] = "ok" => core[c] = "decided"
  /\ tx[c] \in {"begun", "live"} => /\ of[c] \in Sess /\ sess[of[c]] # "new"
                                    /\ main.call = {} => of[c] \notin main.sess

MainInv ==
  /\ main.call # {} => \E c \in Call : main.call = {c} /\ tx[c] = "begun"
  /\ main.at = "idle" => main = Idle
  /\ main.at = "left" => main = At("left", {}, {})
  /\ main.at \in {"check", "submit"} => main.call # {}

(* A call that nobody cancelled is of a session that the owner holds, or   *)
(* the coordinator has closed its session, and it cannot succeed.          *)
HeldOK(c) ==
  /\ tx[c] \in {"begun", "live"} /\ mark[c] = "none" /\ main.at # "left"
       => (of[c] \in Kept /\ sender[c] = cached) \/ sess[of[c]] = "closed"
  /\ tx[c] = "live" /\ sess[of[c]] = "closed"
       => core[c] = "posted" \/ c \in intent \/ (core[c] = "decided" /\ result[c] = "error")

CallInv == MainInv /\ \A c \in Call : PlaceOK(c) /\ HeldOK(c)

(* The shutdown: the iteration of the main loop that runs shutdown_done    *)
(* also runs the completion of every call that is left.                    *)
ClosedInv ==
  /\ Stopping => \A s \in Sess : sess[s] # "open"
  /\ QueueClosed => \A c \in Call : core[c] # "active"

BatchInv ==
  /\ batch > 0 => QueueClosed
  /\ main.at = "left" => stop = "done" /\ batch = 0

LastInv ==
  QueueClosed /\ (batch > 0 \/ stop = "done") =>
    /\ main.call = {}
    /\ \A c \in Live : \E i \in 1..Len(deliver) :
         i <= batch /\ deliver[i].op = "completion" /\ deliver[i].calls = {c}

StopInv == ClosedInv /\ BatchInv /\ LastInv

AdapterInv == OwnInv /\ CarryInv /\ CallInv /\ StopInv

-----------------------------------------------------------------------------
(* The queues. *)

(* Entries that carry no call. *)
LEMMA CarriesMore ==
  ASSUME NEW T, NEW q \in Seq(T), NEW r \in Seq(T), NEW o, NEW C, Carries(q, o, C),
         \A i \in 1..Len(r) : r[i].op # o
  PROVE  q \o r \in Seq(T) /\ Carries(q \o r, o, C)
<1> DEFINE all == q \o r
<1>1. /\ all \in Seq(T) /\ Len(all) = Len(q) + Len(r) /\ Len(q) \in Nat /\ Len(r) \in Nat
      /\ \A i \in 1..Len(q) : all[i] = q[i]
      /\ \A i \in 1..Len(all) : i \in 1..Len(q) \/ (i - Len(q) \in 1..Len(r) /\ all[i] = r[i - Len(q)])
  OBVIOUS
<1> HIDE DEF all
<1>2. \A i \in 1..Len(all) : all[i].op = o => i \in 1..Len(q) /\ all[i] = q[i]
  BY <1>1
<1>3. \A i \in 1..Len(q) : i \in 1..Len(all) /\ all[i] = q[i]
  BY <1>1
<1>4. \A i \in 1..Len(all) : all[i].op = o => \E c \in C : all[i].calls = {c}
  <2> SUFFICES ASSUME NEW i \in 1..Len(all), all[i].op = o PROVE \E c \in C : all[i].calls = {c}
    OBVIOUS
  <2>1. i \in 1..Len(q) /\ all[i] = q[i]
    BY <1>2
  <2>2. q[i].op = o
    BY <2>1
  <2>3. \E c \in C : q[i].calls = {c}
    BY <2>1, <2>2 DEF Carries
  <2> QED
    BY <2>1, <2>3
<1>5. \A i, j \in 1..Len(all) : all[i].op = o /\ all[j].op = o /\ all[i].calls = all[j].calls => i = j
  <2> SUFFICES ASSUME NEW i \in 1..Len(all), NEW j \in 1..Len(all),
                      all[i].op = o, all[j].op = o, all[i].calls = all[j].calls
               PROVE  i = j
    OBVIOUS
  <2>1. i \in 1..Len(q) /\ all[i] = q[i] /\ j \in 1..Len(q) /\ all[j] = q[j]
    BY <1>2
  <2>2. q[i].op = o /\ q[j].op = o /\ q[i].calls = q[j].calls
    BY <2>1
  <2> QED
    BY <2>1, <2>2 DEF Carries
<1>6. \A c \in C : \E i \in 1..Len(all) : all[i].op = o /\ all[i].calls = {c}
  <2> SUFFICES ASSUME NEW c \in C PROVE \E i \in 1..Len(all) : all[i].op = o /\ all[i].calls = {c}
    OBVIOUS
  <2>1. PICK i \in 1..Len(q) : q[i].op = o /\ q[i].calls = {c}
    BY DEF Carries
  <2> QED
    BY <1>3, <2>1
<1>7. Carries(all, o, C)
  BY <1>4, <1>5, <1>6 DEF Carries
<1> QED
  BY <1>1, <1>7 DEF all

(* The first entry of a queue that has one. *)
LEMMA TailIndex ==
  ASSUME NEW T, NEW q \in Seq(T), q # <<>>
  PROVE  /\ Tail(q) \in Seq(T) /\ 1 \in 1..Len(q) /\ Head(q) = q[1] /\ q[1] \in T
         /\ \A i \in 1..Len(Tail(q)) : i + 1 \in 1..Len(q) /\ Tail(q)[i] = q[i + 1] /\ i + 1 # 1
         /\ \A i \in 1..Len(q) : i = 1 \/ (i - 1 \in 1..Len(Tail(q)) /\ q[i] = Tail(q)[i - 1])
         /\ \A i, j \in 1..Len(Tail(q)) : i + 1 = j + 1 => i = j
<1>1. Len(q) \in Nat \ {0} /\ Len(Tail(q)) = Len(q) - 1
  OBVIOUS
<1> QED
  BY <1>1

(* A call enters a queue. *)
LEMMA CarriesNew ==
  ASSUME NEW T, NEW q \in Seq(T), NEW e \in T, NEW o, NEW C, Carries(q, o, C),
         NEW c, c \notin C, e.op = o, e.calls = {c}
  PROVE  Carries(Append(q, e), o, C \cup {c})
<1> DEFINE all == Append(q, e)
<1>1. /\ all \in Seq(T) /\ Len(all) = Len(q) + 1 /\ Len(q) \in Nat
      /\ \A i \in 1..Len(q) : all[i] = q[i] /\ i \in 1..Len(all)
      /\ all[Len(q) + 1] = e /\ Len(q) + 1 \in 1..Len(all)
      /\ \A i \in 1..Len(all) : i \in 1..Len(q) \/ i = Len(q) + 1
  OBVIOUS
<1> HIDE DEF all
<1>2. \A i \in 1..Len(q) : all[i].op = o => \E d \in C : all[i].calls = {d} /\ d # c
  BY <1>1 DEF Carries
<1>3. \A i \in 1..Len(all) : all[i].op = o => \E d \in C \cup {c} : all[i].calls = {d}
  BY <1>1, <1>2
<1>4. \A i, j \in 1..Len(all) : all[i].op = o /\ all[j].op = o /\ all[i].calls = all[j].calls => i = j
  <2> SUFFICES ASSUME NEW i \in 1..Len(all), NEW j \in 1..Len(all),
                      all[i].op = o, all[j].op = o, all[i].calls = all[j].calls
               PROVE  i = j
    OBVIOUS
  <2>1. CASE i \in 1..Len(q) /\ j \in 1..Len(q)
    BY <1>1, <2>1 DEF Carries
  <2>2. ASSUME NEW k \in 1..Len(q), all[k].op = o PROVE all[k].calls # all[Len(q) + 1].calls
    BY <1>1, <1>2, <2>2
  <2> QED
    BY <1>1, <2>1, <2>2
<1>5. \A d \in C \cup {c} : \E i \in 1..Len(all) : all[i].op = o /\ all[i].calls = {d}
  BY <1>1 DEF Carries
<1> QED
  BY <1>3, <1>4, <1>5 DEF Carries, all

(* The entries t after the first entry h. *)
CarriesRest(h, t, o, C) ==
  /\ \A i \in 1..Len(t) : t[i].op = o => \E c \in C : t[i].calls = {c}
  /\ \A i, j \in 1..Len(t) : t[i].op = o /\ t[j].op = o /\ t[i].calls = t[j].calls => i = j
  /\ \A i \in 1..Len(t) : t[i].op = o /\ h.op = o => t[i].calls # h.calls
  /\ \A c \in C : \/ h.op = o /\ h.calls = {c}
                  \/ \E i \in 1..Len(t) : t[i].op = o /\ t[i].calls = {c}

LEMMA CarriesAfter ==
  ASSUME NEW T, NEW q \in Seq(T), q # <<>>, NEW o, NEW C, Carries(q, o, C)
  PROVE  CarriesRest(Head(q), Tail(q), o, C)
<1> DEFINE t == Tail(q)
           h == Head(q)
<1>1. /\ t \in Seq(T) /\ 1 \in 1..Len(q) /\ h = q[1] /\ q[1] \in T
      /\ \A i \in 1..Len(t) : i + 1 \in 1..Len(q) /\ t[i] = q[i + 1] /\ i + 1 # 1
      /\ \A i \in 1..Len(q) : i = 1 \/ (i - 1 \in 1..Len(t) /\ q[i] = t[i - 1])
      /\ \A i, j \in 1..Len(t) : i + 1 = j + 1 => i = j
  BY TailIndex
<1> HIDE DEF t, h
<1>2. /\ \A i \in 1..Len(q) : q[i].op = o => \E c \in C : q[i].calls = {c}
      /\ \A i, j \in 1..Len(q) : q[i].op = o /\ q[j].op = o /\ q[i].calls = q[j].calls => i = j
      /\ \A c \in C : \E i \in 1..Len(q) : q[i].op = o /\ q[i].calls = {c}
  BY DEF Carries
<1>3. \A i \in 1..Len(t) : t[i].op = o => \E c \in C : t[i].calls = {c}
  <2> SUFFICES ASSUME NEW i \in 1..Len(t), t[i].op = o PROVE \E c \in C : t[i].calls = {c}
    OBVIOUS
  <2>1. i + 1 \in 1..Len(q) /\ t[i] = q[i + 1]
    BY <1>1
  <2> QED
    BY <1>2, <2>1
<1>4. \A i, j \in 1..Len(t) : t[i].op = o /\ t[j].op = o /\ t[i].calls = t[j].calls => i = j
  <2> SUFFICES ASSUME NEW i \in 1..Len(t), NEW j \in 1..Len(t),
                      t[i].op = o, t[j].op = o, t[i].calls = t[j].calls
               PROVE  i = j
    OBVIOUS
  <2>1. /\ i + 1 \in 1..Len(q) /\ t[i] = q[i + 1]
        /\ j + 1 \in 1..Len(q) /\ t[j] = q[j + 1]
    BY <1>1
  <2>2. i + 1 = j + 1
    BY <1>2, <2>1
  <2> QED
    BY <1>1, <2>2
<1>5. \A i \in 1..Len(t) : t[i].op = o /\ h.op = o => t[i].calls # h.calls
  <2> SUFFICES ASSUME NEW i \in 1..Len(t), t[i].op = o, h.op = o, t[i].calls = h.calls PROVE FALSE
    OBVIOUS
  <2>1. i + 1 \in 1..Len(q) /\ t[i] = q[i + 1] /\ i + 1 # 1 /\ h = q[1] /\ 1 \in 1..Len(q)
    BY <1>1
  <2>2. q[i + 1].op = o /\ q[1].op = o /\ q[i + 1].calls = q[1].calls
    BY <2>1
  <2>3. i + 1 = 1
    BY <1>2, <2>1, <2>2
  <2> QED
    BY <2>1, <2>3
<1>6. \A c \in C : \/ h.op = o /\ h.calls = {c}
                   \/ \E i \in 1..Len(t) : t[i].op = o /\ t[i].calls = {c}
  <2> SUFFICES ASSUME NEW c \in C
               PROVE  \/ h.op = o /\ h.calls = {c}
                      \/ \E i \in 1..Len(t) : t[i].op = o /\ t[i].calls = {c}
    OBVIOUS
  <2>1. PICK i \in 1..Len(q) : q[i].op = o /\ q[i].calls = {c}
    BY <1>2
  <2>2. i = 1 \/ (i - 1 \in 1..Len(t) /\ q[i] = t[i - 1])
    BY <1>1
  <2> QED
    BY <1>1, <2>1, <2>2
<1> QED
  BY <1>3, <1>4, <1>5, <1>6 DEF t, h, CarriesRest

(* An entry that carries no call is taken. *)
LEMMA CarriesTail ==
  ASSUME NEW T, NEW q \in Seq(T), q # <<>>, NEW o, NEW C, Carries(q, o, C), Head(q).op # o
  PROVE  Carries(Tail(q), o, C)
<1>1. CarriesRest(Head(q), Tail(q), o, C)
  BY CarriesAfter
<1> QED
  BY <1>1 DEF CarriesRest, Carries

(* A call leaves its queue. *)
LEMMA CarriesTaken ==
  ASSUME NEW T, NEW q \in Seq(T), q # <<>>, NEW o, NEW C, Carries(q, o, C), Head(q).op = o
  PROVE  \E c \in C : Head(q).calls = {c} /\ Carries(Tail(q), o, C \ {c})
<1> DEFINE t == Tail(q)
           h == Head(q)
<1>0. CarriesRest(h, t, o, C)
  BY CarriesAfter
<1>2. \E c \in C : h.calls = {c}
  <2>1. 1 \in 1..Len(q) /\ h = q[1]
    BY TailIndex
  <2> QED
    BY <2>1 DEF Carries
<1> HIDE DEF t, h
<1>1. /\ \A i \in 1..Len(t) : t[i].op = o => t[i].calls # h.calls
      /\ \A c \in C : h.calls = {c} \/ \E i \in 1..Len(t) : t[i].op = o /\ t[i].calls = {c}
  BY <1>0 DEF h, CarriesRest
<1>3. PICK c \in C : h.calls = {c}
  BY <1>2
<1>4. \A i \in 1..Len(t) : t[i].op = o => \E d \in C \ {c} : t[i].calls = {d}
  BY <1>0, <1>1, <1>3 DEF CarriesRest
<1>5. \A d \in C \ {c} : \E i \in 1..Len(t) : t[i].op = o /\ t[i].calls = {d}
  <2> SUFFICES ASSUME NEW d \in C, d # c PROVE \E i \in 1..Len(t) : t[i].op = o /\ t[i].calls = {d}
    OBVIOUS
  <2>1. h.calls # {d}
    BY <1>3
  <2> QED
    BY <1>1, <2>1
<1>6. Carries(t, o, C \ {c})
  BY <1>0, <1>4, <1>5 DEF Carries, CarriesRest
<1> QED
  BY <1>3, <1>6 DEF t, h

(* What the handlers post but the start of a call. *)
Plain(q) == \A i \in 1..Len(q) : q[i].op # "start"

LEMMA PlainEntry ==
  ASSUME NEW o \in {"gen", "new", "check", "cancel", "close", "stop"}, NEW g \in Nat,
         NEW C \in SUBSET Call, NEW S \in SUBSET Sess
  PROVE  <<Entry(o, g, C, S)>> \in Seq(Post) /\ Plain(<<Entry(o, g, C, S)>>)
<1>1. <<Entry(o, g, C, S)>> \in Seq(Post)
  BY EntryIsPost
<1>2. Len(<<Entry(o, g, C, S)>>) = 1 /\ <<Entry(o, g, C, S)>>[1].op = o
  BY EntryIsPost
<1> QED
  BY <1>1, <1>2 DEF Plain

LEMMA PlainConcat ==
  ASSUME NEW q \in Seq(Post), NEW r \in Seq(Post), Plain(q), Plain(r)
  PROVE  q \o r \in Seq(Post) /\ Plain(q \o r)
<1>1. Carries(q, "start", {})
  BY DEF Plain, Carries
<1>2. Carries(q \o r, "start", {}) /\ q \o r \in Seq(Post)
  BY <1>1, CarriesMore DEF Plain
<1> QED
  BY <1>2 DEF Plain, Carries

LEMMA PlainEmpty == <<>> \in Seq(Post) /\ Plain(<<>>)
BY DEF Plain

LEMMA PlainCancels ==
  ASSUME NEW C \in SUBSET Call
  PROVE  Cancels(C) \in Seq(Post) /\ Plain(Cancels(C))
<1>1. 0 \in Nat /\ {} \in SUBSET Sess
  OBVIOUS
<1>2. <<Entry("cancel", 0, C, {})>> \in Seq(Post) /\ Plain(<<Entry("cancel", 0, C, {})>>)
  BY <1>1, PlainEntry
<1> QED
  BY <1>2, PlainEmpty DEF Cancels

LEMMA PlainCloses ==
  ASSUME NEW S \in SUBSET Sess
  PROVE  Closes(S) \in Seq(Post) /\ Plain(Closes(S))
<1>1. 0 \in Nat /\ {} \in SUBSET Call
  OBVIOUS
<1>2. <<Entry("close", 0, {}, S)>> \in Seq(Post) /\ Plain(<<Entry("close", 0, {}, S)>>)
  BY <1>1, PlainEntry
<1> QED
  BY <1>2, PlainEmpty DEF Closes

LEMMA PlainGeneration ==
  ASSUME TypeOK
  PROVE  /\ <<Entry("gen", ownerGen + 1, {}, {})>> \in Seq(Post)
         /\ Plain(<<Entry("gen", ownerGen + 1, {}, {})>>)
<1>1. ownerGen + 1 \in Nat /\ {} \in SUBSET Call /\ {} \in SUBSET Sess
  BY DEF TypeOK, OwnerTypeOK
<1> QED
  BY <1>1, PlainEntry

LEMMA PlainForgets ==
  ASSUME NEW first \in Seq(Post), Plain(first), NEW C \in SUBSET Call, NEW S \in SUBSET Sess
  PROVE  /\ first \o Cancels(C) \o Closes(S) \in Seq(Post)
         /\ Plain(first \o Cancels(C) \o Closes(S))
<1>1. /\ Cancels(C) \in Seq(Post) /\ Plain(Cancels(C))
      /\ Closes(S) \in Seq(Post) /\ Plain(Closes(S))
  BY PlainCancels, PlainCloses
<1>2. first \o Cancels(C) \in Seq(Post) /\ Plain(first \o Cancels(C))
  BY <1>1, PlainConcat
<1> QED
  BY <1>1, <1>2, PlainConcat

(* The handlers of the main thread, except the one that starts a call. *)
LEMMA HandlersPost ==
  ASSUME TypeOK, Handlers \/ Notifications
  PROVE  \E e \in Seq(Post) : Plain(e) /\ posts' \in {posts, Posted(e)}
<1>1. ASSUME NEW o, SetFrontendOwner(o)
      PROVE  \E e \in Seq(Post) : Plain(e) /\ posts' \in {posts, Posted(e)}
  <2>1. CASE o = cached
    BY <1>1, <2>1, PlainEmpty DEF SetFrontendOwner
  <2>2. CASE o # cached
    <3>1. posts' = Posted(<<Entry("gen", ownerGen + 1, {}, {})>> \o Cancels(ForeignCalls(o))
                          \o Closes(Doomed(o)))
      BY <1>1, <2>2 DEF SetFrontendOwner, Forget
    <3>2. ForeignCalls(o) \in SUBSET Call /\ Doomed(o) \in SUBSET Sess
      BY DEF ForeignCalls, CallsOf, Live, Doomed, Kept
    <3> HIDE DEF ForeignCalls, Doomed
    <3> QED
      BY <3>1, <3>2, PlainGeneration, PlainForgets
  <2> QED
    BY <2>1, <2>2
<1>2. CASE FirstLookup \/ RefuseUnconfirmed \/ FrontendAppeared
  BY <1>1, <1>2 DEF FirstLookup, RefuseUnconfirmed, FrontendAppeared, OwnerAppears
<1>3. CASE FrontendVanished
  <2> DEFINE first == IF cached = NoOwner THEN <<>> ELSE <<Entry("gen", ownerGen + 1, {}, {})>>
  <2>1. posts' = Posted(first \o Cancels(Live) \o Closes(Kept))
    BY <1>3 DEF FrontendVanished, Forget
  <2>2. first \in Seq(Post) /\ Plain(first)
    BY PlainEmpty, PlainGeneration
  <2>3. Live \in SUBSET Call /\ Kept \in SUBSET Sess
    BY DEF Live, Kept
  <2> HIDE DEF first
  <2> QED
    BY <2>1, <2>2, <2>3, PlainForgets
<1>4. ASSUME NEW s \in Sess, CreateSession(s)
      PROVE  \E e \in Seq(Post) : Plain(e) /\ posts' \in {posts, Posted(e)}
  <2>1. <<Entry("new", 0, {}, {s})>> \in Seq(Post) /\ Plain(<<Entry("new", 0, {}, {s})>>)
    BY PlainEntry
  <2> QED
    BY <1>4, <2>1 DEF CreateSession
<1>5. ASSUME NEW s \in Sess, CloseSession(s)
      PROVE  \E e \in Seq(Post) : Plain(e) /\ posts' \in {posts, Posted(e)}
  <2>1. CallsOf({s}) \in SUBSET Call /\ {s} \in SUBSET Sess
    BY DEF CallsOf, Live
  <2>2. /\ Closes({s}) \o Cancels(CallsOf({s})) \in Seq(Post)
        /\ Plain(Closes({s}) \o Cancels(CallsOf({s})))
    BY <2>1, PlainCancels, PlainCloses, PlainConcat
  <2> QED
    BY <1>5, <2>2 DEF CloseSession, Forget
<1>6. ASSUME NEW c \in Call, CloseRequest(c)
      PROVE  \E e \in Seq(Post) : Plain(e) /\ posts' \in {posts, Posted(e)}
  <2>1. <<Entry("cancel", 0, {c}, {})>> \in Seq(Post) /\ Plain(<<Entry("cancel", 0, {c}, {})>>)
    BY PlainEntry
  <2> QED
    BY <1>6, <2>1 DEF CloseRequest
<1>7. ASSUME NEW c \in Call, NEW p \in Path, BeginAcquire(c, p)
      PROVE  \E e \in Seq(Post) : Plain(e) /\ posts' \in {posts, Posted(e)}
  <2>1. table[p] \in Sess
    BY <1>7 DEF BeginAcquire, BeginTransaction, TypeOK, SessTypeOK
  <2>2. /\ <<Entry("check", 0, {c}, {table[p]})>> \in Seq(Post)
        /\ Plain(<<Entry("check", 0, {c}, {table[p]})>>)
    BY <2>1, PlainEntry
  <2> QED
    BY <1>7, <2>2 DEF BeginAcquire
<1>8. CASE \E c \in Call, p \in Path : BeginKeyOperation(c, p)
  BY <1>8, PlainEmpty DEF BeginKeyOperation
<1>9. CASE ShutdownAsync
  <2>1. <<Entry("stop", 0, {}, {})>> \in Seq(Post) /\ Plain(<<Entry("stop", 0, {}, {})>>)
    BY PlainEntry
  <2> QED
    BY <1>9, <2>1 DEF ShutdownAsync
<1> QED
  BY <1>2, <1>3, <1>4, <1>5, <1>6, <1>7, <1>8, <1>9 DEF Handlers, Notifications

(* Each call that waits is in one entry. *)
LEMMA CarryStep == TypeOK /\ MainInv /\ (\A c \in Call : PlaceOK(c)) /\ CarryInv /\ [Next]_vars => CarryInv'
<1> SUFFICES ASSUME TypeOK, MainInv, \A c \in Call : PlaceOK(c), CarryInv, [Next]_vars PROVE CarryInv'
  OBVIOUS
<1>0. /\ posts \in Seq(Post) /\ deliver \in Seq(Callback)
      /\ core \in [Call -> {"none", "posted", "active", "decided", "done"}]
  BY DEF TypeOK, QueueTypeOK, CallTypeOK
<1>1. ASSUME UNCHANGED core PROVE In("posted")' = In("posted") /\ In("decided")' = In("decided")
  BY <1>1 DEF In
<1>2. ASSUME NEW q \in Seq(Post), posts' = q, Carries(q, "start", In("posted")'),
             NEW d \in Seq(Callback), deliver' = d, Carries(d, "completion", In("decided")')
      PROVE  CarryInv'
  BY <1>2 DEF CarryInv, Carries
<1>3. CASE Handlers \/ Notifications
  <2>1. PICK e \in Seq(Post) : Plain(e) /\ posts' \in {posts, Posted(e)}
    BY <1>3, HandlersPost
  <2>2. UNCHANGED <<core, deliver>>
    BY <1>3 DEF Handlers, Notifications, FirstLookup, RefuseUnconfirmed, MainUnchanged, CreateSession,
       CloseSession, CloseRequest, BeginAcquire, BeginKeyOperation, BeginTransaction, ShutdownAsync,
       FrontendAppeared, FrontendVanished, coreVars
  <2>3. posts' \in Seq(Post) /\ Carries(posts', "start", In("posted"))
    <3>1. posts \o e \in Seq(Post) /\ Carries(posts \o e, "start", In("posted"))
      BY <1>0, <2>1, CarriesMore DEF CarryInv, Plain
    <3> QED
      BY <1>0, <2>1, <3>1 DEF Posted, CarryInv
  <2> QED
    BY <1>0, <1>1, <1>2, <2>2, <2>3 DEF CarryInv
<1>4. ASSUME NEW o \in {"notice", "shutdown"}, NEW S \in SUBSET Sess
      PROVE  Tell(o, {}, S) \in Seq(Callback) /\ Carries(Tell(o, {}, S), "completion", In("decided"))
  <2> DEFINE e == [op |-> o, calls |-> {}, sess |-> S]
  <2>1. <<e>> \in Seq(Callback) /\ \A i \in 1..Len(<<e>>) : <<e>>[i].op # "completion"
    BY DEF Callback
  <2>2. Tell(o, {}, S) = deliver \o <<e>>
    <3>1. e \in Callback
      BY DEF Callback
    <3> HIDE DEF e
    <3>2. Append(deliver, e) = deliver \o <<e>>
      BY <1>0, <3>1
    <3> QED
      BY <3>2 DEF Tell, e
  <2> HIDE DEF e
  <2> QED
    BY <1>0, <2>1, <2>2, CarriesMore DEF CarryInv
<1>5. CASE UNCHANGED <<posts, deliver, core>>
  BY <1>0, <1>1, <1>2, <1>5 DEF CarryInv
<1>6. ASSUME NEW c \in Call
      PROVE  /\ [op |-> "completion", calls |-> {c}, sess |-> {}] \in Callback
             /\ Tell("completion", {c}, {}) \in Seq(Callback)
             /\ core[c] # "decided" => Carries(Tell("completion", {c}, {}), "completion", In("decided") \cup {c})
  <2> DEFINE e == [op |-> "completion", calls |-> {c}, sess |-> {}]
  <2>1. e \in Callback /\ e.op = "completion" /\ e.calls = {c} /\ Tell("completion", {c}, {}) = Append(deliver, e)
    BY DEF Callback, Tell
  <2> HIDE DEF e
  <2>2. core[c] # "decided" => c \notin In("decided")
    BY DEF In
  <2>3. Append(deliver, e) \in Seq(Callback)
    BY <1>0, <2>1
  <2>4. ASSUME core[c] # "decided"
        PROVE  Carries(Append(deliver, e), "completion", In("decided") \cup {c})
    <3>1. Carries(deliver, "completion", In("decided")) /\ c \notin In("decided")
      BY <2>2, <2>4 DEF CarryInv
    <3> QED
      BY <1>0, <2>1, <3>1, CarriesNew
  <2>5. e \in Callback /\ Tell("completion", {c}, {}) \in Seq(Callback)
    BY <2>1, <2>3
  <2>6. core[c] # "decided" => Carries(Tell("completion", {c}, {}), "completion", In("decided") \cup {c})
    BY <2>1, <2>4
  <2> QED
    BY <2>5, <2>6 DEF e
<1>7. ASSUME NEW c \in Call, SubmitCall(c) PROVE CarryInv'
  <2>1. /\ main.call = {c} /\ posts' = Posted(<<Entry("start", 0, {c}, {})>>)
        /\ core' = [core EXCEPT ![c] = IF QueueClosed THEN "decided" ELSE "posted"]
        /\ deliver' = IF QueueClosed THEN Tell("completion", {c}, {}) ELSE deliver
    BY <1>7 DEF SubmitCall
  <2>2. core[c] = "none"
    <3>1. tx[c] = "begun"
      BY <2>1 DEF MainInv
    <3> QED
      BY <3>1 DEF PlaceOK
  <2>3. CASE QueueClosed
    <3>1. In("posted")' = In("posted") /\ In("decided")' = In("decided") \cup {c}
      BY <1>0, <2>1, <2>2, <2>3 DEF In
    <3>2. posts' = posts
      BY <2>1, <2>3 DEF Posted
    <3> QED
      BY <1>0, <1>2, <1>6, <2>1, <2>2, <2>3, <3>1, <3>2 DEF CarryInv
  <2>4. CASE ~QueueClosed
    <3>1. In("posted")' = In("posted") \cup {c} /\ In("decided")' = In("decided")
      BY <1>0, <2>1, <2>2, <2>4 DEF In
    <3>2. Entry("start", 0, {c}, {}) \in Post /\ Entry("start", 0, {c}, {}).op = "start"
          /\ Entry("start", 0, {c}, {}).calls = {c}
      BY DEF Entry, Post
    <3> DEFINE e == Entry("start", 0, {c}, {})
    <3>3. posts' = posts \o <<e>>
      BY <2>1, <2>4 DEF Posted
    <3> HIDE DEF e
    <3>4. posts' = Append(posts, e) /\ posts' \in Seq(Post)
      BY <1>0, <3>2, <3>3 DEF e
    <3>5. c \notin In("posted")
      BY <2>2 DEF In
    <3>6. Carries(posts', "start", In("posted") \cup {c})
      BY <1>0, <3>2, <3>4, <3>5, CarriesNew DEF CarryInv, e
    <3> QED
      BY <1>0, <1>2, <2>1, <2>4, <3>1, <3>4, <3>6 DEF CarryInv
  <2> QED
    BY <2>3, <2>4
<1>8. ASSUME NEW op, Run(op), Ran
      PROVE  /\ deliver # <<>> /\ deliver' = Tail(deliver) /\ deliver' \in Seq(Callback)
             /\ op # "completion" => Carries(deliver', "completion", In("decided"))
  BY <1>0, <1>8, CarriesTail DEF Run, Ran, CarryInv
<1>9. CASE CoreInvalidated \/ ShutdownDone
  <2>1. UNCHANGED <<posts, core>>
    BY <1>9 DEF CoreInvalidated, ShutdownDone, coreVars
  <2>2. deliver' \in Seq(Callback) /\ Carries(deliver', "completion", In("decided"))
    BY <1>8, <1>9 DEF CoreInvalidated, ShutdownDone
  <2> QED
    BY <1>0, <1>1, <1>2, <2>1, <2>2 DEF CarryInv
<1>10. CASE CoreDone
  <2>1. PICK c \in Head(deliver).calls : core' = [core EXCEPT ![c] = "done"]
    BY <1>10 DEF CoreDone
  <2>2. Head(deliver).op = "completion" /\ deliver # <<>> /\ deliver' = Tail(deliver)
    BY <1>10 DEF CoreDone, Run, Ran
  <2>3. PICK d \in In("decided") : Head(deliver).calls = {d} /\ Carries(Tail(deliver), "completion", In("decided") \ {d})
    BY <1>0, <2>2, CarriesTaken DEF CarryInv
  <2>4. d = c /\ c \in Call /\ core[c] = "decided"
    BY <2>1, <2>3 DEF In
  <2>5. In("posted")' = In("posted") /\ In("decided")' = In("decided") \ {c}
    BY <1>0, <2>1, <2>4 DEF In
  <2>6. UNCHANGED posts /\ deliver' \in Seq(Callback)
    BY <1>0, <1>10, <2>2 DEF CoreDone
  <2> QED
    BY <1>0, <1>2, <2>2, <2>3, <2>4, <2>5, <2>6 DEF CarryInv
<1>11. ASSUME NEW op, First(op)
       PROVE  /\ posts # <<>> /\ posts' = Tail(posts) /\ posts' \in Seq(Post) /\ Head(posts).op = op
              /\ op # "start" => Carries(posts', "start", In("posted"))
  BY <1>0, <1>11, CarriesTail DEF First, CarryInv
<1>12. CASE RunGeneration \/ RunNew \/ RunCheck \/ RunCancel \/ RunClose
  <2>1. UNCHANGED <<deliver, core>>
    BY <1>12 DEF RunGeneration, RunNew, RunCheck, RunCancel, RunClose, coreVars
  <2>2. posts' \in Seq(Post) /\ Carries(posts', "start", In("posted"))
    BY <1>11, <1>12 DEF RunGeneration, RunNew, RunCheck, RunCancel, RunClose
  <2> QED
    BY <1>0, <1>1, <1>2, <2>1, <2>2 DEF CarryInv
<1>13. CASE RunStop
  <2>1. UNCHANGED core /\ deliver' \in {deliver, Tell("notice", {}, {s \in Sess : sess[s] = "open"})}
    BY <1>13 DEF RunStop
  <2>2. posts' \in Seq(Post) /\ Carries(posts', "start", In("posted"))
    BY <1>11, <1>13 DEF RunStop
  <2>3. deliver' \in Seq(Callback) /\ Carries(deliver', "completion", In("decided"))
    BY <1>0, <1>4, <2>1 DEF CarryInv
  <2> QED
    BY <1>1, <1>2, <2>1, <2>2, <2>3
<1>14. CASE RunStart
  <2>1. PICK c \in Head(posts).calls :
          \/ core' = [core EXCEPT ![c] = "active"] /\ UNCHANGED deliver
          \/ core' = [core EXCEPT ![c] = "decided"] /\ deliver' = Tell("completion", {c}, {})
    BY <1>14 DEF RunStart
  <2>2. Head(posts).op = "start" /\ posts # <<>> /\ posts' = Tail(posts) /\ posts' \in Seq(Post)
    BY <1>11, <1>14 DEF RunStart
  <2>3. PICK d \in In("posted") : Head(posts).calls = {d} /\ Carries(Tail(posts), "start", In("posted") \ {d})
    BY <1>0, <2>2, CarriesTaken DEF CarryInv
  <2>4. d = c /\ c \in Call /\ core[c] = "posted"
    BY <2>1, <2>3 DEF In
  <2>5. In("posted")' = In("posted") \ {c}
    BY <1>0, <2>1, <2>4 DEF In
  <2>6. CASE core' = [core EXCEPT ![c] = "active"] /\ UNCHANGED deliver
    <3>1. In("decided")' = In("decided")
      BY <1>0, <2>4, <2>6 DEF In
    <3> QED
      BY <1>0, <1>2, <2>2, <2>3, <2>4, <2>5, <2>6, <3>1 DEF CarryInv
  <2>7. CASE core' = [core EXCEPT ![c] = "decided"] /\ deliver' = Tell("completion", {c}, {})
    <3>1. In("decided")' = In("decided") \cup {c}
      BY <1>0, <2>4, <2>7 DEF In
    <3> QED
      BY <1>0, <1>2, <1>6, <2>2, <2>3, <2>4, <2>5, <2>7, <3>1
  <2> QED
    BY <2>1, <2>6, <2>7
<1>15. ASSUME NEW c \in Call, Decide(c) PROVE CarryInv'
  <2>1. /\ core[c] = "active" /\ core' = [core EXCEPT ![c] = "decided"] /\ UNCHANGED posts
        /\ deliver' = Tell("completion", {c}, {})
    BY <1>15 DEF Decide
  <2>2. In("posted")' = In("posted") /\ In("decided")' = In("decided") \cup {c}
    BY <1>0, <2>1 DEF In
  <2> QED
    BY <1>0, <1>2, <1>6, <2>1, <2>2 DEF CarryInv
<1>16. CASE CheckShutdown \/ \E s \in Sess : Invalidate(s)
  <2>1. /\ UNCHANGED <<posts, core>>
        /\ \E o \in {"notice", "shutdown"}, S \in SUBSET Sess : deliver' = Tell(o, {}, S)
    BY <1>16 DEF CheckShutdown, Invalidate, coreVars
  <2>2. deliver' \in Seq(Callback) /\ Carries(deliver', "completion", In("decided"))
    BY <1>4, <2>1
  <2> QED
    BY <1>0, <1>1, <1>2, <2>1, <2>2 DEF CarryInv
<1> QED
  BY <1>3, <1>5, <1>7, <1>9, <1>10, <1>12, <1>13, <1>14, <1>15, <1>16
  DEF Next, Resumed, Callbacks, Coordinator, vars, queueVars, coreVars,
      BusChange, CreateSessionDone, RefuseCall, Iterate, Leave

-----------------------------------------------------------------------------
(* The calls, their sessions and the main thread. *)

LEMMA CallParts ==
  ASSUME TypeOK, CallInv, NEW c \in Call
  PROVE  /\ PlaceOK(c) /\ HeldOK(c)
         /\ tx[c] \in {"new", "begun", "live", "answered"}
         /\ core[c] \in {"none", "posted", "active", "decided", "done"}
         /\ result[c] \in {"ok", "error"}
BY DEF CallInv, TypeOK, CallTypeOK

(* While the main thread handles no call, none is begun. *)
LEMMA NoneBegun ==
  ASSUME CallInv, main.call = {}
  PROVE  \A c \in Call : tx[c] # "begun"
BY DEF CallInv, PlaceOK

LEMMA IdleMain == main = Idle => main.call = {} /\ main.at = "idle" /\ main.sess = {}
BY DEF Idle, At

(* A step that leaves the calls and the main thread alone, or only adds to *)
(* the requests whose cancel is intended.                                  *)
LEMMA CallsUntouched ==
  ASSUME CallInv, UNCHANGED <<main, tx, of, sender, mark, core, result, sess, cached, table>>,
         intent \subseteq intent'
  PROVE  CallInv'
<1>1. MainInv'
  BY DEF CallInv, MainInv
<1>2. Kept' = Kept
  BY DEF Kept
<1>3. ASSUME NEW c \in Call PROVE PlaceOK(c)' /\ HeldOK(c)'
  BY <1>2, <1>3 DEF CallInv, PlaceOK, HeldOK
<1> QED
  BY <1>1, <1>3 DEF CallInv

(* The sessions that the coordinator closes, and their requests. *)
LEMMA EndedCalls ==
  ASSUME TypeOK, NEW S, NEW C, EndSessions(S, C)
  PROVE  /\ \A s \in Sess : sess'[s] = sess[s] \/ (sess[s] = "open" /\ sess'[s] = "closed")
         /\ intent \subseteq intent'
         /\ \A c \in Requests : of[c] \in Sess /\ sess'[of[c]] # sess[of[c]] => c \in intent'
<1> DEFINE ended == {s \in S : sess[s] = "open"}
           hit == {c \in Requests : of[c] \in ended} \cup C
<1>1. sess' = [s \in Sess |-> IF s \in ended THEN "closed" ELSE sess[s]] /\ intent' = intent \cup hit
  BY DEF EndSessions
<1>2. \A s \in Sess : sess'[s] = IF s \in ended THEN "closed" ELSE sess[s]
  BY <1>1
<1> QED
  BY <1>1, <1>2

LEMMA CallsEnd ==
  ASSUME TypeOK, CallInv, UNCHANGED <<main, tx, of, sender, mark, core, result, cached, table>>,
         \E S, C : EndSessions(S, C)
  PROVE  CallInv'
<1>1. MainInv'
  BY DEF CallInv, MainInv
<1>2. Kept' = Kept
  BY DEF Kept
<1>3. /\ \A s \in Sess : sess'[s] = sess[s] \/ (sess[s] = "open" /\ sess'[s] = "closed")
      /\ intent \subseteq intent'
      /\ \A c \in Requests : of[c] \in Sess /\ sess'[of[c]] # sess[of[c]] => c \in intent'
  BY EndedCalls
<1>4. ASSUME NEW c \in Call PROVE PlaceOK(c)' /\ HeldOK(c)'
  <2>1. PlaceOK(c) /\ HeldOK(c)
    BY DEF CallInv
  <2>2. tx[c] \in {"begun", "live"} =>
          /\ of[c] \in Sess
          /\ sess'[of[c]] = sess[of[c]] \/ (sess[of[c]] = "open" /\ sess'[of[c]] = "closed")
    BY <1>3, <2>1 DEF PlaceOK
  <2>3. PlaceOK(c)'
    BY <2>1, <2>2 DEF PlaceOK
  <2>4. tx[c] = "live" /\ sess'[of[c]] = "closed" /\ sess[of[c]] # "closed" =>
          core[c] = "posted" \/ c \in intent'
    <3>1. tx[c] = "live" => core[c] \in {"posted", "active", "decided"}
      BY <2>1 DEF PlaceOK
    <3>2. core[c] \in {"active", "decided"} => c \in Requests
      BY DEF Requests
    <3> QED
      BY <1>3, <2>2, <3>1, <3>2
  <2>5. c \in intent => c \in intent'
    BY <1>3
  <2>6. HeldOK(c)'
    BY <1>2, <2>1, <2>2, <2>4, <2>5 DEF HeldOK
  <2> QED
    BY <2>3, <2>6
<1> QED
  BY <1>1, <1>4 DEF CallInv

(* A handler that forgets the sessions S and cancels the calls C. *)
LEMMA CallsForgotten ==
  ASSUME TypeOK, CallInv, main = Idle, UNCHANGED <<main, tx, of, sender, core, result, sess>>,
         NEW S, NEW C, NEW code, code # "none", NEW e, Forget(S, C, code, e),
         \A c \in Live : mark[c] = "none" /\ c \notin C =>
           (of[c] \in Kept /\ of[c] \notin S /\ sender[c] = cached') \/ sess[of[c]] = "closed"
  PROVE  CallInv'
<1>1. MainInv'
  BY DEF CallInv, MainInv
<1>2. \A s \in Kept : s \notin S => s \in Kept'
  <2> SUFFICES ASSUME NEW s \in Kept, s \notin S PROVE s \in Kept'
    OBVIOUS
  <2>1. PICK p \in Path : table[p] = s
    BY DEF Kept
  <2>2. table'[p] = s
    BY <2>1 DEF Forget
  <2>3. s \in Sess
    BY DEF Kept
  <2> QED
    BY <2>2, <2>3 DEF Kept
<1>3. ASSUME NEW c \in Call PROVE PlaceOK(c)' /\ HeldOK(c)'
  <2>1. PlaceOK(c) /\ HeldOK(c)
    BY DEF CallInv
  <2>2. PlaceOK(c)'
    BY <2>1 DEF PlaceOK
  <2>3. tx[c] # "begun"
    BY NoneBegun, IdleMain
  <2>4. mark'[c] = IF c \in C THEN code ELSE mark[c]
    BY DEF Forget
  <2>5. c \in intent => c \in intent'
    BY DEF Forget
  <2>6. tx[c] = "live" /\ mark'[c] = "none" =>
          (of[c] \in Kept' /\ sender[c] = cached') \/ sess[of[c]] = "closed"
    BY <1>2, <2>4 DEF Live
  <2>7. HeldOK(c)'
    BY <2>1, <2>3, <2>5, <2>6 DEF HeldOK
  <2> QED
    BY <2>2, <2>7
<1> QED
  BY <1>1, <1>3 DEF CallInv

(* Whoever comes next, a session in the table is of the owner before. *)
LEMMA CallsOwner ==
  ASSUME OwnInv, CallInv, main = Idle, NEW o, SetFrontendOwner(o),
         UNCHANGED <<main, tx, of, sender, core, result, sess>>
  PROVE  CallInv'
<1>0. TypeOK
  BY DEF OwnInv
<1>1. CASE o = cached
  BY <1>1, CallsUntouched DEF SetFrontendOwner
<1>2. CASE o # cached
  <2>1. \A s \in Kept : owner[s] # o
    BY <1>2 DEF OwnInv, TableInv, TableBelongsToOwner
  <2>2. \E e : Forget(Doomed(o), ForeignCalls(o), "owner_gone", e)
    BY <1>2 DEF SetFrontendOwner
  <2>3. \A c \in Live : c \notin ForeignCalls(o) => of[c] \notin Kept
    BY <2>1 DEF ForeignCalls, CallsOf, Doomed
  <2>4. \A c \in Live : mark[c] = "none" => of[c] \in Kept \/ sess[of[c]] = "closed"
    BY IdleMain DEF CallInv, HeldOK, Live
  <2>5. "owner_gone" # "none"
    OBVIOUS
  <2> HIDE DEF Doomed, ForeignCalls, Forget
  <2>6. PICK e : Forget(Doomed(o), ForeignCalls(o), "owner_gone", e)
    BY <2>2
  <2>7. \A c \in Live : mark[c] = "none" /\ c \notin ForeignCalls(o) =>
           (of[c] \in Kept /\ of[c] \notin Doomed(o) /\ sender[c] = cached') \/ sess[of[c]] = "closed"
    BY <2>3, <2>4
  <2> QED
    BY <1>0, <2>5, <2>6, <2>7, CallsForgotten
<1> QED
  BY <1>1, <1>2

LEMMA CallsVanish == ASSUME OwnInv, CallInv, FrontendVanished PROVE CallInv'
<1>0. TypeOK
  BY DEF OwnInv
<1>1. /\ main = Idle /\ UNCHANGED <<main, tx, of, sender, core, result, sess>>
      /\ \E e : Forget(Kept, Live, "owner_gone", e)
  BY DEF FrontendVanished
<1>2. PICK e : Forget(Kept, Live, "owner_gone", e)
  BY <1>1
<1>3. \A c \in Live : mark[c] = "none" /\ c \notin Live =>
        (of[c] \in Kept /\ of[c] \notin Kept /\ sender[c] = cached') \/ sess[of[c]] = "closed"
  OBVIOUS
<1>4. "owner_gone" # "none"
  OBVIOUS
<1> QED
  BY <1>0, <1>1, <1>2, <1>3, <1>4, CallsForgotten

LEMMA CallsClose == ASSUME OwnInv, CallInv, NEW s \in Sess, CloseSession(s) PROVE CallInv'
<1>0. TypeOK
  BY DEF OwnInv
<1>1. /\ main = Idle /\ UNCHANGED <<main, tx, of, sender, core, result, sess, cached>>
      /\ \E e : Forget({s}, CallsOf({s}), "no_session", e)
  BY DEF CloseSession, Authorised, MainUnchanged, ownerVars
<1>2. PICK e : Forget({s}, CallsOf({s}), "no_session", e)
  BY <1>1
<1>3. \A c \in Live : mark[c] = "none" /\ c \notin CallsOf({s}) =>
        (of[c] \in Kept /\ of[c] \notin {s} /\ sender[c] = cached') \/ sess[of[c]] = "closed"
  BY <1>1, IdleMain DEF CallInv, HeldOK, Live, CallsOf
<1>4. "no_session" # "none"
  OBVIOUS
<1> QED
  BY <1>0, <1>1, <1>2, <1>3, <1>4, CallsForgotten

(* A session about to be created is new, so no call has it; the one whose  *)
(* path it takes is closed.                                                *)
LEMMA CallsCreate == ASSUME OwnInv, CallInv, NEW s \in Sess, CreateSession(s) PROVE CallInv'
<1>1. /\ main = Idle /\ sess[s] = "new" /\ main' \in {main, At("create", {}, {s})}
      /\ UNCHANGED <<tx, of, sender, mark, core, result, intent, sess, cached>>
      /\ \A t \in Sess : table[PathOf[s]] = t => sess[t] = "closed"
      /\ table' = [table EXCEPT ![PathOf[s]] = NoSess]
  BY DEF CreateSession, Authorised, ownerVars, callVars, coreVars
<1>2. /\ main'.call = {} /\ main'.sess \subseteq {s} /\ main'.at \in {"idle", "create"}
      /\ main'.at = "idle" => main' = Idle
  BY <1>1 DEF Idle, At
<1>3. MainInv'
  BY <1>2 DEF MainInv
<1>4. \A t \in Kept : t \in Kept' \/ sess[t] = "closed"
  <2> SUFFICES ASSUME NEW t \in Kept, sess[t] # "closed" PROVE t \in Kept'
    OBVIOUS
  <2>1. PICK p \in Path : table[p] = t
    BY DEF Kept
  <2>2. t \in Sess
    BY DEF Kept
  <2>3. p # PathOf[s]
    BY <1>1, <2>1, <2>2
  <2>4. table'[p] = t
    BY <1>1, <2>1, <2>3 DEF OwnInv, TypeOK, SessTypeOK
  <2> QED
    BY <2>2, <2>4 DEF Kept
<1>5. ASSUME NEW c \in Call PROVE PlaceOK(c)' /\ HeldOK(c)'
  <2>1. PlaceOK(c) /\ HeldOK(c) /\ tx[c] # "begun"
    BY <1>1, NoneBegun, IdleMain DEF CallInv
  <2>2. tx[c] = "live" => of[c] # s
    BY <1>1, <2>1 DEF PlaceOK
  <2>3. PlaceOK(c)'
    BY <1>1, <1>2, <2>1, <2>2 DEF PlaceOK
  <2>4. HeldOK(c)'
    BY <1>1, <1>4, <2>1, IdleMain DEF HeldOK
  <2> QED
    BY <2>3, <2>4
<1> QED
  BY <1>3, <1>5 DEF CallInv

LEMMA CallsCreated == ASSUME OwnInv, CallInv, CreateSessionDone PROVE CallInv'
<1>1. /\ main.call = {} /\ main' = Idle /\ main.at # "left"
      /\ UNCHANGED <<tx, of, sender, mark, core, result, intent, sess, cached>>
  BY DEF CreateSessionDone, ownerVars, callVars, coreVars
<1>2. MainInv'
  BY <1>1, IdleMain DEF MainInv, Idle, At
<1>3. \A t \in Kept : t \in Kept'
  <2>1. CASE UNCHANGED table
    BY <2>1 DEF Kept
  <2>2. CASE ~UNCHANGED table
    <3>1. main.at = "created" /\ \E s \in main.sess : table' = [table EXCEPT ![PathOf[s]] = s]
      BY <2>2 DEF CreateSessionDone
    <3>2. PICK s \in main.sess : table' = [table EXCEPT ![PathOf[s]] = s]
      BY <3>1
    <3>3. PICK u \in Sess : main.sess = {u} /\ table[PathOf[u]] = NoSess
      BY <3>1 DEF OwnInv, CreateInv
    <3>4. s \in Sess /\ table[PathOf[s]] = NoSess
      BY <3>2, <3>3
    <3> SUFFICES ASSUME NEW t \in Kept PROVE t \in Kept'
      OBVIOUS
    <3>5. PICK p \in Path : table[p] = t
      BY DEF Kept
    <3>6. t \in Sess /\ p # PathOf[s]
      BY <3>4, <3>5, ImplAssumption DEF Kept
    <3>7. table'[p] = t
      BY <3>2, <3>5, <3>6 DEF OwnInv, TypeOK, SessTypeOK
    <3> QED
      BY <3>6, <3>7 DEF Kept
  <2> QED
    BY <2>1, <2>2
<1>4. main'.call = {} /\ main'.sess = {}
  BY <1>1 DEF Idle, At
<1>5. ASSUME NEW c \in Call PROVE PlaceOK(c)' /\ HeldOK(c)'
  <2>1. PlaceOK(c) /\ HeldOK(c) /\ tx[c] # "begun"
    BY <1>1, NoneBegun DEF CallInv
  <2>2. PlaceOK(c)'
    BY <1>1, <1>4, <2>1 DEF PlaceOK
  <2>3. HeldOK(c)'
    BY <1>1, <1>3, <2>1 DEF HeldOK
  <2> QED
    BY <2>2, <2>3
<1> QED
  BY <1>2, <1>5 DEF CallInv

(* The call that begins is of a session the caller holds. *)
LEMMA CallsBegin ==
  ASSUME OwnInv, CallInv, NEW c \in Call, NEW p \in Path, BeginAcquire(c, p) \/ BeginKeyOperation(c, p)
  PROVE  CallInv'
<1> DEFINE s == table[p]
<1>1. /\ main = Idle /\ tx[c] = "new" /\ s # NoSess /\ sess[s] # "closed"
      /\ tx' = [tx EXCEPT ![c] = "begun"] /\ of' = [of EXCEPT ![c] = s]
      /\ sender' = [sender EXCEPT ![c] = cached]
      /\ UNCHANGED <<mark, core, result, intent, sess, cached, table>>
      /\ main' \in {At("check", {c}, {s}), At("submit", {c}, {s})}
  BY DEF BeginAcquire, BeginKeyOperation, BeginTransaction, Authorised, sessVars, ownerVars, coreVars
<1>2. s \in Kept /\ s \in Sess /\ sess[s] # "new"
  <2>1. s \in Sess
    BY <1>1 DEF OwnInv, TypeOK, SessTypeOK
  <2>2. s \in Kept
    BY <2>1 DEF Kept
  <2> QED
    BY <2>1, <2>2 DEF OwnInv, TableInv
<1> HIDE DEF s
<1>3. main'.call = {c} /\ main'.at \in {"check", "submit"}
  BY <1>1 DEF At
<1>4. /\ tx'[c] = "begun" /\ of'[c] = s /\ sender'[c] = cached
      /\ \A d \in Call : d # c => tx'[d] = tx[d] /\ of'[d] = of[d] /\ sender'[d] = sender[d]
  BY <1>1 DEF OwnInv, TypeOK, CallTypeOK
<1>5. MainInv'
  BY <1>3, <1>4 DEF MainInv
<1>6. Kept' = Kept
  BY <1>1 DEF Kept
<1>7. ASSUME NEW d \in Call PROVE PlaceOK(d)' /\ HeldOK(d)'
  <2>1. PlaceOK(d) /\ HeldOK(d) /\ tx[d] # "begun"
    BY <1>1, NoneBegun, IdleMain DEF CallInv
  <2>2. CASE d = c
    <3>1. core[c] = "none" /\ result[c] # "ok"
      BY <1>1, <2>1, <2>2 DEF PlaceOK
    <3>2. PlaceOK(d)'
      BY <1>1, <1>2, <1>3, <1>4, <2>2, <3>1 DEF PlaceOK
    <3>3. HeldOK(d)'
      BY <1>1, <1>2, <1>4, <1>6, <2>2 DEF HeldOK
    <3> QED
      BY <3>2, <3>3
  <2>3. CASE d # c
    <3>1. PlaceOK(d)'
      BY <1>1, <1>3, <1>4, <2>1, <2>3 DEF PlaceOK
    <3>2. HeldOK(d)'
      BY <1>1, <1>4, <1>6, <2>1, <2>3, IdleMain DEF HeldOK
    <3> QED
      BY <3>1, <3>2
  <2> QED
    BY <2>2, <2>3
<1> QED
  BY <1>5, <1>7 DEF CallInv

(* The call that the main thread handles is begun, and no other is. *)
LEMMA OneBegun ==
  ASSUME TypeOK, CallInv, NEW c \in Call, main.call = {c}
  PROVE  /\ tx[c] = "begun" /\ core[c] = "none" /\ result[c] = "error"
         /\ \A d \in Call : d # c => tx[d] # "begun"
<1>1. tx[c] = "begun"
  BY DEF CallInv, MainInv
<1>2. core[c] = "none" /\ result[c] # "ok" /\ result[c] \in {"ok", "error"}
  BY <1>1, CallParts DEF PlaceOK
<1>3. \A d \in Call : tx[d] = "begun" => main.call = {d}
  BY DEF CallInv, PlaceOK
<1> QED
  BY <1>1, <1>2, <1>3

LEMMA CallsRefuse == ASSUME OwnInv, CallInv, NEW c \in Call, RefuseCall(c) PROVE CallInv'
<1>0. TypeOK
  BY DEF OwnInv
<1>1. /\ main.call = {c} /\ main.at # "left" /\ main' = Idle
      /\ tx' = [tx EXCEPT ![c] = "answered"] /\ of' = [of EXCEPT ![c] = NoSess]
      /\ sender' = [sender EXCEPT ![c] = NoOwner] /\ mark' = [mark EXCEPT ![c] = "none"]
      /\ UNCHANGED <<core, result, intent, sess, cached, table>>
  BY DEF RefuseCall, Free, sessVars, ownerVars, coreVars
<1>2. /\ tx[c] = "begun" /\ core[c] = "none" /\ result[c] = "error"
      /\ \A d \in Call : d # c => tx[d] # "begun"
  BY <1>0, <1>1, OneBegun
<1>3. MainInv'
  BY <1>1 DEF MainInv, Idle, At
<1>4. main'.call = {} /\ main'.sess = {} /\ Kept' = Kept
  BY <1>1 DEF Idle, At, Kept
<1>5. /\ tx'[c] = "answered"
      /\ \A d \in Call : d # c => /\ tx'[d] = tx[d] /\ of'[d] = of[d]
                                  /\ sender'[d] = sender[d] /\ mark'[d] = mark[d]
  BY <1>0, <1>1 DEF TypeOK, CallTypeOK
<1>6. ASSUME NEW d \in Call PROVE PlaceOK(d)' /\ HeldOK(d)'
  <2>1. PlaceOK(d) /\ HeldOK(d)
    BY DEF CallInv
  <2>2. CASE d = c
    <3>1. PlaceOK(d)'
      BY <1>1, <1>2, <1>5, <2>2 DEF PlaceOK
    <3>2. HeldOK(d)'
      BY <1>5, <2>2 DEF HeldOK
    <3> QED
      BY <3>1, <3>2
  <2>3. CASE d # c
    <3>1. PlaceOK(d)'
      BY <1>1, <1>2, <1>4, <1>5, <2>1, <2>3 DEF PlaceOK
    <3>2. HeldOK(d)'
      BY <1>1, <1>4, <1>5, <2>1, <2>3 DEF HeldOK
    <3> QED
      BY <3>1, <3>2
  <2> QED
    BY <2>2, <2>3
<1> QED
  BY <1>3, <1>6 DEF CallInv

LEMMA CallsSubmit == ASSUME OwnInv, CallInv, NEW c \in Call, SubmitCall(c) PROVE CallInv'
<1>0. TypeOK
  BY DEF OwnInv
<1>1. /\ main.call = {c} /\ main.at = "submit" /\ main' = Idle
      /\ tx' = [tx EXCEPT ![c] = "live"]
      /\ core' = [core EXCEPT ![c] = IF QueueClosed THEN "decided" ELSE "posted"]
      /\ UNCHANGED <<of, sender, mark, result, intent, sess, cached, table>>
  BY DEF SubmitCall, sessVars, ownerVars
<1>2. /\ tx[c] = "begun" /\ core[c] = "none" /\ result[c] = "error"
      /\ \A d \in Call : d # c => tx[d] # "begun"
  BY <1>0, <1>1, OneBegun
<1>3. MainInv'
  BY <1>1 DEF MainInv, Idle, At
<1>4. main'.call = {} /\ main'.sess = {} /\ Kept' = Kept
  BY <1>1 DEF Idle, At, Kept
<1>5. /\ tx'[c] = "live" /\ core'[c] \in {"decided", "posted"}
      /\ \A d \in Call : d # c => tx'[d] = tx[d] /\ core'[d] = core[d]
  BY <1>0, <1>1 DEF TypeOK, CallTypeOK
<1>6. ASSUME NEW d \in Call PROVE PlaceOK(d)' /\ HeldOK(d)'
  <2>1. PlaceOK(d) /\ HeldOK(d)
    BY DEF CallInv
  <2>2. CASE d = c
    <3>1. PlaceOK(d)'
      BY <1>1, <1>2, <1>4, <1>5, <2>1, <2>2 DEF PlaceOK
    <3>2. HeldOK(d)'
      BY <1>1, <1>2, <1>4, <1>5, <2>1, <2>2 DEF HeldOK
    <3> QED
      BY <3>1, <3>2
  <2>3. CASE d # c
    <3>1. PlaceOK(d)'
      BY <1>1, <1>2, <1>4, <1>5, <2>1, <2>3 DEF PlaceOK
    <3>2. HeldOK(d)'
      BY <1>1, <1>4, <1>5, <2>1, <2>3 DEF HeldOK
    <3> QED
      BY <3>1, <3>2
  <2> QED
    BY <2>2, <2>3
<1> QED
  BY <1>3, <1>6 DEF CallInv

(* The completion that runs is that of a decided call. *)
LEMMA CompletedCall ==
  ASSUME TypeOK, CarryInv, Run("completion")
  PROVE  \E c \in Call : Head(deliver).calls = {c} /\ core[c] = "decided"
<1>1. deliver \in Seq(Callback) /\ deliver # <<>> /\ Head(deliver).op = "completion"
  BY DEF Run, TypeOK, QueueTypeOK
<1>2. Carries(deliver, "completion", In("decided"))
  BY DEF CarryInv
<1>3. \E c \in In("decided") : Head(deliver).calls = {c}
  BY <1>1, <1>2, CarriesTaken
<1> QED
  BY <1>3 DEF In

LEMMA CallsDone == ASSUME OwnInv, CarryInv, CallInv, CoreDone PROVE CallInv'
<1>0. TypeOK
  BY DEF OwnInv
<1>1. PICK c \in Call : Head(deliver).calls = {c} /\ core[c] = "decided"
  BY <1>0, CompletedCall DEF CoreDone
<1>2. /\ main = Idle /\ UNCHANGED <<main, sess, cached, table>>
      /\ tx' = [tx EXCEPT ![c] = "answered"] /\ of' = [of EXCEPT ![c] = NoSess]
      /\ sender' = [sender EXCEPT ![c] = NoOwner] /\ mark' = [mark EXCEPT ![c] = "none"]
      /\ core' = [core EXCEPT ![c] = "done"] /\ result' = [result EXCEPT ![c] = "error"]
      /\ intent' = intent \ {c}
  BY <1>1 DEF CoreDone, Run, Free, sessVars, ownerVars
<1>3. /\ tx'[c] = "answered" /\ core'[c] = "done" /\ result'[c] = "error"
      /\ \A d \in Call : d # c => /\ tx'[d] = tx[d] /\ of'[d] = of[d] /\ core'[d] = core[d]
                                  /\ sender'[d] = sender[d] /\ mark'[d] = mark[d]
                                  /\ result'[d] = result[d] /\ (d \in intent => d \in intent')
  BY <1>0, <1>2 DEF TypeOK, CallTypeOK
<1>4. \A d \in Call : tx[d] # "begun"
  BY <1>2, NoneBegun, IdleMain
<1>5. MainInv'
  BY <1>2 DEF MainInv, Idle, At
<1>6. Kept' = Kept
  BY <1>2 DEF Kept
<1>7. ASSUME NEW d \in Call PROVE PlaceOK(d)' /\ HeldOK(d)'
  <2>1. PlaceOK(d) /\ HeldOK(d)
    BY DEF CallInv
  <2>2. CASE d = c
    BY <1>3, <2>2 DEF PlaceOK, HeldOK
  <2>3. CASE d # c
    <3>1. PlaceOK(d)'
      BY <1>2, <1>3, <1>4, <2>1, <2>3 DEF PlaceOK
    <3>2. HeldOK(d)'
      BY <1>2, <1>3, <1>4, <1>6, <2>1, <2>3 DEF HeldOK
    <3> QED
      BY <3>1, <3>2
  <2> QED
    BY <2>2, <2>3
<1> QED
  BY <1>5, <1>7 DEF CallInv

LEMMA CallsLeave == ASSUME CallInv, Leave PROVE CallInv'
<1>1. /\ main = Idle /\ main' = At("left", {}, {})
      /\ UNCHANGED <<tx, of, sender, mark, core, result, intent, sess, cached>>
  BY DEF Leave, ownerVars, callVars, coreVars
<1>2. main'.call = {} /\ main'.sess = {} /\ main'.at = "left"
  BY <1>1 DEF At
<1>3. MainInv'
  BY <1>1, <1>2 DEF MainInv
<1>4. ASSUME NEW c \in Call PROVE PlaceOK(c)' /\ HeldOK(c)'
  <2>1. PlaceOK(c) /\ HeldOK(c) /\ tx[c] # "begun"
    BY <1>1, NoneBegun, IdleMain DEF CallInv
  <2> QED
    BY <1>1, <1>2, <2>1 DEF PlaceOK, HeldOK
<1> QED
  BY <1>3, <1>4 DEF CallInv

(* The question that the coordinator takes is the main thread's. *)
LEMMA Question ==
  ASSUME OwnInv, NEW o \in {"new", "check"}, First(o)
  PROVE  main = At(IF o = "new" THEN "create" ELSE "check", Head(posts).calls, Head(posts).sess)
<1>1. /\ posts \in Seq(Post) /\ posts # <<>> /\ Head(posts) = posts[1] /\ posts[1].op = o
      /\ 1 \in 1..Len(posts)
  BY HeadPost DEF First, OwnInv
<1>2. Asks(posts[1])
  BY <1>1 DEF Asks
<1> QED
  BY <1>1, <1>2 DEF OwnInv, QuestionInv

LEMMA CallsNew == ASSUME OwnInv, CallInv, RunNew PROVE CallInv'
<1>1. main = At("create", Head(posts).calls, Head(posts).sess)
  BY Question DEF RunNew
<1>2. PICK s \in Sess : main.call = {} /\ main.sess = {s}
  BY <1>1 DEF OwnInv, CreateInv, At
<1>3. /\ sess' \in {[sess EXCEPT ![s] = "open"], [sess EXCEPT ![s] = "closed"]}
      /\ main' \in {[main EXCEPT !.at = "created"], [main EXCEPT !.at = "refused"]}
      /\ UNCHANGED <<tx, of, sender, mark, core, result, intent, cached, table>>
  <2>1. Head(posts).sess = {s}
    BY <1>1, <1>2 DEF At
  <2> QED
    BY <2>1 DEF RunNew, ownerVars, callVars, coreVars
<1>4. main'.call = {} /\ main'.sess = {s} /\ main'.at \in {"created", "refused"}
  BY <1>1, <1>2, <1>3 DEF At
<1>5. MainInv'
  BY <1>4 DEF MainInv
<1>6. Kept' = Kept /\ main.at # "left"
  BY <1>1, <1>3 DEF Kept, At
<1>7. \A t \in Sess : t # s => sess'[t] = sess[t]
  BY <1>3 DEF OwnInv, TypeOK, SessTypeOK
<1>8. ASSUME NEW c \in Call PROVE PlaceOK(c)' /\ HeldOK(c)'
  <2>1. PlaceOK(c) /\ HeldOK(c) /\ tx[c] # "begun"
    BY <1>2, NoneBegun DEF CallInv
  <2>2. tx[c] = "live" => of[c] \in Sess /\ of[c] # s /\ sess'[of[c]] = sess[of[c]]
    BY <1>2, <1>7, <2>1 DEF PlaceOK
  <2>3. PlaceOK(c)'
    BY <1>3, <1>4, <2>1, <2>2 DEF PlaceOK
  <2>4. HeldOK(c)'
    BY <1>3, <1>6, <2>1, <2>2 DEF HeldOK
  <2> QED
    BY <2>3, <2>4
<1> QED
  BY <1>5, <1>8 DEF CallInv

LEMMA CallsCheck == ASSUME OwnInv, CallInv, RunCheck PROVE CallInv'
<1>1. main = At("check", Head(posts).calls, Head(posts).sess)
  BY Question DEF RunCheck
<1>2. main.call # {} /\ main.at = "check"
  BY <1>1 DEF CallInv, MainInv, At
<1>3. /\ main' \in {[main EXCEPT !.at = "submit"], [main EXCEPT !.at = "refused"]}
      /\ UNCHANGED <<tx, of, sender, mark, core, result, intent, sess, cached, table>>
  BY DEF RunCheck, ownerVars, sessVars, callVars, coreVars
<1>4. main'.call = main.call /\ main'.at \in {"submit", "refused"}
  BY <1>1, <1>3 DEF At
<1>5. MainInv'
  BY <1>2, <1>3, <1>4 DEF CallInv, MainInv
<1>6. Kept' = Kept
  BY <1>3 DEF Kept
<1>7. ASSUME NEW c \in Call PROVE PlaceOK(c)' /\ HeldOK(c)'
  <2>1. PlaceOK(c) /\ HeldOK(c)
    BY DEF CallInv
  <2>2. PlaceOK(c)'
    BY <1>2, <1>3, <1>4, <2>1 DEF PlaceOK
  <2>3. HeldOK(c)'
    BY <1>2, <1>3, <1>6, <2>1 DEF HeldOK
  <2> QED
    BY <2>2, <2>3
<1> QED
  BY <1>5, <1>7 DEF CallInv

(* The request that starts is that of a posted call. *)
LEMMA StartedCall ==
  ASSUME TypeOK, CarryInv, First("start")
  PROVE  \E c \in Call : Head(posts).calls = {c} /\ core[c] = "posted"
<1>1. posts \in Seq(Post) /\ posts # <<>> /\ Head(posts).op = "start"
  BY DEF First, TypeOK, QueueTypeOK
<1>2. Carries(posts, "start", In("posted"))
  BY DEF CarryInv
<1>3. \E c \in In("posted") : Head(posts).calls = {c}
  BY <1>1, <1>2, CarriesTaken
<1> QED
  BY <1>3 DEF In

LEMMA CallsStart == ASSUME OwnInv, CarryInv, CallInv, RunStart PROVE CallInv'
<1>0. TypeOK
  BY DEF OwnInv
<1>1. PICK c \in Call : Head(posts).calls = {c} /\ core[c] = "posted"
  BY <1>0, StartedCall DEF RunStart
<1>2. /\ UNCHANGED <<main, tx, of, sender, mark, result, intent, sess, cached, table>>
      /\ \/ core' = [core EXCEPT ![c] = "active"] /\ sess[of[c]] = "open"
         \/ core' = [core EXCEPT ![c] = "decided"]
  BY <1>1 DEF RunStart, PrincipalOK, ownerVars, sessVars, callVars
<1>3. /\ core'[c] = "decided" \/ (core'[c] = "active" /\ sess[of[c]] = "open")
      /\ \A d \in Call : d # c => core'[d] = core[d]
  BY <1>0, <1>2 DEF TypeOK, CallTypeOK
<1>4. MainInv'
  BY <1>2 DEF CallInv, MainInv
<1>5. Kept' = Kept
  BY <1>2 DEF Kept
<1>6. ASSUME NEW d \in Call PROVE PlaceOK(d)' /\ HeldOK(d)'
  <2>1. PlaceOK(d) /\ HeldOK(d) /\ result[d] \in {"ok", "error"}
        /\ tx[d] \in {"new", "begun", "live", "answered"}
    BY <1>0, CallParts
  <2>2. CASE d = c
    <3>1. tx[d] = "live" /\ result[d] = "error"
      BY <1>1, <2>1, <2>2 DEF PlaceOK
    <3>2. PlaceOK(d)'
      BY <1>2, <1>3, <2>1, <2>2, <3>1 DEF PlaceOK
    <3>3. HeldOK(d)'
      BY <1>2, <1>3, <1>5, <2>1, <2>2, <3>1 DEF HeldOK
    <3> QED
      BY <3>2, <3>3
  <2>3. CASE d # c
    <3>1. PlaceOK(d)'
      BY <1>2, <1>3, <2>1, <2>3 DEF PlaceOK
    <3>2. HeldOK(d)'
      BY <1>2, <1>3, <1>5, <2>1, <2>3 DEF HeldOK
    <3> QED
      BY <3>1, <3>2
  <2> QED
    BY <2>2, <2>3
<1> QED
  BY <1>4, <1>6 DEF CallInv

LEMMA CallsDecide == ASSUME OwnInv, CallInv, NEW c \in Call, Decide(c) PROVE CallInv'
<1>0. TypeOK
  BY DEF OwnInv
<1>1. /\ core[c] = "active" /\ core' = [core EXCEPT ![c] = "decided"]
      /\ \E r \in {"ok", "error"} : result' = [result EXCEPT ![c] = r]
      /\ UNCHANGED <<main, tx, of, sender, mark, intent, sess, cached, table>>
  BY DEF Decide, ownerVars, sessVars, callVars
<1>2. /\ core'[c] = "decided"
      /\ \A d \in Call : d # c => core'[d] = core[d] /\ result'[d] = result[d]
  BY <1>0, <1>1 DEF TypeOK, CallTypeOK
<1>3. MainInv'
  BY <1>1 DEF CallInv, MainInv
<1>4. Kept' = Kept
  BY <1>1 DEF Kept
<1>5. ASSUME NEW d \in Call PROVE PlaceOK(d)' /\ HeldOK(d)'
  <2>1. PlaceOK(d) /\ HeldOK(d) /\ tx[d] \in {"new", "begun", "live", "answered"}
    BY <1>0, CallParts
  <2>2. CASE d = c
    <3>1. tx[d] = "live"
      BY <1>1, <2>1, <2>2 DEF PlaceOK
    <3>2. PlaceOK(d)'
      BY <1>1, <1>2, <2>1, <2>2, <3>1 DEF PlaceOK
    <3>3. HeldOK(d)'
      BY <1>1, <1>2, <1>4, <2>1, <2>2, <3>1 DEF HeldOK
    <3> QED
      BY <3>2, <3>3
  <2>3. CASE d # c
    <3>1. PlaceOK(d)'
      BY <1>1, <1>2, <2>1, <2>3 DEF PlaceOK
    <3>2. HeldOK(d)'
      BY <1>1, <1>2, <1>4, <2>1, <2>3 DEF HeldOK
    <3> QED
      BY <3>1, <3>2
  <2> QED
    BY <2>2, <2>3
<1> QED
  BY <1>3, <1>5 DEF CallInv

LEMMA CallStep == OwnInv /\ CarryInv /\ CallInv /\ [Next]_vars => CallInv'
<1> SUFFICES ASSUME OwnInv, CarryInv, CallInv, [Next]_vars PROVE CallInv'
  OBVIOUS
<1>0. TypeOK
  BY DEF OwnInv
<1>1. CASE FirstLookup \/ RefuseUnconfirmed \/ FrontendAppeared
  <2>1. /\ main = Idle /\ \E o : SetFrontendOwner(o)
        /\ UNCHANGED <<main, tx, of, sender, core, result, sess>>
    BY <1>1 DEF FirstLookup, RefuseUnconfirmed, FrontendAppeared, OwnerAppears, MainUnchanged
  <2> QED
    BY <2>1, CallsOwner
<1>2. CASE FrontendVanished
  BY <1>2, CallsVanish
<1>3. ASSUME NEW s \in Sess, CreateSession(s) \/ CloseSession(s) PROVE CallInv'
  BY <1>3, CallsCreate, CallsClose
<1>4. ASSUME NEW c \in Call, NEW p \in Path, BeginAcquire(c, p) \/ BeginKeyOperation(c, p) PROVE CallInv'
  BY <1>4, CallsBegin
<1>5. ASSUME NEW c \in Call, RefuseCall(c) \/ SubmitCall(c) \/ Decide(c) PROVE CallInv'
  BY <1>5, CallsRefuse, CallsSubmit, CallsDecide
<1>6. CASE CreateSessionDone \/ CoreDone \/ Leave
  BY <1>6, CallsCreated, CallsDone, CallsLeave
<1>7. CASE RunNew \/ RunCheck \/ RunStart
  BY <1>7, CallsNew, CallsCheck, CallsStart
<1>8. CASE RunGeneration \/ RunClose \/ RunStop \/ \E s \in Sess : Invalidate(s)
  <2>1. /\ UNCHANGED <<main, tx, of, sender, mark, core, result, cached, table>>
        /\ \E S, C : EndSessions(S, C)
    BY <1>8 DEF RunGeneration, RunClose, RunStop, Invalidate, ownerVars, callVars
  <2> QED
    BY <1>0, <2>1, CallsEnd
<1>9. CASE \/ \E o \in Owner : BusChange(o)
           \/ \E c \in Call : CloseRequest(c)
           \/ ShutdownAsync \/ Iterate \/ CoreInvalidated \/ ShutdownDone \/ RunCancel \/ CheckShutdown
           \/ UNCHANGED vars
  <2>1. /\ UNCHANGED <<main, tx, of, sender, mark, core, result, sess, cached, table>>
        /\ intent \subseteq intent'
    BY <1>9 DEF BusChange, CloseRequest, ShutdownAsync, Iterate, CoreInvalidated, ShutdownDone,
       RunCancel, CheckShutdown, vars, ownerVars, sessVars, callVars, coreVars
  <2> QED
    BY <2>1, CallsUntouched
<1> QED
  BY <1>1, <1>2, <1>3, <1>4, <1>5, <1>6, <1>7, <1>8, <1>9
  DEF Next, Handlers, Notifications, Resumed, Callbacks, Coordinator

-----------------------------------------------------------------------------
(* The shutdown. *)

(* A closed queue is empty. *)
LEMMA ClosedQueue ==
  ASSUME OwnInv, QueueClosed
  PROVE  posts = <<>>
BY DEF OwnInv, QuestionInv

(* The callback that ends the shutdown runs once the queue is closed. *)
LEMMA ShutdownIsPosted ==
  ASSUME OwnInv, Run("shutdown")
  PROVE  QueueClosed /\ batch > 0
<1>1. deliver \in Seq(Callback) /\ deliver # <<>> /\ Head(deliver).op = "shutdown"
  BY DEF Run, OwnInv, TypeOK, QueueTypeOK
<1>2. 1 \in 1..Len(deliver) /\ Head(deliver) = deliver[1]
  BY <1>1
<1>3. QueueClosed
  BY <1>1, <1>2 DEF OwnInv, ShutdownInv
<1> QED
  BY <1>3 DEF Run

LEMMA ClosedStep == OwnInv /\ CallInv /\ ClosedInv /\ [Next]_vars => ClosedInv'
<1> SUFFICES ASSUME OwnInv, CallInv, ClosedInv, [Next]_vars PROVE ClosedInv'
  OBVIOUS
<1>0. /\ TypeOK /\ sess \in [Sess -> {"new", "open", "closed"}]
      /\ core \in [Call -> {"none", "posted", "active", "decided", "done"}]
  BY DEF OwnInv, TypeOK, SessTypeOK, CallTypeOK
<1>1. CASE RunStop
  <2>1. stop' = "stopping" /\ EndSessions(Sess, Requests)
    BY <1>1 DEF RunStop
  <2>2. \A s \in Sess : sess'[s] # "open"
    BY <1>0, <2>1 DEF EndSessions
  <2> QED
    BY <2>1, <2>2 DEF ClosedInv, Stopping, QueueClosed
<1>2. CASE RunGeneration \/ RunClose \/ \E s \in Sess : Invalidate(s)
  <2>1. UNCHANGED <<stop, core>> /\ \E S, C : EndSessions(S, C)
    BY <1>2 DEF RunGeneration, RunClose, Invalidate
  <2>2. \A s \in Sess : sess[s] # "open" => sess'[s] # "open"
    BY <1>0, <2>1, EndedCalls
  <2> QED
    BY <2>1, <2>2 DEF ClosedInv, Stopping, QueueClosed
<1>3. CASE RunNew
  <2>1. /\ UNCHANGED <<stop, core>>
        /\ \E s : sess' = [sess EXCEPT ![s] = IF ~Stopping /\ gen[s] = coreGen THEN "open" ELSE "closed"]
    BY <1>3 DEF RunNew, coreVars
  <2>2. Stopping => \A s \in Sess : sess[s] # "open" => sess'[s] # "open"
    BY <1>0, <2>1
  <2> QED
    BY <2>1, <2>2 DEF ClosedInv, Stopping, QueueClosed
<1>4. CASE RunStart
  <2>1. ~QueueClosed
    BY <1>4, ClosedQueue DEF RunStart, First
  <2>2. UNCHANGED <<stop, sess>>
    BY <1>4 DEF RunStart, sessVars
  <2> QED
    BY <2>1, <2>2 DEF ClosedInv, Stopping, QueueClosed
<1>5. ASSUME NEW c \in Call, SubmitCall(c) PROVE ClosedInv'
  <2>1. /\ UNCHANGED <<stop, sess>>
        /\ core' = [core EXCEPT ![c] = IF QueueClosed THEN "decided" ELSE "posted"]
    BY <1>5 DEF SubmitCall, sessVars
  <2>2. \A d \in Call : core[d] # "active" => core'[d] # "active"
    BY <1>0, <2>1
  <2> QED
    BY <2>1, <2>2 DEF ClosedInv, Stopping, QueueClosed
<1>6. ASSUME \/ CoreDone
             \/ \E c \in Call : Decide(c)
      PROVE  ClosedInv'
  <2>1. UNCHANGED <<stop, sess>> /\ \E c : core' \in {[core EXCEPT ![c] = "decided"], [core EXCEPT ![c] = "done"]}
    BY <1>6 DEF CoreDone, Decide, sessVars
  <2>2. \A d \in Call : core[d] # "active" => core'[d] # "active"
    BY <1>0, <2>1
  <2> QED
    BY <2>1, <2>2 DEF ClosedInv, Stopping, QueueClosed
<1>7. CASE ShutdownAsync
  <2>1. stop' = "asked"
    BY <1>7 DEF ShutdownAsync
  <2> QED
    BY <2>1 DEF ClosedInv, Stopping, QueueClosed
<1>8. CASE ShutdownDone
  <2>1. QueueClosed
    BY <1>8, ShutdownIsPosted DEF ShutdownDone
  <2>2. UNCHANGED <<sess, core>>
    BY <1>8 DEF ShutdownDone, sessVars, coreVars
  <2> QED
    BY <2>1, <2>2 DEF ClosedInv, Stopping, QueueClosed
<1>9. CASE CheckShutdown
  <2>1. stop = "stopping" /\ Requests = {} /\ UNCHANGED <<sess, core>>
    BY <1>9 DEF CheckShutdown, sessVars, coreVars
  <2>2. \A c \in Call : core[c] # "active"
    BY <2>1 DEF Requests
  <2> QED
    BY <2>1, <2>2 DEF ClosedInv, Stopping
<1>10. CASE UNCHANGED <<stop, sess, core>>
  BY <1>10 DEF ClosedInv, Stopping, QueueClosed
<1>11. CASE Notifications \/ \E c \in Call : RefuseCall(c)
  BY <1>10, <1>11 DEF Notifications, FrontendAppeared, FrontendVanished, RefuseCall, coreVars, sessVars
<1>12. CASE Handlers
  <2>1. ShutdownAsync \/ UNCHANGED <<stop, sess, core>>
    <3>1. CASE FirstLookup \/ RefuseUnconfirmed
      BY <3>1 DEF FirstLookup, RefuseUnconfirmed, MainUnchanged
    <3>2. ASSUME NEW s \in Sess, CreateSession(s) \/ CloseSession(s) PROVE UNCHANGED <<stop, sess, core>>
      BY <3>2 DEF CreateSession, CloseSession, MainUnchanged, coreVars
    <3>3. ASSUME NEW c \in Call, CloseRequest(c) PROVE UNCHANGED <<stop, sess, core>>
      BY <3>3 DEF CloseRequest, sessVars
    <3>4. ASSUME NEW c \in Call, NEW p \in Path, BeginAcquire(c, p) \/ BeginKeyOperation(c, p)
          PROVE  UNCHANGED <<stop, sess, core>>
      BY <3>4 DEF BeginAcquire, BeginKeyOperation, BeginTransaction, coreVars, sessVars
    <3> QED
      BY <1>12, <3>1, <3>2, <3>3, <3>4 DEF Handlers
  <2> QED
    BY <1>7, <1>10, <2>1
<1> QED
  BY <1>1, <1>2, <1>3, <1>4, <1>5, <1>6, <1>8, <1>9, <1>10, <1>11, <1>12
  DEF Next, Resumed, Callbacks, Coordinator, vars, coreVars, sessVars,
      BusChange, CreateSessionDone, Iterate, CoreInvalidated, Leave, RunCheck, RunCancel

(* What the main loop has collected is only counted while the core stops,  *)
(* and the main thread leaves when it has run all of it.                   *)
LEMMA BatchStep == OwnInv /\ CallInv /\ BatchInv /\ [Next]_vars => BatchInv'
<1> SUFFICES ASSUME OwnInv, CallInv, BatchInv, [Next]_vars PROVE BatchInv'
  OBVIOUS
<1>0. batch \in Nat
  BY DEF OwnInv, TypeOK, QueueTypeOK
<1>1. ASSUME UNCHANGED <<batch, stop>>, main'.at # "left" PROVE BatchInv'
  BY <1>1 DEF BatchInv, QueueClosed
<1>2. CASE Iterate
  <2>1. stop' = "posted" /\ main' = Idle
    BY <1>2 DEF Iterate
  <2> QED
    BY <2>1 DEF BatchInv, QueueClosed, Idle, At
<1>3. ASSUME Ran, main' = Idle, UNCHANGED stop \/ stop' = "done" PROVE BatchInv'
  <2>1. batch' > 0 => batch > 0
    BY <1>0, <1>3 DEF Ran
  <2>2. batch' > 0 => QueueClosed'
    BY <1>3, <2>1 DEF BatchInv, QueueClosed
  <2> QED
    BY <1>3, <2>2 DEF BatchInv, Idle, At
<1>4. CASE CoreDone \/ CoreInvalidated \/ ShutdownDone
  BY <1>3, <1>4 DEF CoreDone, CoreInvalidated, ShutdownDone, Run
<1>5. CASE Leave
  <2>1. stop' = "done" /\ batch' = 0
    BY <1>5 DEF Leave, queueVars
  <2> QED
    BY <2>1 DEF BatchInv
<1>6. CASE ShutdownAsync
  <2>1. stop = "running" /\ main' = Idle /\ batch' = batch
    BY <1>6 DEF ShutdownAsync
  <2> QED
    BY <2>1 DEF BatchInv, QueueClosed, Idle, At
<1>7. CASE RunStop
  <2>1. ~QueueClosed
    BY <1>7, ClosedQueue DEF RunStop, First
  <2>2. batch' = batch /\ main' = main
    BY <1>7 DEF RunStop
  <2> QED
    BY <2>1, <2>2 DEF BatchInv, QueueClosed
<1>8. CASE CheckShutdown
  <2>1. stop = "stopping" /\ batch' = batch /\ main' = main /\ stop' = "posted"
    BY <1>8 DEF CheckShutdown
  <2> QED
    BY <2>1 DEF BatchInv, QueueClosed
<1>9. CASE UNCHANGED <<batch, stop, main>>
  BY <1>9 DEF BatchInv, QueueClosed
<1>10. CASE \/ \E s \in Sess : CreateSession(s)
            \/ \E c \in Call, p \in Path : BeginAcquire(c, p) \/ BeginKeyOperation(c, p)
            \/ CreateSessionDone
            \/ \E c \in Call : RefuseCall(c) \/ SubmitCall(c)
  <2>1. UNCHANGED <<batch, stop>>
    BY <1>10 DEF CreateSession, BeginAcquire, BeginKeyOperation, BeginTransaction,
       CreateSessionDone, RefuseCall, SubmitCall, queueVars
  <2>2. main' = Idle \/ \E w \in {"create", "check", "submit"} : \E C, S : main' = At(w, C, S)
    <3>1. CASE \E s \in Sess : CreateSession(s)
      BY <3>1 DEF CreateSession, Authorised
    <3>2. CASE \E c \in Call, p \in Path : BeginAcquire(c, p) \/ BeginKeyOperation(c, p)
      BY <3>2 DEF BeginAcquire, BeginKeyOperation
    <3>3. CASE CreateSessionDone \/ \E c \in Call : RefuseCall(c) \/ SubmitCall(c)
      BY <3>3 DEF CreateSessionDone, RefuseCall, SubmitCall
    <3> QED
      BY <1>10, <3>1, <3>2, <3>3
  <2>3. main'.at # "left"
    BY <2>2 DEF Idle, At
  <2> QED
    BY <1>1, <2>1, <2>3
<1>11. CASE RunNew \/ RunCheck
  <2>1. UNCHANGED <<batch, stop>>
    BY <1>11 DEF RunNew, RunCheck
  <2>2. \E C, S : main \in {At("create", C, S), At("check", C, S)}
    BY <1>11, Question DEF RunNew, RunCheck
  <2>3. main'.at # "left"
    BY <1>11, <2>2 DEF RunNew, RunCheck, At
  <2> QED
    BY <1>1, <2>1, <2>3
<1>12. CASE Handlers
  <2>1. \/ ShutdownAsync \/ UNCHANGED <<batch, stop, main>>
        \/ \E s \in Sess : CreateSession(s)
        \/ \E c \in Call, p \in Path : BeginAcquire(c, p) \/ BeginKeyOperation(c, p)
    BY <1>12 DEF Handlers, FirstLookup, RefuseUnconfirmed, MainUnchanged, CloseSession, CloseRequest
  <2> QED
    BY <1>6, <1>9, <1>10, <2>1
<1> QED
  BY <1>2, <1>4, <1>5, <1>7, <1>8, <1>9, <1>10, <1>11, <1>12
  DEF Next, Notifications, Resumed, Callbacks, Coordinator, vars, queueVars, BusChange,
      FrontendAppeared, FrontendVanished, RunGeneration, RunClose, RunCancel, RunStart, Decide, Invalidate

(* The calls that are left are in what the main loop has collected. *)
LEMMA LastSame ==
  ASSUME LastInv, UNCHANGED <<tx, deliver, batch, stop>>, main.call = {} => main'.call = {}
  PROVE  LastInv'
BY DEF LastInv, QueueClosed, Live

LEMMA LastIterate == ASSUME OwnInv, CarryInv, CallInv, ClosedInv, Iterate PROVE LastInv'
<1>1. /\ main' = Idle /\ main = Idle /\ batch' = Len(deliver) /\ stop = "posted"
      /\ UNCHANGED <<tx, core, deliver, stop, posts>>
  BY DEF Iterate, callVars, coreVars
<1>2. deliver \in Seq(Callback) /\ posts = <<>>
  BY <1>1, ClosedQueue DEF OwnInv, TypeOK, QueueTypeOK, QueueClosed
<1>3. ASSUME NEW c \in Live
      PROVE  \E i \in 1..Len(deliver) : deliver[i].op = "completion" /\ deliver[i].calls = {c}
  <2>1. core[c] \in {"posted", "active", "decided"} /\ c \in Call
    BY <1>3 DEF CallInv, PlaceOK, Live
  <2>2. core[c] # "active"
    BY <1>1, <2>1 DEF ClosedInv, QueueClosed
  <2>3. core[c] # "posted"
    <3>1. Carries(posts, "start", In("posted"))
      BY DEF CarryInv
    <3>2. ASSUME core[c] = "posted" PROVE FALSE
      <4>1. \E i \in 1..Len(posts) : posts[i].op = "start" /\ posts[i].calls = {c}
        BY <2>1, <3>1, <3>2 DEF Carries, In
      <4> QED
        BY <1>2, <4>1
    <3> QED
      BY <3>2
  <2>4. c \in In("decided")
    BY <2>1, <2>2, <2>3 DEF In
  <2> QED
    BY <2>4 DEF CarryInv, Carries
<1>4. Len(deliver) \in Nat /\ \A i \in 1..Len(deliver) : i <= Len(deliver)
  BY <1>2
<1>5. main'.call = {} /\ Live' = Live
  BY <1>1 DEF Idle, At, Live
<1> QED
  BY <1>1, <1>3, <1>4, <1>5 DEF LastInv

(* A callback that is run. *)
LEMMA LastRun ==
  ASSUME OwnInv, LastInv, NEW o, Run(o), Ran, main' = Idle, Live' \subseteq Live,
         \A c \in Live' : Head(deliver).op = "completion" => Head(deliver).calls # {c},
         UNCHANGED stop \/ (stop' = "done" /\ QueueClosed)
  PROVE  LastInv'
<1>1. main'.call = {}
  BY DEF Idle, At
<1>2. /\ deliver \in Seq(Callback) /\ deliver # <<>> /\ deliver' = Tail(deliver) /\ batch \in Nat
      /\ batch' = IF batch = 0 THEN 0 ELSE batch - 1
      /\ QueueClosed => batch > 0
  BY DEF Run, Ran, OwnInv, TypeOK, QueueTypeOK
<1>3. QueueClosed' => QueueClosed
  BY DEF QueueClosed
<1>4. ASSUME QueueClosed, NEW c \in Live'
      PROVE  \E i \in 1..Len(deliver') :
               i <= batch' /\ deliver'[i].op = "completion" /\ deliver'[i].calls = {c}
  <2>1. PICK i \in 1..Len(deliver) :
          i <= batch /\ deliver[i].op = "completion" /\ deliver[i].calls = {c}
    BY <1>2, <1>4 DEF LastInv
  <2>2. i # 1
    BY <1>2, <1>4, <2>1
  <2>3. /\ i - 1 \in 1..Len(deliver') /\ deliver'[i - 1] = deliver[i]
        /\ batch' = batch - 1 /\ i - 1 <= batch'
    BY <1>2, <1>4, <2>1, <2>2
  <2> QED
    BY <2>1, <2>3
<1> QED
  BY <1>1, <1>3, <1>4 DEF LastInv

LEMMA LastStep == AdapterInv /\ [Next]_vars => LastInv'
<1> SUFFICES ASSUME OwnInv, CarryInv, CallInv, ClosedInv, BatchInv, LastInv, [Next]_vars PROVE LastInv'
  BY DEF AdapterInv, StopInv
<1>0. TypeOK
  BY DEF OwnInv
<1>1. ASSUME ~QueueClosed' PROVE LastInv'
  BY <1>1 DEF LastInv
<1>3. CASE RunGeneration \/ RunNew \/ RunCheck \/ RunStart \/ RunCancel \/ RunClose \/ RunStop
  <2>1. ~QueueClosed
    BY <1>3, ClosedQueue DEF RunGeneration, RunNew, RunCheck, RunStart, RunCancel, RunClose, RunStop, First
  <2>2. stop' = stop \/ stop' = "stopping"
    BY <1>3 DEF RunGeneration, RunNew, RunCheck, RunStart, RunCancel, RunClose, RunStop
  <2> QED
    BY <1>1, <2>1, <2>2 DEF QueueClosed
<1>4. CASE CheckShutdown
  <2>1. stop = "stopping" /\ stop' = "posted" /\ batch' = batch
    BY <1>4 DEF CheckShutdown
  <2>2. ~(batch' > 0)
    BY <2>1 DEF BatchInv, QueueClosed
  <2> QED
    BY <2>1, <2>2 DEF LastInv
<1>5. CASE ShutdownAsync
  BY <1>1, <1>5 DEF ShutdownAsync, QueueClosed
<1>6. ASSUME NEW s \in Sess, Invalidate(s) PROVE LastInv'
  BY <1>1, <1>6 DEF Invalidate, QueueClosed, Stopping
<1>7. ASSUME NEW c \in Call, Decide(c) PROVE LastInv'
  <2>1. core[c] = "active" /\ stop' = stop
    BY <1>7 DEF Decide
  <2> QED
    BY <1>1, <2>1 DEF ClosedInv, QueueClosed
<1>8. CASE Iterate
  BY <1>8, LastIterate
<1>9. CASE CoreDone
  <2>1. PICK c \in Call : Head(deliver).calls = {c} /\ core[c] = "decided"
    BY <1>0, <1>9, CompletedCall DEF CoreDone
  <2>2. /\ Run("completion") /\ Ran /\ main' = Idle /\ UNCHANGED stop
        /\ tx' = [tx EXCEPT ![c] = "answered"]
    BY <1>9, <2>1 DEF CoreDone, Run, Free
  <2>3. Live' \subseteq Live /\ c \notin Live'
    BY <1>0, <2>2 DEF Live, TypeOK, CallTypeOK
  <2>4. \A d \in Live' : Head(deliver).calls # {d}
    BY <2>1, <2>3
  <2> QED
    BY <2>2, <2>3, <2>4, LastRun
<1>10. CASE CoreInvalidated
  <2>1. Run("notice") /\ Ran /\ main' = Idle /\ UNCHANGED stop /\ UNCHANGED tx
    BY <1>10 DEF CoreInvalidated, Run, callVars
  <2>2. Live' = Live /\ Head(deliver).op # "completion"
    BY <2>1 DEF Live, Run
  <2> QED
    BY <2>1, <2>2, LastRun
<1>11. CASE ShutdownDone
  <2>1. Run("shutdown") /\ Ran /\ main' = Idle /\ stop' = "done" /\ UNCHANGED tx
    BY <1>11 DEF ShutdownDone, Run, callVars
  <2>2. Live' = Live /\ Head(deliver).op # "completion" /\ QueueClosed
    BY <2>1, ShutdownIsPosted DEF Live, Run
  <2> QED
    BY <2>1, <2>2, LastRun
<1>12. ASSUME NEW c \in Call, RefuseCall(c) \/ SubmitCall(c) PROVE LastInv'
  <2>1. main.call # {} /\ UNCHANGED <<batch, stop>>
    BY <1>12 DEF RefuseCall, SubmitCall, queueVars
  <2> QED
    BY <2>1 DEF LastInv, QueueClosed
<1>13. ASSUME NEW c \in Call, NEW p \in Path, BeginAcquire(c, p) \/ BeginKeyOperation(c, p) PROVE LastInv'
  <2>1. table[p] # NoSess /\ sess[table[p]] # "closed" /\ stop' = stop
    BY <1>13 DEF BeginAcquire, BeginKeyOperation, BeginTransaction
  <2>2. table[p] \in Sess
    BY <1>0, <1>13, <2>1 DEF TypeOK, SessTypeOK
  <2>3. table[p] \in Kept
    BY <2>2 DEF Kept
  <2>4. sess[table[p]] = "open"
    BY <1>0, <2>1, <2>2, <2>3 DEF OwnInv, TableInv, TypeOK, SessTypeOK
  <2>5. ~QueueClosed
    BY <2>2, <2>4 DEF ClosedInv, Stopping, QueueClosed
  <2> QED
    BY <1>1, <2>1, <2>5 DEF QueueClosed
<1>14. ASSUME UNCHANGED <<tx, deliver, batch, stop>>, main'.call = {} \/ main' = main PROVE LastInv'
  BY <1>14, LastSame
<1>15. CASE (\E s \in Sess : CreateSession(s)) \/ CreateSessionDone \/ Leave
  <2>1. UNCHANGED <<tx, deliver, batch, stop>>
    BY <1>15 DEF CreateSession, CreateSessionDone, Leave, callVars, queueVars
  <2>2. main' = main \/ main' = Idle \/ \E w, S : main' = At(w, {}, S)
    <3>1. CASE \E s \in Sess : CreateSession(s)
      BY <3>1 DEF CreateSession
    <3>2. CASE CreateSessionDone \/ Leave
      BY <3>2 DEF CreateSessionDone, Leave
    <3> QED
      BY <1>15, <3>1, <3>2
  <2>3. main' = main \/ main'.call = {}
    BY <2>2 DEF Idle, At
  <2> QED
    BY <1>14, <2>1, <2>3
<1>16. CASE \/ FirstLookup \/ RefuseUnconfirmed \/ Notifications
            \/ \E s \in Sess : CloseSession(s)
            \/ \E c \in Call : CloseRequest(c)
            \/ \E o \in Owner : BusChange(o)
            \/ UNCHANGED vars
  BY <1>14, <1>16 DEF FirstLookup, RefuseUnconfirmed, MainUnchanged, Notifications, FrontendAppeared,
     FrontendVanished, CloseSession, CloseRequest, BusChange, vars, callVars, queueVars
<1> QED
  BY <1>3, <1>4, <1>5, <1>6, <1>7, <1>8, <1>9, <1>10, <1>11, <1>12, <1>13, <1>15, <1>16
  DEF Next, Handlers, Resumed, Callbacks, Coordinator

LEMMA AdapterInit == Init => AdapterInv
<1> SUFFICES ASSUME Init PROVE AdapterInv
  OBVIOUS
<1>1. OwnInv
  BY OwnInit
<1>2. /\ posts = <<>> /\ deliver = <<>> /\ batch = 0 /\ stop = "running" /\ main.call = {}
      /\ main.at = "idle" /\ main = Idle
      /\ \A c \in Call : tx[c] = "new" /\ core[c] = "none" /\ result[c] = "error"
  BY DEF Init, Idle, At
<1>3. CarryInv
  <2>1. In("posted") = {} /\ In("decided") = {}
    BY <1>2 DEF In
  <2> QED
    BY <1>2, <2>1 DEF CarryInv, Carries
<1>4. CallInv
  BY <1>2 DEF CallInv, MainInv, PlaceOK, HeldOK
<1>5. StopInv
  BY <1>2 DEF StopInv, ClosedInv, BatchInv, LastInv, Stopping, QueueClosed
<1> QED
  BY <1>1, <1>3, <1>4, <1>5 DEF AdapterInv

LEMMA AdapterStep == AdapterInv /\ [Next]_vars => AdapterInv'
<1> SUFFICES ASSUME AdapterInv, [Next]_vars PROVE AdapterInv'
  OBVIOUS
<1>1. OwnInv /\ CarryInv /\ CallInv /\ ClosedInv /\ BatchInv
  BY DEF AdapterInv, StopInv
<1>2. OwnInv'
  BY <1>1, OwnStep
<1>3. CarryInv'
  BY <1>1, CarryStep DEF OwnInv, CallInv
<1>4. CallInv'
  BY <1>1, CallStep
<1>5. StopInv'
  BY <1>1, ClosedStep, BatchStep, LastStep DEF StopInv
<1> QED
  BY <1>2, <1>3, <1>4, <1>5 DEF AdapterInv

(* certificate_impl_shutdown returns with every accepted call answered,    *)
(* whatever calls are posted, started, decided or just accepted when the   *)
(* core stops.                                                             *)
THEOREM ShutdownAlwaysAnswersAll == Spec => []ShutdownAnswersAll
<1>1. AdapterInv => ShutdownAnswersAll
  <2> SUFFICES ASSUME AdapterInv, main.at = "left", NEW c \in Call PROVE tx[c] \in {"new", "answered"}
    BY DEF ShutdownAnswersAll
  <2>1. TypeOK /\ CallInv /\ BatchInv /\ LastInv /\ batch = 0 /\ stop = "done"
    BY DEF AdapterInv, OwnInv, StopInv, BatchInv
  <2>2. tx[c] # "begun"
    <3>1. main.call = {}
      BY <2>1 DEF CallInv, MainInv, At
    <3> QED
      BY <2>1, <3>1, NoneBegun
  <2>3. tx[c] # "live"
    <3>1. Live = {}
      BY <2>1 DEF LastInv, QueueClosed
    <3> QED
      BY <3>1 DEF Live
  <2> QED
    BY <2>1, <2>2, <2>3, CallParts
<1> QED
  BY <1>1, AdapterInit, AdapterStep, PTL DEF Spec

(* A call succeeds only for the owner that made it, under the generation   *)
(* announced last, even when its completion was queued before the change   *)
(* of owner (core_done, set_frontend_owner).                               *)
THEOREM NeverSuccessToFormerOwner == Spec => NoSuccessToFormerOwner
<1> DEFINE Own(c) == answer[c] = "none" /\ answer'[c] = "success"
                       => sender[c] = cached /\ gen[of[c]] = ownerGen
<1>1. AdapterInv /\ [Next]_vars => [\A c \in Call : Own(c)]_vars
  <2> SUFFICES ASSUME AdapterInv, Next, NEW c \in Call, answer[c] = "none", answer'[c] = "success"
               PROVE  sender[c] = cached /\ gen[of[c]] = ownerGen
    OBVIOUS
  <2>0. TypeOK /\ OwnInv /\ CarryInv /\ CallInv
    BY DEF AdapterInv, OwnInv
  <2>1. CASE CoreDone
    <3>1. PICK d \in Call : Head(deliver).calls = {d} /\ core[d] = "decided"
      BY <2>0, <2>1, CompletedCall DEF CoreDone
    <3>2. answer' = [answer EXCEPT ![d] = AnswerOf(d)] /\ main = Idle
      BY <2>1, <3>1 DEF CoreDone, Run
    <3>3. c = d /\ AnswerOf(c) = "success"
      BY <2>0, <3>2 DEF TypeOK, CallTypeOK
    <3>4. mark[c] \in {"none", "owner_gone", "no_session"}
      BY <2>0 DEF TypeOK, CallTypeOK, Code
    <3>5. mark[c] = "none" /\ c \notin intent /\ result[c] = "ok"
      BY <3>3, <3>4 DEF AnswerOf
    <3>6. PlaceOK(c) /\ HeldOK(c) /\ tx[c] \in {"new", "begun", "live", "answered"}
      BY <2>0, CallParts
    <3>7. tx[c] = "live"
      BY <3>1, <3>3, <3>6 DEF PlaceOK
    <3>8. sess[of[c]] # "closed"
      BY <3>1, <3>3, <3>5, <3>6, <3>7 DEF HeldOK
    <3>9. of[c] \in Kept /\ sender[c] = cached
      BY <3>2, <3>5, <3>6, <3>7, <3>8, IdleMain DEF HeldOK
    <3> QED
      BY <2>0, <3>9 DEF OwnInv, TableInv, TableBelongsToOwner
  <2>2. ASSUME NEW d \in Call, RefuseCall(d) PROVE FALSE
    <3>1. answer' = [answer EXCEPT ![d] = "error"]
      BY <2>2 DEF RefuseCall
    <3> QED
      BY <2>0, <3>1 DEF TypeOK, CallTypeOK
  <2>3. CASE UNCHANGED answer
    BY <2>3
  <2> QED
    BY <2>1, <2>2, <2>3
    DEF Next, Handlers, Notifications, Resumed, Callbacks, Coordinator, callVars,
        BusChange, FirstLookup, RefuseUnconfirmed, MainUnchanged, CreateSession, CloseSession,
        CloseRequest, BeginAcquire, BeginKeyOperation, BeginTransaction, ShutdownAsync,
        FrontendAppeared, FrontendVanished, CreateSessionDone, SubmitCall, Iterate, CoreInvalidated,
        ShutdownDone, Leave, RunGeneration, RunNew, RunCheck, RunStart, RunCancel, RunClose, RunStop,
        CheckShutdown, Decide, Invalidate
<1> QED
  BY <1>1, AdapterInit, AdapterStep, PTL DEF Spec, NoSuccessToFormerOwner
=============================================================================
