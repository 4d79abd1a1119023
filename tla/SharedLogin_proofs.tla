------------------------- MODULE SharedLogin_proofs -------------------------
(***************************************************************************)
(* Proofs about the shared login for every set of operations: its types,   *)
(* that waiters are served and cancelled ones take nobody with them, and   *)
(* who uses the device session.                                            *)
(***************************************************************************)
EXTENDS SharedLogin, TLAPS

\* The steps that end the prompt or carry it on.
PromptStep ==
    \/ PromptStart \/ PromptRefreshed \/ UserDismisses \/ LoginTimeout \/ PromptCancelled
    \/ LoginDone

\* The actions one by one: ContextCancelled is an answer of the context's prompt.
LEMMA NextActions ==
    ASSUME [Next]_vars
    PROVE  \/ UNCHANGED vars
           \/ Expire \/ CloseSession \/ TokenReset \/ OthersLogin \/ TokenRemoved
           \/ UserSubmits \/ PromptStep \/ LoginReleased \/ ReleaseClosed \/ ReleaseLogin
           \/ LoginThread \/ LoginReturns
           \/ \E o \in Op :
                  \/ Perform(o) \/ Cancel(o) \/ AskContext(o) \/ OpenThread(o)
                  \/ SignThread(o) \/ Resume(o) \/ TokenSigns(o) \/ OpenedFails(o)
                  \/ JoinLogin(o) \/ OpenAgain(o) \/ StartLogin(o) \/ RunOperation(o)
                  \/ WaiterCancelled(o) \/ SignAgain(o) \/ Signed(o)
                  \/ \E end \in Outcome : ContextAnswered(o, end)
<1>1. ASSUME NEW o \in Op, ContextCancelled(o) PROVE \E end \in Outcome : ContextAnswered(o, end)
  BY <1>1 DEF ContextCancelled, Outcome, Failure
<1> QED
  BY <1>1 DEF Next, Environment, LoginCallbacks, Threads, Driver, Callbacks, PromptStep

-----------------------------------------------------------------------------
\* The end of a session within another step.
Closes ==
    \/ authority' = authority /\ closeRelease' = closeRelease
    \/ /\ authority' = "closed"
       /\ closeRelease' = (closeRelease \/ ~(deviceLock = "free" /\ device = "closed"))

\* What the end of a login changes: its waiters go on, nobody else.
LoginEnds ==
    /\ ~busy' /\ performed' = FALSE /\ loginCancelled' = FALSE
    /\ waiters' = {} /\ retryLogin' = {} /\ idle' = {} /\ early' = {}
    /\ outcome' = "none"
    /\ \A o \in Op : IF stage[o] = "waiting" THEN stage'[o] \in {"opening", "running", "done"}
                      ELSE stage'[o] = stage[o] /\ result'[o] = result[o]
    /\ Closes

\* finish_login, in those terms.
LEMMA FinishLoginEffect ==
    ASSUME TypeOK, WaitersAreServed, NEW end, FinishLogin(end)
    PROVE  LoginEnds
BY DEF TypeOK, WaitersAreServed, FinishLogin, LoginEnds, Closes, EndSession

\* What the end of a prompt changes: the login ends with it, or is released first.
PromptEnds ==
    /\ prompt' = "none" /\ attempt' = "none" /\ promptIdle' = FALSE /\ deferred' = "none"
    /\ \/ LoginEnds /\ loginRelease' = loginRelease
       \/ /\ loginCancelled' = TRUE /\ loginRelease' = "queued"
          /\ UNCHANGED <<authority, stage, result, cancelled, answer, stale, busy, waiters,
                         retryLogin, idle, performed, early, closeRelease>>

\* on_pin_done, in those terms.
LEMMA FinishPromptEffect ==
    ASSUME TypeOK, WaitersAreServed, NEW answered, FinishPrompt(answered)
    PROVE  PromptEnds
<1> DEFINE end == IF answered = "ok" /\ loginCancelled THEN "cancelled" ELSE answered
<1>1. CASE end # "ok" /\ performed
  BY <1>1 DEF FinishPrompt, PromptEnds
<1>2. CASE ~(end # "ok" /\ performed)
  <2>1. FinishLogin(end) /\ UNCHANGED loginRelease
    BY <1>2 DEF FinishPrompt
  <2>2. LoginEnds
    BY <2>1, FinishLoginEffect
  <2> QED
    BY <2>1, <2>2 DEF FinishPrompt, PromptEnds
<1> QED
  BY <1>1, <1>2

\* The prompt's steps end it or carry it on; while a worker is in C_Login with
\* it they only put an answer aside.
PromptGoesOn ==
    /\ UNCHANGED <<authority, stage, result, cancelled, answer, stale, loginVars, releaseVars>>
    /\ prompt # "none" /\ prompt' # "none" /\ prompt' \in {"refreshing", "asking", prompt}
    /\ promptIdle' \in {FALSE, promptIdle}
    /\ prompt = "working" /\ attempt = "none" => prompt' = prompt /\ attempt' = attempt

\* The prompt's steps, in those terms.
LEMMA PromptSteps ==
    ASSUME TypeOK, WaitersAreServed, promptIdle => prompt # "none", PromptStep
    PROVE  /\ UNCHANGED <<retried, deviceVars, tokenVars>>
           /\ \/ PromptEnds /\ prompt # "none" /\ (prompt = "working" => attempt # "none")
              \/ PromptGoesOn
<1> USE DEF loginVars, releaseVars
<1>0. \A answered : FinishPrompt(answered) => PromptEnds
  BY FinishPromptEffect
<1>1. CASE PromptStart
  BY <1>0, <1>1 DEF PromptStart, PromptGoesOn
<1>2. CASE PromptRefreshed
  BY <1>0, <1>2 DEF PromptRefreshed, PromptGoesOn
<1>3. CASE UserDismisses
  BY <1>0, <1>3 DEF UserDismisses, PromptGoesOn, Defer
<1>4. CASE LoginTimeout
  BY <1>4 DEF LoginTimeout, PromptGoesOn, Defer
<1>5. CASE PromptCancelled
  BY <1>0, <1>5 DEF PromptCancelled, PromptGoesOn, Defer
<1>6. CASE LoginDone
  BY <1>0, <1>6 DEF LoginDone, PromptGoesOn
<1> QED
  BY <1>1, <1>2, <1>3, <1>4, <1>5, <1>6 DEF PromptStep

\* Once its key's PIN was asked for, an operation goes on under the device lock or
\* gives everything up.
LEMMA ResumeEffect ==
    ASSUME NEW o \in Op, result[o] # "none", Resume(o)
    PROVE  /\ stage[o] = "resuming" /\ deviceLock = "free"
           /\ UNCHANGED <<authority, cancelled, answer, stale, retried, loginVars, promptVars,
                          releaseVars, others, gone, resets>>
           /\ \/ /\ stage' = [stage EXCEPT ![o] = "signing"] /\ deviceLock' = o /\ initialised
                 /\ authority = "live" /\ result' = [result EXCEPT ![o] = "none"]
                 /\ UNCHANGED <<operationLock, device, loggedIn, initialised, tokenIn>>
              \/ /\ stage' = [stage EXCEPT ![o] = "signed"] /\ operationLock' = NoOp
                 /\ \E told \in {result[o], "cancelled", "failed", "removed"} :
                        result' = [result EXCEPT ![o] = told]
                 /\ CloseDevice /\ deviceLock' = deviceLock
<1> DEFINE error == IF result[o] # "ok" THEN result[o]
                    ELSE IF ~Authorised(o) THEN Unauthorised(o)
                    ELSE IF ~initialised THEN "removed" ELSE "none"
<1>1. CASE error = "none" /\ result[o] = "ok"
  BY <1>1 DEF Resume, Authorised, Unauthorised
<1>2. error = "none" => result[o] = "ok"
  BY DEF Unauthorised
<1>3. CASE error # "none"
  <2>1. error \in {result[o], "cancelled", "failed", "removed"}
    BY <1>3 DEF Unauthorised
  <2>2. Masked(error) \in {result[o], "cancelled", "failed", "removed"}
    BY <2>1 DEF Masked
  <2> QED
    BY <1>3, <2>1, <2>2 DEF Resume
<1> QED
  BY <1>1, <1>2, <1>3

\* Waiters are served: a login in progress has a prompt, or then a release, never
\* both; a cancelled login is in progress; its prompt's idle is the prompt's.
ServedInv ==
    /\ WaitersAreServed
    /\ prompt = "none" \/ loginRelease = "none"
    /\ promptIdle => prompt # "none"
    /\ ~busy => ~loginCancelled
    /\ CancelledLoginTakesNobody

\* The locks: C_Login and C_Sign keep the device lock, and an operation keeps the
\* operation lock from C_SignInit on.
HoldsOperation == {"authenticating", "asked", "resuming", "signing"}

LockInv ==
    /\ deviceLock = "login" => prompt = "working" /\ attempt = "none" /\ device = "open"
    /\ \A o \in Op : stage[o] \in HoldsOperation => operationLock = o
    /\ \A o \in Op : deviceLock = o <=> stage[o] = "signing"
    /\ SignsOnItsOwnSession

\* What workers report.
ResultInv ==
    \A o \in Op : /\ stage[o] = "resuming" => result[o] \in Outcome
                  /\ stage[o] = "signed" => result[o] \in Outcome \cup {"retry"}

\* The device session: a closed grant has none unless a release is queued; it is
\* open while initialised; the token is logged in without other grants only through it.
DeviceInv ==
    /\ authority = "closed" => closeRelease \/ (deviceLock = "free" /\ device = "closed")
    /\ initialised => device = "open"
    /\ ~others /\ device = "closed" => ~tokenIn
    /\ ~others /\ loginRelease = "done" => ~tokenIn

-----------------------------------------------------------------------------
\* The types of what the end of a login writes.
LoginTypeOK ==
    /\ authority \in {"live", "expired", "closed"}
    /\ stage \in [Op -> {"new", "opening", "opened", "waiting", "running", "authenticating",
                          "asked", "resuming", "signing", "signed", "done"}]
    /\ result \in [Op -> Outcome \cup {"none", "login", "ready", "retry"}]
    /\ cancelled \in [Op -> BOOLEAN]
    /\ answer \in [Op -> Outcome \cup {"none"}]
    /\ stale \in SUBSET Op
    /\ busy \in BOOLEAN /\ waiters \in SUBSET Op
    /\ retryLogin \in SUBSET waiters /\ idle \in SUBSET waiters
    /\ loginCancelled \in BOOLEAN /\ performed \in BOOLEAN
    /\ outcome \in Outcome \cup {"none"} /\ early \in SUBSET Op
    /\ closeRelease \in BOOLEAN

\* The types of the prompt, and of the device and its token.
PromptTypeOK ==
    /\ prompt \in {"none", "queued", "refreshing", "asking", "working"}
    /\ deferred \in {"none", "cancelled", "timeout", "failed"}
    /\ promptIdle \in BOOLEAN /\ attempt \in Outcome \cup {"none", "wrong"}
    /\ loginRelease \in {"none", "queued", "done"}

DeviceTypeOK ==
    /\ retried \in SUBSET Op
    /\ deviceLock \in Op \cup {"free", "login"} /\ operationLock \in Op \cup {NoOp}
    /\ device \in {"closed", "open"} /\ loggedIn \in BOOLEAN /\ initialised \in BOOLEAN
    /\ others \in Others /\ tokenIn \in BOOLEAN /\ gone \in BOOLEAN /\ resets \in BOOLEAN

\* Type correctness has those three parts.
LEMMA TypeParts == TypeOK <=> LoginTypeOK /\ PromptTypeOK /\ DeviceTypeOK
BY DEF TypeOK, LoginTypeOK, PromptTypeOK, DeviceTypeOK

\* The end of a login keeps the types.
LEMMA FinishLoginTypes ==
    ASSUME LoginTypeOK, NEW end \in Outcome \cup {"none"}, FinishLogin(end)
    PROVE  LoginTypeOK'
<1> DEFINE heirs == waiters \ retryLogin
           kept == {o \in heirs : ~cancelled[o]}
           removed == end = "removed" /\ kept # {}
           over == IF end = "ok" THEN heirs \ kept ELSE heirs
<1>1. PICK told \in IF removed THEN {{o} : o \in kept} ELSE {kept} :
        /\ busy' = FALSE /\ performed' = FALSE /\ loginCancelled' = FALSE
        /\ waiters' = {} /\ retryLogin' = {} /\ idle' = {} /\ early' = {}
        /\ outcome' = "none"
        /\ stage' = [o \in Op |-> IF o \in waiters \cap retryLogin THEN "opening"
                                  ELSE IF o \in over THEN "done"
                                  ELSE IF o \in heirs THEN "running" ELSE stage[o]]
        /\ answer' = [o \in Op |-> IF o \in over THEN IF o \in told THEN end ELSE "cancelled"
                                   ELSE answer[o]]
        /\ result' = [o \in Op |-> IF o \in waiters THEN "none" ELSE result[o]]
        /\ stale' = stale \cup {o \in Op : stage[o] \in {"opening", "opened"}}
        /\ EndSession(removed, over)
  BY DEF FinishLogin
<1>2. "cancelled" \in Outcome
  BY DEF Outcome, Failure
<1> HIDE DEF heirs, kept, removed, over
<1>3. /\ stage' \in [Op -> {"new", "opening", "opened", "waiting", "running", "authenticating",
                              "asked", "resuming", "signing", "signed", "done"}]
      /\ result' \in [Op -> Outcome \cup {"none", "login", "ready", "retry"}]
      /\ answer' \in [Op -> Outcome \cup {"none"}] /\ stale' \in SUBSET Op
  BY <1>1, <1>2 DEF LoginTypeOK
<1>4. /\ authority' \in {"live", "expired", "closed"} /\ cancelled' \in [Op -> BOOLEAN]
      /\ closeRelease' \in BOOLEAN
  BY <1>1 DEF LoginTypeOK, EndSession
<1> QED
  BY <1>1, <1>3, <1>4 DEF LoginTypeOK

\* So does the end of a prompt.
LEMMA FinishPromptTypes ==
    ASSUME LoginTypeOK, PromptTypeOK, NEW answered \in Outcome, FinishPrompt(answered)
    PROVE  LoginTypeOK' /\ PromptTypeOK'
<1> DEFINE end == IF answered = "ok" /\ loginCancelled THEN "cancelled" ELSE answered
<1>1. end \in Outcome
  BY DEF Outcome, Failure
<1>2. PromptTypeOK'
  BY DEF FinishPrompt, PromptTypeOK
<1>3. CASE end # "ok" /\ performed
  BY <1>1, <1>2, <1>3 DEF FinishPrompt, LoginTypeOK
<1>4. CASE ~(end # "ok" /\ performed)
  <2>1. FinishLogin(end)
    BY <1>4 DEF FinishPrompt
  <2> QED
    BY <1>1, <1>2, <2>1, FinishLoginTypes
<1> QED
  BY <1>3, <1>4

\* Waiters leave with the login, so that those who ask again are waiters.
LEMMA TypeStep ==
    ASSUME TypeOK, WaitersAreServed, ResultInv, [Next]_vars
    PROVE  TypeOK'
<1> USE SharedLoginAssumption DEF operationVars, loginVars, promptVars, deviceVars, releaseVars,
    tokenVars
<1>1. LoginTypeOK /\ PromptTypeOK /\ DeviceTypeOK
  BY TypeParts
<1>2. LoginTypeOK' /\ PromptTypeOK' /\ DeviceTypeOK'
  <2>1. CASE Expire
    <3>1. LoginTypeOK'
      BY <1>1, <2>1 DEF Expire, LoginTypeOK
    <3>2. PromptTypeOK'
      BY <1>1, <2>1 DEF Expire, PromptTypeOK
    <3>3. DeviceTypeOK'
      BY <1>1, <2>1 DEF Expire, DeviceTypeOK
    <3> QED
      BY <3>1, <3>2, <3>3
  <2>2. CASE CloseSession
    <3>1. LoginTypeOK'
      BY <1>1, <2>2 DEF CloseSession, EndSession, EndSessionIdle, LoginTypeOK
    <3>2. PromptTypeOK'
      BY <1>1, <2>2 DEF CloseSession, EndSession, EndSessionIdle, PromptTypeOK
    <3>3. DeviceTypeOK'
      BY <1>1, <2>2 DEF CloseSession, EndSession, EndSessionIdle, DeviceTypeOK
    <3> QED
      BY <3>1, <3>2, <3>3
  <2>3. CASE TokenReset
    <3>1. LoginTypeOK'
      BY <1>1, <2>3 DEF TokenReset, LoginTypeOK
    <3>2. PromptTypeOK'
      BY <1>1, <2>3 DEF TokenReset, PromptTypeOK
    <3>3. DeviceTypeOK'
      BY <1>1, <2>3 DEF TokenReset, DeviceTypeOK
    <3> QED
      BY <3>1, <3>2, <3>3
  <2>4. CASE OthersLogin
    <3>1. LoginTypeOK'
      BY <1>1, <2>4 DEF OthersLogin, LoginTypeOK
    <3>2. PromptTypeOK'
      BY <1>1, <2>4 DEF OthersLogin, PromptTypeOK
    <3>3. DeviceTypeOK'
      BY <1>1, <2>4 DEF OthersLogin, DeviceTypeOK
    <3> QED
      BY <3>1, <3>2, <3>3
  <2>5. CASE TokenRemoved
    <3>1. LoginTypeOK'
      BY <1>1, <2>5 DEF TokenRemoved, LoginTypeOK
    <3>2. PromptTypeOK'
      BY <1>1, <2>5 DEF TokenRemoved, PromptTypeOK
    <3>3. DeviceTypeOK'
      BY <1>1, <2>5 DEF TokenRemoved, DeviceTypeOK
    <3> QED
      BY <3>1, <3>2, <3>3
  <2>6. CASE UserSubmits
    <3>1. LoginTypeOK'
      BY <1>1, <2>6 DEF UserSubmits, LoginTypeOK
    <3>2. PromptTypeOK'
      BY <1>1, <2>6 DEF UserSubmits, PromptTypeOK
    <3>3. DeviceTypeOK'
      BY <1>1, <2>6 DEF UserSubmits, DeviceTypeOK
    <3> QED
      BY <3>1, <3>2, <3>3
  <2>7. CASE PromptStep
    <3>0. {"cancelled", "failed", "timeout", "removed", "ok"} \subseteq Outcome
      BY DEF Outcome, Failure
    <3>1. DeviceTypeOK'
      BY <1>1, <2>7 DEF PromptStep, PromptStart, PromptRefreshed, UserDismisses, LoginTimeout,
         PromptCancelled, LoginDone, DeviceTypeOK
    <3>2. \A a \in Outcome : FinishPrompt(a) => LoginTypeOK' /\ PromptTypeOK'
      BY <1>1, FinishPromptTypes
    <3>3. \A a \in {"cancelled", "failed", "timeout"} :
             Defer(a) /\ promptIdle' \in BOOLEAN => LoginTypeOK' /\ PromptTypeOK'
      BY <1>1 DEF Defer, LoginTypeOK, PromptTypeOK
    <3>4. deferred # "none" => deferred \in Outcome
      BY <1>1, <3>0 DEF PromptTypeOK
    <3>11. attempt \in Outcome \cup {"none", "wrong"}
      BY <1>1 DEF PromptTypeOK
    <3>5. CASE PromptStart
      <4>1. \/ \E a \in Outcome : FinishPrompt(a)
            \/ /\ UNCHANGED <<authority, stage, result, cancelled, answer, stale, loginVars,
                               deferred, promptIdle, attempt, releaseVars>>
               /\ prompt' \in {"refreshing", "asking"}
        BY <1>1, <3>0, <3>5 DEF PromptStart
      <4>2. CASE \E a \in Outcome : FinishPrompt(a)
        BY <3>1, <3>2, <4>2
      <4>3. CASE /\ UNCHANGED <<authority, stage, result, cancelled, answer, stale, loginVars,
                               deferred, promptIdle, attempt, releaseVars>>
                 /\ prompt' \in {"refreshing", "asking"}
        BY <1>1, <3>1, <4>3 DEF LoginTypeOK, PromptTypeOK
      <4> QED
        BY <4>1, <4>2, <4>3
    <3>6. CASE PromptRefreshed
      <4>1. \/ \E a \in Outcome : FinishPrompt(a)
            \/ /\ UNCHANGED <<authority, stage, result, cancelled, answer, stale, loginVars,
                               deferred, promptIdle, attempt, releaseVars>>
               /\ prompt' \in {"refreshing", "asking"}
        BY <1>1, <3>0, <3>4, <3>6 DEF PromptRefreshed
      <4>2. CASE \E a \in Outcome : FinishPrompt(a)
        BY <3>1, <3>2, <4>2
      <4>3. CASE /\ UNCHANGED <<authority, stage, result, cancelled, answer, stale, loginVars,
                               deferred, promptIdle, attempt, releaseVars>>
                 /\ prompt' \in {"refreshing", "asking"}
        BY <1>1, <3>1, <4>3 DEF LoginTypeOK, PromptTypeOK
      <4> QED
        BY <4>1, <4>2, <4>3
    <3>7. CASE UserDismisses
      <4>1. \/ \E a \in Outcome : FinishPrompt(a)
            \/ \E a \in {"cancelled", "failed", "timeout"} : Defer(a) /\ promptIdle' \in BOOLEAN
        BY <1>1, <3>0, <3>7 DEF UserDismisses, PromptTypeOK
      <4>2. CASE \E a \in Outcome : FinishPrompt(a)
        BY <3>1, <3>2, <4>2
      <4>3. CASE \E a \in {"cancelled", "failed", "timeout"} : Defer(a) /\ promptIdle' \in BOOLEAN
        BY <3>1, <3>3, <4>3
      <4> QED
        BY <4>1, <4>2, <4>3
    <3>8. CASE LoginTimeout
      <4>1. \/ \E a \in Outcome : FinishPrompt(a)
            \/ \E a \in {"cancelled", "failed", "timeout"} : Defer(a) /\ promptIdle' \in BOOLEAN
        BY <1>1, <3>0, <3>8 DEF LoginTimeout, PromptTypeOK
      <4>2. CASE \E a \in Outcome : FinishPrompt(a)
        BY <3>1, <3>2, <4>2
      <4>3. CASE \E a \in {"cancelled", "failed", "timeout"} : Defer(a) /\ promptIdle' \in BOOLEAN
        BY <3>1, <3>3, <4>3
      <4> QED
        BY <4>1, <4>2, <4>3
    <3>9. CASE PromptCancelled
      <4>1. \/ \E a \in Outcome : FinishPrompt(a)
            \/ \E a \in {"cancelled", "failed", "timeout"} : Defer(a) /\ promptIdle' \in BOOLEAN
        BY <1>1, <3>0, <3>9 DEF PromptCancelled
      <4>2. CASE \E a \in Outcome : FinishPrompt(a)
        BY <3>1, <3>2, <4>2
      <4>3. CASE \E a \in {"cancelled", "failed", "timeout"} : Defer(a) /\ promptIdle' \in BOOLEAN
        BY <3>1, <3>3, <4>3
      <4> QED
        BY <4>1, <4>2, <4>3
    <3>10. CASE LoginDone
      <4>1. \/ \E a \in Outcome : FinishPrompt(a)
            \/ /\ UNCHANGED <<authority, stage, result, cancelled, answer, stale, loginVars,
                               deferred, promptIdle, releaseVars>>
               /\ prompt' = "asking" /\ attempt' = "none"
        BY <1>1, <3>0, <3>4, <3>11, <3>10 DEF LoginDone
      <4>2. CASE \E a \in Outcome : FinishPrompt(a)
        BY <3>1, <3>2, <4>2
      <4>3. CASE /\ UNCHANGED <<authority, stage, result, cancelled, answer, stale, loginVars,
                               deferred, promptIdle, releaseVars>>
                 /\ prompt' = "asking" /\ attempt' = "none"
        BY <1>1, <3>1, <4>3 DEF LoginTypeOK, PromptTypeOK
      <4> QED
        BY <4>1, <4>2, <4>3
    <3> HIDE DEF PromptTypeOK, LoginTypeOK, DeviceTypeOK
    <3> QED
      BY <2>7, <3>1, <3>5, <3>6, <3>7, <3>8, <3>9, <3>10 DEF PromptStep
  <2>8. ASSUME NEW o \in Op, Perform(o) PROVE LoginTypeOK' /\ PromptTypeOK' /\ DeviceTypeOK'
    <3>1. LoginTypeOK'
      BY <1>1, <2>8 DEF Perform, OpenOperation, Answer, LoginTypeOK, Outcome, Failure
    <3>2. PromptTypeOK'
      BY <1>1, <2>8 DEF Perform, OpenOperation, Answer, PromptTypeOK
    <3>3. DeviceTypeOK'
      BY <1>1, <2>8 DEF Perform, OpenOperation, Answer, DeviceTypeOK
    <3> QED
      BY <3>1, <3>2, <3>3
  <2>9. ASSUME NEW o \in Op, Cancel(o) PROVE LoginTypeOK' /\ PromptTypeOK' /\ DeviceTypeOK'
    <3>1. LoginTypeOK'
      BY <1>1, <2>9 DEF Cancel, Unfinished, LoginTypeOK
    <3>2. PromptTypeOK'
      BY <1>1, <2>9 DEF Cancel, Unfinished, PromptTypeOK
    <3>3. DeviceTypeOK'
      BY <1>1, <2>9 DEF Cancel, Unfinished, DeviceTypeOK
    <3> QED
      BY <3>1, <3>2, <3>3
  <2>10. ASSUME NEW o \in Op, AskContext(o) PROVE LoginTypeOK' /\ PromptTypeOK' /\ DeviceTypeOK'
    <3>1. LoginTypeOK'
      BY <1>1, <2>10 DEF AskContext, LoginTypeOK
    <3>2. PromptTypeOK'
      BY <1>1, <2>10 DEF AskContext, PromptTypeOK
    <3>3. DeviceTypeOK'
      BY <1>1, <2>10 DEF AskContext, DeviceTypeOK
    <3> QED
      BY <3>1, <3>2, <3>3
  <2>11. ASSUME NEW o \in Op, NEW end \in Outcome, ContextAnswered(o, end) PROVE LoginTypeOK' /\
          PromptTypeOK' /\ DeviceTypeOK'
    <3>1. LoginTypeOK'
      BY <1>1, <2>11 DEF ContextAnswered, LoginTypeOK, Outcome, Failure
    <3>2. PromptTypeOK'
      BY <1>1, <2>11 DEF ContextAnswered, PromptTypeOK
    <3>3. DeviceTypeOK'
      BY <1>1, <2>11 DEF ContextAnswered, DeviceTypeOK
    <3> QED
      BY <3>1, <3>2, <3>3
  <2>12. CASE LoginReleased
    <3>1. LoginTypeOK'
      BY <1>1, <2>12, FinishLoginTypes DEF LoginReleased, LoginTypeOK
    <3>2. PromptTypeOK'
      BY <1>1, <2>12 DEF LoginReleased, PromptTypeOK
    <3>3. DeviceTypeOK'
      BY <1>1, <2>12 DEF LoginReleased, DeviceTypeOK
    <3> QED
      BY <3>1, <3>2, <3>3
  <2>13. CASE ReleaseClosed
    <3>1. LoginTypeOK'
      BY <1>1, <2>13 DEF ReleaseClosed, CloseDevice, LoginTypeOK
    <3>2. PromptTypeOK'
      BY <1>1, <2>13 DEF ReleaseClosed, CloseDevice, PromptTypeOK
    <3>3. DeviceTypeOK'
      BY <1>1, <2>13 DEF ReleaseClosed, CloseDevice, DeviceTypeOK
    <3> QED
      BY <3>1, <3>2, <3>3
  <2>14. CASE ReleaseLogin
    <3>1. LoginTypeOK'
      BY <1>1, <2>14 DEF ReleaseLogin, CloseDevice, LoginTypeOK
    <3>2. PromptTypeOK'
      BY <1>1, <2>14 DEF ReleaseLogin, CloseDevice, PromptTypeOK
    <3>3. DeviceTypeOK'
      BY <1>1, <2>14 DEF ReleaseLogin, CloseDevice, DeviceTypeOK
    <3> QED
      BY <3>1, <3>2, <3>3
  <2>15. ASSUME NEW o \in Op, OpenThread(o) PROVE LoginTypeOK' /\ PromptTypeOK' /\ DeviceTypeOK'
    <3>1. LoginTypeOK'
      BY <1>1, <2>15 DEF OpenThread, OpenFails, Authorised, Unauthorised, LoginTypeOK, Outcome, Failure
    <3>2. PromptTypeOK'
      BY <1>1, <2>15 DEF OpenThread, OpenFails, Authorised, Unauthorised, PromptTypeOK
    <3>3. DeviceTypeOK'
      BY <1>1, <2>15 DEF OpenThread, OpenFails, Authorised, Unauthorised, DeviceTypeOK
    <3> QED
      BY <3>1, <3>2, <3>3
  <2>16. ASSUME NEW o \in Op, SignThread(o) PROVE LoginTypeOK' /\ PromptTypeOK' /\ DeviceTypeOK'
    <3>1. LoginTypeOK'
      BY <1>1, <2>16 DEF SignThread, Authorised, Unauthorised, LoginTypeOK, Outcome, Failure
    <3>2. PromptTypeOK'
      BY <1>1, <2>16 DEF SignThread, Authorised, Unauthorised, PromptTypeOK
    <3>3. DeviceTypeOK'
      BY <1>1, <2>16 DEF SignThread, Authorised, Unauthorised, DeviceTypeOK
    <3> QED
      BY <3>1, <3>2, <3>3
  <2>17. ASSUME NEW o \in Op, Resume(o) PROVE LoginTypeOK' /\ PromptTypeOK' /\ DeviceTypeOK'
    <3>1. LoginTypeOK'
      <4>1. {"cancelled", "failed", "removed"} \subseteq Outcome
        BY DEF Outcome, Failure
      <4>2. stage' \in [Op -> {"new", "opening", "opened", "waiting", "running", "authenticating",
                          "asked", "resuming", "signing", "signed", "done"}]
        BY <1>1, <2>17 DEF Resume, LoginTypeOK
      <4>3. result' \in [Op -> Outcome \cup {"none", "login", "ready", "retry"}]
        BY <1>1, <4>1, <2>17 DEF Resume, LoginTypeOK, Unauthorised, Masked
      <4> QED
        BY <1>1, <4>2, <4>3, <2>17 DEF Resume, LoginTypeOK
    <3>2. PromptTypeOK'
      BY <1>1, <2>17 DEF Resume, PromptTypeOK
    <3>3. DeviceTypeOK'
      BY <1>1, <2>17 DEF Resume, CloseDevice, DeviceTypeOK
    <3> QED
      BY <3>1, <3>2, <3>3
  <2>18. CASE LoginThread
    <3>1. LoginTypeOK'
      BY <1>1, <2>18 DEF LoginThread, OpenFails, LoginTypeOK
    <3>2. PromptTypeOK'
      BY <1>1, <2>18 DEF LoginThread, OpenFails, PromptTypeOK, Outcome, Failure
    <3>3. DeviceTypeOK'
      BY <1>1, <2>18 DEF LoginThread, OpenFails, DeviceTypeOK
    <3> QED
      BY <3>1, <3>2, <3>3
  <2>19. CASE LoginReturns
    <3>1. LoginTypeOK'
      BY <1>1, <2>19 DEF LoginReturns, LoginTypeOK
    <3>2. PromptTypeOK'
      BY <1>1, <2>19 DEF LoginReturns, PromptTypeOK, Outcome, Failure
    <3>3. DeviceTypeOK'
      BY <1>1, <2>19 DEF LoginReturns, DeviceTypeOK
    <3> QED
      BY <3>1, <3>2, <3>3
  <2>20. ASSUME NEW o \in Op, TokenSigns(o) PROVE LoginTypeOK' /\ PromptTypeOK' /\ DeviceTypeOK'
    <3>1. LoginTypeOK'
      BY <1>1, <2>20 DEF TokenSigns, LoginTypeOK, Outcome, Failure
    <3>2. PromptTypeOK'
      BY <1>1, <2>20 DEF TokenSigns, PromptTypeOK
    <3>3. DeviceTypeOK'
      BY <1>1, <2>20 DEF TokenSigns, DeviceTypeOK
    <3> QED
      BY <3>1, <3>2, <3>3
  <2>21. ASSUME NEW o \in Op, OpenedFails(o) PROVE LoginTypeOK' /\ PromptTypeOK' /\ DeviceTypeOK'
    <3>1. LoginTypeOK'
      BY <1>1, <2>21 DEF OpenedFails, Answer, EndSession, EndSessionIdle, LoginTypeOK, Outcome, Failure
    <3>2. PromptTypeOK'
      BY <1>1, <2>21 DEF OpenedFails, Answer, EndSession, EndSessionIdle, PromptTypeOK
    <3>3. DeviceTypeOK'
      BY <1>1, <2>21 DEF OpenedFails, Answer, EndSession, EndSessionIdle, DeviceTypeOK
    <3> QED
      BY <3>1, <3>2, <3>3
  <2>22. ASSUME NEW o \in Op, JoinLogin(o) PROVE LoginTypeOK' /\ PromptTypeOK' /\ DeviceTypeOK'
    <3>1. LoginTypeOK'
      BY <1>1, <2>22 DEF JoinLogin, Opened, IsCancelling, LoginTypeOK
    <3>2. PromptTypeOK'
      BY <1>1, <2>22 DEF JoinLogin, Opened, IsCancelling, PromptTypeOK
    <3>3. DeviceTypeOK'
      BY <1>1, <2>22 DEF JoinLogin, Opened, IsCancelling, DeviceTypeOK
    <3> QED
      BY <3>1, <3>2, <3>3
  <2>23. ASSUME NEW o \in Op, OpenAgain(o) PROVE LoginTypeOK' /\ PromptTypeOK' /\ DeviceTypeOK'
    <3>1. LoginTypeOK'
      BY <1>1, <2>23 DEF OpenAgain, Opened, OpenOperation, LoginTypeOK
    <3>2. PromptTypeOK'
      BY <1>1, <2>23 DEF OpenAgain, Opened, OpenOperation, PromptTypeOK
    <3>3. DeviceTypeOK'
      BY <1>1, <2>23 DEF OpenAgain, Opened, OpenOperation, DeviceTypeOK
    <3> QED
      BY <3>1, <3>2, <3>3
  <2>24. ASSUME NEW o \in Op, StartLogin(o) PROVE LoginTypeOK' /\ PromptTypeOK' /\ DeviceTypeOK'
    <3>1. LoginTypeOK'
      <4>1. \E s \in {"done", "waiting"} : stage' = [stage EXCEPT ![o] = s]
        BY <2>24 DEF StartLogin, Answer
      <4>2. result' \in {result, [result EXCEPT ![o] = "none"]}
        BY <2>24 DEF StartLogin, Answer
      <4>3. answer' \in {answer, [answer EXCEPT ![o] = "failed"]} /\ "failed" \in Outcome
        BY <2>24 DEF StartLogin, Answer, Outcome, Failure
      <4>4. stale' \in SUBSET Op /\ early' \in SUBSET Op /\ busy' \in BOOLEAN
        BY <1>1, <2>24 DEF StartLogin, LoginTypeOK
      <4>5. /\ UNCHANGED waiters \/ (waiters = {} /\ waiters' = {o})
            /\ UNCHANGED <<retryLogin, idle>> /\ outcome' \in {outcome, "none"}
        BY <2>24 DEF StartLogin, WaitersAreServed
      <4> QED
        BY <1>1, <4>1, <4>2, <4>3, <4>4, <4>5, <2>24 DEF StartLogin, LoginTypeOK
    <3>2. PromptTypeOK'
      BY <1>1, <2>24 DEF StartLogin, Opened, Answer, PromptTypeOK
    <3>3. DeviceTypeOK'
      BY <1>1, <2>24 DEF StartLogin, Opened, Answer, DeviceTypeOK
    <3> QED
      BY <3>1, <3>2, <3>3
  <2>25. ASSUME NEW o \in Op, RunOperation(o) PROVE LoginTypeOK' /\ PromptTypeOK' /\ DeviceTypeOK'
    <3>1. LoginTypeOK'
      BY <1>1, <2>25 DEF RunOperation, Opened, LoginTypeOK
    <3>2. PromptTypeOK'
      BY <1>1, <2>25 DEF RunOperation, Opened, PromptTypeOK
    <3>3. DeviceTypeOK'
      BY <1>1, <2>25 DEF RunOperation, Opened, DeviceTypeOK
    <3> QED
      BY <3>1, <3>2, <3>3
  <2>26. ASSUME NEW o \in Op, WaiterCancelled(o) PROVE LoginTypeOK' /\ PromptTypeOK' /\
          DeviceTypeOK'
    <3>1. LoginTypeOK'
      BY <1>1, <2>26 DEF WaiterCancelled, Answer, LoginTypeOK, Outcome, Failure
    <3>2. PromptTypeOK'
      BY <1>1, <2>26 DEF WaiterCancelled, Answer, PromptTypeOK
    <3>3. DeviceTypeOK'
      BY <1>1, <2>26 DEF WaiterCancelled, Answer, DeviceTypeOK
    <3> QED
      BY <3>1, <3>2, <3>3
  <2>27. ASSUME NEW o \in Op, SignAgain(o) PROVE LoginTypeOK' /\ PromptTypeOK' /\ DeviceTypeOK'
    <3>1. LoginTypeOK'
      BY <1>1, <2>27 DEF SignAgain, OpenOperation, LoginTypeOK
    <3>2. PromptTypeOK'
      BY <1>1, <2>27 DEF SignAgain, OpenOperation, PromptTypeOK
    <3>3. DeviceTypeOK'
      BY <1>1, <2>27 DEF SignAgain, OpenOperation, DeviceTypeOK
    <3> QED
      BY <3>1, <3>2, <3>3
  <2>28. ASSUME NEW o \in Op, Signed(o) PROVE LoginTypeOK' /\ PromptTypeOK' /\ DeviceTypeOK'
    <3>1. LoginTypeOK'
      <4> DEFINE end == IF cancelled[o] THEN "cancelled"
                        ELSE IF result[o] = "retry" THEN "failed" ELSE result[o]
      <4>1. /\ Answer(o, end) /\ EndSession(end = "removed", {o})
            /\ EndSessionIdle(end = "removed", {o})
            /\ UNCHANGED <<stale, busy, waiters, retryLogin, loginCancelled, performed,
                           outcome, early>>
        BY <2>28 DEF Signed
      <4>2. end \in Outcome \cup {"none"}
        BY <1>1, <2>28 DEF Signed, ResultInv, Outcome, Failure
      <4> HIDE DEF end
      <4>3. /\ stage' = [stage EXCEPT ![o] = "done"] /\ answer' = [answer EXCEPT ![o] = end]
            /\ result' = [result EXCEPT ![o] = "none"] /\ idle' \in SUBSET (idle \cup waiters)
        BY <4>1 DEF Answer, EndSessionIdle
      <4>4. /\ authority' \in {"live", "expired", "closed"} /\ cancelled' \in [Op -> BOOLEAN]
            /\ closeRelease' \in BOOLEAN
        BY <1>1, <4>1 DEF EndSession, LoginTypeOK
      <4> QED
        BY <1>1, <4>1, <4>2, <4>3, <4>4 DEF LoginTypeOK
    <3>2. PromptTypeOK'
      BY <1>1, <2>28 DEF Signed, Answer, EndSession, EndSessionIdle, PromptTypeOK
    <3>3. DeviceTypeOK'
      BY <1>1, <2>28 DEF Signed, Answer, EndSession, EndSessionIdle, DeviceTypeOK
    <3> QED
      BY <3>1, <3>2, <3>3
  <2>29. CASE UNCHANGED vars
    BY <1>1, <2>29 DEF vars, LoginTypeOK, PromptTypeOK, DeviceTypeOK
  <2> HIDE DEF LoginTypeOK, PromptTypeOK, DeviceTypeOK, vars
  <2> QED
    BY <2>1, <2>2, <2>3, <2>4, <2>5, <2>6, <2>7, <2>8, <2>9, <2>10, <2>11, <2>12, <2>13, <2>14,
       <2>15, <2>16, <2>17, <2>18, <2>19, <2>20, <2>21, <2>22, <2>23, <2>24, <2>25, <2>26, <2>27,
       <2>28, <2>29, NextActions
<1> QED
  BY <1>2 DEF TypeOK, LoginTypeOK, PromptTypeOK, DeviceTypeOK

\* No step forgets a waiter, or lets a cancelled login take one that joined late.
LEMMA ServedStep ==
    ASSUME TypeOK, ServedInv, ResultInv, [Next]_vars
    PROVE  ServedInv'
<1> USE SharedLoginAssumption DEF ServedInv, WaitersAreServed, CancelledLoginTakesNobody,
    operationVars, loginVars, promptVars, deviceVars, releaseVars, tokenVars
<1>1. TypeOK
  OBVIOUS
<1>2. ServedInv'
  <2>1. CASE Expire
    BY <1>1, <2>1 DEF Expire, TypeOK
  <2>2. CASE CloseSession
    BY <1>1, <2>2 DEF CloseSession, EndSession, EndSessionIdle, TypeOK
  <2>3. CASE TokenReset
    BY <1>1, <2>3 DEF TokenReset, TypeOK
  <2>4. CASE OthersLogin
    BY <1>1, <2>4 DEF OthersLogin, TypeOK
  <2>5. CASE TokenRemoved
    BY <1>1, <2>5 DEF TokenRemoved, TypeOK
  <2>6. CASE UserSubmits
    BY <1>1, <2>6 DEF UserSubmits, TypeOK
  <2>7. CASE PromptStep
    <3>1. (PromptEnds /\ prompt # "none") \/ PromptGoesOn
      BY <2>7, PromptSteps
    <3>3. CASE PromptGoesOn
      <4>1. /\ UNCHANGED <<stage, cancelled, busy, waiters, retryLogin, loginCancelled, loginRelease>>
            /\ prompt # "none" /\ prompt' # "none"
        BY <3>3 DEF PromptGoesOn
      <4> QED
        BY <4>1
    <3>4. CASE LoginEnds /\ prompt # "none" /\ PromptEnds /\ loginRelease' = loginRelease
      <4>1. \A o \in Op : stage'[o] # "waiting"
        BY <3>4 DEF LoginEnds
      <4>2. ~busy' /\ ~loginCancelled' /\ waiters' = {} /\ prompt' = "none" /\ promptIdle' = FALSE
        BY <3>4 DEF LoginEnds, PromptEnds
      <4>3. loginRelease' = "none"
        BY <3>4
      <4> QED
        BY <4>1, <4>2, <4>3
    <3>5. CASE /\ loginCancelled' = TRUE /\ loginRelease' = "queued" /\ PromptEnds /\ prompt # "none"
              /\ UNCHANGED <<stage, cancelled, busy, waiters, retryLogin>>
      <4>1. prompt' = "none" /\ promptIdle' = FALSE
        BY <3>5 DEF PromptEnds
      <4> QED
        BY <3>5, <4>1
    <3> QED
      BY <3>1, <3>3, <3>4, <3>5 DEF PromptEnds
  <2>8. ASSUME NEW o \in Op, Perform(o) PROVE ServedInv'
    BY <1>1, <2>8 DEF Perform, OpenOperation, Answer, TypeOK
  <2>9. ASSUME NEW o \in Op, Cancel(o) PROVE ServedInv'
    BY <1>1, <2>9 DEF Cancel, Unfinished, TypeOK
  <2>10. ASSUME NEW o \in Op, AskContext(o) PROVE ServedInv'
    BY <1>1, <2>10 DEF AskContext, TypeOK
  <2>11. ASSUME NEW o \in Op, NEW end \in Outcome, ContextAnswered(o, end) PROVE ServedInv'
    BY <1>1, <2>11 DEF ContextAnswered, TypeOK
  <2>12. CASE LoginReleased
    <3>1. LoginEnds /\ loginRelease' = "none" /\ UNCHANGED promptVars /\ prompt = "none"
      BY <2>12, FinishLoginEffect DEF LoginReleased
    <3> QED
      BY <3>1 DEF LoginEnds
  <2>13. CASE ReleaseClosed
    BY <1>1, <2>13 DEF ReleaseClosed, CloseDevice, TypeOK
  <2>14. CASE ReleaseLogin
    BY <1>1, <2>14 DEF ReleaseLogin, CloseDevice, TypeOK
  <2>15. ASSUME NEW o \in Op, OpenThread(o) PROVE ServedInv'
    BY <1>1, <2>15 DEF OpenThread, OpenFails, Authorised, Unauthorised, TypeOK
  <2>16. ASSUME NEW o \in Op, SignThread(o) PROVE ServedInv'
    BY <1>1, <2>16 DEF SignThread, Authorised, Unauthorised, TypeOK
  <2>17. ASSUME NEW o \in Op, Resume(o) PROVE ServedInv'
    <3>1. result[o] # "none"
      BY <2>17 DEF Resume, ResultInv, Outcome, Failure
    <3> QED
      BY <1>1, <2>17, <3>1, ResumeEffect DEF TypeOK
  <2>18. CASE LoginThread
    BY <1>1, <2>18 DEF LoginThread, OpenFails, TypeOK
  <2>19. CASE LoginReturns
    BY <1>1, <2>19 DEF LoginReturns, TypeOK
  <2>20. ASSUME NEW o \in Op, TokenSigns(o) PROVE ServedInv'
    BY <1>1, <2>20 DEF TokenSigns, TypeOK
  <2>21. ASSUME NEW o \in Op, OpenedFails(o) PROVE ServedInv'
    BY <1>1, <2>21 DEF OpenedFails, Answer, EndSession, EndSessionIdle, TypeOK
  <2>22. ASSUME NEW o \in Op, JoinLogin(o) PROVE ServedInv'
    BY <1>1, <2>22 DEF JoinLogin, Opened, IsCancelling, TypeOK
  <2>23. ASSUME NEW o \in Op, OpenAgain(o) PROVE ServedInv'
    BY <1>1, <2>23 DEF OpenAgain, Opened, OpenOperation, TypeOK
  <2>24. ASSUME NEW o \in Op, StartLogin(o) PROVE ServedInv'
    BY <1>1, <2>24 DEF StartLogin, Opened, Answer, TypeOK
  <2>25. ASSUME NEW o \in Op, RunOperation(o) PROVE ServedInv'
    BY <1>1, <2>25 DEF RunOperation, Opened, TypeOK
  <2>26. ASSUME NEW o \in Op, WaiterCancelled(o) PROVE ServedInv'
    BY <1>1, <2>26 DEF WaiterCancelled, Answer, TypeOK
  <2>27. ASSUME NEW o \in Op, SignAgain(o) PROVE ServedInv'
    BY <1>1, <2>27 DEF SignAgain, OpenOperation, TypeOK
  <2>28. ASSUME NEW o \in Op, Signed(o) PROVE ServedInv'
    BY <1>1, <2>28 DEF Signed, Answer, EndSession, EndSessionIdle, TypeOK
  <2>29. CASE UNCHANGED vars
    BY <1>1, <2>29 DEF vars
  <2> QED
    BY <2>1, <2>2, <2>3, <2>4, <2>5, <2>6, <2>7, <2>8, <2>9, <2>10, <2>11, <2>12, <2>13, <2>14,
       <2>15, <2>16, <2>17, <2>18, <2>19, <2>20, <2>21, <2>22, <2>23, <2>24, <2>25, <2>26, <2>27,
       <2>28, <2>29, NextActions
<1> QED
  BY <1>2

\* Workers report an outcome, or that the operation must open the device again.
LEMMA ResultStep ==
    ASSUME TypeOK, ServedInv, ResultInv, [Next]_vars
    PROVE  ResultInv'
<1> USE SharedLoginAssumption DEF ResultInv, Outcome, Failure, operationVars, loginVars,
    promptVars, deviceVars, releaseVars, tokenVars
<1>1. /\ stage \in [Op -> {"new", "opening", "opened", "waiting", "running", "authenticating",
                         "asked", "resuming", "signing", "signed", "done"}]
      /\ result \in [Op -> Outcome \cup {"none", "login", "ready", "retry"}]
      /\ waiters = {o \in Op : stage[o] = "waiting"} /\ idle \subseteq waiters
  BY DEF TypeOK, ServedInv, WaitersAreServed
<1>9. ResultInv'
  <2>1. CASE Expire
    BY <1>1, <2>1 DEF Expire
  <2>2. CASE CloseSession
    BY <1>1, <2>2 DEF CloseSession, EndSession, EndSessionIdle
  <2>3. CASE TokenReset
    BY <1>1, <2>3 DEF TokenReset
  <2>4. CASE OthersLogin
    BY <1>1, <2>4 DEF OthersLogin
  <2>5. CASE TokenRemoved
    BY <1>1, <2>5 DEF TokenRemoved
  <2>6. CASE UserSubmits
    BY <1>1, <2>6 DEF UserSubmits
  <2>7. CASE PromptStep
    <3>1. /\ UNCHANGED <<retried, deviceVars, tokenVars>>
          /\ \/ PromptEnds /\ prompt # "none" /\ (prompt = "working" => attempt # "none")
             \/ PromptGoesOn
      BY <2>7, PromptSteps DEF ServedInv
    <3> QED
      BY <1>1, <3>1 DEF PromptEnds, PromptGoesOn, LoginEnds, Closes
  <2>8. ASSUME NEW o \in Op, Perform(o) PROVE ResultInv'
    BY <1>1, <2>8 DEF Perform, OpenOperation, Answer
  <2>9. ASSUME NEW o \in Op, Cancel(o) PROVE ResultInv'
    BY <1>1, <2>9 DEF Cancel, Unfinished
  <2>10. ASSUME NEW o \in Op, AskContext(o) PROVE ResultInv'
    BY <1>1, <2>10 DEF AskContext
  <2>11. ASSUME NEW o \in Op, NEW end \in Outcome, ContextAnswered(o, end) PROVE ResultInv'
    BY <1>1, <2>11 DEF ContextAnswered
  <2>12. CASE LoginReleased
    <3>1. /\ LoginEnds /\ loginRelease' = "none" /\ loginRelease = "done"
          /\ UNCHANGED <<promptVars, deviceVars, tokenVars>>
      BY <2>12, FinishLoginEffect DEF LoginReleased, ServedInv
    <3> QED
      BY <1>1, <3>1 DEF LoginEnds, Closes
  <2>13. CASE ReleaseClosed
    BY <1>1, <2>13 DEF ReleaseClosed, CloseDevice
  <2>14. CASE ReleaseLogin
    BY <1>1, <2>14 DEF ReleaseLogin, CloseDevice
  <2>15. ASSUME NEW o \in Op, OpenThread(o) PROVE ResultInv'
    BY <1>1, <2>15 DEF OpenThread, OpenFails, Authorised, Unauthorised
  <2>16. ASSUME NEW o \in Op, SignThread(o) PROVE ResultInv'
    BY <1>1, <2>16 DEF SignThread, Authorised, Unauthorised
  <2>17. ASSUME NEW o \in Op, Resume(o) PROVE ResultInv'
    <3>1. result[o] # "none"
      BY <2>17 DEF Resume
    <3>2. CASE stage' = [stage EXCEPT ![o] = "signing"] /\ result' = [result EXCEPT ![o] = "none"]
      BY <1>1, <3>2
    <3>3. ASSUME NEW told \in {result[o], "cancelled", "failed", "removed"},
                 stage' = [stage EXCEPT ![o] = "signed"], result' = [result EXCEPT ![o] = told]
          PROVE  ResultInv'
      <4>1. told \in Outcome
        BY <2>17 DEF Resume
      <4> QED
        BY <1>1, <3>3, <4>1
    <3> QED
      BY <2>17, <3>1, <3>2, <3>3, ResumeEffect
  <2>18. CASE LoginThread
    BY <1>1, <2>18 DEF LoginThread, OpenFails
  <2>19. CASE LoginReturns
    BY <1>1, <2>19 DEF LoginReturns
  <2>20. ASSUME NEW o \in Op, TokenSigns(o) PROVE ResultInv'
    BY <1>1, <2>20 DEF TokenSigns
  <2>21. ASSUME NEW o \in Op, OpenedFails(o) PROVE ResultInv'
    BY <1>1, <2>21 DEF OpenedFails, Answer, EndSession, EndSessionIdle
  <2>22. ASSUME NEW o \in Op, JoinLogin(o) PROVE ResultInv'
    BY <1>1, <2>22 DEF JoinLogin, Opened, IsCancelling
  <2>23. ASSUME NEW o \in Op, OpenAgain(o) PROVE ResultInv'
    BY <1>1, <2>23 DEF OpenAgain, Opened, OpenOperation
  <2>24. ASSUME NEW o \in Op, StartLogin(o) PROVE ResultInv'
    BY <1>1, <2>24 DEF StartLogin, Opened, Answer
  <2>25. ASSUME NEW o \in Op, RunOperation(o) PROVE ResultInv'
    BY <1>1, <2>25 DEF RunOperation, Opened
  <2>26. ASSUME NEW o \in Op, WaiterCancelled(o) PROVE ResultInv'
    BY <1>1, <2>26 DEF WaiterCancelled, Answer
  <2>27. ASSUME NEW o \in Op, SignAgain(o) PROVE ResultInv'
    BY <1>1, <2>27 DEF SignAgain, OpenOperation
  <2>28. ASSUME NEW o \in Op, Signed(o) PROVE ResultInv'
    BY <1>1, <2>28 DEF Signed, Answer, EndSession, EndSessionIdle
  <2>29. CASE UNCHANGED vars
    BY <1>1, <2>29 DEF vars
  <2> QED
    BY <2>1, <2>2, <2>3, <2>4, <2>5, <2>6, <2>7, <2>8, <2>9, <2>10, <2>11, <2>12, <2>13, <2>14,
       <2>15, <2>16, <2>17, <2>18, <2>19, <2>20, <2>21, <2>22, <2>23, <2>24, <2>25, <2>26, <2>27,
       <2>28, <2>29, NextActions
<1> QED
  BY <1>9

\* Steps respect the locks.
LEMMA LockStep ==
    ASSUME TypeOK, ServedInv, ResultInv, LockInv, DeviceInv, [Next]_vars
    PROVE  LockInv'
<1> USE SharedLoginAssumption DEF LockInv, SignsOnItsOwnSession, HoldsOperation, operationVars,
    loginVars, promptVars, deviceVars, releaseVars, tokenVars
<1>1. /\ stage \in [Op -> {"new", "opening", "opened", "waiting", "running", "authenticating",
                         "asked", "resuming", "signing", "signed", "done"}]
      /\ deviceLock \in Op \cup {"free", "login"} /\ operationLock \in Op \cup {NoOp}
      /\ initialised \in BOOLEAN /\ device \in {"closed", "open"}
      /\ waiters = {o \in Op : stage[o] = "waiting"} /\ idle \subseteq waiters
      /\ result \in [Op -> Outcome \cup {"none", "login", "ready", "retry"}]
  BY DEF TypeOK, ServedInv, WaitersAreServed
<1>9. LockInv'
  <2>1. CASE Expire
    BY <1>1, <2>1 DEF Expire
  <2>2. CASE CloseSession
    BY <1>1, <2>2 DEF CloseSession, EndSession, EndSessionIdle
  <2>3. CASE TokenReset
    BY <1>1, <2>3 DEF TokenReset
  <2>4. CASE OthersLogin
    BY <1>1, <2>4 DEF OthersLogin
  <2>5. CASE TokenRemoved
    BY <1>1, <2>5 DEF TokenRemoved
  <2>6. CASE UserSubmits
    BY <1>1, <2>6 DEF UserSubmits
  <2>7. CASE PromptStep
    <3>1. /\ UNCHANGED <<retried, deviceVars, tokenVars>>
          /\ \/ PromptEnds /\ prompt # "none" /\ (prompt = "working" => attempt # "none")
             \/ PromptGoesOn
      BY <2>7, PromptSteps DEF ServedInv
    <3> QED
      BY <1>1, <3>1 DEF PromptEnds, PromptGoesOn, LoginEnds, Closes
  <2>8. ASSUME NEW o \in Op, Perform(o) PROVE LockInv'
    BY <1>1, <2>8 DEF Perform, OpenOperation, Answer
  <2>9. ASSUME NEW o \in Op, Cancel(o) PROVE LockInv'
    BY <1>1, <2>9 DEF Cancel, Unfinished
  <2>10. ASSUME NEW o \in Op, AskContext(o) PROVE LockInv'
    BY <1>1, <2>10 DEF AskContext
  <2>11. ASSUME NEW o \in Op, NEW end \in Outcome, ContextAnswered(o, end) PROVE LockInv'
    BY <1>1, <2>11 DEF ContextAnswered
  <2>12. CASE LoginReleased
    <3>1. /\ LoginEnds /\ loginRelease' = "none" /\ loginRelease = "done"
          /\ UNCHANGED <<promptVars, deviceVars, tokenVars>>
      BY <2>12, FinishLoginEffect DEF LoginReleased, ServedInv
    <3> QED
      BY <1>1, <3>1 DEF LoginEnds, Closes
  <2>13. CASE ReleaseClosed
    BY <1>1, <2>13 DEF ReleaseClosed, CloseDevice
  <2>14. CASE ReleaseLogin
    BY <1>1, <2>14 DEF ReleaseLogin, CloseDevice
  <2>15. ASSUME NEW o \in Op, OpenThread(o) PROVE LockInv'
    BY <1>1, <2>15 DEF OpenThread, OpenFails, Authorised, Unauthorised
  <2>16. ASSUME NEW o \in Op, SignThread(o) PROVE LockInv'
    BY <1>1, <2>16 DEF SignThread, Authorised, Unauthorised
  <2>17. ASSUME NEW o \in Op, Resume(o) PROVE LockInv'
    <3>1. result[o] # "none" /\ (initialised => device = "open")
      BY <2>17 DEF Resume, ResultInv, DeviceInv, Outcome, Failure
    <3>2. stage[o] = "resuming" /\ operationLock = o /\ deviceLock = "free"
      BY <2>17, <3>1, ResumeEffect
    <3>3. \A q \in Op : stage[q] # "signing" /\ (q # o => stage[q] \notin HoldsOperation)
      BY <1>1, <3>2
    <3>4. CASE /\ stage' = [stage EXCEPT ![o] = "signing"] /\ deviceLock' = o /\ initialised
               /\ UNCHANGED <<operationLock, device, initialised>>
               /\ result' = [result EXCEPT ![o] = "none"]
      <4>1. \A q \in Op : (deviceLock' = q <=> q = o) /\ (stage'[q] = "signing" <=> q = o)
        BY <1>1, <3>3, <3>4
      <4>2. \A q \in Op : stage'[q] \in HoldsOperation => q = o
        BY <1>1, <3>3, <3>4
      <4>3. \A q \in Op : stage'[q] # "resuming"
        BY <1>1, <3>3, <3>4
      <4> QED
        BY <3>1, <3>2, <3>4, <4>1, <4>2, <4>3
    <3>5. CASE /\ stage' = [stage EXCEPT ![o] = "signed"] /\ operationLock' = NoOp
               /\ deviceLock' = "free"
      <4>1. \A q \in Op : stage'[q] \notin HoldsOperation /\ deviceLock' # q
        BY <1>1, <3>3, <3>5
      <4> QED
        BY <3>5, <4>1
    <3> QED
      BY <2>17, <3>1, <3>2, <3>4, <3>5, ResumeEffect
  <2>18. CASE LoginThread
    BY <1>1, <2>18 DEF LoginThread, OpenFails
  <2>19. CASE LoginReturns
    BY <1>1, <2>19 DEF LoginReturns
  <2>20. ASSUME NEW o \in Op, TokenSigns(o) PROVE LockInv'
    BY <1>1, <2>20 DEF TokenSigns
  <2>21. ASSUME NEW o \in Op, OpenedFails(o) PROVE LockInv'
    BY <1>1, <2>21 DEF OpenedFails, Answer, EndSession, EndSessionIdle
  <2>22. ASSUME NEW o \in Op, JoinLogin(o) PROVE LockInv'
    BY <1>1, <2>22 DEF JoinLogin, Opened, IsCancelling
  <2>23. ASSUME NEW o \in Op, OpenAgain(o) PROVE LockInv'
    BY <1>1, <2>23 DEF OpenAgain, Opened, OpenOperation
  <2>24. ASSUME NEW o \in Op, StartLogin(o) PROVE LockInv'
    <3>1. \E s \in {"done", "waiting"} : stage' = [stage EXCEPT ![o] = s]
      BY <2>24 DEF StartLogin, Answer
    <3>2. \A q \in Op : q # o => result'[q] = result[q]
      BY <1>1, <2>24 DEF StartLogin, Answer
    <3>3. UNCHANGED deviceVars /\ deviceLock # "login" /\ stage[o] = "opened"
      BY <2>24 DEF StartLogin, Opened, ServedInv, WaitersAreServed
    <3> QED
      BY <1>1, <3>1, <3>2, <3>3
  <2>25. ASSUME NEW o \in Op, RunOperation(o) PROVE LockInv'
    BY <1>1, <2>25 DEF RunOperation, Opened
  <2>26. ASSUME NEW o \in Op, WaiterCancelled(o) PROVE LockInv'
    BY <1>1, <2>26 DEF WaiterCancelled, Answer
  <2>27. ASSUME NEW o \in Op, SignAgain(o) PROVE LockInv'
    BY <1>1, <2>27 DEF SignAgain, OpenOperation
  <2>28. ASSUME NEW o \in Op, Signed(o) PROVE LockInv'
    BY <1>1, <2>28 DEF Signed, Answer, EndSession, EndSessionIdle
  <2>29. CASE UNCHANGED vars
    BY <1>1, <2>29 DEF vars
  <2> QED
    BY <2>1, <2>2, <2>3, <2>4, <2>5, <2>6, <2>7, <2>8, <2>9, <2>10, <2>11, <2>12, <2>13, <2>14,
       <2>15, <2>16, <2>17, <2>18, <2>19, <2>20, <2>21, <2>22, <2>23, <2>24, <2>25, <2>26, <2>27,
       <2>28, <2>29, NextActions
<1> QED
  BY <1>9

\* A device session opened after the close is released, or is not opened.
LEMMA DeviceStep ==
    ASSUME TypeOK, ServedInv, ResultInv, LockInv, DeviceInv, [Next]_vars
    PROVE  DeviceInv'
<1> USE SharedLoginAssumption DEF DeviceInv, operationVars, loginVars, promptVars, deviceVars,
    releaseVars, tokenVars
<1>1. /\ authority \in {"live", "expired", "closed"} /\ closeRelease \in BOOLEAN
      /\ initialised \in BOOLEAN /\ device \in {"closed", "open"} /\ tokenIn \in BOOLEAN
      /\ others \in BOOLEAN /\ loginRelease \in {"none", "queued", "done"}
      /\ prompt = "none" \/ loginRelease = "none"
      /\ deviceLock = "login" => prompt = "working" /\ attempt = "none" /\ device = "open"
      /\ \A o \in Op : stage[o] = "signing" => deviceLock = o /\ device = "open"
      /\ "free" \notin Op
  BY DEF TypeOK, ServedInv, LockInv, SignsOnItsOwnSession
<1>9. DeviceInv'
  <2>1. CASE Expire
    BY <1>1, <2>1 DEF Expire
  <2>2. CASE CloseSession
    BY <1>1, <2>2 DEF CloseSession, EndSession, EndSessionIdle
  <2>3. CASE TokenReset
    BY <1>1, <2>3 DEF TokenReset
  <2>4. CASE OthersLogin
    BY <1>1, <2>4 DEF OthersLogin
  <2>5. CASE TokenRemoved
    BY <1>1, <2>5 DEF TokenRemoved
  <2>6. CASE UserSubmits
    BY <1>1, <2>6 DEF UserSubmits
  <2>7. CASE PromptStep
    <3>1. /\ UNCHANGED <<retried, deviceVars, tokenVars>>
          /\ \/ PromptEnds /\ prompt # "none" /\ (prompt = "working" => attempt # "none")
             \/ PromptGoesOn
      BY <2>7, PromptSteps DEF ServedInv
    <3> QED
      BY <1>1, <3>1 DEF PromptEnds, PromptGoesOn, LoginEnds, Closes
  <2>8. ASSUME NEW o \in Op, Perform(o) PROVE DeviceInv'
    BY <1>1, <2>8 DEF Perform, OpenOperation, Answer
  <2>9. ASSUME NEW o \in Op, Cancel(o) PROVE DeviceInv'
    BY <1>1, <2>9 DEF Cancel, Unfinished
  <2>10. ASSUME NEW o \in Op, AskContext(o) PROVE DeviceInv'
    BY <1>1, <2>10 DEF AskContext
  <2>11. ASSUME NEW o \in Op, NEW end \in Outcome, ContextAnswered(o, end) PROVE DeviceInv'
    BY <1>1, <2>11 DEF ContextAnswered
  <2>12. CASE LoginReleased
    <3>1. LoginEnds /\ loginRelease' = "none" /\ UNCHANGED <<deviceVars, tokenVars>>
      BY <2>12, FinishLoginEffect DEF LoginReleased, ServedInv
    <3>2. Closes
      BY <3>1 DEF LoginEnds
    <3> QED
      BY <1>1, <3>1, <3>2 DEF Closes
  <2>13. CASE ReleaseClosed
    BY <1>1, <2>13 DEF ReleaseClosed, CloseDevice
  <2>14. CASE ReleaseLogin
    BY <1>1, <2>14 DEF ReleaseLogin, CloseDevice
  <2>15. ASSUME NEW o \in Op, OpenThread(o) PROVE DeviceInv'
    BY <1>1, <2>15 DEF OpenThread, OpenFails, Authorised, Unauthorised
  <2>16. ASSUME NEW o \in Op, SignThread(o) PROVE DeviceInv'
    BY <1>1, <2>16 DEF SignThread, Authorised, Unauthorised
  <2>17. ASSUME NEW o \in Op, Resume(o) PROVE DeviceInv'
    <3>1. result[o] # "none" /\ (initialised => device = "open")
      BY <2>17 DEF Resume, ResultInv, DeviceInv, Outcome, Failure
    <3> QED
      BY <1>1, <2>17, <3>1, ResumeEffect DEF CloseDevice
  <2>18. CASE LoginThread
    BY <1>1, <2>18 DEF LoginThread, OpenFails
  <2>19. CASE LoginReturns
    BY <1>1, <2>19 DEF LoginReturns
  <2>20. ASSUME NEW o \in Op, TokenSigns(o) PROVE DeviceInv'
    BY <1>1, <2>20 DEF TokenSigns
  <2>21. ASSUME NEW o \in Op, OpenedFails(o) PROVE DeviceInv'
    BY <1>1, <2>21 DEF OpenedFails, Answer, EndSession, EndSessionIdle
  <2>22. ASSUME NEW o \in Op, JoinLogin(o) PROVE DeviceInv'
    BY <1>1, <2>22 DEF JoinLogin, Opened, IsCancelling
  <2>23. ASSUME NEW o \in Op, OpenAgain(o) PROVE DeviceInv'
    BY <1>1, <2>23 DEF OpenAgain, Opened, OpenOperation
  <2>24. ASSUME NEW o \in Op, StartLogin(o) PROVE DeviceInv'
    BY <1>1, <2>24 DEF StartLogin, Opened, Answer
  <2>25. ASSUME NEW o \in Op, RunOperation(o) PROVE DeviceInv'
    BY <1>1, <2>25 DEF RunOperation, Opened
  <2>26. ASSUME NEW o \in Op, WaiterCancelled(o) PROVE DeviceInv'
    BY <1>1, <2>26 DEF WaiterCancelled, Answer
  <2>27. ASSUME NEW o \in Op, SignAgain(o) PROVE DeviceInv'
    BY <1>1, <2>27 DEF SignAgain, OpenOperation
  <2>28. ASSUME NEW o \in Op, Signed(o) PROVE DeviceInv'
    BY <1>1, <2>28 DEF Signed, Answer, EndSession, EndSessionIdle
  <2>29. CASE UNCHANGED vars
    BY <1>1, <2>29 DEF vars
  <2> QED
    BY <2>1, <2>2, <2>3, <2>4, <2>5, <2>6, <2>7, <2>8, <2>9, <2>10, <2>11, <2>12, <2>13, <2>14,
       <2>15, <2>16, <2>17, <2>18, <2>19, <2>20, <2>21, <2>22, <2>23, <2>24, <2>25, <2>26, <2>27,
       <2>28, <2>29, NextActions
<1> QED
  BY <1>9

\* Only RunOperation starts an operation on the token, and it waits for the login.
LEMMA EarlyStep ==
    ASSUME TypeOK, ServedInv, LoginExcludesNewWork, [Next]_vars
    PROVE  LoginExcludesNewWork'
<1> USE SharedLoginAssumption DEF LoginExcludesNewWork, Running, operationVars, loginVars,
    promptVars, deviceVars, releaseVars, tokenVars
<1>1. /\ stage \in [Op -> {"new", "opening", "opened", "waiting", "running", "authenticating",
                         "asked", "resuming", "signing", "signed", "done"}]
      /\ waiters = {o \in Op : stage[o] = "waiting"} /\ idle \subseteq waiters
  BY DEF TypeOK, ServedInv, WaitersAreServed
<1>9. LoginExcludesNewWork'
  <2>1. CASE Expire
    BY <1>1, <2>1 DEF Expire
  <2>2. CASE CloseSession
    BY <1>1, <2>2 DEF CloseSession, EndSession, EndSessionIdle
  <2>3. CASE TokenReset
    BY <1>1, <2>3 DEF TokenReset
  <2>4. CASE OthersLogin
    BY <1>1, <2>4 DEF OthersLogin
  <2>5. CASE TokenRemoved
    BY <1>1, <2>5 DEF TokenRemoved
  <2>6. CASE UserSubmits
    BY <1>1, <2>6 DEF UserSubmits
  <2>7. CASE PromptStep
    <3>1. /\ UNCHANGED <<retried, deviceVars, tokenVars>>
          /\ \/ PromptEnds /\ prompt # "none" /\ (prompt = "working" => attempt # "none")
             \/ PromptGoesOn
      BY <2>7, PromptSteps DEF ServedInv
    <3> QED
      BY <1>1, <3>1 DEF PromptEnds, PromptGoesOn, LoginEnds, Closes
  <2>8. ASSUME NEW o \in Op, Perform(o) PROVE LoginExcludesNewWork'
    BY <1>1, <2>8 DEF Perform, OpenOperation, Answer
  <2>9. ASSUME NEW o \in Op, Cancel(o) PROVE LoginExcludesNewWork'
    BY <1>1, <2>9 DEF Cancel, Unfinished
  <2>10. ASSUME NEW o \in Op, AskContext(o) PROVE LoginExcludesNewWork'
    BY <1>1, <2>10 DEF AskContext
  <2>11. ASSUME NEW o \in Op, NEW end \in Outcome, ContextAnswered(o, end) PROVE
          LoginExcludesNewWork'
    BY <1>1, <2>11 DEF ContextAnswered
  <2>12. CASE LoginReleased
    <3>1. /\ LoginEnds /\ loginRelease' = "none" /\ loginRelease = "done"
          /\ UNCHANGED <<promptVars, deviceVars, tokenVars>>
      BY <2>12, FinishLoginEffect DEF LoginReleased, ServedInv
    <3> QED
      BY <1>1, <3>1 DEF LoginEnds, Closes
  <2>13. CASE ReleaseClosed
    BY <1>1, <2>13 DEF ReleaseClosed, CloseDevice
  <2>14. CASE ReleaseLogin
    BY <1>1, <2>14 DEF ReleaseLogin, CloseDevice
  <2>15. ASSUME NEW o \in Op, OpenThread(o) PROVE LoginExcludesNewWork'
    BY <1>1, <2>15 DEF OpenThread, OpenFails, Authorised, Unauthorised
  <2>16. ASSUME NEW o \in Op, SignThread(o) PROVE LoginExcludesNewWork'
    BY <1>1, <2>16 DEF SignThread, Authorised, Unauthorised
  <2>17. ASSUME NEW o \in Op, Resume(o) PROVE LoginExcludesNewWork'
    BY <1>1, <2>17 DEF Resume, CloseDevice, Authorised, Unauthorised, Masked
  <2>18. CASE LoginThread
    BY <1>1, <2>18 DEF LoginThread, OpenFails
  <2>19. CASE LoginReturns
    BY <1>1, <2>19 DEF LoginReturns
  <2>20. ASSUME NEW o \in Op, TokenSigns(o) PROVE LoginExcludesNewWork'
    BY <1>1, <2>20 DEF TokenSigns
  <2>21. ASSUME NEW o \in Op, OpenedFails(o) PROVE LoginExcludesNewWork'
    BY <1>1, <2>21 DEF OpenedFails, Answer, EndSession, EndSessionIdle
  <2>22. ASSUME NEW o \in Op, JoinLogin(o) PROVE LoginExcludesNewWork'
    BY <1>1, <2>22 DEF JoinLogin, Opened, IsCancelling
  <2>23. ASSUME NEW o \in Op, OpenAgain(o) PROVE LoginExcludesNewWork'
    BY <1>1, <2>23 DEF OpenAgain, Opened, OpenOperation
  <2>24. ASSUME NEW o \in Op, StartLogin(o) PROVE LoginExcludesNewWork'
    BY <1>1, <2>24 DEF StartLogin, Opened, Answer
  <2>25. ASSUME NEW o \in Op, RunOperation(o) PROVE LoginExcludesNewWork'
    BY <1>1, <2>25 DEF RunOperation, Opened
  <2>26. ASSUME NEW o \in Op, WaiterCancelled(o) PROVE LoginExcludesNewWork'
    BY <1>1, <2>26 DEF WaiterCancelled, Answer
  <2>27. ASSUME NEW o \in Op, SignAgain(o) PROVE LoginExcludesNewWork'
    BY <1>1, <2>27 DEF SignAgain, OpenOperation
  <2>28. ASSUME NEW o \in Op, Signed(o) PROVE LoginExcludesNewWork'
    BY <1>1, <2>28 DEF Signed, Answer, EndSession, EndSessionIdle
  <2>29. CASE UNCHANGED vars
    BY <1>1, <2>29 DEF vars
  <2> QED
    BY <2>1, <2>2, <2>3, <2>4, <2>5, <2>6, <2>7, <2>8, <2>9, <2>10, <2>11, <2>12, <2>13, <2>14,
       <2>15, <2>16, <2>17, <2>18, <2>19, <2>20, <2>21, <2>22, <2>23, <2>24, <2>25, <2>26, <2>27,
       <2>28, <2>29, NextActions
<1> QED
  BY <1>9

-----------------------------------------------------------------------------
\* The invariant of the shared login.
LoginInv == ServedInv /\ ResultInv /\ LockInv /\ DeviceInv /\ LoginExcludesNewWork

\* It holds in every reachable state.  Types and invariant need each other: what a
\* worker reports has its type only because of the stage the operation is in.
THEOREM LoginInvariant == Spec => [](TypeOK /\ LoginInv)
<1>1. Init => TypeOK
  BY SharedLoginAssumption DEF Init, TypeOK
<1>2. Init => LoginInv
  <2> SUFFICES ASSUME Init PROVE LoginInv
    OBVIOUS
  <2> USE SharedLoginAssumption DEF Init
  <2>1. ServedInv
    BY DEF ServedInv, WaitersAreServed, CancelledLoginTakesNobody
  <2>2. LockInv
    BY DEF LockInv, HoldsOperation, SignsOnItsOwnSession
  <2>3. LoginExcludesNewWork
    BY DEF LoginExcludesNewWork
  <2>4. DeviceInv
    <3>1. ~others => ~tokenIn
      OBVIOUS
    <3> QED
      BY <3>1 DEF DeviceInv
  <2>5. ResultInv
    BY DEF ResultInv
  <2> QED
    BY <2>1, <2>2, <2>3, <2>4, <2>5 DEF LoginInv
<1>3. TypeOK /\ LoginInv /\ [Next]_vars => TypeOK'
  BY TypeStep DEF LoginInv, ServedInv
<1>4. TypeOK /\ LoginInv /\ [Next]_vars => LoginInv'
  BY ServedStep, ResultStep, LockStep, DeviceStep, EarlyStep DEF LoginInv
<1> QED
  BY <1>1, <1>2, <1>3, <1>4, PTL DEF Spec

\* Type correctness of the shared login's state.
THEOREM TypeCorrect == Spec => []TypeOK
BY LoginInvariant, PTL

\* Waiters have a login in progress that will report to them.
THEOREM WaitersAlwaysServed == Spec => []WaitersAreServed
<1>1. LoginInv => WaitersAreServed
  BY DEF LoginInv, ServedInv
<1> QED
  BY <1>1, LoginInvariant, PTL

\* Whoever joins a login that is being cancelled is not cancelled with it.
THEOREM CancellationIsNotShared == Spec => []CancelledLoginTakesNobody
<1>1. LoginInv => CancelledLoginTakesNobody
  BY DEF LoginInv, ServedInv
<1> QED
  BY <1>1, LoginInvariant, PTL

\* No operation starts on the token while a login is in progress (on_opened).
THEOREM NewWorkWaitsForLogin == Spec => []LoginExcludesNewWork
<1>1. LoginInv => LoginExcludesNewWork
  BY DEF LoginInv
<1> QED
  BY <1>1, LoginInvariant, PTL

\* The token signs on the device session that the operation was initialised on.
THEOREM SigningOnOwnSession == Spec => []SignsOnItsOwnSession
<1>1. LoginInv => SignsOnItsOwnSession
  BY DEF LoginInv, LockInv
<1> QED
  BY <1>1, LoginInvariant, PTL

\* A closed session keeps no device session, whatever ran when it closed.
THEOREM ClosedSessionReleasesDevice == Spec => []ClosedSessionHasNoDevice
<1>1. LoginInv => ClosedSessionHasNoDevice
  BY DEF LoginInv, DeviceInv, ClosedSessionHasNoDevice
<1> QED
  BY <1>1, LoginInvariant, PTL

\* A login in progress ends only in FinishLogin.
LEMMA LoginEndsByFinishing ==
    ASSUME TypeOK, LoginInv, [Next]_vars, busy, ~busy'
    PROVE  \/ LoginReleased
           \/ \E answered : FinishPrompt(answered) /\ (answered = "ok" => deferred = "none")
<1> USE SharedLoginAssumption DEF operationVars, loginVars, promptVars, deviceVars, releaseVars,
    tokenVars
<1> DEFINE Ends == \/ LoginReleased
                   \/ \E answered : FinishPrompt(answered) /\ (answered = "ok" => deferred = "none")
<1>0. deferred # "ok" /\ prompt \in {"none", "queued", "refreshing", "asking", "working"}
  BY DEF TypeOK
<1>1. Ends
  <2>1. CASE Expire
    BY <2>1 DEF Expire
  <2>2. CASE CloseSession
    BY <2>2 DEF CloseSession, EndSession, EndSessionIdle
  <2>3. CASE TokenReset
    BY <2>3 DEF TokenReset
  <2>4. CASE OthersLogin
    BY <2>4 DEF OthersLogin
  <2>5. CASE TokenRemoved
    BY <2>5 DEF TokenRemoved
  <2>6. CASE UserSubmits
    BY <2>6 DEF UserSubmits
  <2>7. CASE PromptStep
    <3>1. CASE PromptStart
      <4>1. FinishPrompt("cancelled")
        BY <3>1 DEF PromptStart
      <4> QED
        BY <4>1 DEF Ends
    <3>2. CASE PromptRefreshed
      BY <1>0, <3>2 DEF PromptRefreshed
    <3>3. CASE UserDismisses
      BY <3>3 DEF UserDismisses, Defer
    <3>4. CASE LoginTimeout
      BY <3>4 DEF LoginTimeout, Defer
    <3>5. CASE PromptCancelled
      <4>1. FinishPrompt("cancelled")
        BY <3>5 DEF PromptCancelled, Defer
      <4> QED
        BY <4>1 DEF Ends
    <3>6. CASE LoginDone
      BY <1>0, <3>6 DEF LoginDone
    <3> QED
      BY <2>7, <3>1, <3>2, <3>3, <3>4, <3>5, <3>6 DEF PromptStep
  <2>8. ASSUME NEW o \in Op, Perform(o) PROVE Ends
    BY <2>8 DEF Perform, OpenOperation, Answer
  <2>9. ASSUME NEW o \in Op, Cancel(o) PROVE Ends
    BY <2>9 DEF Cancel, Unfinished
  <2>10. ASSUME NEW o \in Op, AskContext(o) PROVE Ends
    BY <2>10 DEF AskContext
  <2>11. ASSUME NEW o \in Op, NEW end \in Outcome, ContextAnswered(o, end) PROVE Ends
    BY <2>11 DEF ContextAnswered
  <2>12. CASE LoginReleased
    BY <2>12
  <2>13. CASE ReleaseClosed
    BY <2>13 DEF ReleaseClosed, CloseDevice
  <2>14. CASE ReleaseLogin
    BY <2>14 DEF ReleaseLogin, CloseDevice
  <2>15. ASSUME NEW o \in Op, OpenThread(o) PROVE Ends
    BY <2>15 DEF OpenThread, OpenFails, Authorised, Unauthorised
  <2>16. ASSUME NEW o \in Op, SignThread(o) PROVE Ends
    BY <2>16 DEF SignThread, Authorised, Unauthorised
  <2>17. ASSUME NEW o \in Op, Resume(o) PROVE Ends
    BY <2>17 DEF Resume, CloseDevice, Authorised, Unauthorised, Masked
  <2>18. CASE LoginThread
    BY <2>18 DEF LoginThread, OpenFails
  <2>19. CASE LoginReturns
    BY <2>19 DEF LoginReturns
  <2>20. ASSUME NEW o \in Op, TokenSigns(o) PROVE Ends
    BY <2>20 DEF TokenSigns
  <2>21. ASSUME NEW o \in Op, OpenedFails(o) PROVE Ends
    BY <2>21 DEF OpenedFails, Answer, EndSession, EndSessionIdle
  <2>22. ASSUME NEW o \in Op, JoinLogin(o) PROVE Ends
    BY <2>22 DEF JoinLogin, Opened, IsCancelling
  <2>23. ASSUME NEW o \in Op, OpenAgain(o) PROVE Ends
    BY <2>23 DEF OpenAgain, Opened, OpenOperation
  <2>24. ASSUME NEW o \in Op, StartLogin(o) PROVE Ends
    BY <2>24 DEF StartLogin, Opened, Answer
  <2>25. ASSUME NEW o \in Op, RunOperation(o) PROVE Ends
    BY <2>25 DEF RunOperation, Opened
  <2>26. ASSUME NEW o \in Op, WaiterCancelled(o) PROVE Ends
    BY <2>26 DEF WaiterCancelled, Answer
  <2>27. ASSUME NEW o \in Op, SignAgain(o) PROVE Ends
    BY <2>27 DEF SignAgain, OpenOperation
  <2>28. ASSUME NEW o \in Op, Signed(o) PROVE Ends
    BY <2>28 DEF Signed, Answer, EndSession, EndSessionIdle
  <2>29. CASE UNCHANGED vars
    BY <2>29 DEF vars
  <2> HIDE DEF Ends
  <2> QED
    BY <2>1, <2>2, <2>3, <2>4, <2>5, <2>6, <2>7, <2>8, <2>9, <2>10, <2>11, <2>12, <2>13, <2>14,
       <2>15, <2>16, <2>17, <2>18, <2>19, <2>20, <2>21, <2>22, <2>23, <2>24, <2>25, <2>26, <2>27,
       <2>28, <2>29, NextActions
<1> QED
  BY <1>1

\* A login that was granted although it was cancelled or timed out is undone
\* before its waiters go on (on_pin_done), unless others keep the token logged in.
THEOREM GrantedLoginIsUndone == Spec => CancelledLoginIsUndone
<1> DEFINE Undone == busy /\ ~busy' /\ performed /\ tokenIn /\ ~others
                        => ~loginCancelled /\ deferred = "none"
<1>1. TypeOK /\ LoginInv /\ [Next]_vars => Undone
  <2> SUFFICES ASSUME TypeOK, LoginInv, [Next]_vars, busy, ~busy', performed, tokenIn, ~others
               PROVE  ~loginCancelled /\ deferred = "none"
    OBVIOUS
  <2>1. ~LoginReleased
    BY DEF LoginReleased, LoginInv, DeviceInv
  <2>2. PICK answered : FinishPrompt(answered) /\ (answered = "ok" => deferred = "none")
    BY <2>1, LoginEndsByFinishing
  <2>3. answered = "ok" /\ ~loginCancelled
    BY <2>2 DEF FinishPrompt
  <2> QED
    BY <2>2, <2>3
<1>2. TypeOK /\ LoginInv /\ [Next]_vars => [Undone]_vars
  BY <1>1
<1> QED
  BY <1>2, LoginInvariant, PTL DEF Spec, CancelledLoginIsUndone
=============================================================================
