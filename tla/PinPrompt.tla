----------------------------- MODULE PinPrompt ------------------------------
(***************************************************************************)
(* The PIN prompts of the process: core/pin.c (one active prompt, a queue, *)
(* flag refresh, attempts, deferred cancellation and login timeout), the   *)
(* PIN half of the UI bridge core/ui.c, which turns each presentation call *)
(* into a message to the UI loop and each reply into a message to the      *)
(* coordinator, and the UI's own handles of ui/legacy-bridge.c.            *)
(*                                                                         *)
(* All prompts are about one card, the case in which they can disturb each *)
(* other.  Every prompt has a refresh function and no abandon function, as *)
(* the two callers in broker/operations.c pass them.  What the card and    *)
(* the user do is external: C_Login returns when it likes and as it likes, *)
(* and the UI may send any reply while its dialog exists.  PIN bytes are   *)
(* not modelled: a submission has a PIN or is empty.  The errors that end  *)
(* a prompt without regard to the PIN are one outcome, "failed".           *)
(***************************************************************************)
EXTENDS Naturals, Sequences, FiniteSets

CONSTANTS
  Prompt,      \* the PIN logins requested
  Protected,   \* those on a protected authentication path
  None,
  Tries,       \* the PIN attempts the card allows
  MaxAttempts, \* PIN_MAX_ATTEMPTS
  LoginTimeout,\* pin_login_timeout_seconds > 0
  MaxMail      \* bound on the messages under way before the UI sends another

Outcome == {"ok", "cancelled", "incorrect", "locked", "timeout", "failed"}

ASSUME PinAssumption ==
  /\ Protected \subseteq Prompt
  /\ None \notin Prompt \cup Outcome
  /\ Tries \in Nat \ {0} /\ MaxAttempts \in Nat \ {0} /\ MaxMail \in Nat
  /\ LoginTimeout \in BOOLEAN

VARIABLES
  active,    \* pin_active
  queue,     \* pin_queue
  stage,     \* new, queued, refresh (in flight), open, login (in flight), done
  deferred,  \* deferred_outcome when cancel_deferred, else None
  attempts,  \* attempts
  warned,    \* "no", "pending" (warning_pending) or "confirmed"
  cancelled, \* prompts whose cancellable is cancelled
  idle,      \* prompts with a cancel_idle source
  timer,     \* prompts with a login timeout source
  worker,    \* the prompt's worker: "none", "running", or what it returned
  outcome,   \* what done() was called with
  tries,     \* attempts left on the card
  flags,     \* the token's cached flags: "ok", "final" or "locked"
  read,      \* history: whether the last refresh of the flags read the card
  inter,     \* its Interaction: "none", "shown" or "ready"
  uiq,       \* messages posted to the UI loop
  view,      \* the UI's dialog: "none", "asking", "busy", "hidden" or "closed"
  asked,     \* prompts whose UI has received the final-try warning
  replies    \* replies posted to the coordinator

promptVars == <<stage, deferred, attempts, warned, outcome>>
sourceVars == <<cancelled, idle, timer>>
cardVars   == <<tries, flags, read>>
uiVars     == <<view, asked>>
vars == <<active, queue, promptVars, sourceVars, worker, cardVars, inter, uiq, uiVars, replies>>

Result  == {"refreshed", "ok", "incorrect", "locked", "failed"}
Kind    == {"ready", "submit", "empty", "accept", "decline", "cancel", "fail"}
Message == [call : {"show", "ask", "rest", "busy", "warn", "hide", "close"}, prompt : Prompt]
Reply   == [kind : Kind, prompt : Prompt]

Msg(call, p) == [call |-> call, prompt |-> p]

(* What C_GetTokenInfo says of a card with n attempts left. *)
FlagsOf(n) == IF n = 0 THEN "locked" ELSE IF n = 1 THEN "final" ELSE "ok"

InFlight(p) == stage[p] \in {"refresh", "login"}

Init ==
  /\ active = None /\ queue = <<>>
  /\ stage = [p \in Prompt |-> "new"]
  /\ deferred = [p \in Prompt |-> None]
  /\ attempts = [p \in Prompt |-> 0]
  /\ warned = [p \in Prompt |-> "no"]
  /\ outcome = [p \in Prompt |-> None]
  /\ cancelled = {} /\ idle = {} /\ timer = {}
  /\ worker = [p \in Prompt |-> "none"]
  /\ tries \in 0..Tries /\ flags \in {"ok", "final", "locked"} /\ read = FALSE
  /\ inter = [p \in Prompt |-> "none"]
  /\ uiq = <<>> /\ replies = <<>>
  /\ view = [p \in Prompt |-> "none"] /\ asked = {}

-----------------------------------------------------------------------------
(* pin_prompt_start answers a cancelled prompt at once, which starts the   *)
(* next one: the place in the queue of the first that is not cancelled, if *)
(* there is one.                                                           *)
Turn == {i \in DOMAIN queue : /\ queue[i] \notin cancelled
                              /\ \A j \in 1..(i - 1) : queue[j] \in cancelled}

(* The prompts that start and end with the end of p, and who is next. *)
Passed(p) ==
  IF active = p THEN {queue[i] : i \in {k \in DOMAIN queue : \A j \in 1..k : queue[j] \in cancelled}}
  ELSE {}

Successor(p) == IF active # p \/ Turn = {} THEN None ELSE queue[CHOOSE i \in Turn : TRUE]

(* The queue after the place i, and without it. *)
After(i)   == SubSeq(queue, i + 1, Len(queue))
Without(i) == SubSeq(queue, 1, i - 1) \o After(i)

(* The queue that the end of p leaves: of its active prompt, or of one in it. *)
Rest(p) ==
  IF active = p THEN IF Turn = {} THEN <<>> ELSE After(CHOOSE i \in Turn : TRUE)
  ELSE IF \E i \in DOMAIN queue : queue[i] = p THEN Without(CHOOSE i \in DOMAIN queue : queue[i] = p)
  ELSE queue

(* The mutation of Closing checked below: a dialog that never became ready *)
(* is not closed.                                                          *)
ClosingReady(p) == IF inter[p] # "ready" THEN <<>> ELSE <<Msg("close", p)>>

(* close_interaction posts a close for a dialog that was shown. *)
Closing(p) == IF inter[p] = "none" THEN <<>> ELSE <<Msg("close", p)>>

(* The end of certificate_pin_prompt_answer: its sources are removed, the  *)
(* dialog is closed, the next prompt starts, done() is called and the      *)
(* prompt is released.  mail is what the calling handler posted before,    *)
(* idles the cancel sources left when it runs.                             *)
Finish(p, result, mail, idles) ==
  LET over == Passed(p) \cup {p}
      next == Successor(p)
  IN /\ active' = IF active = p THEN next ELSE active
     /\ queue' = Rest(p)
     /\ stage' = [q \in Prompt |-> IF q \in over THEN "done"
                                   ELSE IF q = next THEN "refresh" ELSE stage[q]]
     /\ worker' = [q \in Prompt |-> IF q = next THEN "running"
                                    ELSE IF q = p /\ worker[q] # "running" THEN "none"
                                    ELSE worker[q]]
     /\ outcome' = [q \in Prompt |-> IF q = p THEN result
                                     ELSE IF q \in over THEN "cancelled" ELSE outcome[q]]
     /\ deferred' = [deferred EXCEPT ![p] = None]
     /\ attempts' = [attempts EXCEPT ![p] = 0]
     /\ warned' = [warned EXCEPT ![p] = "no"]
     /\ idle' = idles \ over
     /\ timer' = timer \ {p}
     /\ inter' = [inter EXCEPT ![p] = "none"]
     /\ uiq' = uiq \o mail \o Closing(p)

(* A prompt whose worker is in flight keeps its first outcome for later    *)
(* and hides its dialog.                                                   *)
Defer(p, result, idles, timers) ==
  /\ deferred' = [deferred EXCEPT ![p] = IF @ = None THEN result ELSE @]
  /\ uiq' = IF deferred[p] = None /\ stage[p] = "login" /\ inter[p] # "none"
            THEN Append(uiq, Msg("hide", p)) ELSE uiq
  /\ idle' = idles /\ timer' = timers
  /\ UNCHANGED <<active, queue, stage, attempts, warned, worker, outcome, inter>>

(* The mutation of Answer checked below: the answer does not wait for the  *)
(* worker.                                                                 *)
AnswerAtOnce(p, result, idles, timers) ==
  stage[p] # "done" /\ Finish(p, result, <<>>, idles)

(* certificate_pin_prompt_answer. *)
Answer(p, result, idles, timers) ==
  \/ ~InFlight(p) /\ Finish(p, result, <<>>, idles)
  \/ InFlight(p) /\ Defer(p, result, idles, timers)

(* certificate_pin_login_full_kind: the prompt starts if none is active,   *)
(* else it queues.  A cancellable that is already cancelled queues its     *)
(* idle source at once, and answers a prompt that starts.                  *)
Request(p) ==
  /\ stage[p] = "new"
  /\ \/ /\ active # None
        /\ queue' = Append(queue, p)
        /\ stage' = [stage EXCEPT ![p] = "queued"]
        /\ idle' = IF p \in cancelled THEN idle \cup {p} ELSE idle
        /\ UNCHANGED <<active, worker, outcome>>
     \/ /\ active = None /\ p \notin cancelled
        /\ active' = p
        /\ stage' = [stage EXCEPT ![p] = "refresh"]
        /\ worker' = [worker EXCEPT ![p] = "running"]
        /\ UNCHANGED <<queue, outcome, idle>>
     \/ /\ active = None /\ p \in cancelled
        /\ stage' = [stage EXCEPT ![p] = "done"]
        /\ outcome' = [outcome EXCEPT ![p] = "cancelled"]
        /\ UNCHANGED <<active, queue, worker, idle>>
  /\ UNCHANGED <<deferred, attempts, warned, cancelled, timer, cardVars, inter, uiq, uiVars, replies>>

(* The same call when no provider is installed or it lacks a display. *)
RequestWithoutDisplay(p) ==
  /\ stage[p] = "new"
  /\ stage' = [stage EXCEPT ![p] = "done"]
  /\ outcome' = [outcome EXCEPT ![p] = "failed"]
  /\ UNCHANGED <<active, queue, deferred, attempts, warned, sourceVars, worker, cardVars,
                 inter, uiq, uiVars, replies>>

(* The mutation of Cancel checked below: a queued prompt finds out when    *)
(* its turn comes.                                                         *)
CancelActive(p) ==
  /\ p \notin cancelled /\ stage[p] # "done"
  /\ cancelled' = cancelled \cup {p}
  /\ idle' = IF p = active THEN idle \cup {p} ELSE idle
  /\ UNCHANGED <<active, queue, promptVars, timer, worker, cardVars, inter, uiq, uiVars, replies>>

(* The request's cancellable: on_cancelled queues an idle source once. *)
Cancel(p) ==
  /\ p \notin cancelled /\ stage[p] # "done"
  /\ cancelled' = cancelled \cup {p}
  /\ idle' = IF stage[p] = "new" THEN idle ELSE idle \cup {p}
  /\ UNCHANGED <<active, queue, promptVars, timer, worker, cardVars, inter, uiq, uiVars, replies>>

(* on_cancelled_idle. *)
OnCancelledIdle(p) ==
  /\ p \in idle
  /\ Answer(p, "cancelled", idle \ {p}, timer)
  /\ UNCHANGED <<cancelled, cardVars, uiVars, replies>>

(* on_login_timeout. *)
OnLoginTimeout(p) ==
  /\ p \in timer
  /\ Answer(p, "timeout", idle, timer \ {p})
  /\ UNCHANGED <<cancelled, cardVars, uiVars, replies>>

-----------------------------------------------------------------------------
(* certificate_tokens_refresh_flags of a card with n attempts left.  It is *)
(* best effort: when the slots cannot be listed, the token cannot be read  *)
(* or it is not found, it returns with the cached flags as they were, and  *)
(* its callers are not told.  The code keeps no record of that: only       *)
(* LastTryIsConfirmed looks at read.                                       *)
RefreshFlags(n) ==
  \/ flags' = FlagsOf(n) /\ read' = TRUE
  \/ UNCHANGED flags /\ read' = FALSE

(* The mutation of RefreshThread checked below: flags that were read for   *)
(* an earlier prompt are not read again.                                   *)
RefreshThreadOnce(p) ==
  /\ stage[p] = "refresh" /\ worker[p] = "running"
  /\ worker' = [worker EXCEPT ![p] = "refreshed"]
  /\ IF read THEN UNCHANGED <<flags, read>> ELSE RefreshFlags(tries)
  /\ UNCHANGED <<active, queue, promptVars, sourceVars, tries, inter, uiq, uiVars, replies>>

(* refresh_thread. *)
RefreshThread(p) ==
  /\ stage[p] = "refresh" /\ worker[p] = "running"
  /\ worker' = [worker EXCEPT ![p] = "refreshed"]
  /\ RefreshFlags(tries)
  /\ UNCHANGED <<active, queue, promptVars, sourceVars, tries, inter, uiq, uiVars, replies>>

(* login_thread: C_Login accepts the PIN, refuses it, or fails, possibly   *)
(* with the attempt spent; flags are refreshed after acceptance and after  *)
(* a refusal.  A card without attempts left cannot accept.                 *)
LoginThread(p) ==
  /\ stage[p] = "login" /\ worker[p] = "running"
  /\ \/ /\ tries > 0
        /\ worker' = [worker EXCEPT ![p] = "ok"]
        /\ tries' = Tries /\ RefreshFlags(Tries)
     \/ /\ tries > 0
        /\ worker' = [worker EXCEPT ![p] = "incorrect"]
        /\ tries' = tries - 1 /\ RefreshFlags(tries - 1)
     \/ /\ worker' = [worker EXCEPT ![p] = "failed"]
        /\ tries' \in {tries, tries - 1} \cap Nat
        /\ UNCHANGED <<flags, read>>
     \/ /\ tries = 0
        /\ worker' = [worker EXCEPT ![p] = "locked"]
        /\ UNCHANGED cardVars
  /\ UNCHANGED <<active, queue, promptVars, sourceVars, inter, uiq, uiVars, replies>>

(* on_refresh_done, and pin_prompt_show when nothing ended the prompt. *)
OnRefreshDone(p) ==
  /\ stage[p] = "refresh" /\ worker[p] = "refreshed"
  /\ \/ deferred[p] # None /\ Finish(p, deferred[p], <<>>, idle)
     \/ deferred[p] = None /\ p \in cancelled /\ Finish(p, "cancelled", <<>>, idle)
     \/ deferred[p] = None /\ p \notin cancelled /\ flags = "locked" /\ Finish(p, "locked", <<>>, idle)
     \/ /\ deferred[p] = None /\ p \notin cancelled /\ flags # "locked"
        /\ stage' = [stage EXCEPT ![p] = "open"]
        /\ inter' = [inter EXCEPT ![p] = "shown"]
        /\ uiq' = Append(uiq, Msg("show", p))
        /\ UNCHANGED <<active, queue, deferred, attempts, warned, outcome, idle, timer, worker>>
  /\ UNCHANGED <<cancelled, cardVars, uiVars, replies>>

(* How a login that failed ends the prompt; None where a refused PIN may   *)
(* be entered again.                                                       *)
Verdict(p) ==
  IF worker[p] # "incorrect" THEN worker[p]
  ELSE IF flags = "locked" THEN "locked"
  ELSE IF p \in Protected \/ attempts[p] >= MaxAttempts THEN "incorrect"
  ELSE None

(* on_login_done: the dialog is no longer busy (rest), and asks again (ask) *)
(* where a retry follows.                                                  *)
OnLoginDone(p) ==
  /\ stage[p] = "login" /\ worker[p] \notin {"none", "running"}
  /\ \/ deferred[p] # None /\ Finish(p, deferred[p], <<>>, idle)
     \/ deferred[p] = None /\ worker[p] = "ok" /\ Finish(p, "ok", <<>>, idle)
     \/ /\ deferred[p] = None /\ worker[p] # "ok" /\ Verdict(p) # None
        /\ Finish(p, Verdict(p), <<Msg("rest", p)>>, idle)
     \/ /\ deferred[p] = None /\ Verdict(p) = None
        /\ stage' = [stage EXCEPT ![p] = "open"]
        /\ timer' = timer \ {p}
        /\ uiq' = Append(uiq, Msg("ask", p))
        /\ UNCHANGED <<active, queue, deferred, attempts, warned, outcome, idle, inter, worker>>
  /\ UNCHANGED <<cancelled, cardVars, uiVars, replies>>

-----------------------------------------------------------------------------
(* certificate_pin_prompt_submit with warning state w: the last try on a   *)
(* protected path asks for confirmation once, anything else logs in.       *)
MustConfirm(p, w) == p \in Protected /\ flags = "final" /\ w # "confirmed"

AskConfirmation(p, w) ==
  /\ warned' = [warned EXCEPT ![p] = "pending"]
  /\ uiq' = IF w = "no" THEN Append(uiq, Msg("warn", p)) ELSE uiq
  /\ UNCHANGED <<stage, attempts, worker, timer>>

StartLogin(p, w) ==
  /\ warned' = [warned EXCEPT ![p] = w]
  /\ attempts' = [attempts EXCEPT ![p] = @ + 1]
  /\ stage' = [stage EXCEPT ![p] = "login"]
  /\ worker' = [worker EXCEPT ![p] = "running"]
  /\ timer' = IF LoginTimeout THEN timer \cup {p} ELSE timer
  /\ uiq' = Append(uiq, Msg("busy", p))

Submit(p, w) ==
  /\ \/ MustConfirm(p, w) /\ AskConfirmation(p, w)
     \/ ~MustConfirm(p, w) /\ StartLogin(p, w)
  /\ UNCHANGED <<active, queue, deferred, outcome, idle>>

(* Nothing happens: the reply is stale, or of the wrong kind. *)
Ignore == UNCHANGED <<active, queue, promptVars, idle, timer, worker, inter, uiq>>

(* pin_update with the dialog open for input. *)
AskAgain(p) ==
  /\ uiq' = Append(uiq, Msg("ask", p))
  /\ UNCHANGED <<active, queue, promptVars, idle, timer, worker, inter>>

(* A reply that starts or confirms input is only heard by an open prompt;  *)
(* InFlight covers busy, login_in_flight and cancel_deferred.              *)
Hears(p, kind) ==
  CASE kind = "ready" -> inter[p] = "shown" /\ p \notin cancelled
    [] kind \in {"submit", "empty"} -> inter[p] = "ready" /\ ~InFlight(p)
    [] kind \in {"accept", "decline"} -> inter[p] # "none" /\ warned[p] = "pending" /\ ~InFlight(p)
    [] OTHER -> inter[p] # "none"

(* reply(): the handler of every message from the UI. *)
HandleReply(p, kind) ==
  \/ /\ kind = "ready"
     /\ inter' = [inter EXCEPT ![p] = "ready"]
     /\ IF p \in Protected THEN Submit(p, warned[p])
        ELSE UNCHANGED <<active, queue, promptVars, idle, timer, worker, uiq>>
  \/ /\ kind = "submit" \/ (kind = "empty" /\ p \in Protected)
     /\ Submit(p, warned[p]) /\ UNCHANGED inter
  \/ kind = "empty" /\ p \notin Protected /\ AskAgain(p)
  \/ kind = "accept" /\ Submit(p, "confirmed") /\ UNCHANGED inter
  \/ kind \in {"decline", "cancel"} /\ Answer(p, "cancelled", idle, timer)
  \/ kind = "fail" /\ Answer(p, "failed", idle, timer)

HandleReplies ==
  /\ replies # <<>>
  /\ replies' = Tail(replies)
  /\ LET p    == Head(replies).prompt
         kind == Head(replies).kind
     IN IF Hears(p, kind) THEN HandleReply(p, kind) ELSE Ignore
  /\ UNCHANGED <<cancelled, cardVars, uiVars>>

-----------------------------------------------------------------------------
(* The dialog after a message. *)
Shown(was, call) ==
  CASE call = "close" -> "closed"
    [] call \in {"show", "ask", "rest"} -> "asking"
    [] call = "hide" -> "hidden"
    [] call = "busy" -> "busy"
    [] OTHER -> was

(* ui_deliver and the handles of the bridge. *)
Handled ==
  /\ uiq # <<>>
  /\ uiq' = Tail(uiq)
  /\ LET p == Head(uiq).prompt
         call == Head(uiq).call
     IN /\ view' = [view EXCEPT ![p] = Shown(@, call)]
        /\ asked' = IF call = "warn" THEN asked \cup {p}
                    ELSE IF call = "close" THEN asked \ {p} ELSE asked
  /\ UNCHANGED <<active, queue, promptVars, sourceVars, worker, cardVars, inter>>

UiDeliver == Handled /\ UNCHANGED replies

(* What the bridge lets through: replies of a handle that exists, and a    *)
(* submission unless the handle is known to be busy.                       *)
MaySend(p, kind) ==
  /\ view[p] \notin {"none", "closed"}
  /\ kind \in {"submit", "empty"} => view[p] = "asking"
  /\ kind \in {"accept", "decline"} => p \in asked

(* The UI sends a reply: xcc_pin_ready, xcc_pin_submit and the like. *)
UiReply(p, kind) ==
  /\ Len(uiq) + Len(replies) < MaxMail
  /\ MaySend(p, kind)
  /\ replies' = Append(replies, [kind |-> kind, prompt |-> p])
  /\ UNCHANGED <<active, queue, promptVars, sourceVars, worker, cardVars, inter, uiq, uiVars>>

(* The worker of a prompt, and its completion. *)
Work(p) == RefreshThread(p) \/ LoginThread(p) \/ OnRefreshDone(p) \/ OnLoginDone(p)

(* The coordinator, the workers and the requests of the caller. *)
CoreNext ==
  \/ \E p \in Prompt : Request(p) \/ RequestWithoutDisplay(p) \/ Cancel(p)
  \/ \E p \in Prompt : OnCancelledIdle(p) \/ OnLoginTimeout(p)
  \/ \E p \in Prompt : Work(p)
  \/ HandleReplies

Next ==
  \/ CoreNext \/ UiDeliver
  \/ \E p \in Prompt, kind \in Kind : UiReply(p, kind)

Spec == Init /\ [][Next]_vars

(* Sources of the coordinator are dispatched, and a worker's call into the *)
(* card returns.  Nothing is assumed of the user.                          *)
FairSpec ==
  /\ Spec
  /\ \A p \in Prompt : WF_vars(OnCancelledIdle(p)) /\ WF_vars(Work(p))

-----------------------------------------------------------------------------
Stage == {"new", "queued", "refresh", "open", "login", "done"}

TypeOK ==
  /\ active \in Prompt \cup {None} /\ queue \in Seq(Prompt)
  /\ stage \in [Prompt -> Stage]
  /\ deferred \in [Prompt -> Outcome \cup {None}]
  /\ attempts \in [Prompt -> 0..MaxAttempts]
  /\ warned \in [Prompt -> {"no", "pending", "confirmed"}]
  /\ outcome \in [Prompt -> Outcome \cup {None}]
  /\ cancelled \subseteq Prompt /\ idle \subseteq Prompt /\ timer \subseteq Prompt
  /\ worker \in [Prompt -> Result \cup {"none", "running"}]
  /\ tries \in 0..Tries /\ flags \in {"ok", "final", "locked"} /\ read \in BOOLEAN
  /\ inter \in [Prompt -> {"none", "shown", "ready"}]
  /\ uiq \in Seq(Message) /\ replies \in Seq(Reply)
  /\ view \in [Prompt -> {"none", "asking", "busy", "hidden", "closed"}]
  /\ asked \subseteq Prompt

(* The process talks to the card for one prompt at a time, even when that  *)
(* prompt was cancelled or timed out while C_Login runs, and no prompt     *)
(* waits behind nobody.                                                    *)
PromptsTakeTurns ==
  /\ \A p, q \in Prompt : worker[p] = "running" /\ worker[q] = "running" => p = q
  /\ active = None => queue = <<>>

(* The user never faces two PIN dialogs, however late the UI loop handles  *)
(* the messages: a dialog is closed before the next one opens.             *)
OnePinDialog ==
  Cardinality({p \in Prompt : view[p] \in {"asking", "busy"}}) <= 1

(* A login on a protected path that may spend the card's last attempt was  *)
(* confirmed by the user, if the refresh before it read the card: what was *)
(* read when the prompt's turn came still holds when the login starts,     *)
(* whatever the prompts before it did to the card, also unobserved, and    *)
(* however many replies ask for the login.  Where the refresh read nothing *)
(* the code makes no such promise: it goes by the flags of an earlier one. *)
LastTryIsConfirmed ==
  \A p \in Protected :
    stage[p] = "login" /\ worker[p] = "running" /\ read /\ tries = 1
      => warned[p] = "confirmed"

(* A cancelled prompt is answered as soon as its worker, if any, returns,  *)
(* whatever the user does with the dialog of the prompt before it.  A      *)
(* prompt stays cancelled and an answer is final, so that this says        *)
(*   \A p : (p \in cancelled /\ stage[p] # "new") ~> stage[p] = "done",    *)
(* in a form that is cheaper to check.                                     *)
CancelledPromptIsAnswered ==
  []<>(\A p \in Prompt : p \in cancelled /\ stage[p] # "new" => stage[p] = "done")
=============================================================================
