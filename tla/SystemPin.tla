----------------------------- MODULE SystemPin ------------------------------
(***************************************************************************)
(* The system prompter's PIN dialog, ui/pin-system.c: what the provider    *)
(* makes of the core's messages and of the prompter's asynchronous calls   *)
(* (open, one round of password or confirmation at a time, close), instead *)
(* of the dialog of PinPrompt that may send any reply.                     *)
(*                                                                         *)
(* The prompter is external: an open succeeds or fails when it likes, a    *)
(* round ends with anything, also after its dialog was closed, and the     *)
(* shell may dismiss the dialog at any time.  A round that gcr completes   *)
(* twice is claimed once (round_claim) and ends once here.                 *)
(***************************************************************************)
EXTENDS PinPrompt

VARIABLES
  system,    \* the provider is pin-system; chosen at the start
  gcr,       \* ui->gcr: "none", "opening" (the open is pending), "open" or "released"
  round,     \* the round gcr has not completed: "none", "password", "confirm" or "notice"
  refused,   \* prompts of which gcr was asked for a round during another
  final,     \* prompts shown with view.final_try
  closed,    \* prompts whose dialog the shell has dismissed (ui->closed)
  dismissing \* prompts with a dismiss_idle source

systemVars == <<system, gcr, round, refused, final, closed, dismissing>>

SystemInit ==
  /\ Init
  /\ system \in BOOLEAN
  /\ gcr = [p \in Prompt |-> "none"]
  /\ round = [p \in Prompt |-> "none"]
  /\ refused = {} /\ final = {} /\ closed = {} /\ dismissing = {}

-----------------------------------------------------------------------------
(* prompt->finished, which close_ui sets. *)
Finished(p) == view[p] = "closed"

(* The dialog can be asked for something. *)
Usable(p) == gcr[p] = "open" /\ p \notin closed

(* gcr_prompt_password_async and gcr_prompt_confirm_async: gcr runs one     *)
(* round at a time and refuses another, whose callback never comes.        *)
Ask(p, kind) ==
  /\ round' = IF round[p] = "none" THEN [round EXCEPT ![p] = kind] ELSE round
  /\ refused' = IF round[p] = "none" THEN refused ELSE refused \cup {p}

AskNothing == UNCHANGED <<round, refused>>

(* certificate_pin_prompt_answer and its like send to the coordinator      *)
(* while the prompt is not finished.                                       *)
Sent(p, kinds) ==
  replies' = IF Finished(p) THEN replies
             ELSE replies \o [i \in DOMAIN kinds |-> [kind |-> kinds[i], prompt |-> p]]

CoreUnchanged == UNCHANGED <<active, queue, promptVars, sourceVars, worker, cardVars, inter, uiq, uiVars>>

(* The messages of the core: pin_show opens the dialog, pin_update asks    *)
(* again if there is a status to show, warning asks for a confirmation or  *)
(* cancels where there is no dialog, hide and close release it.            *)
SystemDeliver ==
  /\ Handled
  /\ LET p == Head(uiq).prompt
         call == Head(uiq).call
     IN \/ /\ call = "show"
           /\ gcr' = [gcr EXCEPT ![p] = "opening"]
           /\ AskNothing /\ UNCHANGED <<dismissing, replies>>
        \/ /\ call \in {"busy", "rest"}
           /\ AskNothing /\ UNCHANGED <<gcr, dismissing, replies>>
        \/ /\ call = "ask"
           /\ IF Usable(p) THEN Ask(p, "password") ELSE AskNothing
           /\ UNCHANGED <<gcr, dismissing, replies>>
        \/ /\ call = "warn"
           /\ \/ Usable(p) /\ Ask(p, "confirm") /\ UNCHANGED replies
              \/ ~Usable(p) /\ AskNothing /\ Sent(p, <<"cancel">>)
           /\ UNCHANGED <<gcr, dismissing>>
        \/ /\ call \in {"hide", "close"}
           /\ dismissing' = dismissing \ {p}
           /\ gcr' = [gcr EXCEPT ![p] = IF @ = "open" THEN "released" ELSE @]
           /\ AskNothing /\ UNCHANGED replies
  /\ UNCHANGED <<system, final, closed>>

(* The mutation of Opened checked below: the final-try warning of a        *)
(* protected path is asked for beside the notice.                          *)
OpenedWithNotice(p) ==
  /\ gcr[p] = "opening"
  /\ gcr' = [gcr EXCEPT ![p] = IF Finished(p) THEN "released" ELSE "open"]
  /\ IF Finished(p) THEN AskNothing ELSE Ask(p, IF p \in Protected THEN "notice" ELSE "password")
  /\ Sent(p, <<"ready">>)
  /\ CoreUnchanged /\ UNCHANGED <<system, final, closed, dismissing>>

(* handle_prompt_opened: a dialog whose prompt is over is closed at once; *)
(* else the password is asked for, or a notice shown on a protected path.  *)
Opened(p) ==
  /\ gcr[p] = "opening"
  /\ \/ /\ gcr' = [gcr EXCEPT ![p] = IF Finished(p) THEN "released" ELSE "open"]
        /\ IF Finished(p) \/ (p \in Protected /\ p \in final) THEN AskNothing
           ELSE Ask(p, IF p \in Protected THEN "notice" ELSE "password")
        /\ Sent(p, <<"ready">>)
     \/ /\ gcr' = [gcr EXCEPT ![p] = "released"]
        /\ AskNothing /\ Sent(p, <<"fail">>)
  /\ CoreUnchanged /\ UNCHANGED <<system, final, closed, dismissing>>

(* prompt->busy: the last update said that a login is under way. *)
Held(p) == view[p] \in {"busy", "hidden"}

(* handle_password: a PIN is submitted unless a login is under way, an     *)
(* empty one asks again.                                                   *)
PasswordDone(p) ==
  /\ round[p] = "password"
  /\ \/ /\ Sent(p, IF Held(p) THEN <<>> ELSE <<"submit">>)
        /\ round' = [round EXCEPT ![p] = "none"]
     \/ /\ round' = [round EXCEPT ![p] = IF Usable(p) /\ ~Held(p) THEN "password" ELSE "none"]
        /\ UNCHANGED replies
     \/ /\ \E kind \in {"cancel", "fail"} : Sent(p, <<kind>>)
        /\ round' = [round EXCEPT ![p] = "none"]

(* handle_confirmed: the notice of a protected path confirms nothing. *)
ConfirmDone(p) ==
  /\ round[p] \in {"confirm", "notice"}
  /\ \/ Sent(p, IF round[p] = "confirm" THEN <<"accept">> ELSE <<>>)
     \/ \E kind \in {"cancel", "fail"} : Sent(p, <<kind>>)
  /\ round' = [round EXCEPT ![p] = "none"]

RoundDone(p) ==
  /\ PasswordDone(p) \/ ConfirmDone(p)
  /\ CoreUnchanged /\ UNCHANGED <<system, gcr, refused, final, closed, dismissing>>

(* The mutation of Dismiss checked below: a pending round is trusted to end *)
(* the prompt.                                                             *)
DismissBetweenRounds(p) ==
  /\ Usable(p)
  /\ closed' = closed \cup {p}
  /\ dismissing' = IF Finished(p) \/ round[p] # "none" THEN dismissing ELSE dismissing \cup {p}
  /\ CoreUnchanged /\ UNCHANGED <<replies, system, gcr, round, refused, final>>

(* on_gcr_prompt_close: the shell dismisses the dialog. *)
Dismiss(p) ==
  /\ Usable(p)
  /\ closed' = closed \cup {p}
  /\ dismissing' = IF Finished(p) THEN dismissing ELSE dismissing \cup {p}
  /\ CoreUnchanged /\ UNCHANGED <<replies, system, gcr, round, refused, final>>

(* settle_dismissal. *)
SettleDismissal(p) ==
  /\ p \in dismissing
  /\ dismissing' = dismissing \ {p}
  /\ Sent(p, <<"cancel">>)
  /\ CoreUnchanged /\ UNCHANGED <<system, gcr, round, refused, final, closed>>

(* The core, which gives the dialog's view its flags when it is shown. *)
SystemCore ==
  /\ CoreNext
  /\ final' = IF flags = "final" THEN final \cup {p \in Prompt : inter[p] = "none" /\ inter'[p] = "shown"}
              ELSE final
  /\ UNCHANGED <<system, gcr, round, refused, closed, dismissing>>

SystemNext ==
  \/ ~system /\ Next /\ UNCHANGED systemVars
  \/ system /\ SystemCore
  \/ system /\ SystemDeliver
  \/ \E p \in Prompt : Opened(p) \/ RoundDone(p) \/ Dismiss(p) \/ SettleDismissal(p)

(* To the fairness of PinPrompt it adds that the messages to the           *)
(* coordinator and the idle sources of the UI loop are dispatched.         *)
(* Nothing is assumed of the user, of the prompter or of the UI's queue.   *)
SystemSpec ==
  /\ SystemInit /\ [][SystemNext]_<<vars, systemVars>>
  /\ WF_vars(system /\ HandleReplies)
  /\ \A p \in Prompt : /\ WF_vars(OnCancelledIdle(p))
                       /\ WF_vars(Work(p))
                       /\ WF_<<vars, systemVars>>(SettleDismissal(p))

-----------------------------------------------------------------------------
SystemTypeOK ==
  /\ TypeOK
  /\ system \in BOOLEAN
  /\ gcr \in [Prompt -> {"none", "opening", "open", "released"}]
  /\ round \in [Prompt -> {"none", "password", "confirm", "notice"}]
  /\ refused \subseteq Prompt /\ final \subseteq Prompt
  /\ closed \subseteq Prompt /\ dismissing \subseteq Prompt

(* gcr is never asked for a round while another is pending: the callback   *)
(* would never come, and the handle that it holds keeps the backend from   *)
(* shutting down.                                                          *)
OneRoundAtATime == refused = {}

(* A dialog that the shell dismisses ends its prompt, or its outcome once  *)
(* C_Login returns, whatever the prompter does with the pending round.     *)
(* Both sides are stable, so that this is \A p : ... ~> ....               *)
DismissedPromptEnds ==
  []<>(\A p \in Prompt : p \in closed => outcome[p] # None \/ deferred[p] # None)
=============================================================================
