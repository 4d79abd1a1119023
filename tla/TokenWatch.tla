----------------------------- MODULE TokenWatch -----------------------------
(***************************************************************************)
(* The presence watcher of tokens/discovery.c: a polling thread that       *)
(* debounces what the readers hold, a locked FIFO of presence events, and  *)
(* the coordinator that dispatches them, from an idle source or at once    *)
(* when an acquisition is about to be accepted.                            *)
(*                                                                         *)
(* The thread's array of WatchToken entries is the set watched with two    *)
(* functions, present and stable.  Between two polls the cards in the      *)
(* readers may change in any way: a card missed by one listing is a card   *)
(* taken out and put back.  The order of entries inside the array is left  *)
(* open, so removals of one poll are emitted in any order, and so are the  *)
(* additions after them.                                                   *)
(***************************************************************************)
EXTENDS Naturals, Sequences, FiniteSets

CONSTANTS
  Reader,     \* the slots of the loaded modules
  Card,       \* the cards a user has; identical cards without a serial are one
  Unnumbered, \* the cards that report no serial number
  Empty,      \* a reader without a card, and the place of a numbered card
  Debounce,   \* CERTIFICATE_WATCH_DEBOUNCE
  MaxSwaps    \* bound on the number of changes of the readers

ASSUME WatchAssumption ==
  /\ Unnumbered \subseteq Card
  /\ Empty \notin Card \cup Reader
  /\ Debounce \in Nat \ {0}
  /\ MaxSwaps \in Nat

VARIABLES
  reader,   \* what each slot holds
  swaps,    \* number of changes of the readers so far
  thread,   \* "none", "sleeping", "emitting" or "ended": watch_thread
  stop,     \* watch_stop
  watched,  \* the tokens that have a WatchToken entry
  present,  \* entry->present
  stable,   \* entry->stable
  gone,     \* removals this poll has still to emit
  came,     \* additions this poll has still to emit
  events,   \* the locked FIFO
  source,   \* event_source is attached
  receiver, \* watch_event is set
  loop,     \* "idle", "claimed" or "dispatching": where the coordinator stands
  pending,  \* the prefix detached by certificate_tokens_dispatch_pending
  view,     \* what the delivered events say is present
  together  \* history: pairs of tokens that one listing showed together

readerVars == <<reader, swaps>>
pollVars   == <<watched, present, stable, gone, came>>
queueVars  == <<events, source, receiver>>
loopVars   == <<loop, pending, view>>
vars == <<readerVars, thread, stop, pollVars, queueVars, loopVars, together>>

(* A numbered card is recognised wherever it is; a card without a serial   *)
(* number is recognised in its slot only (certificate_token_same_presence).*)
SamePresence(c, r) == [card |-> c, at |-> IF c \in Unnumbered THEN r ELSE Empty]

Token == [card : Card, at : Reader \cup {Empty}]

Event == [token : Token, added : BOOLEAN]

(* What certificate_tokens_list returns. *)
ListTokens == {SamePresence(reader[r], r) : r \in {x \in Reader : reader[x] # Empty}}

(* A numbered card is in one reader at a time. *)
Placeable(c, r) == c \in Unnumbered \/ \A x \in Reader \ {r} : reader[x] # c

Init ==
  /\ reader \in {f \in [Reader -> Card \cup {Empty}] :
                   \A r, x \in Reader : r # x /\ f[r] = f[x] => f[r] \in Unnumbered \cup {Empty}}
  /\ swaps = 0
  /\ thread = "none" /\ stop = FALSE
  /\ watched = {} /\ gone = {} /\ came = {}
  /\ present = [t \in Token |-> FALSE]
  /\ stable = [t \in Token |-> 0]
  /\ events = <<>> /\ source = FALSE /\ receiver = FALSE
  /\ loop = "idle" /\ pending = <<>> /\ view = {}
  /\ together = {}

-----------------------------------------------------------------------------
(* The user, the reader and its driver. *)
Swap(r, c) ==
  /\ swaps < MaxSwaps
  /\ reader[r] # c
  /\ c = Empty \/ Placeable(c, r)
  /\ reader' = [reader EXCEPT ![r] = c]
  /\ swaps' = swaps + 1
  /\ UNCHANGED <<thread, stop, pollVars, queueVars, loopVars, together>>

(* certificate_tokens_watch, and the first listing of the thread: what is  *)
(* there at the start is present without an event.                         *)
Watch ==
  /\ thread = "none"
  /\ thread' = "sleeping" /\ stop' = FALSE /\ receiver' = TRUE
  /\ watched' = ListTokens
  /\ present' = [t \in Token |-> t \in ListTokens]
  /\ view' = ListTokens
  /\ together' = together \cup (ListTokens \X ListTokens)
  /\ UNCHANGED <<readerVars, stable, gone, came, events, source, loop, pending>>

(* entry->stable after an observation. *)
Counted(now, t) ==
  IF t \notin watched \cup now \/ (t \in now) = present[t] THEN 0 ELSE stable[t] + 1

(* The entries whose state has been contradicted often enough. *)
Settled(count, was) == {t \in Token : present[t] = was /\ count[t] >= Debounce}

(* The mutation of Kept checked below: every absent entry is dropped, with *)
(* its count.                                                              *)
KeptPresent(held, now) == {t \in watched \cup now : held[t]}

(* The entries left after the second loop: an absent entry that this       *)
(* listing did not show is dropped.                                        *)
Kept(held, now) == {t \in watched \cup now : held[t] \/ t \in now}

(* One round of watch_thread's loop up to its emissions: entries for the   *)
(* new tokens, one count for each entry, then the entries that change and  *)
(* the absent ones that are dropped.                                       *)
Poll ==
  /\ thread = "sleeping" /\ ~stop
  /\ LET now   == ListTokens
         count == [t \in Token |-> Counted(now, t)]
         out   == Settled(count, TRUE)
         in    == Settled(count, FALSE)
         held  == [t \in Token |-> (present[t] /\ t \notin out) \/ t \in in]
     IN /\ gone' = out /\ came' = in
        /\ present' = held
        /\ watched' = Kept(held, now)
        /\ stable' = [t \in Token |-> IF t \in out \cup in \/ t \notin watched' THEN 0 ELSE count[t]]
        /\ together' = together \cup (now \X now)
  /\ thread' = "emitting"
  /\ UNCHANGED <<readerVars, stop, queueVars, loopVars>>

(* watch_emit: one event into the FIFO, and an idle source if none is      *)
(* attached, under event_lock.                                             *)
WatchEmit(t, added) ==
  /\ events' = Append(events, [token |-> t, added |-> added])
  /\ source' = TRUE

EmitRemoval ==
  /\ thread = "emitting"
  /\ \E t \in gone : WatchEmit(t, FALSE) /\ gone' = gone \ {t}
  /\ UNCHANGED <<readerVars, thread, stop, watched, present, stable, came, receiver, loopVars, together>>

(* The mutation of EmitAddition checked below: one loop emits both. *)
EmitAdditionEarly ==
  /\ thread = "emitting"
  /\ \E t \in came : WatchEmit(t, TRUE) /\ came' = came \ {t}
  /\ UNCHANGED <<readerVars, thread, stop, watched, present, stable, gone, receiver, loopVars, together>>

EmitAddition ==
  /\ thread = "emitting" /\ gone = {}
  /\ \E t \in came : WatchEmit(t, TRUE) /\ came' = came \ {t}
  /\ UNCHANGED <<readerVars, thread, stop, watched, present, stable, gone, receiver, loopVars, together>>

(* The two loops have ended: back to g_usleep, or out of the thread. *)
PollDone ==
  /\ thread = "emitting" /\ gone = {} /\ came = {}
  /\ thread' = "sleeping"
  /\ UNCHANGED <<readerVars, stop, pollVars, queueVars, loopVars, together>>

(* certificate_tokens_stop_watch sets the flag; the thread sees it before  *)
(* its next listing and is joined.                                         *)
StopWatch ==
  /\ thread \in {"sleeping", "emitting"} /\ ~stop
  /\ stop' = TRUE
  /\ UNCHANGED <<readerVars, thread, pollVars, queueVars, loopVars, together>>

ThreadEnds ==
  /\ thread = "sleeping" /\ stop
  /\ thread' = "ended"
  /\ UNCHANGED <<readerVars, stop, pollVars, queueVars, loopVars, together>>

-----------------------------------------------------------------------------
(* watch_dispatch starts: the source is forgotten before the FIFO is       *)
(* detached, so an event emitted in between attaches another one.          *)
WatchDispatch ==
  /\ loop = "idle" /\ source
  /\ source' = FALSE
  /\ loop' = "claimed"
  /\ UNCHANGED <<readerVars, thread, stop, pollVars, events, receiver, pending, view, together>>

(* certificate_tokens_dispatch_pending, called by watch_dispatch or by an  *)
(* acquisition that is about to be accepted: detach the FIFO.              *)
DispatchPending ==
  /\ loop = "claimed" \/ (loop = "idle" /\ receiver)
  /\ pending' = events
  /\ events' = <<>>
  /\ loop' = "dispatching"
  /\ UNCHANGED <<readerVars, thread, stop, pollVars, source, receiver, view, together>>

(* One event is handed to watch_event. *)
Deliver ==
  /\ loop = "dispatching" /\ pending # <<>>
  /\ LET e == Head(pending)
     IN view' = IF ~receiver THEN view
                ELSE IF e.added THEN view \cup {e.token}
                ELSE view \ {e.token}
  /\ pending' = Tail(pending)
  /\ UNCHANGED <<readerVars, thread, stop, pollVars, queueVars, loop, together>>

(* The mutation of Dispatched checked below: the source is forgotten when  *)
(* the dispatch ends, with the one an emission attached meanwhile.         *)
DispatchedForgets ==
  /\ loop = "dispatching" /\ pending = <<>>
  /\ loop' = "idle"
  /\ source' = FALSE
  /\ UNCHANGED <<readerVars, thread, stop, pollVars, events, receiver, pending, view, together>>

(* The detached prefix is exhausted. *)
Dispatched ==
  /\ loop = "dispatching" /\ pending = <<>>
  /\ loop' = "idle"
  /\ UNCHANGED <<readerVars, thread, stop, pollVars, queueVars, pending, view, together>>

(* certificate_tokens_clear_watch, after the thread was joined. *)
ClearWatch ==
  /\ thread = "ended" /\ loop = "idle" /\ receiver
  /\ receiver' = FALSE
  /\ events' = <<>>
  /\ source' = FALSE
  /\ UNCHANGED <<readerVars, thread, stop, pollVars, loopVars, together>>

WatchThread == Watch \/ Poll \/ EmitRemoval \/ EmitAddition \/ PollDone \/ ThreadEnds

Coordinator == WatchDispatch \/ DispatchPending \/ Deliver \/ Dispatched \/ ClearWatch

Next ==
  \/ \E r \in Reader, c \in Card \cup {Empty} : Swap(r, c)
  \/ Watch \/ Poll \/ EmitRemoval \/ EmitAddition \/ PollDone
  \/ StopWatch \/ ThreadEnds
  \/ WatchDispatch \/ DispatchPending \/ Deliver \/ Dispatched
  \/ ClearWatch

Spec == Init /\ [][Next]_vars

(* The thread is started and then runs; a poll's emissions do not block;   *)
(* an attached source is dispatched and the detached events are delivered. *)
(* That an acquisition drains the FIFO is not assumed.                     *)
FairSpec ==
  /\ Spec
  /\ WF_vars(WatchThread)
  /\ WF_vars(WatchDispatch) /\ WF_vars(loop = "claimed" /\ DispatchPending)
  /\ WF_vars(Deliver \/ Dispatched)

-----------------------------------------------------------------------------
TypeOK ==
  /\ reader \in [Reader -> Card \cup {Empty}] /\ swaps \in 0..MaxSwaps
  /\ thread \in {"none", "sleeping", "emitting", "ended"} /\ stop \in BOOLEAN
  /\ watched \subseteq Token /\ gone \subseteq Token /\ came \subseteq Token
  /\ present \in [Token -> BOOLEAN]
  /\ stable \in [Token -> 0..Debounce]
  /\ events \in Seq(Event) /\ pending \in Seq(Event)
  /\ source \in BOOLEAN /\ receiver \in BOOLEAN
  /\ loop \in {"idle", "claimed", "dispatching"}
  /\ view \subseteq Token /\ together \subseteq Token \X Token

(* The events delivered so far never show two cards together that no       *)
(* listing ever showed together: with removals and additions debounced     *)
(* alike, and the removals of a poll emitted first, a card exchanged for   *)
(* another in its reader is reported gone before the other one appears,    *)
(* whenever the coordinator drains the FIFO.                               *)
ShownTogetherWereSeenTogether ==
  \A t, u \in view : t # u => <<t, u>> \in together

(* No wakeup is lost between watch_emit and watch_dispatch: an event in    *)
(* the FIFO has a source that will dispatch it, or the coordinator is      *)
(* about to detach it.                                                     *)
QueuedEventHasSource == events # <<>> => source \/ loop = "claimed"

(* Once the readers stay as they are, what the events say becomes and      *)
(* stays what the readers hold, unless the watcher is stopped.             *)
ViewSettles == <>[](stop \/ view = ListTokens)
=============================================================================
