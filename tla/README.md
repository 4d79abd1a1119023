# A TLA+ model of the certificate portal's backend

The repository implements an XDG desktop portal for certificates: a backend
(`src/src`, program `xdg-desktop-portal-certificate`) that lets a sandboxed
application sign with a certificate on a smart card the user chooses, and a
PKCS#11 module (`src/src/module`) through which ordinary applications reach the
portal. This directory models the parts of it that are hard to test, checks
them with TLC and proves the most important results with TLAPS.

All source paths below are relative to the repository's `src/` directory.

## The system

| Part | State | Operations | Concurrency |
| --- | --- | --- | --- |
| `core/context.c` | queue of posted functions, requests, sessions, owner generation, shutdown | post, validate, complete, cancel, generation, shutdown | one coordinator thread; callers on any thread; results delivered on the desktop thread |
| `core/session.c` | open or closed, grant, grant pending, deadline, device | new, grant, close, invalidate, expire, release | coordinator; broker workers read it under its locks |
| `core/acquire.c` | enumeration task, chooser, pending consent, `enumerate_again` | start, enumeration result, chooser result, token event, rollback | coordinator, one worker per enumeration |
| `core/chooser.c`, `core/ui.c` | revision, candidates, `reading` | show, update, choose, cancel, fail | views go to the desktop thread, replies come back later |
| `core/sign.c`, `broker/operations.c`, `broker/device.c` | login in progress, waiters, login generation, device session | open, log in, sign, release | a worker per operation, two locks per session, one login shared by its waiters |
| `core/pin.c` | active prompt, queue, attempts, deferred cancellation | start, submit, login result, timeout, cancel | one prompt at a time in the process, a worker per login |
| `tokens/discovery.c` | present tokens, queued events | enumerate, watch, dispatch, stop | a watcher thread with a debounce |
| `tokens/filter.c`, `broker/mechanism.c` | none | match certificates, check mechanisms | pure |
| `certificate-impl.c`, `request-impl.c`, `session-impl.c` | frontend owner, transactions, exported objects | CreateSession, AcquireCredential, Sign, Close, owner changes | D-Bus main loop beside the coordinator |
| `module/portal.c` | subscriptions, requests, drain | request, response, timeout, owner change, close | a client thread under PKCS#11 calls |
| `module/module.c`, `module/objects.c` | sessions, searches, shared grant | C_* functions | any number of application threads |
| `ui/legacy-bridge.c`, `ui/legacy-helpers.c` | the PIN dialog's handle, busy flag | show, ask, busy, warn, hide, close; ready, submit, confirm, cancel | desktop thread, behind two queues |
| `ui/pin-system.c` | the prompter's dialog, its pending round, dismissal | open, ask, confirm, dismiss, release | asynchronous calls to the prompter, an idle source |
| other `ui/*`, `main.c`, `redact.c`, `core/identity.c`, `tokens/pkcs11-util.c` | widgets, logs, text | | not modelled: toolkit, formatting and single calls of libraries |

How they interact: the D-Bus objects call the core's asynchronous functions
(`xcc_acquire_async`, `xcc_sign_async`, `xcc_request_cancel`,
`xcc_session_close`), which post to the coordinator.  The coordinator starts
workers (GTask threads) that report back to it, shows choosers and PIN prompts
by posting views to the desktop thread, and posts every result there, where the
caller's callback runs.  The watcher thread queues token events that the
coordinator drains, also in the middle of other callbacks.

What makes each part correct:

* **Requests** are answered exactly once, a cancelled one is always answered,
  and a success is decided only on a live session of the current frontend.
* **Grants** belong to one acquisition at a time; one that is not reported as a
  success is taken back, and no signature uses it in between; a grant on a
  removed token ends.
* **Shutdown** waits for everything that could still produce a result.
* **Shared login**: one login at a time, waiters neither lost nor answered with
  someone else's cancellation, a login that landed after a cancellation is undone.
* **PIN prompts**: one on screen, none forgotten, no PIN used after its prompt ended.
* **Watcher**: the reported events reconstruct the tokens present, and a token
  exchanged for another is reported gone first.
* **D-Bus interface**: what the adapter keeps belongs to the frontend that owns
  the name; a frontend that lost it gets no success and leaves no request
  running; shutdown returns with every accepted call answered.
* **Portal client and module**: a request is closed exactly when nobody waits
  for it, an old owner's replies are ignored, concurrent searches share one
  acquisition and see its result.

## Modules

| Module | Models |
| --- | --- |
| `Core` | `core/context.c`, `session.c`, `acquire.c`, `chooser.c`, `sign.c`, the reply side of `ui.c`, the event queue of `tokens/discovery.c`, the guards and the outcome of `broker/operations.c` |
| `GrantLifecycle` | the abstract promise of the core: sessions live and end, one acquisition holds a grant, answers are final |
| `MCCore` | instances of `Core` for TLC |
| `Core_proofs` | theorems about `Core` |
| `SharedLogin` | `broker/operations.c`, `broker/device.c`, the device release of `core/session.c` and one prompt of `core/pin.c`: the operations of one granted session |
| `MCSharedLogin` | instances of `SharedLogin` for TLC |
| `SharedLogin_proofs` | theorems about `SharedLogin` |
| `PinPrompt` | `core/pin.c`, the PIN half of `core/ui.c`, `ui/legacy-bridge.c`: all the PIN prompts of the process and what the user sees of them |
| `SystemPin` | `ui/pin-system.c`, composed with `PinPrompt`: the system prompter's dialog in the place of a dialog that may send anything |
| `PinPrompt_proofs` | theorems about `PinPrompt` and `SystemPin` |
| `MCPinPrompt` | an instance of `SystemPin`, and so of `PinPrompt`, for TLC |
| `TokenWatch` | the watcher of `tokens/discovery.c`: the polling thread, its debounce, the event queue and its wakeup |
| `TokenWatch_proofs` | theorems about `TokenWatch` |
| `MCTokenWatch` | an instance of `TokenWatch` for TLC |
| `ImplOwner` | `certificate-impl.c`, `request-impl.c`, `session-impl.c`: the frontend's owner, sessions, transactions and shutdown, with the coordinator behind two queues |
| `ImplOwner_proofs` | theorems about `ImplOwner` |
| `MCImplOwner` | instances of `ImplOwner` for TLC |
| `PortalRequest` | `module/portal.c`: the portal client's thread, its callers and `C_Finalize`, against a portal that may restart, refuse, answer late or elsewhere |
| `PortalRequest_proofs` | theorems about `PortalRequest` |
| `MCPortalRequest` | instances of `PortalRequest` for TLC |
| `ModuleGrant` | `module/module.c`: sessions, the shared grant, searches, signatures, decryptions, initialisation and finalization by any number of threads |
| `ModuleGrant_proofs` | theorems about `ModuleGrant` |
| `MCModuleGrant` | instances of `ModuleGrant` for TLC |
| `KeyOperation` | `broker/mechanism.c`, `module/mechanism.c`, the buffering of `module/module.c`, the lengths of `module/der.c`: what one PKCS#11 session sends for a signature or a decryption, and whether the broker takes it |
| `KeyOperation_proofs` | theorems about `KeyOperation` |
| `MCKeyOperation` | an instance of `KeyOperation` for TLC |

### Core

**Threads.** The coordinator runs one callback at a time; a callback is one
action (`StartAcquire`, `EnumerationDone`, `HandleReply`, `RunCancel`,
`RunGeneration`, ...).  The one exception is
`certificate_tokens_dispatch_pending`, which some callbacks call before they
decide: it handles the queued events and the decision follows, and in between
the other threads go on changing what atomics and flags the decision reads.
`drain` holds the callback in progress (`watch`, `consent` or `snapshot`), the
request it works for, and the number of events it has detached; `DispatchEvent`
handles one, and the decision (`SnapshotEnds`, `SnapshotShown`, `Commit`, ...)
is an action enabled when none is left.

**Posts.** A function given to `xcc_context_post` is a pending flag on what it
will run on (`phase = "posted"`, `ask`, `closing`, `reply`, `generation #
ownerGen`, `phase = "rollback"` or `"told"`).  Each runs once and the order is
free, which includes the FIFO order of the main loop.

**Requests.** `phase` follows `XccRequest`: `posted`, `active` (validated and
working), `answered` (`xcc_request_complete` has run and `completion` is posted
to the desktop), `reading` (`completion` has read the cancel intent and is about
to call back), `rollback` (it went back to the coordinator because a cancelled
acquisition holds a grant), `told`, `gone` (acknowledged and freed) and
`detached` (submitted after the shutdown was posted: the result is delivered
with no coordinator).  `intent` is the atomic `cancel_intent`, `code` is
`cancelled_code`, `cancelled` the GCancellable.  `Settings`, from which `Init`
chooses, says which requests are malformed or silent and whether there is a
display.

**Grants.** `grant` is the session's candidate, `pending` is `grant_pending`,
`cand` the candidate an acquisition hands over.

**Tokens.** A `Presence` is one insertion of a token: `card` is where the token
is, `seen` what the watcher has reported, `events` its queue, and `TokenOf` and
`Serialless` the identity `certificate_token_same` compares.  `gone` is a history
variable: the presences whose removal the coordinator has handled.

**Abstracted.** Which certificates match is the constant `Matching`; a chooser's
revision is `fresh` (whether the pending reply still carries the current
revision); display text, logging, parent windows, the caller's identity and
the principal's name are left out.  PKCS#11 reads of an enumeration either
return what is inserted at one moment or fail.

### GrantLifecycle

Three variables: the life of each session, the holder of its grant and the
answer to each request.  `Core` implements it through a refinement mapping
(`Lifecycle` in `Core`): the holder is the acquisition whose candidate is
committed, and a request counts as answered from the moment `completion` reads
its intent.  The abstract module says what callers may rely on: a success is
decided only on a live session, a refused acquisition holds nothing, and a
signature succeeds only under a grant whose acquisition was told of it.

### SharedLogin

`Core` takes a signature's work on the token as one step of its worker;
`SharedLogin` opens that step for one session with a grant.  `stage` is where an
operation is: `opening` (`open_thread` runs), `opened` (`on_opened` is queued),
`waiting` (in `login_waiters`), `running` (`sign_thread`), `authenticating`,
`asked` and `resuming` (`authenticate_context` waits for its own PIN dialog with
the operation lock held and the device lock released), `signing` (in the token,
with both locks), `signed` (`on_signed` is queued), `done`.  `result` is what the
worker returned, `answer` what the operation told its caller, before the core
translates it (a cancellation that a removal or a close caused gets its code in
`Core`).

The shared login is `busy` (`login_in_progress`), its waiters, those that joined
while it was being cancelled (`retryLogin`), the queued `waiter_cancelled_idle`s
(`idle`) and its cancellable.  `stale` is the set of operations whose
`open_login_generation` is old.  `early` is a history variable.  The prompt goes
`queued`, `refreshing`, `asking`, `working`; `deferred` is its deferred outcome,
`attempt` what the login worker returned.  The device has two locks; the device
lock is held by name over `C_Login` and `C_Sign`, so that everything else
interleaves with calls that cannot be interrupted.  `tokenIn` is the login state
that the token shares among all sessions of the process: closing the last one
logs out, and `others`, chosen from `Others` at the start, says that other grants' sessions keep it.

Coordinator callbacks, among them the whole of `finish_login` with the
invalidation it may cause, are single actions.

### PinPrompt

`SharedLogin` has one prompt as its login sees it; `PinPrompt` has the process's
queue of them.  `active` and `queue` are `pin_active` and `pin_queue`.  `stage` says
how far a prompt is: its flags are being read again (`refresh`), its dialog takes
input (`open`), `C_Login` runs (`login`).  `InFlight` is the condition under which
`certificate_pin_prompt_answer` only notes the outcome (`deferred`) and hides the
dialog.  `Finish` is the rest of that function up to the start of the next prompt,
which a cancelled prompt at the head of the queue passes on.

The bridge is two queues, `uiq` to the desktop and `replies` back, and the dialog
`view`.  A reply is handled on the coordinator in whatever state the prompt is by
then; `Hears` collects the conditions under which it is not ignored.  Cancellation
and the login timeout are sources of the coordinator (`idle`, `timer`), which
`Finish` removes.  The card (`tries`), the user and the cancelling caller
are external; the user may send any reply that the bridge lets through (`MaySend`).

`flags` is what the process has cached of the card.  `RefreshFlags` is
`certificate_tokens_refresh_flags`, which is best effort: if the slots cannot be listed,
the token's info cannot be read or no slot shows the token, it returns with the cached
flags as they were (`tokens/discovery.c:1106`), and the prompt goes on with them, before
its first attempt (`RefreshThread`) as after a refused PIN (`LoginThread`).  The code keeps
no record of such a miss; the history variable `read` does, and only
`LastTryIsConfirmed` looks at it.  A card that is read tells the truth: a token may also
report the flags as false whatever its state (`docs/SOURCES.md:128`), which is another
way to the same miss.

All prompts are about one card, the case where one prompt's attempts concern the
other.  `MaxMail` bounds what the user sends before the messages are handled.

### SystemPin

`PinPrompt` leaves the dialog free to send any reply; `SystemPin` has the provider that
asks GNOME's system prompter.  `gcr` and `round` are the dialog and the round that the
prompter has not completed; `closed` and `dismissing` are `closed` and `dismiss_idle`.
`SystemDeliver` is what the provider makes of a message, `Opened`, `RoundDone` and
`Dismiss` are the prompter's callbacks, which come when they like, if at all, and also
after the prompt is over.  `Sent` is `legacy-helpers.c`: nothing is sent for a finished
prompt.  A run chooses the dialog at the start (`system`), so everything checked of
`PinPrompt` is checked with both.

`refused` notes a round that was asked for during another.  That this does not happen
on a protected path rests on `final`: the flags that the dialog saw when it was shown
are those on which the core decides, after the dialog is ready, to ask for a
confirmation.

### TokenWatch

`reader` is what the slots hold and changes at any time (`Swap`, external).  A
`Token` is what `certificate_token_same_presence` tells apart: a card with a serial
number wherever it is, one without in its slot.  `Poll` is one round of
`watch_thread` up to its emissions: entries for new tokens, one count each, the
entries that reach `Debounce`, and those dropped.  The two loops that emit are
`EmitRemoval` and `EmitAddition`, one event at a time under the lock, so that the
coordinator may drain the queue between any two.  `watch_dispatch` forgets the
source before it detaches the queue (`WatchDispatch`, `DispatchPending`), and an
acquisition may detach it without a source.  `view` is what a receiver of the
events believes to be present, `together` a history variable: the pairs of tokens
that one listing showed.

### ImplOwner

The desktop's main thread runs one handler at a time.  A handler that waits for
the coordinator (`xcc_session_new`, `xcc_session_check_principal`) or whose post
may find the queue closed since its first check is split there, and `main` says
where it stands: nothing else runs on the thread meanwhile, but the coordinator
does, and the owner may change on the bus.  `BeginTransaction` is
`begin_transaction` with its lookup of the session; `BeginAcquire` and
`BeginKeyOperation` are the handlers that call it.  `posts` is the coordinator's
queue and `deliver` the main thread's; what one loop over sessions or requests
posts is one entry.  `batch` is the number of callbacks an iteration of the main
loop has collected: they run before new ones.

The bus (`bus`, `watch`) is external: each change of the owner queues a
notification, with the name vanished in between when one owner replaces another.
A lookup of the owner (`GetNameOwner`, a blocking call) sees the bus ahead of the
notifications, or fails when `LookupMayFail`.  What a request does once its start
has run is `Core`'s matter: here `Decide` ends it with a success that the core
still allows, or an error.

### PortalRequest

A caller goes through `portal_client_acquire` (`probing`, `probed`, `admitted`,
`creating`, `acquiring`), holds a grant, may sign once and releases it.  Each of
its three requests is a `PortalRequest` (`req`): posted to the client's thread,
live, done, with the owner it was sent to, the path the portal returned and the
path that was closed.  `calls` are the requests with a method callback
outstanding, `loop` the client's thread: `draining` and `aborting` are the two
grace periods of `drain_expired`, `stopping` and `forced` the two ways to the
queued `stop_loop`, `stopped` and `killed` where they lead.

The environment is external: `epoch` counts changes of the bus name's owner (odd
numbers have one) and `view` is the client's `owner_generation`, which follows.
The frontend exports a request at the predicted path or at another, answers with
a Response that is lost if nobody is subscribed to its path when it arrives, and
obeys `Close`.  A call reaches it before a Close that was sent later; nothing else
is ordered.  A frontend that loses its name exits, and with it its sessions.

Left out: the options of a request, results that lack a field the interface
requires (except the certificate, which the client checks with a grant in hand).
A `CreateSession` whose Response is lost leaves a session without a grant at the
portal until the process disconnects; nothing promises otherwise, and
`NoOrphanGrant` is about grants.

### ModuleGrant

The same process one level up: `portal_client_acquire` and `portal_client_sign`
are single steps, and `gone` says which grants the client knows to have ended.
`lock` is `module_lock` where it is kept over several steps: a signature or a
decryption holds it during the portal's answer, a search between `ensure_grant` and its last lookup;
the client's thread may end the grant meanwhile.  A thread that passed
`MODULE_CHECK` is `entered` and does not have the lock yet.  `call` holds what a
search saved before it gave up the lock.  `sign` and `decrypt` are the grants that
were current at `C_SignInit` and `C_DecryptInit`, `finding` the serial number of the session that a search was begun
in, `found` the generations of the object handles that searches found, with the
grants they were found under; the application may use these for ever.  (The code's
generations wrap at 2^28, the model's do not.)  The clients of different initialisations are numbered by `lifecycle`.

Calls that only read, or are refused before they change anything, are `Refuse`;
a call that finds the grant ended is `ObserveEnd`.  Left out: the login flag and
the slot event counter, which no other state depends on.

### KeyOperation

`ModuleGrant` takes a signature's data as given; `KeyOperation` follows it from the
application to the broker's verdict, for one granted key and one PKCS#11 session.
`sign` is what `sign_setup` stores, with the length of `sign_buffer`; `wire` is the
last request that `portal_client_sign` or `portal_client_decrypt` sent, and
`Accepted` what `certificate_mechanism_parse` and `certificate_mechanism_prepare`
say of it.  Bytes are lengths: `HashesFor` gives the hashes that a buffer of some
length may turn out to name, from its DigestInfo, its length or the mechanism.
`Word` is the number of values of `guint` and `guint32`, in which the broker computes
`em_length` and the module narrows the salt's length.  `DerLength` and
`ReadDerLength` are the lengths that `certificate_ecdsa_raw_to_der` writes and
`portal_der_read` takes.

## Runs

`tlc -workers 2 -config <cfg> <module>` in this directory.

| Run | Instance | Shows |
| --- | --- | --- |
| `core_tokens` | one acquisition, a token taken out and put back, a token without a serial, one change of owner | no consent outlives the removal of its token; an acquisition always has something that will answer it; no success is decided on a dead session |
| `core_grants` | two acquisitions and a signature of one session, both acquisitions cancellable | ownership of pending grants, and refinement of `GrantLifecycle` |
| `core_shutdown` | an acquisition and a signature, shutdown; attended, without a display, or with a silent acquisition and a malformed signature; fair threads | nothing is left behind and no success comes after the notice; cancelled requests and requests that no user can answer are answered, and the shutdown ends |
| `login_session` | two operations, keys with and without `CKA_ALWAYS_AUTHENTICATE`, other grants on the token or none, cancellation, expiry, close, removal, a token that loses its login; fair callbacks and threads | a closed session leaves no device session open, a cancelled login is undone and takes no newcomer with it, every waiter has a login that will end, nobody starts on the token during a login, the token signs on the session the operation was initialised on; a cancelled waiter is answered although `C_Login` hangs; a close ends everything if the driver returns |
| `login_removed` | three operations on a key that always asks | **violated**: see Findings |
| `pin_prompt` | a typed prompt and one on a protected path, any dialog or the system prompter's, two tries, cancellation, timeout, replies that cross with updates; fair sources and workers | one prompt at a time works with the card and none waits behind nobody; one dialog at a time however late its messages are; the last try on a protected path is confirmed if the refresh of its flags read the card; a cancelled prompt is answered, also a queued one; the system prompter is asked for one round at a time, and a dialog that the shell dismisses ends its prompt |
| `token_watch` | two readers, a card with a serial number and a kind of card without, four changes, a threshold of two; fair threads | exchanged cards are reported in turn, no event is left without a wakeup, the events settle on what the readers hold |
| `impl_owner` | two frontends, one session, one call, a change of owner, shutdown; fair threads | the table and the exported sessions belong to the known owner, a stale cache has its correction on the way, shutdown leaves no accepted call unanswered; no success for a call whose caller's ownership ended; a call of a lost frontend is answered |
| `portal_requests` | one caller, a restart of the portal, both export paths, finalization; fair client thread and callers | abandoned requests are closed where they are, no grant without a holder, session handles and availability stay with their owner, the loop stops owing nothing; `C_Finalize` ends with a portal that never answers and without the request timeout |
| `module_grant` | three threads, two initialisations, two sessions, two grants | grants are held or closed, operations use their own grant and old handles name nothing new |
| `module_finalize` | two threads, one initialisation | **violated**: see Findings |
| `key_operation` | keys of 256, 2047 and 2048 bits | **violated**: see Findings |

Bounds, all constants of the module: `Movable` (presences people may insert or
remove, each once), `Cancellable`, `MaxGeneration` (owner changes),
`MayShutDown`, and one cancellation per request.  One session suffices because
sessions meet only in the lists that every end of a session walks, and each
action treats the entries of a list alike; the proofs hold for any number of
sessions.  Two acquisitions are the smallest number that compete for a grant.
Two insertions of one token are what it takes to leave and come back; a third
presence without a serial number exercises the refusal of such tokens.

The bounds of `SharedLogin`: `Cancellable`, and `Resettable` (the token loses its
login at most once); every operation opens at most twice after a failed start
(`retried_open`, a bound of the code).  Two operations suffice for the device: one
holds it while the other finds it changed.  For the waiters, one is cancelled with
the login and the other joins after it; a run with a third that leaves before, and
none of the liveness, was checked as well.  `login_removed` uses symmetry over
operations.

In `pin_prompt`, two prompts are one that works and one that waits; `Tries` and
`MaxAttempts` of two reach a refused PIN, the last try and a locked card; two
messages under way let a reply cross an update.  In `token_watch`, two readers and
a kind of card that each may hold are the case where cards cannot be told apart by
what they are; four changes take a card out, put another in and back.  In
`impl_owner`, one change of owner is a restart or a replacement; one session
suffices because calls meet only at it, and lookups are assumed to succeed: after
one failed lookup every caller is denied until the name changes again
(`certificate-impl.c:93`).  The safety properties were also checked with two sessions
on one path, the old one and its successor, and with lookups that fail (5.5 million
states), and they are proved for any number.  `core_grants` and `module_grant`
use symmetry over acquisitions and threads.

The bounds of `PortalRequest`: `MaxEpoch`; 3 gives an owner, its exit and a
successor, which is what a handle can be shown to wrongly.  One caller suffices:
requests share only the loop, which treats them alike, and the module lets one
thread at a time into the client anyway (two callers without a restart, 9.5
million states, were checked as well).  The bounds of `ModuleGrant`: `MaxLifecycle`
(2: handles are used again), `MaxSerial`, `MaxGrant` (2: a replacement), and
`MaxGeneration` for the counter that `C_Logout` and `C_CloseAllSessions` could
raise for ever.  Three threads: one that acquires, one that waits for it and one
that interferes.

Deadlock is not an error in these runs: users, callers and tokens have bounded
lives, and after its shutdown the program stops.

**Fairness.** `FairSpec` is weakly fair in the coordinator, the desktop thread
and the workers, each as a whole: main loops dispatch what is ready and worker
threads return.  (PKCS#11 calls that never return are outside the program's
control, as its documentation says of a hung token driver.)  Nothing is assumed
of users, callers or tokens: in `Core` a chooser nobody answers stays open, which is why
the liveness properties start from a cancellation, a shutdown or the absence
of a display.  A signature's worker, one step there, may in fact wait for a PIN
dialog or a login; that it comes back once its request is cancelled or its session
closed is what `SharedLogin` and `PinPrompt` show.

In `SharedLogin` the fairness is finer.  Callbacks of each operation and of the
login, and worker threads between calls into the driver, are weakly fair; the
driver (`C_Login`, `C_Sign`, reading the token's flags) is not, except where
`OperationsAreAnswered` assumes it in its statement.  Without that assumption
a session whose `C_Login` hangs keeps its workers, as `docs/SECURITY.md` says;
only cancelled waiters are promised an answer.

In `PortalRequest` the client's thread, its drain timer and callers that were
woken are weakly fair; the portal, the method timeout and the five-minute request
timeout are not, so `FinalizeEnds` shows that the cancellation alone suffices.

In `PinPrompt` the sources of the coordinator and the workers are weakly fair, each
prompt's for itself; the user and the queues to and from the dialog are not, so a
cancelled prompt is answered whatever becomes of the dialog of the prompt before
it.  Its two liveness properties are written `[]<>(\A p : A(p) => B(p))` and not
`\A p : A(p) ~> B(p)`: what makes `A` true of a prompt is never undone and neither is
`B`, so that the two say the same, and TLC has one graph to search instead of one for each
prompt.  `SystemPin` adds the handling of replies and the dismissal's idle source; that the
prompter completes a round, or opens a dialog, is not assumed.  In `TokenWatch` the polling thread and the dispatch of an attached source are
weakly fair; that an acquisition drains the queue is not assumed.  In `ImplOwner`
the handlers that wait and the coordinator are weakly fair, notifications and
callbacks strongly: an iteration of the main loop runs every source that is ready,
and calls that keep coming would otherwise disable them again and again.  That the
core ends a cancelled request is assumed there and shown in `core_shutdown`.

## Findings

`module_finalize` refutes `FreedTableUntouched`.  `MODULE_CHECK` reads
`module_initialized` before the lock is taken.  A thread in
`C_CloseAllSessions` that waits for the lock while another runs `C_Finalize` goes
on when the session table is gone: `session_lookup` tests for that, `drop_objects`
does not, and `g_hash_table_iter_next` reads an iterator that
`g_hash_table_iter_init(NULL)` never initialised (`module/module.c:183`).  A second
`C_Finalize` that waited for an acquisition gets there as well.
`docs/decisions/0011-client-side-pkcs11-module.md:111` expects that "`C_Finalize`
may be called while another thread is in a call", and the comment on
`module_finalizing` says that "Finalization blocks new work before releasing the
lock."  Searches and new sessions are indeed blocked or refused.

`login_removed` refutes `TokenRemovedMeansRemoval`.  `authenticate_context` takes
any change of the device handle for a removal of the token
(`broker/operations.c:243` and `:324`), but a login that another operation's user
dismissed also closes the device session (`on_pin_done`).  The operation then
reports a removed token and the grant is invalidated with `token_removed` while
the token is present.  `docs/IMPL-INTERFACE.md:122` reserves that reason for
"Detected removal or replacement, or token loss reported while opening, logging
in or signing".  It takes three operations at once on a key that always asks for
its PIN (two, if the token loses its login by itself), and fails safe: the grant
ends and the application has to acquire again.

`key_operation` refutes `OaepTakesOneModulus`.  `expected_input` of RSA-OAEP is
`key_size / 8` (`broker/mechanism.c:317`), rounded down; of a modulus of 2047 bits,
which fills 256 bytes, the broker asks for a ciphertext of 255 and refuses the right
one.  `docs/SECURITY.md:60` says that "OAEP ciphertext is exactly one modulus long",
as does the comment above the test.  Such keys cannot decrypt; the usual sizes are
not affected, and no D-Bus method exposes decryption yet.  (The same rounding in the
tests of room for the padding only refuses more than it must, as
`AcceptedAlwaysFits` shows.)

Noted while modelling, without a run.  `docs/SECURITY.md:48` says that "Retry flags are
reread before every PIN prompt and after successful or refused login", and line 49 that
with `FINAL_TRY` a "protected-path login requires one Continue".  A refresh that cannot
read the token is silent, and what was cached is taken for what was read.  Without the
condition `read`, TLC refutes `LastTryIsConfirmed` from a card whose flags were cached
correctly: a prompt finds two attempts left, its `C_Login` fails with one spent (only
an accepted or a refused PIN leads to a refresh), and the refresh of the next prompt, on
the protected path, cannot read the token; its login starts the reader at once, with the
one attempt that is left.  `docs/ARCHITECTURE.md:151` says that stale
PIN submissions are destroyed; a submission that the user typed before the dialog
saw an update carries nothing that tells it from a fresh one, and the coordinator
accepts it if it arrives when the next attempt is open (`PinPrompt` allows it; the
PIN goes to the same prompt of the same card).  `docs/IMPL-INTERFACE.md:128` says
that a new frontend closes old sessions without an invalidation signal; one that
was queued before is still emitted if a transaction keeps its session alive
(`ImplOwner`'s `CoreInvalidated`).

## Proofs

`tlapm <module>_proofs.tla` checks each of the eight proof modules.  Every theorem
holds for all values of the constants that satisfy the module's `ASSUME` (of
`KeyOperation`, the hypothesis `Parameters`).

**`Core_proofs`.**  From `CoreAssumption` (the request sets are disjoint,
`SessionOf` is a function to sessions, the special values are different):

* `TypeCorrect`: `TypeOK`, action by action, each split into the request part
  and the rest so that every leaf sees few definitions.
* `GrantInvariant`: the inductive invariant `GrantInv`.
* From it: `RollbackIsSafe` (the assertion in `xcc_acquire_rollback`),
  `PendingGrantOwned`, `UsableGrantReported`, `SignatureGrantReported`.

None of those four is inductive.  `RollbackFindsPendingGrant`, say, is
broken by a second acquisition of the same session that commits while the first
rolls back, so it needs that a session with a grant has no working acquisition
(`UseInv`); this needs that the grant is cleared only by the one request that
holds it and only before it is reported (`HolderInv`); and both need that
workers, choosers and decisions belong to unanswered acquisitions
(`AcquisitionInv`).  The three lemmas `AcquisitionStep`, `HolderStep` and
`UseStep` show that a step from `GrantInv` preserves each part.

The rest of the core's properties follow from `CoreInvariant`, the inductive
`CoreInv` (with `TypeOK` and `GrantInv`), whose parts are:

* `DrainInv` and `AcquisitionContinues`: `AcquisitionIsNeverForgotten`.  The
  property is nearly inductive; what it lacks is that an idle coordinator is in
  the midst of no request's callback.
* `TokenTrackInv`, `ConsentInv`, `RemovedGrantInv`: `RemovalEndsGrants`.  A removal
  meets an acquisition anywhere between its enumeration and its commit, so the
  invariant follows the token: a set of candidates with a removed token is going to
  be enumerated again, unless consent was given and settled; a chooser offers no
  removed token; a consent to one is cancelled, unless the token has no serial number,
  in which case `commit_consented` refuses it.
* `ShutdownInv`: `ShutdownIsComplete`.
* `LiveInv`: `NoticeEndsSuccess` and `SuccessIsDecidedLive`.  `completion` tests
  only the request's intent, never the session; this is enough because every end of
  a session marks the session's unanswered requests, and those answered with a
  success that is not decided yet.
* `AnswerInv`: an answer of success has its grant.

`GrantLifecycleIsImplemented` is the refinement of `GrantLifecycle`.  `QuietStep`
shows that all but four actions at most end sessions; `LifecycleStep` maps
`CreateSession` to `OpenSession`, `Commit` to `Take`, `Rollback` to `GiveBack` and
`ReadIntent` to `Succeed`, `Refuse` or a stutter, and needs `LiveInv` and `AnswerInv`
for `Succeed`.  The mapping chooses a session's holder with `CHOOSE`, so
`HolderIsKnown` first shows that there is at most one.

**`ModuleGrant_proofs`.**  From `ModuleGrantAssumption` (the bounds are natural
numbers): `TypeCorrect`, `Inductive` and what follows from it, the three safety
properties of the run `module_grant` (`NoGrantOrphaned`, `OperationsKeepTheirGrant`,
`OldHandlesNameNothingNew`) and three more (`ClientIsNotFreedInUse`,
`AcquisitionIsShared`, `SearchesStayInTheirSessions`).  Type correctness needs that
handles never run ahead of serial
numbers.  The others follow from `IInv`, whose parts are preserved one lemma
each: a finalized module is empty (or `C_Initialize` would take over the
operations of the last initialisation); a thread has the lock exactly where its
call keeps it, and an acquirer is alone (or `C_Finalize` could free the client
that a call is in); handles found by searches are of generations that will not
be given out again; and handles of sessions not yet given out are free.

**`TokenWatch_proofs`.**  From `WatchAssumption`: `TypeCorrect`, `NoWakeupLost` and
`ExchangeIsReportedInTurn`.  The last one is about what a receiver concludes from
events that were emitted long ago, so the invariant `WatchInv` speaks of the
whole queue: it brings in no card before it has taken out every card never seen with
it (`InTurn`); it takes out, after its last addition, every card that the thread
holds no longer (`TakenOut`), which is where a poll's removals must precede its
additions; and a card on its way in was listed with every present card that is not
as far on its way out (`EntriesSeen`), which is where removals and additions must be
debounced alike.

**`SharedLogin_proofs`.**  From `SharedLoginAssumption`: `LoginInvariant`, that `TypeOK`
and `LoginInv` hold together, because what a worker reports has its type only because
of the stage its operation is in (`ResultInv`).  `LoginInv` gives every safety property
of the run: `WaitersAlwaysServed` and `CancellationIsNotShared` from `ServedInv` (a login in
progress has its prompt or, after it, the release that undoes it, never both);
`NewWorkWaitsForLogin`; `SigningOnOwnSession` from `LockInv` (who holds the device lock
and the operation lock, stage by stage); and `ClosedSessionReleasesDevice` from `DeviceInv`
(a closed grant's device session is closed or its release is queued).
`GrantedLoginIsUndone` is an action property: it goes through the actions, and those
that end a login need `DeviceInv`, that no token is logged in without another grant
once the release is done.

**`PortalRequest_proofs`.**  From `PortalRequestAssumption` (`MaxEpoch` is positive, since
the portal may run when the client starts): `ClientInvariant`, that `TypeOK` and `ClientInv`
hold together; a late reply's path has its type because the request was exported
(`PathInv`).  `RequestInv`, that a request is sent to the owner its caller saw, gives
`RequestsStayWithOneOwner`.  `CallerInv`, that a caller waits for one request, each after
the success of the last, and `StopInv`, that the client is freed when all have returned,
give `ThreadStopsWithoutDebts`.  `CloseInv`, that a request given up on is closed at the
predicted path or where it is known to be, or the reply that tells is under way, gives
`AbandonedRequestsAreClosed`; it needs `PathInv`, what the client knows of a path.
`SessionInv`, about the portal's session and its owner, gives `GrantsHaveHolders`, where
the hard case is a caller that releases a grant the portal has already dropped.
`AvailabilityFollowsTheOwner` needs nothing else: an answer counts only if its generation
is the current one, and a change of owner forgets the last.

**`ImplOwner_proofs`.**  From `ImplAssumption`: `StaleOwnerIsAlwaysNoticed`, with
the invariant `NoticeInv` that the last notification on its way names the owner on
the bus; `TypeCorrect`; and `TableAlwaysBelongsToOwner`.  The third needs to know
what may happen while the main thread waits for the coordinator in `CreateSession`.
`OwnInv` says that the coordinator's queue has at most one question and that the
main thread waits for it (`QuestionInv`), that a `CreateSession` under way is under
the current generation, with its path free and its session not yet in the table
(`CreateInv`), that the shutdown's callback comes after the queue was closed
(`ShutdownInv`), and that the table is right (`TableInv`).

`NeverSuccessToFormerOwner` and `ShutdownAlwaysAnswersAll` follow a call from the bus
to the coordinator and back, and rest on three more invariants (`AdapterInv` is all
four).  `CarryInv`: a call is in one place at a time; it is posted exactly when the
coordinator's queue has its one "start", and decided exactly when the main thread's
has its one completion.  `CallInv`: a call that is under way and not marked is of a
session the owner keeps, or of one the coordinator has closed, which can no longer
succeed; so a success is decided only for the owner, and the change of owner marks
what is decided and not delivered.  `StopInv`: once the queue is closed nothing is
active at the coordinator, and the batch that the shutdown collects holds the
completion of every call that is left.

**`PinPrompt_proofs`.**  From `PinAssumption`: `TypeCorrect`, and that prompts take
turns with any dialog (`PromptsAlwaysTakeTurns`) and with the system prompter's
(`SystemPromptsTakeTurns`).  `PinInv` adds to the types that the queue holds waiting
prompts, each once (`QueueInv`), so that the end of a prompt starts one that was not
answered with it; that who is at work is active and a worker runs only where it is
awaited (`ActiveInv`); that a dialog can start a login only for a prompt that is at
work (`DialogInv`), however late its reply; and that a prompt that may log in again has
an attempt left (`AttemptInv`).  `FinishStep` is the heart, because every way a prompt
ends goes through it.  The steps of the prompter change nothing of the coordinator's
but its queue of replies, about which `PinInv` says no more than the type.

Two properties are proved with either dialog from `PromptInv`, which is `PinInv` with
two more invariants.  `FlagsInv` gives `LastTryAlwaysConfirmed` and
`SystemLastTryConfirmed`: if the refresh of a prompt's flags read the card, then they are
the card's until its last login, because who is at work is alone there, whatever earlier
prompts spent and failed to read; and a login that runs on a protected path while the
cached flags say that it is the last try was confirmed, read or not.  `MailInv` gives `AlwaysOnePinDialog` and
`SystemOnePinDialog`.  That one dialog is up says nothing of the messages that will
raise another, so the invariant (`Orderly`) is about the whole queue of the UI loop:
between two messages that raise the dialogs of two prompts there is the close of the
first, also where the first is up already; nothing follows a close; a prompt that is
over and has a dialog, or a message that raises it, has its close under way; and one
that is not over has none.  `Effects` sorts the steps of the coordinator by what they
do to a prompt and its dialog.

`AlwaysOneRound`, of the system prompter alone, needs `RoundInv`: a prompt waits for one
thing at a time.  Where a PIN is entered (`PasswordInv`), the pending round, the reply
with the PIN, the login and the message that asks again exclude each other, and each of
the messages is under way at most once.  On a protected path (`WarningInv`) the
warning of the last try is posted only when the dialog becomes ready, and a notice
was shown only if the flags were not those of a last try; both are decided by the
cached flags, which do not change while the dialog is open.  Nothing of it holds for a dialog that may send anything.

**`KeyOperation_proofs`.**  From `Parameters` (`Word` exceeds 1024 and the size of
every key): `RequestsAreAlwaysWellFormed`, that the module and the broker, which
each have their own tables, agree on what a signature request is: it follows from
what `sign_setup` lets pass (`SignFits`) and from how `sign_perform` finds the hash;
`SignsOnce`; `AcceptedAlwaysFits`, that the broker's tests of lengths are sound in
arithmetic that wraps; and `DerLengthsReadBack` and `IntegersAreShort` about DER.

Every safety property and action property that a passing run checks is stated by a
theorem.  Only model-checked: liveness, which needs fairness and `ENABLED` and is out of
reach of the prover (`RequestsAreAnswered`, `ShutdownCompletes`, `OperationsAreAnswered`,
`FinalizeEnds`, `LostFrontendIsAnswered`, `ViewSettles`, `CancelledPromptIsAnswered`,
`DismissedPromptEnds`); and that the properties of the runs that expect a violation
fail.

## Not modelled

* `tokens/filter.c` computes its verdict from a certificate's fields without state;
  in `Core` it is the constant `Matching`.
* Reading certificates and flags through PKCS#11, the D-Bus encoding of options and
  results, widgets, logs and identity strings: I/O and text.
* The order of two statements of one handler where nobody can see it:
  `close_internal` sets `closed` before the cancel intents of the session's requests, on the
  coordinator, and the model does both in one step.
* A Response that reports success without a `session_handle`: `portal_client_acquire` fails
  and there is no session that it could close.
* The wrap of counters that number sessions and objects of the module; they are
  unbounded in `ModuleGrant`, up to a bound of the run.
* RSA-OAEP decryption beyond the broker's checks, which no interface exposes yet;
  `KeyOperation` is about the lengths these checks compute.
* The capabilities query, the bounded wait for device
  releases at exit, `C_Login`'s flag and the slot event counter of the module.

## Plan

Done: `Core` with `GrantLifecycle`, `SharedLogin`, `PortalRequest`, `ModuleGrant`,
`ImplOwner`, `TokenWatch`, `PinPrompt` with `SystemPin`, `KeyOperation`, and the proofs
above.  Left: the certificate filter as operators against a reference definition.
