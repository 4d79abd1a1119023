----------------------------- MODULE ModuleGrant -----------------------------
(***************************************************************************)
(* The PKCS#11 module in its application's process (src/module/module.c):  *)
(* sessions, the one grant that all of them share, searches that acquire   *)
(* it, signatures under it, and C_Initialize and C_Finalize around them.   *)
(*                                                                         *)
(* Everything is under module_lock.  A search gives the lock up while the  *)
(* user chooses a certificate (ensure_grant) and while it waits for        *)
(* another search that does; a signature keeps it over the call.  The      *)
(* portal client's thread needs no lock, so that a grant may end at any    *)
(* step.  Session handles start again at 1 with every C_Initialize, serial *)
(* numbers never do.                                                       *)
(*                                                                         *)
(* portal_client_acquire, portal_client_sign and the client's view of a    *)
(* grant are PortalRequest's, here one step each; a grant that the client  *)
(* knows to be gone is ended at the portal.  C_Login and the slot events   *)
(* change no other state, and are not kept.                                *)
(***************************************************************************)
EXTENDS Naturals, FiniteSets

CONSTANTS
    Thread,         \* threads of the application
    NoThread,       \* module_lock is free
    MaxLifecycle,   \* bound: calls of C_Initialize
    MaxSerial,      \* bound: sessions opened
    MaxGrant,       \* bound: grants acquired
    MaxGeneration   \* bound: the generation up to which grants are released
                    \* by C_Logout and C_CloseAllSessions

ASSUME ModuleGrantAssumption ==
    /\ NoThread \notin Thread
    /\ MaxLifecycle \in Nat /\ MaxSerial \in Nat /\ MaxGrant \in Nat /\ MaxGeneration \in Nat

VARIABLES
    lock, pc, call,         \* module_lock, and where each thread is
    initialized, finalizing, lifecycle, client, acquiring, generation, refusal,
    grant, objects,         \* module_grant, and the generation of module_objects
    sessions, nextSession, serials,   \* module_sessions and its counters
    finding,                \* per session: find_active, with the search's serial
    sign, decrypt,          \* per session: the grants of sign_active, decrypt_active
    found,                  \* handles a search found: their generation and grant
    issued, gone, expired, closed,    \* grants, and what became of them
    fault                   \* history: a freed session table was iterated

lifeVars    == <<initialized, finalizing, lifecycle, client, acquiring, refusal>>
grantVars   == <<generation, grant, objects>>
sessionVars == <<sessions, nextSession, serials>>
workVars    == <<finding, sign, decrypt, found>>
portalVars  == <<issued, gone, expired>>
vars == <<lock, pc, call, lifeVars, grantVars, sessionVars, workVars, portalVars, closed, fault>>

Handle == 1..MaxSerial
Call == [handle : 0..MaxSerial, serial : 0..MaxSerial, lifecycle : 0..MaxLifecycle,
         generation : Nat]
NoCall == [handle |-> 0, serial |-> 0, lifecycle |-> 0, generation |-> 0]

ThreadTypeOK ==
    /\ lock \in Thread \cup {NoThread}
    /\ pc \in [Thread -> {"idle", "entered", "waiting", "ensuring", "acquiring", "granted",
                          "ungranted", "signing", "decrypting", "finalizing"}]
    /\ call \in [Thread -> Call]

LifeTypeOK ==
    /\ initialized \in BOOLEAN /\ finalizing \in BOOLEAN /\ acquiring \in BOOLEAN
    /\ lifecycle \in 0..MaxLifecycle /\ client \in {0, lifecycle} /\ refusal \in BOOLEAN
    /\ fault \in BOOLEAN

GrantTypeOK ==
    /\ issued \in 0..MaxGrant /\ generation \in Nat
    /\ grant \in 0..issued /\ objects \in 0..generation /\ (objects = 0 <=> grant = 0)
    /\ gone \subseteq 1..issued /\ expired \subseteq 1..issued /\ closed \subseteq 1..issued

SessionTypeOK ==
    /\ serials \in 0..MaxSerial /\ nextSession \in 1..MaxSerial + 1
    /\ sessions \in [Handle -> 0..serials] /\ finding \in [Handle -> 0..MaxSerial]
    /\ sign \in [Handle -> 0..issued] /\ decrypt \in [Handle -> 0..issued]
    /\ found \subseteq Nat \X Nat

TypeOK == ThreadTypeOK /\ LifeTypeOK /\ GrantTypeOK /\ SessionTypeOK

Init ==
    /\ lock = NoThread
    /\ pc = [t \in Thread |-> "idle"] /\ call = [t \in Thread |-> NoCall]
    /\ initialized = FALSE /\ finalizing = FALSE /\ acquiring = FALSE /\ refusal = FALSE
    /\ lifecycle = 0 /\ client = 0
    /\ generation = 0 /\ grant = 0 /\ objects = 0
    /\ sessions = [h \in Handle |-> 0] /\ nextSession = 1 /\ serials = 0
    /\ finding = [h \in Handle |-> 0]
    /\ sign = [h \in Handle |-> 0] /\ decrypt = [h \in Handle |-> 0] /\ found = {}
    /\ issued = 0 /\ gone = {} /\ expired = {} /\ closed = {}
    /\ fault = FALSE

-----------------------------------------------------------------------------
Empty == [h \in Handle |-> 0]
Go(t, where) == pc' = [pc EXCEPT ![t] = where]
Unlocked == lock = NoThread

\* The grant the module holds was invalidated, lost its owner, or expired.
Ended == grant # 0 /\ grant \in gone \cup expired

KeepDecryption ==
    /\ sign' = Empty /\ UNCHANGED decrypt
    /\ fault' = (fault \/ ~initialized)

\* drop_objects: pending operations are reset in every session.  It iterates
\* the session table, which exists between C_Initialize and C_Finalize.
ResetOperations ==
    /\ sign' = Empty /\ decrypt' = Empty
    /\ fault' = (fault \/ ~initialized)

\* release_grant: a grant that is not gone is closed at the portal.
ReleaseGrant ==
    /\ generation' = generation + 1
    /\ closed' = IF grant # 0 /\ grant \notin gone THEN closed \cup {grant} ELSE closed
    /\ grant' = 0 /\ objects' = 0
    /\ ResetOperations

\* grant_still_good, when it finds the grant ended: its sessions go with it.
Retire ==
    /\ ReleaseGrant
    /\ sessions' = Empty /\ finding' = Empty

\* MODULE_CHECK, before the lock is asked for.
ModuleCheck(t) ==
    /\ pc[t] = "idle" /\ initialized
    /\ Go(t, "entered")
    /\ UNCHANGED <<lock, call, lifeVars, grantVars, sessionVars, workVars, portalVars, closed, fault>>

\* A call that has the lock for the first time.
Calls(t) == pc[t] = "entered" /\ Unlocked

\* A call that is refused, or that only reads.
Refuse(t) ==
    /\ Calls(t)
    /\ Go(t, "idle")
    /\ UNCHANGED <<lock, call, lifeVars, grantVars, sessionVars, workVars, portalVars, closed, fault>>

\* session_lookup in a call on a session whose grant has ended.
ObserveEnd(t) ==
    /\ Calls(t) /\ Ended
    /\ Retire
    /\ Go(t, "idle")
    /\ UNCHANGED <<lock, call, lifeVars, nextSession, serials, found, portalVars>>

\* C_OpenSession: the sessions of an ended grant are retired first.
OpenSession(t) ==
    /\ Calls(t) /\ ~finalizing /\ client # 0 /\ serials < MaxSerial
    /\ serials' = serials + 1 /\ nextSession' = nextSession + 1
    /\ IF Ended
       THEN /\ ReleaseGrant
            /\ sessions' = [Empty EXCEPT ![nextSession] = serials']
            /\ finding' = Empty /\ UNCHANGED found
       ELSE /\ sessions' = [sessions EXCEPT ![nextSession] = serials']
            /\ UNCHANGED <<grantVars, workVars, closed, fault>>
    /\ Go(t, "idle")
    /\ UNCHANGED <<lock, call, lifeVars, portalVars>>

\* C_CloseSession: the grant stays.
CloseSession(t, h) ==
    /\ Calls(t) /\ sessions[h] # 0
    /\ sessions' = [sessions EXCEPT ![h] = 0]
    /\ finding' = [finding EXCEPT ![h] = 0]
    /\ sign' = [sign EXCEPT ![h] = 0] /\ decrypt' = [decrypt EXCEPT ![h] = 0]
    /\ Go(t, "idle")
    /\ UNCHANGED <<lock, call, lifeVars, grantVars, nextSession, serials, found, portalVars, closed,
                   fault>>

\* C_CloseAllSessions.
CloseAllSessions(t) ==
    /\ Calls(t) /\ generation < MaxGeneration
    /\ sessions' = Empty /\ finding' = Empty
    /\ ReleaseGrant
    /\ Go(t, "idle")
    /\ UNCHANGED <<lock, call, lifeVars, nextSession, serials, found, portalVars>>

\* C_Logout.
Logout(t, h) ==
    /\ Calls(t) /\ ~Ended /\ sessions[h] # 0 /\ generation < MaxGeneration
    /\ ReleaseGrant
    /\ Go(t, "idle")
    /\ UNCHANGED <<lock, call, lifeVars, sessionVars, finding, found, portalVars>>

\* C_FindObjectsFinal.
FindObjectsFinal(t, h) ==
    /\ Calls(t) /\ ~Ended /\ sessions[h] # 0 /\ finding[h] # 0
    /\ finding' = [finding EXCEPT ![h] = 0]
    /\ Go(t, "idle")
    /\ UNCHANGED <<lock, call, lifeVars, grantVars, sessionVars, sign, decrypt, found, portalVars, closed,
                   fault>>

\* A call on a session begins an operation, with a key of the current objects.
MayBegin(t, h) == Calls(t) /\ ~Ended /\ sessions[h] # 0 /\ objects # 0

\* A call on a session continues or ends its operation.
MayContinue(t, h) == Calls(t) /\ ~Ended /\ sessions[h] # 0

\* sign_setup.
SignSetup(h) == sign' = [sign EXCEPT ![h] = grant]

\* C_SignInit.
SignInit(t, h) ==
    /\ MayBegin(t, h) /\ sign[h] = 0
    /\ SignSetup(h)
    /\ Go(t, "idle")
    /\ UNCHANGED <<lock, call, lifeVars, grantVars, sessionVars, finding, decrypt, found,
                   portalVars, closed, fault>>

\* The portal is called under the lock, with module_client and module_grant.
CallPortal(t, h, where) ==
    /\ lock' = t
    /\ call' = [call EXCEPT ![t] =
          [handle |-> h, serial |-> sessions[h], lifecycle |-> client, generation |-> 0]]
    /\ Go(t, where)
    /\ UNCHANGED <<lifeVars, grantVars, sessionVars, workVars, portalVars, closed, fault>>

PortalReturns(t) ==
    /\ lock' = NoThread /\ call' = [call EXCEPT ![t] = NoCall] /\ Go(t, "idle")
    /\ UNCHANGED <<lifeVars, grantVars, sessionVars, finding, found, portalVars, closed, fault>>

\* sign_perform.
SignPerform(t, h) == CallPortal(t, h, "signing")

\* C_Sign and C_SignFinal.
SignStart(t, h) ==
    /\ MayContinue(t, h) /\ sign[h] # 0
    /\ SignPerform(t, h)

\* C_SignUpdate, C_Sign or C_SignFinal finds the data not acceptable: the
\* operation ends.
SignUpdateFails(t, h) ==
    /\ MayContinue(t, h) /\ sign[h] # 0
    /\ sign' = [sign EXCEPT ![h] = 0]
    /\ Go(t, "idle")
    /\ UNCHANGED <<lock, call, lifeVars, grantVars, sessionVars, finding, decrypt, found,
                   portalVars, closed, fault>>

\* sign_finish: the operation is over, whatever the portal answered.
SignReturns(t) ==
    /\ pc[t] = "signing"
    /\ sign' = [sign EXCEPT ![call[t].handle] = 0] /\ UNCHANGED decrypt
    /\ PortalReturns(t)

\* C_DecryptInit.
DecryptInit(t, h) ==
    /\ MayBegin(t, h) /\ decrypt[h] = 0
    /\ decrypt' = [decrypt EXCEPT ![h] = grant]
    /\ Go(t, "idle")
    /\ UNCHANGED <<lock, call, lifeVars, grantVars, sessionVars, finding, sign, found, portalVars,
                   closed, fault>>

\* C_Decrypt calls the portal, or ends the operation when there is nothing to
\* decrypt.
DecryptStart(t, h) ==
    /\ MayContinue(t, h) /\ decrypt[h] # 0
    /\ CallPortal(t, h, "decrypting")

DecryptRefused(t, h) ==
    /\ MayContinue(t, h) /\ decrypt[h] # 0
    /\ decrypt' = [decrypt EXCEPT ![h] = 0]
    /\ Go(t, "idle")
    /\ UNCHANGED <<lock, call, lifeVars, grantVars, sessionVars, finding, sign, found, portalVars,
                   closed, fault>>

\* The operation is over, unless the plaintext does not fit the caller's buffer:
\* then the caller may call again, and the portal is asked again.
DecryptReturns(t) ==
    /\ pc[t] = "decrypting"
    /\ decrypt' \in {decrypt, [decrypt EXCEPT ![call[t].handle] = 0]} /\ UNCHANGED sign
    /\ PortalReturns(t)

-----------------------------------------------------------------------------
\* C_FindObjectsInit.

\* Up to ensure_grant, whose wait gives up the lock.
SearchStart(t, h) ==
    /\ Calls(t) /\ ~finalizing /\ ~Ended /\ sessions[h] # 0 /\ finding[h] = 0
    /\ call' = [call EXCEPT ![t] =
          [handle |-> h, serial |-> sessions[h], lifecycle |-> lifecycle, generation |-> 0]]
    /\ IF acquiring THEN Go(t, "waiting") /\ UNCHANGED lock
                    ELSE Go(t, "ensuring") /\ lock' = t
    /\ UNCHANGED <<lifeVars, grantVars, sessionVars, workVars, portalVars, closed, fault>>

Wake(t) ==
    /\ pc[t] = "waiting" /\ Unlocked /\ (~acquiring \/ finalizing)
    /\ lock' = t /\ Go(t, "ensuring")
    /\ UNCHANGED <<call, lifeVars, grantVars, sessionVars, workVars, portalVars, closed, fault>>

\* session_revalidate: the same initialisation, and the same session behind
\* the handle.
InLifecycle(t) == ~finalizing /\ initialized /\ lifecycle = call[t].lifecycle

Revalidated(t) == InLifecycle(t) /\ sessions[call[t].handle] = call[t].serial

\* ensure_grant returns to C_FindObjectsInit, with the lock: TRUE and FALSE are
\* "granted" and "ungranted".
Ensured(t, where) == lock' = t /\ Go(t, where) /\ UNCHANGED call

\* ensure_grant gives up the lock and calls portal_client_acquire.
BeginAcquire(t) ==
    /\ acquiring' = TRUE
    /\ lock' = NoThread /\ Go(t, "acquiring")
    /\ call' = [call EXCEPT ![t].generation = generation]

\* ensure_grant up to the acquisition: without a valid session or after an end
\* there is none, a good grant is shared, and while a refusal is recent, the
\* portal away or the template not for us, the search finds nothing.
Ensure(t) ==
    /\ pc[t] = "ensuring"
    /\ IF ~acquiring /\ InLifecycle(t) /\ Ended
       THEN Retire /\ Ensured(t, "ungranted") /\ UNCHANGED <<acquiring, found>>
       ELSE /\ IF acquiring \/ ~Revalidated(t)
               THEN Ensured(t, "ungranted") /\ UNCHANGED acquiring
               ELSE IF grant # 0
                    THEN Ensured(t, "granted") /\ UNCHANGED acquiring
                    ELSE \/ Ensured(t, "ungranted") /\ UNCHANGED acquiring
                         \/ ~refusal /\ BeginAcquire(t)
            /\ UNCHANGED <<grantVars, sessions, workVars, closed, fault>>
    /\ UNCHANGED <<initialized, finalizing, lifecycle, client, refusal, nextSession, serials,
                   portalVars>>

\* What was acquired is still wanted: nothing released the grant meanwhile.
StillWanted(t) ==
    /\ client = call[t].lifecycle /\ generation = call[t].generation
    /\ Revalidated(t)

DiscardUnclosed(g) == closed

\* A grant that nobody wants any more is closed at the portal.
Discard(g) == closed \cup {g}

\* portal_client_acquire returns nothing: the user refused, which is remembered
\* for a while, or it failed.
AcquireFails(t) ==
    /\ pc[t] = "acquiring" /\ Unlocked
    /\ acquiring' = FALSE
    /\ refusal' \in {refusal, TRUE}
    /\ Ensured(t, "ungranted")
    /\ UNCHANGED <<initialized, finalizing, lifecycle, client, grantVars, sessionVars, workVars,
                   portalVars, closed, fault>>

\* portal_objects_new: the objects of a new grant, whose handles are of the next
\* generation.
NewObjects == generation + 1

\* It returns a grant: kept with its objects, or closed at once, also when the
\* objects cannot be made from the certificate.
AcquireReturns(t) ==
    LET g == issued + 1 IN
    /\ pc[t] = "acquiring" /\ Unlocked /\ issued < MaxGrant
    /\ issued' = g
    /\ acquiring' = FALSE
    /\ \E usable \in BOOLEAN :
          LET keeps == StillWanted(t) /\ grant = 0 IN
          /\ generation' = generation + (IF ~keeps THEN 0 ELSE IF usable THEN 1 ELSE 2)
          /\ grant' = IF keeps /\ usable THEN g ELSE grant
          /\ objects' = IF keeps /\ usable THEN NewObjects ELSE objects
          /\ closed' = IF keeps /\ usable THEN closed ELSE Discard(g)
          /\ sign' = IF keeps /\ ~usable THEN Empty ELSE sign
          /\ decrypt' = IF keeps /\ ~usable THEN Empty ELSE decrypt
          /\ Ensured(t, IF keeps /\ usable THEN "granted" ELSE "ungranted")
    /\ UNCHANGED <<initialized, finalizing, lifecycle, client, refusal, sessionVars, finding,
                   found, gone, expired, fault>>

\* What portal_objects_find finds among the objects, if ensure_grant says so.
Found(t) == IF pc[t] = "granted" THEN found \cup {<<objects, grant>>} ELSE found

\* portal_objects_lookup: the handle of a key names one of the current objects.
NamesAnObject(key) == objects # 0 /\ key[1] = objects

\* The rest of C_FindObjectsInit: the session is looked up again.
SearchEnds(t) ==
    /\ pc[t] \in {"granted", "ungranted"}
    /\ IF InLifecycle(t) /\ Ended
       THEN Retire /\ UNCHANGED found
       ELSE /\ IF Revalidated(t) /\ finding[call[t].handle] = 0
               THEN /\ finding' = [finding EXCEPT ![call[t].handle] = call[t].serial]
                    /\ found' = Found(t)
               ELSE UNCHANGED <<finding, found>>
            /\ UNCHANGED <<grantVars, sessions, sign, decrypt, closed, fault>>
    /\ lock' = NoThread /\ call' = [call EXCEPT ![t] = NoCall] /\ Go(t, "idle")
    /\ UNCHANGED <<lifeVars, nextSession, serials, portalVars>>

-----------------------------------------------------------------------------
InitializeAfresh(t) ==
    /\ pc[t] = "idle" /\ Unlocked /\ ~initialized /\ lifecycle < MaxLifecycle
    /\ initialized' = TRUE /\ finalizing' = FALSE /\ refusal' = FALSE
    /\ lifecycle' = lifecycle + 1 /\ client' = lifecycle'
    /\ sessions' = Empty /\ nextSession' = 1
    /\ generation' = 0
    /\ UNCHANGED <<lock, pc, call, acquiring, grant, objects, serials, workVars, portalVars,
                   closed, fault>>

\* C_Initialize: handles start again.
Initialize(t) ==
    /\ pc[t] = "idle" /\ Unlocked /\ ~initialized /\ lifecycle < MaxLifecycle
    /\ initialized' = TRUE /\ finalizing' = FALSE /\ refusal' = FALSE
    /\ lifecycle' = lifecycle + 1 /\ client' = lifecycle'
    /\ sessions' = Empty /\ nextSession' = 1
    /\ UNCHANGED <<lock, pc, call, acquiring, grantVars, serials, workVars, portalVars, closed,
                   fault>>

\* The end of C_Finalize.
Finalized ==
    /\ ReleaseGrant
    /\ sessions' = Empty /\ finding' = Empty
    /\ client' = 0 /\ finalizing' = FALSE /\ initialized' = FALSE
    /\ UNCHANGED found

\* C_Finalize: with an acquisition under way it is cancelled and waited for.
FinalizeNow(t) ==
    /\ pc[t] = "idle" /\ Unlocked /\ initialized /\ ~acquiring
    /\ Finalized
    /\ UNCHANGED <<lock, pc, call, lifecycle, acquiring, refusal, nextSession, serials, portalVars>>

FinalizeWait(t) ==
    /\ pc[t] = "idle" /\ Unlocked /\ initialized /\ acquiring
    /\ finalizing' = TRUE
    /\ Go(t, "finalizing")
    /\ UNCHANGED <<lock, call, initialized, lifecycle, client, acquiring, refusal, grantVars,
                   sessionVars, workVars, portalVars, closed, fault>>

FinalizeEnd(t) ==
    /\ pc[t] = "finalizing" /\ Unlocked /\ ~acquiring
    /\ Finalized
    /\ Go(t, "idle")
    /\ UNCHANGED <<lock, call, lifecycle, acquiring, refusal, nextSession, serials, portalVars>>

\* The portal client learns that the grant is gone; its time passes; the
\* refusal's grace period passes.
GrantGone ==
    /\ grant # 0 /\ grant \notin gone
    /\ gone' = gone \cup {grant}
    /\ UNCHANGED <<lock, pc, call, lifeVars, grantVars, sessionVars, workVars, issued, expired,
                   closed, fault>>

GrantExpires ==
    /\ grant # 0 /\ grant \notin expired
    /\ expired' = expired \cup {grant}
    /\ UNCHANGED <<lock, pc, call, lifeVars, grantVars, sessionVars, workVars, issued, gone,
                   closed, fault>>

GraceEnds ==
    /\ refusal /\ refusal' = FALSE
    /\ UNCHANGED <<lock, pc, call, initialized, finalizing, lifecycle, client, acquiring,
                   grantVars, sessionVars, workVars, portalVars, closed, fault>>

-----------------------------------------------------------------------------
ThreadStep(t) ==
    \/ ModuleCheck(t) \/ Refuse(t) \/ ObserveEnd(t) \/ OpenSession(t) \/ CloseAllSessions(t)
    \/ \E h \in Handle : \/ CloseSession(t, h) \/ Logout(t, h) \/ FindObjectsFinal(t, h)
                         \/ SignInit(t, h) \/ SignStart(t, h) \/ SignUpdateFails(t, h)
                         \/ DecryptInit(t, h) \/ DecryptStart(t, h) \/ DecryptRefused(t, h)
                         \/ SearchStart(t, h)
    \/ SignReturns(t) \/ DecryptReturns(t) \/ Wake(t) \/ Ensure(t) \/ AcquireFails(t) \/ AcquireReturns(t)
    \/ SearchEnds(t)
    \/ Initialize(t) \/ FinalizeNow(t) \/ FinalizeWait(t) \/ FinalizeEnd(t)

Next == (\E t \in Thread : ThreadStep(t)) \/ GrantGone \/ GrantExpires \/ GraceEnds

Spec == Init /\ [][Next]_vars

-----------------------------------------------------------------------------
\* Every grant the portal gave to this process is the module's grant, has been
\* closed, or is gone (ensure_grant, release_grant): a search that loses its
\* session, a logout or a finalization while the user chooses leaves none open,
\* and the grant in use is never one that was closed.
GrantIsHeldOrClosed ==
    /\ \A g \in 1..issued : g = grant \/ g \in closed \cup gone
    /\ grant \notin closed

\* A signature is made, and a message decrypted, with the grant that the
\* operation was begun under (drop_objects, sign_perform, C_Decrypt): never with
\* a replacement acquired meanwhile, also when a decryption is asked for again.
OperationUsesItsGrant ==
    \A h \in Handle :
        /\ sign[h] # 0 => sign[h] = grant /\ sessions[h] # 0
        /\ decrypt[h] # 0 => decrypt[h] = grant /\ sessions[h] # 0

\* A handle that a search found names a key of the grant it was found under, or
\* nothing (portal_objects_new, "Handle generations prevent a released grant's
\* handles from naming new objects"): also when an application uses one that it
\* kept over a logout, or over C_Finalize.
HandleNamesItsGrant == \A key \in found : NamesAnObject(key) => key[2] = grant

\* The client is not freed under a thread that is in it (C_Finalize), and is
\* the client of the initialisation that the thread's call began in.
ClientOutlivesItsCalls ==
    \A t \in Thread : pc[t] \in {"acquiring", "signing", "decrypting"} =>
         client = call[t].lifecycle /\ client # 0

\* Searches share one acquisition (ensure_grant): the user sees one chooser at
\* a time, and none while the module has a grant.
OneAcquisition ==
    /\ Cardinality({t \in Thread : pc[t] = "acquiring"}) <= 1
    /\ (\E t \in Thread : pc[t] = "acquiring") => grant = 0

\* A search that was interrupted ends in the session it was begun in
\* (session_revalidate), although its handle may by then belong to a session
\* of the next initialisation.
SearchStaysInItsSession ==
    \A h \in Handle : finding[h] # 0 => finding[h] = sessions[h]

\* Nothing iterates the session table of a module that is not initialised
\* (drop_objects), also when C_Finalize was called while another thread was
\* entering a call.
FreedTableUntouched == ~fault
=============================================================================
