------------------------- MODULE ModuleGrant_proofs -------------------------
(***************************************************************************)
(* Proofs about the PKCS#11 module for every number of threads, sessions,  *)
(* grants and initialisations.                                             *)
(***************************************************************************)
EXTENDS ModuleGrant, FiniteSetTheorems, TLAPS

USE ModuleGrantAssumption
USE DEF Handle, Empty, Go, Calls, Unlocked, Ended, lifeVars, grantVars, sessionVars, workVars,
        portalVars

\* What a search does in ensure_grant before it calls the portal: it finds the
\* grant ended, it returns, or it begins an acquisition, which takes a valid
\* session and no grant.
LEMMA EnsureCases ==
    ASSUME NEW t \in Thread, Ensure(t)
    PROVE  /\ pc[t] = "ensuring"
           /\ UNCHANGED <<initialized, finalizing, lifecycle, client, refusal, nextSession,
                          serials, found, portalVars>>
           /\ \/ Retire /\ Ensured(t, "ungranted") /\ UNCHANGED acquiring
              \/ /\ \E where \in {"granted", "ungranted"} : Ensured(t, where)
                 /\ UNCHANGED <<acquiring, grantVars, sessions, workVars, closed, fault>>
              \/ /\ ~acquiring /\ Revalidated(t) /\ grant = 0 /\ BeginAcquire(t)
                 /\ UNCHANGED <<grantVars, sessions, workVars, closed, fault>>
<1>1. CASE ~acquiring /\ InLifecycle(t) /\ Ended
  BY <1>1 DEF Ensure
<1>2. CASE ~(~acquiring /\ InLifecycle(t) /\ Ended)
  BY <1>2 DEF Ensure
<1> QED BY <1>1, <1>2

\* The record that a call keeps is well-formed.
LEMMA NewCall ==
    ASSUME LifeTypeOK, SessionTypeOK, NEW h \in Handle, NEW l \in {client, lifecycle}
    PROVE  [handle |-> h, serial |-> sessions[h], lifecycle |-> l, generation |-> 0] \in Call
<1>1. h \in 0..MaxSerial /\ sessions[h] \in 0..MaxSerial /\ l \in 0..MaxLifecycle /\ 0 \in Nat
  BY DEF LifeTypeOK, SessionTypeOK
<1> QED BY <1>1 DEF Call

\* Steps preserve the type of the threads' state.
LEMMA ThreadTypeStep ==
    ASSUME ThreadTypeOK, LifeTypeOK, GrantTypeOK, SessionTypeOK, [Next]_vars
    PROVE  ThreadTypeOK'
<1> USE DEF ThreadTypeOK
<1>1. ASSUME NEW t \in Thread, NEW h \in Handle, SignStart(t, h)
      PROVE  ThreadTypeOK'
  <2>1. call' \in [Thread -> Call] /\ pc' = [pc EXCEPT ![t] = "signing"] /\ lock' = t
    BY <1>1, NewCall DEF SignStart, SignPerform, CallPortal
  <2> QED BY <2>1
<1>2. ASSUME NEW t \in Thread, NEW h \in Handle, DecryptStart(t, h)
      PROVE  ThreadTypeOK'
  <2>1. call' \in [Thread -> Call] /\ pc' = [pc EXCEPT ![t] = "decrypting"] /\ lock' = t
    BY <1>2, NewCall DEF DecryptStart, CallPortal
  <2> QED BY <2>1
<1>3. ASSUME NEW t \in Thread, NEW h \in Handle, SearchStart(t, h)
      PROVE  ThreadTypeOK'
  <2>1. call' \in [Thread -> Call]
    BY <1>3, NewCall DEF SearchStart
  <2> QED BY <1>3, <2>1 DEF SearchStart
<1>4. ASSUME NEW t \in Thread, SignReturns(t) PROVE ThreadTypeOK'
  BY <1>4 DEF Call, NoCall, SignReturns, PortalReturns
<1>5. ASSUME NEW t \in Thread, DecryptReturns(t) PROVE ThreadTypeOK'
  BY <1>5 DEF Call, NoCall, DecryptReturns, PortalReturns
<1>6. ASSUME NEW t \in Thread, Wake(t) PROVE ThreadTypeOK'
  BY <1>6 DEF Wake
<1>7. ASSUME NEW t \in Thread, Ensure(t) PROVE ThreadTypeOK'
  <2>1. CASE \E where \in {"granted", "ungranted"} : Ensured(t, where)
    BY <2>1 DEF Ensured
  <2>2. CASE BeginAcquire(t)
    <3>1. generation \in Nat
      BY DEF GrantTypeOK
    <3>2. call' \in [Thread -> Call]
      BY <2>2, <3>1 DEF BeginAcquire, Call
    <3> QED BY <2>2, <3>2 DEF BeginAcquire
  <2> QED BY <1>7, <2>1, <2>2, EnsureCases
<1>8. ASSUME NEW t \in Thread, AcquireFails(t) PROVE ThreadTypeOK'
  BY <1>8 DEF AcquireFails, Ensured
<1>9. ASSUME NEW t \in Thread, AcquireReturns(t) PROVE ThreadTypeOK'
  BY <1>9 DEF AcquireReturns, Ensured
<1>10. ASSUME NEW t \in Thread, SearchEnds(t) PROVE ThreadTypeOK'
  BY <1>10 DEF Call, NoCall, SearchEnds
<1>11. ASSUME NEW t \in Thread,
             ModuleCheck(t) \/ Refuse(t) \/ ObserveEnd(t) \/ OpenSession(t) \/
               CloseAllSessions(t) \/ Initialize(t) \/ FinalizeNow(t) \/ FinalizeWait(t) \/
               FinalizeEnd(t)
      PROVE  ThreadTypeOK'
  BY <1>11 DEF ModuleCheck, Refuse, ObserveEnd, Retire, ReleaseGrant, ResetOperations,
    OpenSession, CloseAllSessions, Initialize, FinalizeNow, Finalized, FinalizeWait,
    FinalizeEnd
<1>12. ASSUME NEW t \in Thread, NEW h \in Handle,
             CloseSession(t, h) \/ Logout(t, h) \/ FindObjectsFinal(t, h) \/ SignInit(t, h) \/
               SignUpdateFails(t, h) \/ DecryptInit(t, h) \/ DecryptRefused(t, h)
      PROVE  ThreadTypeOK'
  BY <1>12 DEF CloseSession, Logout, ReleaseGrant, ResetOperations, FindObjectsFinal, SignInit,
    MayBegin, SignSetup, SignUpdateFails, MayContinue, DecryptInit, DecryptRefused
<1>13. CASE GrantGone \/ GrantExpires \/ GraceEnds \/ UNCHANGED vars
  BY <1>13 DEF GrantGone, GrantExpires, GraceEnds, vars
<1> QED BY <1>1, <1>2, <1>3, <1>4, <1>5, <1>6, <1>7, <1>8, <1>9, <1>10, <1>11, <1>12, <1>13 DEF
  Next, ThreadStep

\* Steps preserve the type of the initialisation's state.
LEMMA LifeTypeStep ==
    ASSUME LifeTypeOK, [Next]_vars
    PROVE  LifeTypeOK'
<1> USE DEF LifeTypeOK
<1>1. ASSUME NEW t \in Thread, ObserveEnd(t) PROVE LifeTypeOK'
  BY <1>1 DEF ObserveEnd, Retire, ReleaseGrant, ResetOperations
<1>2. ASSUME NEW t \in Thread, OpenSession(t) PROVE LifeTypeOK'
  BY <1>2 DEF OpenSession, ReleaseGrant, ResetOperations
<1>3. ASSUME NEW t \in Thread, CloseAllSessions(t) PROVE LifeTypeOK'
  BY <1>3 DEF CloseAllSessions, ReleaseGrant, ResetOperations
<1>4. ASSUME NEW t \in Thread, NEW h \in Handle, Logout(t, h)
      PROVE  LifeTypeOK'
  BY <1>4 DEF Logout, ReleaseGrant, ResetOperations
<1>5. ASSUME NEW t \in Thread, Ensure(t) PROVE LifeTypeOK'
  BY <1>5, EnsureCases DEF Retire, ReleaseGrant, ResetOperations, BeginAcquire
<1>6. ASSUME NEW t \in Thread, AcquireFails(t) PROVE LifeTypeOK'
  BY <1>6 DEF AcquireFails, Ensured
<1>7. ASSUME NEW t \in Thread, AcquireReturns(t) PROVE LifeTypeOK'
  BY <1>7 DEF AcquireReturns
<1>8. ASSUME NEW t \in Thread, SearchEnds(t) PROVE LifeTypeOK'
  BY <1>8 DEF SearchEnds, Retire, ReleaseGrant, ResetOperations, InLifecycle, Revalidated,
    Found
<1>9. ASSUME NEW t \in Thread, Initialize(t) PROVE LifeTypeOK'
  <2>1. lifecycle' \in 0..MaxLifecycle /\ client' \in {0, lifecycle'}
    BY <1>9 DEF Initialize
  <2>2. /\ initialized' \in BOOLEAN /\ finalizing' \in BOOLEAN /\ acquiring' \in BOOLEAN
        /\ refusal' \in BOOLEAN /\ fault' \in BOOLEAN
    BY <1>9 DEF Initialize
  <2> QED BY <2>1, <2>2
<1>10. ASSUME NEW t \in Thread, FinalizeNow(t) PROVE LifeTypeOK'
  BY <1>10 DEF FinalizeNow, Finalized, ReleaseGrant, ResetOperations
<1>11. ASSUME NEW t \in Thread, FinalizeWait(t) PROVE LifeTypeOK'
  BY <1>11 DEF FinalizeWait
<1>12. ASSUME NEW t \in Thread, FinalizeEnd(t) PROVE LifeTypeOK'
  BY <1>12 DEF FinalizeEnd, Finalized, ReleaseGrant, ResetOperations
<1>13. CASE GraceEnds
  BY <1>13 DEF GraceEnds
<1>14. ASSUME NEW t \in Thread,
             ModuleCheck(t) \/ Refuse(t) \/ SignReturns(t) \/ DecryptReturns(t) \/ Wake(t)
      PROVE  LifeTypeOK'
  BY <1>14 DEF ModuleCheck, Refuse, SignReturns, PortalReturns, DecryptReturns, Wake
<1>15. ASSUME NEW t \in Thread, NEW h \in Handle,
             CloseSession(t, h) \/ FindObjectsFinal(t, h) \/ SignInit(t, h) \/ SignStart(t, h)
               \/ SignUpdateFails(t, h) \/ DecryptInit(t, h) \/ DecryptStart(t, h) \/
               DecryptRefused(t, h) \/ SearchStart(t, h)
      PROVE  LifeTypeOK'
  BY <1>15 DEF CloseSession, FindObjectsFinal, SignInit, MayBegin, SignSetup, SignStart,
    SignPerform, MayContinue, CallPortal, SignUpdateFails, DecryptInit, DecryptStart,
    DecryptRefused, SearchStart
<1>16. CASE GrantGone \/ GrantExpires \/ UNCHANGED vars
  BY <1>16 DEF GrantGone, GrantExpires, vars
<1> QED BY <1>1, <1>2, <1>3, <1>4, <1>5, <1>6, <1>7, <1>8, <1>9, <1>10, <1>11, <1>12, <1>13,
  <1>14, <1>15, <1>16 DEF Next, ThreadStep

\* release_grant preserves the type of the grants.
LEMMA ReleaseGrantType ==
    ASSUME GrantTypeOK, ReleaseGrant, UNCHANGED portalVars
    PROVE  GrantTypeOK'
BY DEF GrantTypeOK, ReleaseGrant

\* Steps preserve the type of the grants.
LEMMA GrantTypeStep ==
    ASSUME GrantTypeOK, [Next]_vars
    PROVE  GrantTypeOK'
<1> USE DEF GrantTypeOK
<1>1. ASSUME NEW t \in Thread, ObserveEnd(t) PROVE GrantTypeOK'
  BY <1>1 DEF ObserveEnd, Retire, ReleaseGrant, ResetOperations
<1>2. ASSUME NEW t \in Thread, OpenSession(t) PROVE GrantTypeOK'
  <2>1. CASE ReleaseGrant
    BY <1>2, <2>1, ReleaseGrantType DEF OpenSession
  <2>2. CASE UNCHANGED <<grantVars, closed>>
    BY <1>2, <2>2 DEF OpenSession
  <2> QED BY <1>2, <2>1, <2>2 DEF OpenSession
<1>3. ASSUME NEW t \in Thread, CloseAllSessions(t) PROVE GrantTypeOK'
  BY <1>3 DEF CloseAllSessions, ReleaseGrant, ResetOperations
<1>4. ASSUME NEW t \in Thread, NEW h \in Handle, Logout(t, h)
      PROVE  GrantTypeOK'
  BY <1>4 DEF Logout, ReleaseGrant, ResetOperations
<1>5. ASSUME NEW t \in Thread, Ensure(t) PROVE GrantTypeOK'
  <2>1. CASE ReleaseGrant
    BY <1>5, <2>1, EnsureCases, ReleaseGrantType
  <2>2. CASE UNCHANGED <<grantVars, closed>>
    BY <1>5, <2>2, EnsureCases
  <2> QED BY <1>5, <2>1, <2>2, EnsureCases DEF Retire
<1>6. ASSUME NEW t \in Thread, AcquireReturns(t) PROVE GrantTypeOK'
  BY <1>6 DEF AcquireReturns, Discard, NewObjects
<1>7. ASSUME NEW t \in Thread, SearchEnds(t) PROVE GrantTypeOK'
  <2>1. CASE ReleaseGrant
    BY <1>7, <2>1, ReleaseGrantType DEF SearchEnds
  <2>2. CASE UNCHANGED <<grantVars, closed>>
    BY <1>7, <2>2 DEF SearchEnds
  <2> QED BY <1>7, <2>1, <2>2 DEF SearchEnds, Retire
<1>8. ASSUME NEW t \in Thread, FinalizeNow(t) PROVE GrantTypeOK'
  BY <1>8 DEF FinalizeNow, Finalized, ReleaseGrant, ResetOperations
<1>9. ASSUME NEW t \in Thread, FinalizeEnd(t) PROVE GrantTypeOK'
  BY <1>9 DEF FinalizeEnd, Finalized, ReleaseGrant, ResetOperations
<1>10. CASE GrantGone
  BY <1>10 DEF GrantGone
<1>11. CASE GrantExpires
  BY <1>11 DEF GrantExpires
<1>12. ASSUME NEW t \in Thread,
             ModuleCheck(t) \/ Refuse(t) \/ SignReturns(t) \/ DecryptReturns(t) \/ Wake(t) \/
               AcquireFails(t) \/ Initialize(t) \/ FinalizeWait(t)
      PROVE  GrantTypeOK'
  BY <1>12 DEF ModuleCheck, Refuse, SignReturns, PortalReturns, DecryptReturns, Wake,
    AcquireFails, Ensured, Initialize, FinalizeWait
<1>13. ASSUME NEW t \in Thread, NEW h \in Handle,
             CloseSession(t, h) \/ FindObjectsFinal(t, h) \/ SignInit(t, h) \/ SignStart(t, h)
               \/ SignUpdateFails(t, h) \/ DecryptInit(t, h) \/ DecryptStart(t, h) \/
               DecryptRefused(t, h) \/ SearchStart(t, h)
      PROVE  GrantTypeOK'
  BY <1>13 DEF CloseSession, FindObjectsFinal, SignInit, MayBegin, SignSetup, SignStart,
    SignPerform, MayContinue, CallPortal, SignUpdateFails, DecryptInit, DecryptStart,
    DecryptRefused, SearchStart
<1>14. CASE GraceEnds \/ UNCHANGED vars
  BY <1>14 DEF GraceEnds, vars
<1> QED BY <1>1, <1>2, <1>3, <1>4, <1>5, <1>6, <1>7, <1>8, <1>9, <1>10, <1>11, <1>12, <1>13,
  <1>14 DEF Next, ThreadStep

\* A handle is drawn for every serial number, and starts again with every
\* C_Initialize; serial numbers do not.
HandlesBehindSerials == nextSession <= serials + 1

\* The tables that drop_objects and grant_still_good leave.
LEMMA EmptyType == \A n \in Nat : Empty \in [Handle -> 0..n]
OBVIOUS

\* A table stays one when an entry of it changes.
LEMMA UpdateType ==
    ASSUME NEW S, NEW R, NEW f \in [S -> R], NEW x, NEW v \in R
    PROVE  [f EXCEPT ![x] = v] \in [S -> R]
OBVIOUS

\* A session's operation begins, on a grant that was issued, or ends.
LEMMA OperationEntry ==
    ASSUME SessionTypeOK, HandlesBehindSerials, NEW h \in Handle, NEW v \in 0..issued,
           UNCHANGED <<serials, nextSession, sessions, issued, found, finding>>,
           \/ sign' = [sign EXCEPT ![h] = v] /\ decrypt' = decrypt
           \/ decrypt' = [decrypt EXCEPT ![h] = v] /\ sign' = sign
    PROVE  (SessionTypeOK /\ HandlesBehindSerials)'
<1>1. sign' \in [Handle -> 0..issued] /\ decrypt' \in [Handle -> 0..issued]
  <2>1. sign \in [Handle -> 0..issued] /\ decrypt \in [Handle -> 0..issued]
    BY DEF SessionTypeOK
  <2> HIDE DEF Handle
  <2> QED
    BY <2>1, UpdateType
<1>2. SessionTypeOK'
  BY <1>1 DEF SessionTypeOK
<1>3. HandlesBehindSerials'
  BY DEF HandlesBehindSerials
<1> QED
  BY <1>2, <1>3

\* Steps preserve the type of the sessions and of the operations in them.
LEMMA SessionTypeStep ==
    ASSUME ThreadTypeOK, GrantTypeOK, SessionTypeOK, HandlesBehindSerials, [Next]_vars
    PROVE  (SessionTypeOK /\ HandlesBehindSerials)'
<1> USE DEF SessionTypeOK, HandlesBehindSerials, GrantTypeOK
<1>1. ASSUME NEW t \in Thread, ObserveEnd(t) PROVE (SessionTypeOK /\ HandlesBehindSerials)'
  BY <1>1 DEF ObserveEnd, Retire, ReleaseGrant, ResetOperations
<1>2. ASSUME NEW t \in Thread, OpenSession(t) PROVE (SessionTypeOK /\ HandlesBehindSerials)'
  <2>1. nextSession \in Handle /\ serials' \in 0..MaxSerial /\ nextSession' \in 1..MaxSerial + 1
        /\ nextSession' <= serials' + 1 /\ serials' = serials + 1 /\ UNCHANGED <<found, issued>>
    BY <1>2 DEF OpenSession
  <2>2. \/ sessions' = [Empty EXCEPT ![nextSession] = serials']
        \/ sessions' = [sessions EXCEPT ![nextSession] = serials']
    BY <1>2 DEF OpenSession
  <2>3. sessions' \in [Handle -> 0..serials']
    <3>1. serials' \in Nat /\ 0..serials \subseteq 0..serials' /\ serials' \in 0..serials'
      BY <2>1
    <3>2. sessions \in [Handle -> 0..serials'] /\ Empty \in [Handle -> 0..serials']
      BY <3>1, EmptyType
    <3> HIDE DEF Handle, Empty
    <3> QED BY <2>2, <3>1, <3>2, UpdateType
  <2>4. \/ finding' = Empty /\ sign' = Empty /\ decrypt' = Empty
        \/ UNCHANGED <<finding, sign, decrypt>>
    BY <1>2 DEF OpenSession, ReleaseGrant, ResetOperations
  <2>5. /\ finding' \in [Handle -> 0..MaxSerial]
        /\ sign' \in [Handle -> 0..issued] /\ decrypt' \in [Handle -> 0..issued]
    <3> HIDE DEF Handle, Empty
    <3> QED BY <2>4, EmptyType
  <2> QED BY <2>1, <2>3, <2>5
<1>3. ASSUME NEW t \in Thread, CloseAllSessions(t) PROVE (SessionTypeOK /\ HandlesBehindSerials)'
  BY <1>3 DEF CloseAllSessions, ReleaseGrant, ResetOperations
<1>4. ASSUME NEW t \in Thread, NEW h \in Handle, CloseSession(t, h)
      PROVE  (SessionTypeOK /\ HandlesBehindSerials)'
  BY <1>4 DEF CloseSession
<1>5. ASSUME NEW t \in Thread, NEW h \in Handle, Logout(t, h)
      PROVE  (SessionTypeOK /\ HandlesBehindSerials)'
  BY <1>5 DEF Logout, ReleaseGrant, ResetOperations
<1>6. ASSUME NEW t \in Thread, NEW h \in Handle, FindObjectsFinal(t, h)
      PROVE  (SessionTypeOK /\ HandlesBehindSerials)'
  <2>1. /\ finding' \in [Handle -> 0..MaxSerial]
        /\ UNCHANGED <<serials, nextSession, sessions, issued, found, sign, decrypt>>
    BY <1>6 DEF FindObjectsFinal
  <2> QED BY <2>1
<1>7. ASSUME NEW t \in Thread, NEW h \in Handle, SignInit(t, h)
      PROVE  (SessionTypeOK /\ HandlesBehindSerials)'
  <2>1. /\ sign' = [sign EXCEPT ![h] = grant]
        /\ UNCHANGED <<serials, nextSession, sessions, issued, found, finding, decrypt>>
    BY <1>7 DEF SignInit, SignSetup
  <2>2. grant \in 0..issued
    OBVIOUS
  <2> HIDE DEF SessionTypeOK, HandlesBehindSerials, GrantTypeOK
  <2> QED
    BY <2>1, <2>2, OperationEntry, Zenon
<1>8. ASSUME NEW t \in Thread, NEW h \in Handle, SignUpdateFails(t, h)
      PROVE  (SessionTypeOK /\ HandlesBehindSerials)'
  <2>1. /\ sign' = [sign EXCEPT ![h] = 0]
        /\ UNCHANGED <<serials, nextSession, sessions, issued, found, finding, decrypt>>
    BY <1>8 DEF SignUpdateFails
  <2>2. 0 \in 0..issued
    OBVIOUS
  <2> HIDE DEF SessionTypeOK, HandlesBehindSerials, GrantTypeOK
  <2> QED
    BY <2>1, <2>2, OperationEntry, Zenon
<1>9. ASSUME NEW t \in Thread, NEW h \in Handle, DecryptInit(t, h)
      PROVE  (SessionTypeOK /\ HandlesBehindSerials)'
  <2>1. /\ decrypt' = [decrypt EXCEPT ![h] = grant]
        /\ UNCHANGED <<serials, nextSession, sessions, issued, found, finding, sign>>
    BY <1>9 DEF DecryptInit
  <2>2. grant \in 0..issued
    OBVIOUS
  <2> HIDE DEF SessionTypeOK, HandlesBehindSerials, GrantTypeOK
  <2> QED
    BY <2>1, <2>2, OperationEntry, Zenon
<1>10. ASSUME NEW t \in Thread, NEW h \in Handle, DecryptRefused(t, h)
      PROVE  (SessionTypeOK /\ HandlesBehindSerials)'
  <2>1. /\ decrypt' = [decrypt EXCEPT ![h] = 0]
        /\ UNCHANGED <<serials, nextSession, sessions, issued, found, finding, sign>>
    BY <1>10 DEF DecryptRefused
  <2>2. 0 \in 0..issued
    OBVIOUS
  <2> HIDE DEF SessionTypeOK, HandlesBehindSerials, GrantTypeOK
  <2> QED
    BY <2>1, <2>2, OperationEntry, Zenon
<1>11. ASSUME NEW t \in Thread, SignReturns(t) PROVE (SessionTypeOK /\ HandlesBehindSerials)'
  <2>1. UNCHANGED <<serials, nextSession, sessions, issued, found, finding, decrypt>>
    BY <1>11 DEF SignReturns, PortalReturns
  <2>2. sign' \in [Handle -> 0..issued]
    <3>1. 0 \in 0..issued
      OBVIOUS
    <3>2. sign' = sign \/ sign' = [sign EXCEPT ![call[t].handle] = 0]
      BY <1>11 DEF SignReturns
    <3> HIDE DEF Handle
    <3> QED BY <3>1, <3>2, UpdateType
  <2> QED BY <2>1, <2>2
<1>12. ASSUME NEW t \in Thread, DecryptReturns(t) PROVE (SessionTypeOK /\ HandlesBehindSerials)'
  <2>1. UNCHANGED <<serials, nextSession, sessions, issued, found, finding, sign>>
    BY <1>12 DEF DecryptReturns, PortalReturns
  <2>2. decrypt' \in [Handle -> 0..issued]
    <3>1. 0 \in 0..issued
      OBVIOUS
    <3>2. decrypt' = decrypt \/ decrypt' = [decrypt EXCEPT ![call[t].handle] = 0]
      BY <1>12 DEF DecryptReturns
    <3> HIDE DEF Handle
    <3> QED BY <3>1, <3>2, UpdateType
  <2> QED BY <2>1, <2>2
<1>13. ASSUME NEW t \in Thread, Ensure(t) PROVE (SessionTypeOK /\ HandlesBehindSerials)'
  <2>1. UNCHANGED <<serials, nextSession, issued, found>>
    BY <1>13, EnsureCases
  <2>2. CASE Retire
    <3>1. sessions' = Empty /\ finding' = Empty /\ sign' = Empty /\ decrypt' = Empty
      BY <2>2 DEF Retire, ReleaseGrant, ResetOperations
    <3> QED BY <2>1, <3>1, EmptyType
  <2>3. CASE UNCHANGED <<sessions, workVars>>
    BY <2>1, <2>3
  <2> QED BY <1>13, <2>2, <2>3, EnsureCases
<1>14. ASSUME NEW t \in Thread, AcquireReturns(t) PROVE (SessionTypeOK /\ HandlesBehindSerials)'
  <2>1. issued' \in Nat /\ 0..issued \subseteq 0..issued'
    BY <1>14 DEF AcquireReturns
  <2>2. sign' \in [Handle -> 0..issued] /\ decrypt' \in [Handle -> 0..issued]
    BY <1>14 DEF AcquireReturns
  <2>3. UNCHANGED <<sessionVars, finding, found>>
    BY <1>14 DEF AcquireReturns
  <2> QED BY <2>1, <2>2, <2>3
<1>15. ASSUME NEW t \in Thread, SearchEnds(t) PROVE (SessionTypeOK /\ HandlesBehindSerials)'
  <2>1. UNCHANGED <<serials, nextSession, issued>>
    BY <1>15 DEF SearchEnds
  <2>2. CASE Retire /\ UNCHANGED found
    <3>1. sessions' = Empty /\ finding' = Empty /\ sign' = Empty /\ decrypt' = Empty
      BY <2>2 DEF Retire, ReleaseGrant, ResetOperations
    <3> QED BY <2>1, <2>2, <3>1, EmptyType
  <2>3. CASE ~(InLifecycle(t) /\ Ended)
    <3>1. UNCHANGED <<sessions, sign, decrypt>>
      BY <1>15, <2>3 DEF SearchEnds
    <3>2. finding' \in [Handle -> 0..MaxSerial]
      BY <1>15, <2>3 DEF SearchEnds, ThreadTypeOK, Call
    <3>3. <<objects, grant>> \in Nat \X Nat
      OBVIOUS
    <3>4. found' \subseteq Nat \X Nat
      BY <1>15, <2>3, <3>3 DEF SearchEnds, Found
    <3> QED BY <2>1, <3>1, <3>2, <3>4
  <2> QED BY <1>15, <2>2, <2>3 DEF SearchEnds
<1>16. ASSUME NEW t \in Thread, Initialize(t) PROVE (SessionTypeOK /\ HandlesBehindSerials)'
  <2>1. sessions' = Empty /\ nextSession' = 1 /\ UNCHANGED <<serials, issued, workVars>>
    BY <1>16 DEF Initialize
  <2>2. sessions' \in [Handle -> 0..serials']
    BY <2>1, EmptyType
  <2>3. UNCHANGED <<serials, issued, finding, sign, decrypt, found>>
    BY <2>1 DEF workVars
  <2> QED BY <2>1, <2>2, <2>3
<1>17. ASSUME NEW t \in Thread, FinalizeNow(t) PROVE (SessionTypeOK /\ HandlesBehindSerials)'
  BY <1>17 DEF FinalizeNow, Finalized, ReleaseGrant, ResetOperations
<1>18. ASSUME NEW t \in Thread, FinalizeEnd(t) PROVE (SessionTypeOK /\ HandlesBehindSerials)'
  BY <1>18 DEF FinalizeEnd, Finalized, ReleaseGrant, ResetOperations
<1>19. ASSUME NEW t \in Thread,
             ModuleCheck(t) \/ Refuse(t) \/ Wake(t) \/ AcquireFails(t) \/ FinalizeWait(t)
      PROVE  (SessionTypeOK /\ HandlesBehindSerials)'
  BY <1>19 DEF ModuleCheck, Refuse, Wake, AcquireFails, Ensured, FinalizeWait
<1>20. ASSUME NEW t \in Thread, NEW h \in Handle,
             SignStart(t, h) \/ DecryptStart(t, h) \/ SearchStart(t, h)
      PROVE  (SessionTypeOK /\ HandlesBehindSerials)'
  BY <1>20 DEF SignStart, SignPerform, MayContinue, CallPortal, DecryptStart, SearchStart
<1>21. CASE GrantGone \/ GrantExpires \/ GraceEnds \/ UNCHANGED vars
  BY <1>21 DEF GrantGone, GrantExpires, GraceEnds, vars
<1> QED BY <1>1, <1>2, <1>3, <1>4, <1>5, <1>6, <1>7, <1>8, <1>9, <1>10, <1>11, <1>12, <1>13,
  <1>14, <1>15, <1>16, <1>17, <1>18, <1>19, <1>20, <1>21 DEF Next, ThreadStep

\* Type correctness of the module's state: grants, objects and handles stay in
\* step, and handles never run ahead of serial numbers.
THEOREM TypeCorrect == Spec => [](TypeOK /\ HandlesBehindSerials)
<1>1. Init => TypeOK /\ HandlesBehindSerials
  <2>1. Init => ThreadTypeOK
    BY DEF Init, ThreadTypeOK, NoCall, Call
  <2>2. Init => LifeTypeOK
    <3>1. 0 \in 0..MaxLifecycle
      OBVIOUS
    <3> QED BY <3>1, Zenon DEF Init, LifeTypeOK
  <2>3. Init => GrantTypeOK /\ SessionTypeOK /\ HandlesBehindSerials
    BY DEF Init, GrantTypeOK, SessionTypeOK, HandlesBehindSerials
  <2> QED BY <2>1, <2>2, <2>3 DEF TypeOK
<1>2. TypeOK /\ HandlesBehindSerials /\ [Next]_vars => (TypeOK /\ HandlesBehindSerials)'
  BY ThreadTypeStep, LifeTypeStep, GrantTypeStep, SessionTypeStep DEF TypeOK
<1> QED BY <1>1, <1>2, PTL DEF Spec

-----------------------------------------------------------------------------
\* After C_Finalize there is no client, and nothing is left in the tables that
\* a C_Initialize takes over.
FinalizedIsEmpty ==
    /\ initialized <=> client # 0
    /\ ~initialized => /\ grant = 0
                       /\ \A h \in Handle : /\ sessions[h] = 0 /\ finding[h] = 0
                                            /\ sign[h] = 0 /\ decrypt[h] = 0

\* Steps keep a finalized module empty.
LEMMA FinalizedStep ==
    ASSUME TypeOK, FinalizedIsEmpty, [Next]_vars
    PROVE  FinalizedIsEmpty'
<1> USE DEF TypeOK, LifeTypeOK, SessionTypeOK, FinalizedIsEmpty
<1>1. ASSUME NEW t \in Thread, ObserveEnd(t) PROVE FinalizedIsEmpty'
  BY <1>1 DEF ObserveEnd, Retire, ReleaseGrant, ResetOperations
<1>2. ASSUME NEW t \in Thread, OpenSession(t) PROVE FinalizedIsEmpty'
  BY <1>2 DEF OpenSession, ReleaseGrant, ResetOperations
<1>3. ASSUME NEW t \in Thread, CloseAllSessions(t) PROVE FinalizedIsEmpty'
  BY <1>3 DEF CloseAllSessions, ReleaseGrant, ResetOperations
<1>4. ASSUME NEW t \in Thread, NEW h \in Handle, CloseSession(t, h)
      PROVE  FinalizedIsEmpty'
  BY <1>4 DEF CloseSession
<1>5. ASSUME NEW t \in Thread, NEW h \in Handle, Logout(t, h)
      PROVE  FinalizedIsEmpty'
  BY <1>5 DEF Logout, ReleaseGrant, ResetOperations
<1>6. ASSUME NEW t \in Thread, NEW h \in Handle, FindObjectsFinal(t, h)
      PROVE  FinalizedIsEmpty'
  BY <1>6 DEF FindObjectsFinal
<1>7. ASSUME NEW t \in Thread, NEW h \in Handle, SignInit(t, h)
      PROVE  FinalizedIsEmpty'
  BY <1>7 DEF SignInit, MayBegin, SignSetup
<1>8. ASSUME NEW t \in Thread, NEW h \in Handle, SignUpdateFails(t, h)
      PROVE  FinalizedIsEmpty'
  BY <1>8 DEF SignUpdateFails, MayContinue
<1>9. ASSUME NEW t \in Thread, NEW h \in Handle, DecryptInit(t, h)
      PROVE  FinalizedIsEmpty'
  BY <1>9 DEF DecryptInit, MayBegin
<1>10. ASSUME NEW t \in Thread, NEW h \in Handle, DecryptRefused(t, h)
      PROVE  FinalizedIsEmpty'
  BY <1>10 DEF DecryptRefused, MayContinue
<1>11. ASSUME NEW t \in Thread, SignReturns(t) PROVE FinalizedIsEmpty'
  BY <1>11 DEF SignReturns, PortalReturns
<1>12. ASSUME NEW t \in Thread, DecryptReturns(t) PROVE FinalizedIsEmpty'
  BY <1>12 DEF DecryptReturns, PortalReturns
<1>13. ASSUME NEW t \in Thread, Ensure(t) PROVE FinalizedIsEmpty'
  BY <1>13, EnsureCases DEF Retire, ReleaseGrant, ResetOperations
<1>14. ASSUME NEW t \in Thread, AcquireFails(t) PROVE FinalizedIsEmpty'
  BY <1>14 DEF AcquireFails, Ensured
<1>15. ASSUME NEW t \in Thread, AcquireReturns(t) PROVE FinalizedIsEmpty'
  BY <1>15 DEF AcquireReturns, Ensured, StillWanted, Revalidated, InLifecycle, Discard,
    NewObjects
<1>16. ASSUME NEW t \in Thread, SearchEnds(t) PROVE FinalizedIsEmpty'
  BY <1>16 DEF SearchEnds, Retire, ReleaseGrant, ResetOperations, InLifecycle, Revalidated,
    Found
<1>17. ASSUME NEW t \in Thread, Initialize(t) PROVE FinalizedIsEmpty'
  BY <1>17 DEF Initialize
<1>18. ASSUME NEW t \in Thread, FinalizeNow(t) PROVE FinalizedIsEmpty'
  BY <1>18 DEF FinalizeNow, Finalized, ReleaseGrant, ResetOperations
<1>19. ASSUME NEW t \in Thread, FinalizeEnd(t) PROVE FinalizedIsEmpty'
  BY <1>19 DEF FinalizeEnd, Finalized, ReleaseGrant, ResetOperations
<1>20. ASSUME NEW t \in Thread,
             ModuleCheck(t) \/ Refuse(t) \/ Wake(t) \/ FinalizeWait(t)
      PROVE  FinalizedIsEmpty'
  BY <1>20 DEF ModuleCheck, Refuse, Wake, FinalizeWait
<1>21. ASSUME NEW t \in Thread, NEW h \in Handle,
             SignStart(t, h) \/ DecryptStart(t, h) \/ SearchStart(t, h)
      PROVE  FinalizedIsEmpty'
  BY <1>21 DEF SignStart, SignPerform, MayContinue, CallPortal, DecryptStart, SearchStart
<1>22. CASE GrantGone \/ GrantExpires \/ GraceEnds \/ UNCHANGED vars
  BY <1>22 DEF GrantGone, GrantExpires, GraceEnds, vars
<1> QED BY <1>1, <1>2, <1>3, <1>4, <1>5, <1>6, <1>7, <1>8, <1>9, <1>10, <1>11, <1>12, <1>13,
  <1>14, <1>15, <1>16, <1>17, <1>18, <1>19, <1>20, <1>21, <1>22 DEF Next, ThreadStep

\* Steps keep an operation with its grant and its session.
LEMMA OperationStep ==
    ASSUME TypeOK, HandlesBehindSerials, FinalizedIsEmpty, OperationUsesItsGrant, [Next]_vars
    PROVE  OperationUsesItsGrant'
<1> USE DEF TypeOK, GrantTypeOK, SessionTypeOK, FinalizedIsEmpty, OperationUsesItsGrant
<1>1. ASSUME NEW t \in Thread, ObserveEnd(t) PROVE OperationUsesItsGrant'
  BY <1>1 DEF ObserveEnd, Retire, ReleaseGrant, ResetOperations
<1>2. ASSUME NEW t \in Thread, OpenSession(t) PROVE OperationUsesItsGrant'
  <2>1. nextSession \in Handle /\ serials' # 0
    BY <1>2 DEF OpenSession, HandlesBehindSerials
  <2>2. CASE Ended
    BY <1>2, <2>1, <2>2 DEF OpenSession, ReleaseGrant, ResetOperations
  <2>3. CASE ~Ended
    <3>1. /\ sessions' = [sessions EXCEPT ![nextSession] = serials']
          /\ UNCHANGED <<grantVars, workVars>>
      BY <1>2, <2>3 DEF OpenSession
    <3> QED BY <2>1, <3>1
  <2> QED BY <2>2, <2>3
<1>3. ASSUME NEW t \in Thread, CloseAllSessions(t) PROVE OperationUsesItsGrant'
  BY <1>3 DEF CloseAllSessions, ReleaseGrant, ResetOperations
<1>4. ASSUME NEW t \in Thread, NEW h \in Handle, CloseSession(t, h)
      PROVE  OperationUsesItsGrant'
  BY <1>4 DEF CloseSession
<1>5. ASSUME NEW t \in Thread, NEW h \in Handle, Logout(t, h)
      PROVE  OperationUsesItsGrant'
  BY <1>5 DEF Logout, ReleaseGrant, ResetOperations
<1>6. ASSUME NEW t \in Thread, NEW h \in Handle, SignInit(t, h)
      PROVE  OperationUsesItsGrant'
  BY <1>6 DEF SignInit, MayBegin, SignSetup
<1>7. ASSUME NEW t \in Thread, NEW h \in Handle, SignUpdateFails(t, h)
      PROVE  OperationUsesItsGrant'
  BY <1>7 DEF SignUpdateFails, MayContinue
<1>8. ASSUME NEW t \in Thread, NEW h \in Handle, DecryptInit(t, h)
      PROVE  OperationUsesItsGrant'
  BY <1>8 DEF DecryptInit, MayBegin
<1>9. ASSUME NEW t \in Thread, NEW h \in Handle, DecryptRefused(t, h)
      PROVE  OperationUsesItsGrant'
  BY <1>9 DEF DecryptRefused, MayContinue
<1>10. ASSUME NEW t \in Thread, SignReturns(t) PROVE OperationUsesItsGrant'
  BY <1>10 DEF SignReturns, PortalReturns
<1>11. ASSUME NEW t \in Thread, DecryptReturns(t) PROVE OperationUsesItsGrant'
  BY <1>11 DEF DecryptReturns, PortalReturns
<1>12. ASSUME NEW t \in Thread, Ensure(t) PROVE OperationUsesItsGrant'
  BY <1>12, EnsureCases DEF Retire, ReleaseGrant, ResetOperations
<1>13. ASSUME NEW t \in Thread, AcquireFails(t) PROVE OperationUsesItsGrant'
  BY <1>13 DEF AcquireFails, Ensured
<1>14. ASSUME NEW t \in Thread, AcquireReturns(t) PROVE OperationUsesItsGrant'
  BY <1>14 DEF AcquireReturns, Ensured, StillWanted, Revalidated, InLifecycle, Discard,
    NewObjects
<1>15. ASSUME NEW t \in Thread, SearchEnds(t) PROVE OperationUsesItsGrant'
  BY <1>15 DEF SearchEnds, Retire, ReleaseGrant, ResetOperations, InLifecycle, Revalidated,
    Found
<1>16. ASSUME NEW t \in Thread, Initialize(t) PROVE OperationUsesItsGrant'
  BY <1>16 DEF Initialize
<1>17. ASSUME NEW t \in Thread, FinalizeNow(t) PROVE OperationUsesItsGrant'
  BY <1>17 DEF FinalizeNow, Finalized, ReleaseGrant, ResetOperations
<1>18. ASSUME NEW t \in Thread, FinalizeEnd(t) PROVE OperationUsesItsGrant'
  BY <1>18 DEF FinalizeEnd, Finalized, ReleaseGrant, ResetOperations
<1>19. ASSUME NEW t \in Thread,
             ModuleCheck(t) \/ Refuse(t) \/ Wake(t) \/ FinalizeWait(t)
      PROVE  OperationUsesItsGrant'
  BY <1>19 DEF ModuleCheck, Refuse, Wake, FinalizeWait
<1>20. ASSUME NEW t \in Thread, NEW h \in Handle,
             FindObjectsFinal(t, h) \/ SignStart(t, h) \/ DecryptStart(t, h) \/ SearchStart(t,
               h)
      PROVE  OperationUsesItsGrant'
  BY <1>20 DEF FindObjectsFinal, SignStart, SignPerform, MayContinue, CallPortal, DecryptStart,
    SearchStart
<1>21. CASE GrantGone \/ GrantExpires \/ GraceEnds \/ UNCHANGED vars
  BY <1>21 DEF GrantGone, GrantExpires, GraceEnds, vars
<1> QED BY <1>1, <1>2, <1>3, <1>4, <1>5, <1>6, <1>7, <1>8, <1>9, <1>10, <1>11, <1>12, <1>13,
  <1>14, <1>15, <1>16, <1>17, <1>18, <1>19, <1>20, <1>21 DEF Next, ThreadStep

\* Steps orphan no grant.
LEMMA HeldOrClosedStep ==
    ASSUME TypeOK, GrantIsHeldOrClosed, [Next]_vars
    PROVE  GrantIsHeldOrClosed'
<1> USE DEF TypeOK, GrantTypeOK, GrantIsHeldOrClosed
<1>1. ASSUME NEW t \in Thread, ObserveEnd(t) PROVE GrantIsHeldOrClosed'
  BY <1>1 DEF ObserveEnd, Retire, ReleaseGrant, ResetOperations
<1>2. ASSUME NEW t \in Thread, OpenSession(t) PROVE GrantIsHeldOrClosed'
  BY <1>2 DEF OpenSession, ReleaseGrant, ResetOperations
<1>3. ASSUME NEW t \in Thread, CloseAllSessions(t) PROVE GrantIsHeldOrClosed'
  BY <1>3 DEF CloseAllSessions, ReleaseGrant, ResetOperations
<1>4. ASSUME NEW t \in Thread, NEW h \in Handle, Logout(t, h)
      PROVE  GrantIsHeldOrClosed'
  BY <1>4 DEF Logout, ReleaseGrant, ResetOperations
<1>5. ASSUME NEW t \in Thread, Ensure(t) PROVE GrantIsHeldOrClosed'
  BY <1>5, EnsureCases DEF Retire, ReleaseGrant, ResetOperations
<1>6. ASSUME NEW t \in Thread, AcquireReturns(t) PROVE GrantIsHeldOrClosed'
  BY <1>6 DEF AcquireReturns, Ensured, StillWanted, Revalidated, InLifecycle, Discard,
    NewObjects
<1>7. ASSUME NEW t \in Thread, SearchEnds(t) PROVE GrantIsHeldOrClosed'
  BY <1>7 DEF SearchEnds, Retire, ReleaseGrant, ResetOperations, InLifecycle, Revalidated,
    Found
<1>8. ASSUME NEW t \in Thread, FinalizeNow(t) PROVE GrantIsHeldOrClosed'
  BY <1>8 DEF FinalizeNow, Finalized, ReleaseGrant, ResetOperations
<1>9. ASSUME NEW t \in Thread, FinalizeEnd(t) PROVE GrantIsHeldOrClosed'
  BY <1>9 DEF FinalizeEnd, Finalized, ReleaseGrant, ResetOperations
<1>10. ASSUME NEW t \in Thread,
             ModuleCheck(t) \/ Refuse(t) \/ SignReturns(t) \/ DecryptReturns(t) \/ Wake(t) \/
               AcquireFails(t) \/ Initialize(t) \/ FinalizeWait(t)
      PROVE  GrantIsHeldOrClosed'
  BY <1>10 DEF ModuleCheck, Refuse, SignReturns, PortalReturns, DecryptReturns, Wake,
    AcquireFails, Ensured, Initialize, FinalizeWait
<1>11. ASSUME NEW t \in Thread, NEW h \in Handle,
             CloseSession(t, h) \/ FindObjectsFinal(t, h) \/ SignInit(t, h) \/ SignStart(t, h)
               \/ SignUpdateFails(t, h) \/ DecryptInit(t, h) \/ DecryptStart(t, h) \/
               DecryptRefused(t, h) \/ SearchStart(t, h)
      PROVE  GrantIsHeldOrClosed'
  BY <1>11 DEF CloseSession, FindObjectsFinal, SignInit, MayBegin, SignSetup, SignStart,
    SignPerform, MayContinue, CallPortal, SignUpdateFails, DecryptInit, DecryptStart,
    DecryptRefused, SearchStart
<1>12. CASE GrantGone \/ GrantExpires \/ GraceEnds \/ UNCHANGED vars
  BY <1>12 DEF GrantGone, GrantExpires, GraceEnds, vars
<1> QED BY <1>1, <1>2, <1>3, <1>4, <1>5, <1>6, <1>7, <1>8, <1>9, <1>10, <1>11, <1>12 DEF Next,
  ThreadStep

\* The handles that searches found are of generations up to the current one, and
\* name a key of the grant they were found under, or nothing.
HandlesAreOld ==
    \A key \in found : /\ key[1] <= generation /\ (key[1] = 0 => key[2] = 0)
                       /\ key[1] = objects => key[2] = grant

\* Steps give no old handle a new meaning.
LEMMA HandleStep ==
    ASSUME TypeOK, HandlesAreOld, [Next]_vars
    PROVE  HandlesAreOld'
<1> USE DEF TypeOK, GrantTypeOK, SessionTypeOK, HandlesAreOld
<1>1. ASSUME NEW t \in Thread, ObserveEnd(t) PROVE HandlesAreOld'
  BY <1>1 DEF ObserveEnd, Retire, ReleaseGrant, ResetOperations
<1>2. ASSUME NEW t \in Thread, OpenSession(t) PROVE HandlesAreOld'
  <2>1. CASE Ended
    BY <1>2, <2>1 DEF OpenSession, ReleaseGrant
  <2>2. CASE ~Ended
    BY <1>2, <2>2 DEF OpenSession
  <2> QED BY <2>1, <2>2
<1>3. ASSUME NEW t \in Thread, CloseAllSessions(t) PROVE HandlesAreOld'
  BY <1>3 DEF CloseAllSessions, ReleaseGrant, ResetOperations
<1>4. ASSUME NEW t \in Thread, NEW h \in Handle, Logout(t, h)
      PROVE  HandlesAreOld'
  BY <1>4 DEF Logout, ReleaseGrant, ResetOperations
<1>5. ASSUME NEW t \in Thread, Ensure(t) PROVE HandlesAreOld'
  BY <1>5, EnsureCases DEF Retire, ReleaseGrant, ResetOperations
<1>6. ASSUME NEW t \in Thread, AcquireReturns(t) PROVE HandlesAreOld'
  <2>1. UNCHANGED found
    BY <1>6 DEF AcquireReturns
  <2>2. CASE UNCHANGED <<grant, objects>> /\ generation' \in {generation, generation + 2}
    BY <2>1, <2>2
  <2>3. CASE objects' = generation + 1 /\ generation' = generation + 1
    BY <2>1, <2>3
  <2> QED BY <1>6, <2>2, <2>3 DEF AcquireReturns, NewObjects
<1>7. ASSUME NEW t \in Thread, SearchEnds(t) PROVE HandlesAreOld'
  <2>1. CASE Retire /\ UNCHANGED found
    BY <2>1 DEF Retire, ReleaseGrant
  <2>2. CASE UNCHANGED grantVars /\ found' \subseteq found \cup {<<objects, grant>>}
    <3>1. \A key \in found' : key \in found \/ (key[1] = objects /\ key[2] = grant)
      BY <2>2
    <3> QED BY <2>2, <3>1
  <2> QED BY <1>7, <2>1, <2>2 DEF SearchEnds, Found
<1>8. ASSUME NEW t \in Thread, FinalizeNow(t) PROVE HandlesAreOld'
  BY <1>8 DEF FinalizeNow, Finalized, ReleaseGrant, ResetOperations
<1>9. ASSUME NEW t \in Thread, FinalizeEnd(t) PROVE HandlesAreOld'
  BY <1>9 DEF FinalizeEnd, Finalized, ReleaseGrant, ResetOperations
<1>10. ASSUME NEW t \in Thread,
             ModuleCheck(t) \/ Refuse(t) \/ SignReturns(t) \/ DecryptReturns(t) \/ Wake(t) \/
               AcquireFails(t) \/ Initialize(t) \/ FinalizeWait(t)
      PROVE  HandlesAreOld'
  BY <1>10 DEF ModuleCheck, Refuse, SignReturns, PortalReturns, DecryptReturns, Wake,
    AcquireFails, Ensured, Initialize, FinalizeWait
<1>11. ASSUME NEW t \in Thread, NEW h \in Handle,
             CloseSession(t, h) \/ FindObjectsFinal(t, h) \/ SignInit(t, h) \/ SignStart(t, h)
               \/ SignUpdateFails(t, h) \/ DecryptInit(t, h) \/ DecryptStart(t, h) \/
               DecryptRefused(t, h) \/ SearchStart(t, h)
      PROVE  HandlesAreOld'
  BY <1>11 DEF CloseSession, FindObjectsFinal, SignInit, MayBegin, SignSetup, SignStart,
    SignPerform, MayContinue, CallPortal, SignUpdateFails, DecryptInit, DecryptStart,
    DecryptRefused, SearchStart
<1>12. CASE GrantGone \/ GrantExpires \/ GraceEnds \/ UNCHANGED vars
  BY <1>12 DEF GrantGone, GrantExpires, GraceEnds, vars
<1> QED BY <1>1, <1>2, <1>3, <1>4, <1>5, <1>6, <1>7, <1>8, <1>9, <1>10, <1>11, <1>12 DEF Next,
  ThreadStep

\* Handles that were not given out yet are free.
FreshHandlesAreFree == \A h \in Handle : sessions[h] # 0 => h < nextSession

SearchInv == FreshHandlesAreFree /\ SearchStaysInItsSession

\* Steps keep searches in the sessions they began in.
LEMMA SearchStep ==
    ASSUME TypeOK, HandlesBehindSerials, FinalizedIsEmpty, SearchInv, [Next]_vars
    PROVE  SearchInv'
<1> USE DEF TypeOK, SessionTypeOK, FinalizedIsEmpty, SearchInv, FreshHandlesAreFree,
  SearchStaysInItsSession
<1>1. ASSUME NEW t \in Thread, ObserveEnd(t) PROVE SearchInv'
  BY <1>1 DEF ObserveEnd, Retire, ReleaseGrant, ResetOperations
<1>2. ASSUME NEW t \in Thread, OpenSession(t) PROVE SearchInv'
  <2>1. nextSession \in Handle /\ nextSession' = nextSession + 1
    BY <1>2 DEF OpenSession, HandlesBehindSerials
  <2>2. sessions[nextSession] = 0 /\ finding[nextSession] = 0
    BY <2>1
  <2>3. CASE Ended
    <3>1. sessions' = [Empty EXCEPT ![nextSession] = serials'] /\ finding' = Empty
      BY <1>2, <2>3 DEF OpenSession
    <3> QED BY <2>1, <3>1
  <2>4. CASE ~Ended
    <3>1. sessions' = [sessions EXCEPT ![nextSession] = serials'] /\ UNCHANGED finding
      BY <1>2, <2>4 DEF OpenSession
    <3> QED BY <2>1, <2>2, <3>1
  <2> QED BY <2>3, <2>4
<1>3. ASSUME NEW t \in Thread, CloseAllSessions(t) PROVE SearchInv'
  BY <1>3 DEF CloseAllSessions, ReleaseGrant, ResetOperations
<1>4. ASSUME NEW t \in Thread, NEW h \in Handle, CloseSession(t, h)
      PROVE  SearchInv'
  BY <1>4 DEF CloseSession
<1>5. ASSUME NEW t \in Thread, NEW h \in Handle, FindObjectsFinal(t, h)
      PROVE  SearchInv'
  BY <1>5 DEF FindObjectsFinal
<1>6. ASSUME NEW t \in Thread, Ensure(t) PROVE SearchInv'
  BY <1>6, EnsureCases DEF Retire, ReleaseGrant, ResetOperations
<1>7. ASSUME NEW t \in Thread, SearchEnds(t) PROVE SearchInv'
  BY <1>7 DEF SearchEnds, Retire, ReleaseGrant, ResetOperations, InLifecycle, Revalidated,
    Found
<1>8. ASSUME NEW t \in Thread, Initialize(t) PROVE SearchInv'
  BY <1>8 DEF Initialize
<1>9. ASSUME NEW t \in Thread, FinalizeNow(t) PROVE SearchInv'
  BY <1>9 DEF FinalizeNow, Finalized, ReleaseGrant, ResetOperations
<1>10. ASSUME NEW t \in Thread, FinalizeEnd(t) PROVE SearchInv'
  BY <1>10 DEF FinalizeEnd, Finalized, ReleaseGrant, ResetOperations
<1>11. ASSUME NEW t \in Thread,
             ModuleCheck(t) \/ Refuse(t) \/ SignReturns(t) \/ DecryptReturns(t) \/ Wake(t) \/
               AcquireFails(t) \/ AcquireReturns(t) \/ FinalizeWait(t)
      PROVE  SearchInv'
  BY <1>11 DEF ModuleCheck, Refuse, SignReturns, PortalReturns, DecryptReturns, Wake,
    AcquireFails, Ensured, AcquireReturns, StillWanted, Revalidated, InLifecycle, Discard,
    NewObjects, FinalizeWait
<1>12. ASSUME NEW t \in Thread, NEW h \in Handle,
             Logout(t, h) \/ SignInit(t, h) \/ SignStart(t, h) \/ SignUpdateFails(t, h) \/
               DecryptInit(t, h) \/ DecryptStart(t, h) \/ DecryptRefused(t, h) \/
               SearchStart(t, h)
      PROVE  SearchInv'
  BY <1>12 DEF Logout, ReleaseGrant, ResetOperations, SignInit, MayBegin, SignSetup, SignStart,
    SignPerform, MayContinue, CallPortal, SignUpdateFails, DecryptInit, DecryptStart,
    DecryptRefused, SearchStart
<1>13. CASE GrantGone \/ GrantExpires \/ GraceEnds \/ UNCHANGED vars
  BY <1>13 DEF GrantGone, GrantExpires, GraceEnds, vars
<1> QED BY <1>1, <1>2, <1>3, <1>4, <1>5, <1>6, <1>7, <1>8, <1>9, <1>10, <1>11, <1>12, <1>13 DEF
  Next, ThreadStep

\* A thread has module_lock exactly where its call keeps it over a step.
LockIsHeld ==
    \A t \in Thread :
        lock = t <=> pc[t] \in {"ensuring", "granted", "ungranted", "signing", "decrypting"}

\* Steps keep the lock where the calls hold it.
LEMMA LockStep ==
    ASSUME TypeOK, LockIsHeld, [Next]_vars
    PROVE  LockIsHeld'
<1> USE DEF TypeOK, ThreadTypeOK, LockIsHeld
<1>1. ASSUME NEW t \in Thread, NEW h \in Handle, SignStart(t, h)
      PROVE  LockIsHeld'
  BY <1>1 DEF SignStart, SignPerform, MayContinue, CallPortal
<1>2. ASSUME NEW t \in Thread, NEW h \in Handle, DecryptStart(t, h)
      PROVE  LockIsHeld'
  BY <1>2 DEF DecryptStart, MayContinue, CallPortal
<1>3. ASSUME NEW t \in Thread, NEW h \in Handle, SearchStart(t, h)
      PROVE  LockIsHeld'
  BY <1>3 DEF SearchStart
<1>4. ASSUME NEW t \in Thread, SignReturns(t) PROVE LockIsHeld'
  BY <1>4 DEF SignReturns, PortalReturns
<1>5. ASSUME NEW t \in Thread, DecryptReturns(t) PROVE LockIsHeld'
  BY <1>5 DEF DecryptReturns, PortalReturns
<1>6. ASSUME NEW t \in Thread, Wake(t) PROVE LockIsHeld'
  BY <1>6 DEF Wake
<1>7. ASSUME NEW t \in Thread, Ensure(t) PROVE LockIsHeld'
  <2>1. pc[t] = "ensuring"
    BY <1>7, EnsureCases
  <2>2. \/ lock' = t /\ \E where \in {"granted", "ungranted"} : Go(t, where)
        \/ lock' = NoThread /\ Go(t, "acquiring")
    BY <1>7, EnsureCases DEF Ensured, BeginAcquire
  <2> QED
    BY <2>1, <2>2
<1>8. ASSUME NEW t \in Thread, AcquireFails(t) PROVE LockIsHeld'
  BY <1>8 DEF AcquireFails, Ensured
<1>9. ASSUME NEW t \in Thread, AcquireReturns(t) PROVE LockIsHeld'
  BY <1>9 DEF AcquireReturns, Ensured
<1>10. ASSUME NEW t \in Thread, SearchEnds(t) PROVE LockIsHeld'
  BY <1>10 DEF SearchEnds
<1>11. ASSUME NEW t \in Thread,
             ModuleCheck(t) \/ Refuse(t) \/ ObserveEnd(t) \/ OpenSession(t) \/
               CloseAllSessions(t) \/ Initialize(t) \/ FinalizeNow(t) \/ FinalizeWait(t) \/
               FinalizeEnd(t)
      PROVE  LockIsHeld'
  BY <1>11 DEF ModuleCheck, Refuse, ObserveEnd, Retire, ReleaseGrant, ResetOperations,
    OpenSession, CloseAllSessions, Initialize, FinalizeNow, Finalized, FinalizeWait,
    FinalizeEnd
<1>12. ASSUME NEW t \in Thread, NEW h \in Handle,
             CloseSession(t, h) \/ Logout(t, h) \/ FindObjectsFinal(t, h) \/ SignInit(t, h) \/
               SignUpdateFails(t, h) \/ DecryptInit(t, h) \/ DecryptRefused(t, h)
      PROVE  LockIsHeld'
  BY <1>12 DEF CloseSession, Logout, ReleaseGrant, ResetOperations, FindObjectsFinal, SignInit,
    MayBegin, SignSetup, SignUpdateFails, MayContinue, DecryptInit, DecryptRefused
<1>13. CASE GrantGone \/ GrantExpires \/ GraceEnds \/ UNCHANGED vars
  BY <1>13 DEF GrantGone, GrantExpires, GraceEnds, vars
<1> QED BY <1>1, <1>2, <1>3, <1>4, <1>5, <1>6, <1>7, <1>8, <1>9, <1>10, <1>11, <1>12, <1>13 DEF
  Next, ThreadStep

\* One thread acquires at a time, while the module has no grant.
AcquirerIsAlone ==
    \A t \in Thread : pc[t] = "acquiring" =>
        acquiring /\ grant = 0 /\ \A u \in Thread : pc[u] = "acquiring" => u = t

\* Steps begin no second acquisition.
LEMMA AcquirerStep ==
    ASSUME TypeOK, AcquirerIsAlone, [Next]_vars
    PROVE  AcquirerIsAlone'
<1> USE DEF TypeOK, ThreadTypeOK, AcquirerIsAlone
<1>1. ASSUME NEW t \in Thread, ObserveEnd(t) PROVE AcquirerIsAlone'
  BY <1>1 DEF ObserveEnd, Retire, ReleaseGrant, ResetOperations
<1>2. ASSUME NEW t \in Thread, OpenSession(t) PROVE AcquirerIsAlone'
  BY <1>2 DEF OpenSession, ReleaseGrant, ResetOperations
<1>3. ASSUME NEW t \in Thread, CloseAllSessions(t) PROVE AcquirerIsAlone'
  BY <1>3 DEF CloseAllSessions, ReleaseGrant, ResetOperations
<1>4. ASSUME NEW t \in Thread, NEW h \in Handle, Logout(t, h)
      PROVE  AcquirerIsAlone'
  BY <1>4 DEF Logout, ReleaseGrant, ResetOperations
<1>5. ASSUME NEW t \in Thread, NEW h \in Handle, SearchStart(t, h)
      PROVE  AcquirerIsAlone'
  BY <1>5 DEF SearchStart
<1>6. ASSUME NEW t \in Thread, Ensure(t) PROVE AcquirerIsAlone'
  <2>1. CASE Retire /\ Ensured(t, "ungranted") /\ UNCHANGED acquiring
    BY <2>1 DEF Retire, ReleaseGrant, Ensured
  <2>2. CASE /\ \E where \in {"granted", "ungranted"} : Ensured(t, where)
             /\ UNCHANGED <<acquiring, grantVars>>
    BY <2>2 DEF Ensured
  <2>3. CASE ~acquiring /\ grant = 0 /\ BeginAcquire(t) /\ UNCHANGED grantVars
    BY <2>3 DEF BeginAcquire
  <2> QED BY <1>6, <2>1, <2>2, <2>3, EnsureCases
<1>7. ASSUME NEW t \in Thread, AcquireFails(t) PROVE AcquirerIsAlone'
  BY <1>7 DEF AcquireFails, Ensured
<1>8. ASSUME NEW t \in Thread, AcquireReturns(t) PROVE AcquirerIsAlone'
  BY <1>8 DEF AcquireReturns, Ensured, StillWanted, Revalidated, InLifecycle, Discard,
    NewObjects
<1>9. ASSUME NEW t \in Thread, SearchEnds(t) PROVE AcquirerIsAlone'
  BY <1>9 DEF SearchEnds, Retire, ReleaseGrant, ResetOperations, InLifecycle, Revalidated,
    Found
<1>10. ASSUME NEW t \in Thread, FinalizeNow(t) PROVE AcquirerIsAlone'
  BY <1>10 DEF FinalizeNow, Finalized, ReleaseGrant, ResetOperations
<1>11. ASSUME NEW t \in Thread, FinalizeEnd(t) PROVE AcquirerIsAlone'
  BY <1>11 DEF FinalizeEnd, Finalized, ReleaseGrant, ResetOperations
<1>12. ASSUME NEW t \in Thread,
             ModuleCheck(t) \/ Refuse(t) \/ SignReturns(t) \/ DecryptReturns(t) \/ Wake(t) \/
               Initialize(t) \/ FinalizeWait(t)
      PROVE  AcquirerIsAlone'
  BY <1>12 DEF ModuleCheck, Refuse, SignReturns, PortalReturns, DecryptReturns, Wake,
    Initialize, FinalizeWait
<1>13. ASSUME NEW t \in Thread, NEW h \in Handle,
             CloseSession(t, h) \/ FindObjectsFinal(t, h) \/ SignInit(t, h) \/ SignStart(t, h)
               \/ SignUpdateFails(t, h) \/ DecryptInit(t, h) \/ DecryptStart(t, h) \/
               DecryptRefused(t, h)
      PROVE  AcquirerIsAlone'
  BY <1>13 DEF CloseSession, FindObjectsFinal, SignInit, MayBegin, SignSetup, SignStart,
    SignPerform, MayContinue, CallPortal, SignUpdateFails, DecryptInit, DecryptStart,
    DecryptRefused
<1>14. CASE GrantGone \/ GrantExpires \/ GraceEnds \/ UNCHANGED vars
  BY <1>14 DEF GrantGone, GrantExpires, GraceEnds, vars
<1> QED BY <1>1, <1>2, <1>3, <1>4, <1>5, <1>6, <1>7, <1>8, <1>9, <1>10, <1>11, <1>12, <1>13,
  <1>14 DEF Next, ThreadStep

\* Steps free no client under a thread that is in it.
LEMMA ClientStep ==
    ASSUME TypeOK, FinalizedIsEmpty, LockIsHeld, AcquirerIsAlone, ClientOutlivesItsCalls,
      [Next]_vars
    PROVE  ClientOutlivesItsCalls'
<1> USE DEF TypeOK, ThreadTypeOK, LifeTypeOK, SessionTypeOK, FinalizedIsEmpty,
  ClientOutlivesItsCalls
<1>1. ASSUME NEW t \in Thread, NEW h \in Handle, SignStart(t, h)
      PROVE  ClientOutlivesItsCalls'
  BY <1>1 DEF SignStart, SignPerform, MayContinue, CallPortal
<1>2. ASSUME NEW t \in Thread, NEW h \in Handle, DecryptStart(t, h)
      PROVE  ClientOutlivesItsCalls'
  BY <1>2 DEF DecryptStart, MayContinue, CallPortal
<1>3. ASSUME NEW t \in Thread, NEW h \in Handle, SearchStart(t, h)
      PROVE  ClientOutlivesItsCalls'
  BY <1>3 DEF SearchStart
<1>4. ASSUME NEW t \in Thread, SignReturns(t) PROVE ClientOutlivesItsCalls'
  BY <1>4 DEF SignReturns, PortalReturns
<1>5. ASSUME NEW t \in Thread, DecryptReturns(t) PROVE ClientOutlivesItsCalls'
  BY <1>5 DEF DecryptReturns, PortalReturns
<1>6. ASSUME NEW t \in Thread, Wake(t) PROVE ClientOutlivesItsCalls'
  BY <1>6 DEF Wake
<1>7. ASSUME NEW t \in Thread, Ensure(t) PROVE ClientOutlivesItsCalls'
  <2>1. UNCHANGED client
    BY <1>7, EnsureCases
  <2>2. CASE \E where \in {"granted", "ungranted"} : Ensured(t, where)
    BY <2>1, <2>2 DEF Ensured
  <2>3. CASE Revalidated(t) /\ BeginAcquire(t)
    <3>1. client = call[t].lifecycle /\ client # 0
      BY <2>3 DEF Revalidated, InLifecycle
    <3>2. /\ pc' = [pc EXCEPT ![t] = "acquiring"]
          /\ \A u \in Thread : call'[u].lifecycle = call[u].lifecycle
      BY <2>3 DEF BeginAcquire, Call
    <3> QED BY <2>1, <3>1, <3>2
  <2> QED BY <1>7, <2>2, <2>3, EnsureCases
<1>8. ASSUME NEW t \in Thread, AcquireFails(t) PROVE ClientOutlivesItsCalls'
  BY <1>8 DEF AcquireFails, Ensured
<1>9. ASSUME NEW t \in Thread, AcquireReturns(t) PROVE ClientOutlivesItsCalls'
  BY <1>9 DEF AcquireReturns, Ensured
<1>10. ASSUME NEW t \in Thread, SearchEnds(t) PROVE ClientOutlivesItsCalls'
  BY <1>10 DEF SearchEnds
<1>11. ASSUME NEW t \in Thread, Initialize(t) PROVE ClientOutlivesItsCalls'
  BY <1>11 DEF Initialize
<1>12. ASSUME NEW t \in Thread, FinalizeNow(t) PROVE ClientOutlivesItsCalls'
  BY <1>12 DEF FinalizeNow, Finalized, LockIsHeld, AcquirerIsAlone
<1>13. ASSUME NEW t \in Thread, FinalizeEnd(t) PROVE ClientOutlivesItsCalls'
  BY <1>13 DEF FinalizeEnd, Finalized, LockIsHeld, AcquirerIsAlone
<1>14. ASSUME NEW t \in Thread,
             ModuleCheck(t) \/ Refuse(t) \/ ObserveEnd(t) \/ OpenSession(t) \/
               CloseAllSessions(t) \/ FinalizeWait(t)
      PROVE  ClientOutlivesItsCalls'
  BY <1>14 DEF ModuleCheck, Refuse, ObserveEnd, Retire, ReleaseGrant, ResetOperations,
    OpenSession, CloseAllSessions, FinalizeWait
<1>15. ASSUME NEW t \in Thread, NEW h \in Handle,
             CloseSession(t, h) \/ Logout(t, h) \/ FindObjectsFinal(t, h) \/ SignInit(t, h) \/
               SignUpdateFails(t, h) \/ DecryptInit(t, h) \/ DecryptRefused(t, h)
      PROVE  ClientOutlivesItsCalls'
  BY <1>15 DEF CloseSession, Logout, ReleaseGrant, ResetOperations, FindObjectsFinal, SignInit,
    MayBegin, SignSetup, SignUpdateFails, MayContinue, DecryptInit, DecryptRefused
<1>16. CASE GrantGone \/ GrantExpires \/ GraceEnds \/ UNCHANGED vars
  BY <1>16 DEF GrantGone, GrantExpires, GraceEnds, vars
<1> QED BY <1>1, <1>2, <1>3, <1>4, <1>5, <1>6, <1>7, <1>8, <1>9, <1>10, <1>11, <1>12, <1>13,
  <1>14, <1>15, <1>16 DEF Next, ThreadStep

-----------------------------------------------------------------------------
\* The inductive invariant: the types, the lock and the acquisition that is under
\* way, and what searches, operations, handles and grants are tied to.
IInv ==
    /\ TypeOK /\ HandlesBehindSerials
    /\ FinalizedIsEmpty /\ LockIsHeld /\ AcquirerIsAlone /\ ClientOutlivesItsCalls
    /\ GrantIsHeldOrClosed /\ OperationUsesItsGrant /\ HandlesAreOld /\ SearchInv

\* The inductive invariant holds in every state of the module.
THEOREM Inductive == Spec => []IInv
<1>1. Init => FinalizedIsEmpty /\ LockIsHeld /\ AcquirerIsAlone /\ ClientOutlivesItsCalls
  BY DEF Init, FinalizedIsEmpty, LockIsHeld, AcquirerIsAlone, ClientOutlivesItsCalls
<1>2. Init => GrantIsHeldOrClosed /\ OperationUsesItsGrant /\ HandlesAreOld /\ SearchInv
  BY DEF Init, GrantIsHeldOrClosed, OperationUsesItsGrant, HandlesAreOld, SearchInv,
         FreshHandlesAreFree, SearchStaysInItsSession
<1>3. IInv /\ [Next]_vars /\ (TypeOK /\ HandlesBehindSerials)' => IInv'
  BY FinalizedStep, LockStep, AcquirerStep, ClientStep, HeldOrClosedStep, OperationStep,
     HandleStep, SearchStep DEF IInv
<1> QED BY <1>1, <1>2, <1>3, TypeCorrect, PTL DEF Spec, IInv

\* No grant of the portal's is orphaned (ensure_grant, release_grant): whatever
\* interrupts a search, each grant is the module's, closed, or gone.
THEOREM NoGrantOrphaned == Spec => []GrantIsHeldOrClosed
<1>1. IInv => GrantIsHeldOrClosed
  BY DEF IInv
<1> QED BY <1>1, Inductive, PTL

\* A signature or a decryption never goes through a grant other than the one its
\* operation was begun under (drop_objects, sign_perform, C_Decrypt).
THEOREM OperationsKeepTheirGrant == Spec => []OperationUsesItsGrant
<1>1. IInv => OperationUsesItsGrant
  BY DEF IInv
<1> QED BY <1>1, Inductive, PTL

\* A handle never names a key of a grant acquired after it was found
\* (portal_objects_new), over logouts and initialisations too.
THEOREM OldHandlesNameNothingNew == Spec => []HandleNamesItsGrant
<1>1. IInv => HandleNamesItsGrant
  BY DEF IInv, HandlesAreOld, HandleNamesItsGrant, NamesAnObject
<1> QED BY <1>1, Inductive, PTL

\* C_Finalize frees no client under a thread that is in it.
THEOREM ClientIsNotFreedInUse == Spec => []ClientOutlivesItsCalls
<1>1. IInv => ClientOutlivesItsCalls
  BY DEF IInv
<1> QED BY <1>1, Inductive, PTL

\* Any number of searches share one acquisition (ensure_grant), and none begins
\* while the module has a grant.
THEOREM AcquisitionIsShared == Spec => []OneAcquisition
<1>1. IInv => OneAcquisition
  <2> SUFFICES ASSUME IInv PROVE OneAcquisition
    OBVIOUS
  <2> DEFINE A == {t \in Thread : pc[t] = "acquiring"}
  <2>1. AcquirerIsAlone
    BY DEF IInv
  <2>2. CASE A = {}
    BY <2>2, FS_EmptySet DEF OneAcquisition
  <2>3. CASE A # {}
    <3>1. PICK t \in Thread : A = {t}
      BY <2>1, <2>3 DEF AcquirerIsAlone
    <3>2. Cardinality(A) = 1
      BY <3>1, FS_Singleton
    <3>3. grant = 0
      BY <2>1, <3>1 DEF AcquirerIsAlone
    <3> HIDE DEF A
    <3> QED BY <3>2, <3>3 DEF OneAcquisition, A
  <2> QED BY <2>2, <2>3
<1> QED BY <1>1, Inductive, PTL

\* A search ends in the session it was begun in (session_revalidate), although
\* its handle may belong to another session by then.
THEOREM SearchesStayInTheirSessions == Spec => []SearchStaysInItsSession
<1>1. IInv => SearchStaysInItsSession
  BY DEF IInv, SearchInv
<1> QED BY <1>1, Inductive, PTL
=============================================================================
