---------------------------- MODULE Core_proofs ----------------------------
(***************************************************************************)
(* Proofs about the core for every number of sessions, requests and        *)
(* tokens: its types, who owns a session's grant, what the removal of a    *)
(* token and the shutdown reach, which answers are successes, and that the *)
(* core implements the life cycle of a grant.                              *)
(***************************************************************************)
EXTENDS Core, SequenceTheorems, TLAPS

\* Type correctness of the core's state.
THEOREM TypeCorrect == Spec => []TypeOK
<1> USE CoreAssumption DEF TypeOK, ControlTypeOK, RequestTypeOK, ChooserTypeOK, SessionTypeOK,
    TokenTypeOK, Code, Reason, Phase, shutVars, ownerVars, answerVars, cancelVars, workVars,
    chooserVars, requestVars, grantVars, sessionVars, tokenVars
<1>0. Acquire \subseteq Request /\ Sign \subseteq Request
  BY DEF Request
<1>1. Init => TypeOK
  BY DEF Init, NoDrain
<1>2. TypeOK /\ [Next]_vars => TypeOK'
  <2> SUFFICES ASSUME TypeOK, [Next]_vars PROVE TypeOK'
    OBVIOUS
  <2>1. ASSUME NEW s \in Session, CreateSession(s) PROVE TypeOK'
    BY <1>0, <2>1 DEF CreateSession, Idle
  <2>2. ASSUME NEW r \in Request, Submit(r) PROVE TypeOK'
    <3>1. RequestTypeOK'
      <4> HIDE DEF ControlTypeOK, ChooserTypeOK, SessionTypeOK, TokenTypeOK
      <4> QED BY <1>0, <2>2 DEF Submit
    <3>2. ControlTypeOK' /\ ChooserTypeOK' /\ SessionTypeOK' /\ TokenTypeOK'
      <4> HIDE DEF RequestTypeOK
      <4> QED BY <1>0, <2>2 DEF Submit
    <3> QED BY <3>1, <3>2
  <2>3. ASSUME NEW r \in Request, NEW why \in CancelReasons, Cancel(r, why) PROVE TypeOK'
    BY <1>0, <2>3 DEF Cancel
  <2>4. ASSUME NEW s \in Session, CloseSession(s) PROVE TypeOK'
    BY <1>0, <2>4 DEF CloseSession
  <2>5. CASE SetOwnerGeneration
    BY <1>0, <2>5 DEF SetOwnerGeneration
  <2>6. CASE ShutdownAsync
    BY <1>0, <2>6 DEF ShutdownAsync
  <2>7. ASSUME NEW r \in Request, Reply(r) PROVE TypeOK'
    BY <1>0, <2>7 DEF Reply
  <2>8. ASSUME NEW s \in Session, PassDeadline(s) PROVE TypeOK'
    BY <1>0, <2>8 DEF PassDeadline
  <2>9. ASSUME NEW p \in Presence, Insert(p) PROVE TypeOK'
    BY <1>0, <2>9 DEF Insert
  <2>10. ASSUME NEW p \in Presence, Remove(p) PROVE TypeOK'
    BY <1>0, <2>10 DEF Remove
  <2>11. ASSUME NEW p \in Presence, NEW added \in BOOLEAN, WatchEmit(p, added) PROVE TypeOK'
    BY <1>0, <2>11 DEF WatchEmit, Event
  <2>12. ASSUME NEW p \in Presence, NEW q \in Presence, WatchMiss(p, q) PROVE TypeOK'
    BY <1>0, <2>12 DEF WatchMiss
  <2>13. CASE WatchDispatch
    BY <1>0, <2>13 DEF WatchDispatch, BeginDrain
  <2>14. CASE DispatchEvent
    <3> DEFINE p == Head(events).card
               added == Head(events).added
    <3>1. /\ Len(events) > 0
          /\ p \in Presence /\ added \in BOOLEAN
          /\ Tail(events) \in Seq(Event) /\ Len(Tail(events)) = Len(events) - 1
      <4>1. events # <<>>
        BY <2>14 DEF DispatchEvent
      <4>2. Head(events) \in Event /\ Tail(events) \in Seq(Event)
            /\ Len(Tail(events)) = Len(events) - 1
        BY <4>1, HeadTailProperties, Zenon
      <4> QED BY <4>1, <4>2 DEF Event
    <3>2. TokenEvent(p, added)
      BY <2>14 DEF DispatchEvent
    <3>3. RequestTypeOK' /\ ChooserTypeOK' /\ gone' \in SUBSET Presence
          /\ sess' \in [Session -> {"none", "open", "closed"}]
          /\ notice' \in [Session -> {"none", "queued", "told"}]
      <4> HIDE DEF p, added
      <4>1. /\ ChooserTypeOK' /\ gone' \in SUBSET Presence
            /\ sess' \in [Session -> {"none", "open", "closed"}]
            /\ notice' \in [Session -> {"none", "queued", "told"}]
        BY <2>14, <3>1, <3>2 DEF DispatchEvent, TokenEvent, EndSessions
      <4>2. /\ work' \in [Request -> {"none", "reading", "read", "failed", "cancelled",
                                     "signing", "signed", "removed"}]
            /\ again' \in [Request -> BOOLEAN]
            /\ UNCHANGED <<phase, error, ask, snap, cand>>
        BY <2>14, <3>1, <3>2 DEF DispatchEvent, TokenEvent
      <4>3. /\ intent' \in [Request -> Reason] /\ code' \in [Request -> Code]
            /\ cancelled' \in [Request -> BOOLEAN]
        <5>1. CASE added
          BY <3>2, <5>1 DEF TokenEvent
        <5>2. CASE ~added
          <6>1. intent' \in [Request -> Reason]
            BY <3>2, <5>2 DEF TokenEvent, EndSessions
          <6>2. code' \in [Request -> Code]
            BY <3>2, <5>2 DEF TokenEvent, EndSessions
          <6>3. cancelled' \in [Request -> BOOLEAN]
            <7> HIDE DEF ControlTypeOK, ChooserTypeOK, SessionTypeOK, TokenTypeOK
            <7>1. EndSessions(Holders(p), "token_removed", TRUE, Revoked(p))
              BY <3>2, <5>2 DEF TokenEvent
            <7>2. DOMAIN cancelled' = Request /\ cancelled' = [r \in Request |-> cancelled'[r]]
              BY <7>1 DEF EndSessions
            <7>3. \A r \in Request : cancelled'[r] \in BOOLEAN
              BY <7>1 DEF EndSessions
            <7> QED BY <7>2, <7>3
          <6> QED BY <6>1, <6>2, <6>3
        <5> QED BY <5>1, <5>2
      <4> QED BY <4>1, <4>2, <4>3
    <3>4. drain'.left <= Len(events') /\ events' \in Seq(Event)
          /\ drain' \in [kind: {"idle", "watch", "consent", "snapshot"},
                         req: Acquire \cup {NoRequest}, left: Nat]
      BY <2>14, <3>1 DEF DispatchEvent, NoDrain
    <3> QED BY <2>14, <3>3, <3>4 DEF DispatchEvent
  <2>15. ASSUME NEW r \in Request, RefuseSpec(r) PROVE TypeOK'
    BY <1>0, <2>15 DEF RefuseSpec, Complete, CompleteWith, Validation
  <2>16. ASSUME NEW r \in Acquire, StartAcquire(r) PROVE TypeOK'
    <3>1. RequestTypeOK'
      <4> HIDE DEF ControlTypeOK, ChooserTypeOK, SessionTypeOK, TokenTypeOK
      <4>1. AcquireRefusal(r) \in Code
        BY DEF AcquireRefusal, Validation
      <4>2. CASE AcquireRefusal(r) # "ok"
        BY <1>0, <2>16, <4>1, <4>2 DEF StartAcquire, Complete, CompleteWith
      <4>3. CASE AcquireRefusal(r) = "ok"
        <5> HIDE DEF RequestTypeOK
        <5>1. /\ phase' = [phase EXCEPT ![r] = "active"] /\ work' = [work EXCEPT ![r] = "reading"]
              /\ again' = [again EXCEPT ![r] = FALSE]
              /\ UNCHANGED <<intent, code, cancelled, error, ask, snap, cand>>
          BY <2>16, <4>3 DEF StartAcquire
        <5>2. /\ phase \in [Request -> Phase] /\ again \in [Request -> BOOLEAN]
              /\ work \in [Request -> {"none", "reading", "read", "failed", "cancelled",
                                       "signing", "signed", "removed"}]
          BY DEF RequestTypeOK
        <5>3. phase' \in [Request -> Phase]
          BY <1>0, <5>1, <5>2
        <5>4. /\ again' \in [Request -> BOOLEAN]
              /\ work' \in [Request -> {"none", "reading", "read", "failed", "cancelled",
                                        "signing", "signed", "removed"}]
          BY <1>0, <5>1, <5>2
        <5> QED
          BY <5>1, <5>3, <5>4 DEF RequestTypeOK
      <4> QED BY <4>2, <4>3
    <3>2. ControlTypeOK' /\ ChooserTypeOK' /\ SessionTypeOK' /\ TokenTypeOK'
      <4> HIDE DEF RequestTypeOK
      <4> QED BY <1>0, <2>16 DEF StartAcquire, Complete, CompleteWith, AcquireRefusal, Validation
    <3> QED BY <3>1, <3>2
  <2>17. ASSUME NEW r \in Sign, StartSign(r) PROVE TypeOK'
    <3>1. RequestTypeOK'
      <4> HIDE DEF ControlTypeOK, ChooserTypeOK, SessionTypeOK, TokenTypeOK
      <4> QED BY <1>0, <2>17 DEF StartSign, Complete, CompleteWith, SignRefusal, Validation
    <3>2. ControlTypeOK' /\ ChooserTypeOK' /\ SessionTypeOK' /\ TokenTypeOK'
      <4> HIDE DEF RequestTypeOK
      <4> QED BY <1>0, <2>17 DEF StartSign, Complete, CompleteWith, SignRefusal, Validation
    <3> QED BY <3>1, <3>2
  <2>18. ASSUME NEW r \in Acquire, EnumerateRead(r) PROVE TypeOK'
    <3>1. RequestTypeOK'
      <4> HIDE DEF ControlTypeOK, ChooserTypeOK, SessionTypeOK, TokenTypeOK
      <4> QED BY <1>0, <2>18 DEF EnumerateRead
    <3>2. ControlTypeOK' /\ ChooserTypeOK' /\ SessionTypeOK' /\ TokenTypeOK'
      <4> HIDE DEF RequestTypeOK
      <4> QED BY <1>0, <2>18 DEF EnumerateRead
    <3> QED BY <3>1, <3>2
  <2>19. ASSUME NEW r \in Sign, SignWork(r) PROVE TypeOK'
    BY <1>0, <2>19 DEF SignWork
  <2>20. ASSUME NEW r \in Acquire, EnumerationDone(r) PROVE TypeOK'
    BY <1>0, <2>20 DEF EnumerationDone, BeginDrain
  <2>21. ASSUME NEW r \in Acquire, SnapshotEnds(r) PROVE TypeOK'
    <3>1. RequestTypeOK'
      <4> HIDE DEF ControlTypeOK, ChooserTypeOK, SessionTypeOK, TokenTypeOK
      <4> QED BY <1>0, <2>21 DEF SnapshotEnds, EndsUnshown, Complete, CompleteWith, DropSnapshot, NoDrain
    <3>2. ControlTypeOK' /\ ChooserTypeOK' /\ SessionTypeOK' /\ TokenTypeOK'
      <4> HIDE DEF RequestTypeOK
      <4> QED BY <1>0, <2>21 DEF SnapshotEnds, EndsUnshown, Complete, CompleteWith, DropSnapshot, NoDrain
    <3> QED BY <3>1, <3>2
  <2>22. ASSUME NEW r \in Acquire, SnapshotConsent(r) PROVE TypeOK'
    <3>1. ChooserTypeOK'
      <4> HIDE DEF ControlTypeOK, SessionTypeOK, TokenTypeOK
      <4>1. chosen' = chosen \/ \E p \in Presence : chosen' = [chosen EXCEPT ![r] = p]
        <5>1. \A p \in snap[r] \cap Matching : p \in Presence
          BY <1>0
        <5> HIDE DEF ChooserTypeOK, RequestTypeOK
        <5> QED BY <2>22, <5>1 DEF SnapshotConsent
      <4>2. UNCHANGED <<chooser, choices, readingTokens, reply, fresh>>
        BY <2>22 DEF SnapshotConsent
      <4> HIDE DEF RequestTypeOK
      <4>3. chosen' \in [Request -> Presence \cup {"none", "dismissed", "failed"}]
        BY <1>0, <4>1
      <4> QED BY <4>2, <4>3
    <3>2. ControlTypeOK' /\ RequestTypeOK'
      <4> HIDE DEF ChooserTypeOK, SessionTypeOK, TokenTypeOK
      <4> QED BY <1>0, <2>22 DEF SnapshotConsent, DropSnapshot, BeginDrain
    <3>3. SessionTypeOK' /\ TokenTypeOK'
      <4> HIDE DEF ChooserTypeOK, ControlTypeOK, RequestTypeOK
      <4> QED BY <1>0, <2>22 DEF SnapshotConsent, DropSnapshot, BeginDrain
    <3> QED BY <3>1, <3>2, <3>3
  <2>23. ASSUME NEW r \in Acquire, SnapshotAgain(r) PROVE TypeOK'
    BY <1>0, <2>23 DEF SnapshotAgain, DropSnapshot, NoDrain
  <2>24. ASSUME NEW r \in Acquire, SnapshotFailsChooser(r) PROVE TypeOK'
    BY <1>0, <2>24 DEF SnapshotFailsChooser, DropSnapshot, NoDrain
  <2>25. ASSUME NEW r \in Acquire, SnapshotShown(r) PROVE TypeOK'
    BY <1>0, <2>25 DEF SnapshotShown, DropSnapshot, NoDrain
  <2>26. ASSUME NEW r \in Acquire, HandleReply(r) PROVE TypeOK'
    <3>1. ChooserTypeOK'
      <4> HIDE DEF ControlTypeOK, RequestTypeOK, SessionTypeOK, TokenTypeOK
      <4>1. /\ reply' = [reply EXCEPT ![r] = "none"] /\ fresh' = [fresh EXCEPT ![r] = FALSE]
            /\ \/ FinishChooser(r, reply[r])
               \/ UNCHANGED <<chooser, choices, readingTokens, chosen>>
        BY <2>26 DEF HandleReply, FinishChooser
      <4>2. /\ chooser' \in [Request -> {"none", "open", "done"}]
            /\ choices' \in [Request -> SUBSET Presence] /\ readingTokens' \in [Request -> BOOLEAN]
        BY <1>0, <4>1 DEF FinishChooser
      <4>3. chosen' \in [Request -> Presence \cup {"none", "dismissed", "failed"}]
        BY <1>0, <4>1 DEF FinishChooser
      <4> QED BY <1>0, <4>1, <4>2, <4>3
    <3>2. ControlTypeOK' /\ RequestTypeOK' /\ SessionTypeOK' /\ TokenTypeOK'
      <4> HIDE DEF ChooserTypeOK
      <4> QED BY <1>0, <2>26 DEF HandleReply, FinishChooser, BeginDrain
    <3> QED BY <3>1, <3>2
  <2>27. ASSUME NEW r \in Acquire, ChooserCancelled(r) PROVE TypeOK'
    BY <1>0, <2>27 DEF ChooserCancelled, FinishChooser, BeginDrain
  <2>28. ASSUME NEW r \in Acquire, ConsentWaits(r) PROVE TypeOK'
    BY <1>0, <2>28 DEF ConsentWaits, NoDrain
  <2>29. ASSUME NEW r \in Acquire, ConsentEnds(r) PROVE TypeOK'
    <3>1. RequestTypeOK'
      <4> HIDE DEF ControlTypeOK, ChooserTypeOK, SessionTypeOK, TokenTypeOK
      <4> QED BY <1>0, <2>29 DEF ConsentEnds, Complete, CompleteWith, Refusal, NoDrain
    <3>2. ControlTypeOK' /\ ChooserTypeOK' /\ SessionTypeOK' /\ TokenTypeOK'
      <4> HIDE DEF RequestTypeOK
      <4> QED BY <1>0, <2>29 DEF ConsentEnds, Complete, CompleteWith, Refusal, NoDrain
    <3> QED BY <3>1, <3>2
  <2>30. ASSUME NEW r \in Acquire, Commit(r) PROVE TypeOK'
    BY <1>0, <2>30 DEF Commit, Complete, CompleteWith, Consented, Uncancelled, NoDrain
  <2>31. ASSUME NEW r \in Sign, SignDone(r) PROVE TypeOK'
    BY <1>0, <2>31 DEF SignDone, CompleteWith, EndSessions, Open
  <2>32. ASSUME NEW r \in Request, RunCancel(r) PROVE TypeOK'
    <3>1. RequestTypeOK'
      <4> HIDE DEF ControlTypeOK, ChooserTypeOK, SessionTypeOK, TokenTypeOK
      <4> QED BY <1>0, <2>32 DEF RunCancel
    <3>2. ControlTypeOK' /\ ChooserTypeOK' /\ SessionTypeOK' /\ TokenTypeOK'
      <4> HIDE DEF RequestTypeOK
      <4> QED BY <1>0, <2>32 DEF RunCancel
    <3> QED BY <3>1, <3>2
  <2>33. ASSUME NEW s \in Session, RunClose(s) PROVE TypeOK'
    BY <1>0, <2>33 DEF RunClose, EndSessions, Open
  <2>34. ASSUME NEW s \in Session, LifetimeExpired(s) PROVE TypeOK'
    BY <1>0, <2>34 DEF LifetimeExpired, EndSessions
  <2>35. CASE RunGeneration
    BY <1>0, <2>35 DEF RunGeneration, Open
  <2>36. ASSUME NEW r \in Request, ReadIntent(r) PROVE TypeOK'
    BY <1>0, <2>36 DEF ReadIntent
  <2>37. ASSUME NEW r \in Request, Deliver(r) PROVE TypeOK'
    BY <1>0, <2>37 DEF Deliver
  <2>38. ASSUME NEW r \in Acquire, Rollback(r) PROVE TypeOK'
    BY <1>0, <2>38 DEF Rollback
  <2>39. ASSUME NEW r \in Request, CompletionAck(r) PROVE TypeOK'
    BY <1>0, <2>39 DEF CompletionAck
  <2>40. ASSUME NEW s \in Session, DeliverNotice(s) PROVE TypeOK'
    BY <1>0, <2>40 DEF DeliverNotice
  <2>41. CASE ShutdownStart
    BY <1>0, <2>41 DEF ShutdownStart, Open
  <2>42. CASE StopWatch
    BY <1>0, <2>42 DEF StopWatch
  <2>43. CASE CheckShutdown
    BY <1>0, <2>43 DEF CheckShutdown, Idle, NoDrain
  <2>44. CASE ShutdownDelivered
    BY <1>0, <2>44 DEF ShutdownDelivered
  <2>45. CASE UNCHANGED vars
    BY <2>45 DEF vars
  <2> HIDE DEF TypeOK
  <2> QED
    BY <2>1, <2>2, <2>3, <2>4, <2>5, <2>6, <2>7, <2>8, <2>9, <2>10, <2>11, <2>12, <2>13,
       <2>14, <2>15, <2>16, <2>17, <2>18, <2>19, <2>20, <2>21, <2>22, <2>23, <2>24,
       <2>25, <2>26, <2>27, <2>28, <2>29, <2>30, <2>31, <2>32, <2>33, <2>34, <2>35,
       <2>36, <2>37, <2>38, <2>39, <2>40, <2>41, <2>42, <2>43, <2>44, <2>45
          DEF Next, Callers, Tokens, Workers, Coordinator, Desktop
<1> QED BY <1>1, <1>2, PTL DEF Spec

\* Workers, choosers and callbacks of an acquisition end with its answer.
LEMMA AcquisitionStep == TypeOK /\ AcquisitionInv /\ [Next]_vars => AcquisitionInv'
<1> USE CoreAssumption DEF AcquisitionInv, shutVars, ownerVars, answerVars, cancelVars, workVars,
    chooserVars, requestVars, grantVars, sessionVars, tokenVars
<1>0. Acquire \subseteq Request /\ Sign \subseteq Request /\ Acquire \cap Sign = {}
  BY DEF Request
<1> SUFFICES ASSUME TypeOK, AcquisitionInv, [Next]_vars PROVE AcquisitionInv'
  OBVIOUS
<1>2. /\ phase \in [Request -> Phase] /\ chooser \in [Request -> {"none", "open", "done"}]
      /\ drain \in [kind: {"idle", "watch", "consent", "snapshot"},
                    req: Acquire \cup {NoRequest}, left: Nat]
      /\ work \in [Request -> {"none", "reading", "read", "failed", "cancelled",
                               "signing", "signed", "removed"}]
  BY DEF TypeOK, ControlTypeOK, RequestTypeOK, ChooserTypeOK
<1>3. AcquisitionInv'
  <2>1. ASSUME NEW s \in Session, CreateSession(s) PROVE AcquisitionInv'
    BY <1>0, <1>2, <2>1 DEF CreateSession, Idle
  <2>2. ASSUME NEW r \in Request, Submit(r) PROVE AcquisitionInv'
    BY <1>0, <1>2, <2>2 DEF Submit
  <2>3. ASSUME NEW r \in Request, NEW why \in CancelReasons, Cancel(r, why) PROVE AcquisitionInv'
    BY <1>0, <1>2, <2>3 DEF Cancel
  <2>4. ASSUME NEW s \in Session, CloseSession(s) PROVE AcquisitionInv'
    BY <1>0, <1>2, <2>4 DEF CloseSession
  <2>5. CASE SetOwnerGeneration
    BY <1>0, <1>2, <2>5 DEF SetOwnerGeneration
  <2>6. CASE ShutdownAsync
    BY <1>0, <1>2, <2>6 DEF ShutdownAsync
  <2>7. ASSUME NEW r \in Request, Reply(r) PROVE AcquisitionInv'
    BY <1>0, <1>2, <2>7 DEF Reply
  <2>8. ASSUME NEW s \in Session, PassDeadline(s) PROVE AcquisitionInv'
    BY <1>0, <1>2, <2>8 DEF PassDeadline
  <2>9. ASSUME NEW p \in Presence, Insert(p) PROVE AcquisitionInv'
    BY <1>0, <1>2, <2>9 DEF Insert
  <2>10. ASSUME NEW p \in Presence, Remove(p) PROVE AcquisitionInv'
    BY <1>0, <1>2, <2>10 DEF Remove
  <2>11. ASSUME NEW p \in Presence, NEW added \in BOOLEAN, WatchEmit(p, added) PROVE AcquisitionInv'
    BY <1>0, <1>2, <2>11 DEF WatchEmit
  <2>12. ASSUME NEW p \in Presence, NEW q \in Presence, WatchMiss(p, q) PROVE AcquisitionInv'
    BY <1>0, <1>2, <2>12 DEF WatchMiss
  <2>13. CASE WatchDispatch
    BY <1>0, <1>2, <2>13 DEF WatchDispatch, BeginDrain
  <2>14. CASE DispatchEvent
    BY <1>0, <1>2, <2>14 DEF DispatchEvent, TokenEvent, Restarted, Watching, Enumerating,
       EndSessions, NoDrain
  <2>15. ASSUME NEW r \in Request, RefuseSpec(r) PROVE AcquisitionInv'
    BY <1>0, <1>2, <2>15 DEF RefuseSpec, Complete, CompleteWith, Validation
  <2>16. ASSUME NEW r \in Acquire, StartAcquire(r) PROVE AcquisitionInv'
    BY <1>0, <1>2, <2>16 DEF StartAcquire, Complete, CompleteWith, AcquireRefusal
  <2>17. ASSUME NEW r \in Sign, StartSign(r) PROVE AcquisitionInv'
    BY <1>0, <1>2, <2>17 DEF StartSign, Complete, CompleteWith, SignRefusal
  <2>18. ASSUME NEW r \in Acquire, EnumerateRead(r) PROVE AcquisitionInv'
    BY <1>0, <1>2, <2>18 DEF EnumerateRead
  <2>19. ASSUME NEW r \in Sign, SignWork(r) PROVE AcquisitionInv'
    BY <1>0, <1>2, <2>19 DEF SignWork
  <2>20. ASSUME NEW r \in Acquire, EnumerationDone(r) PROVE AcquisitionInv'
    BY <1>0, <1>2, <2>20 DEF EnumerationDone, BeginDrain
  <2>21. ASSUME NEW r \in Acquire, SnapshotEnds(r) PROVE AcquisitionInv'
    BY <1>0, <1>2, <2>21 DEF SnapshotEnds, SnapshotFor, Deciding, EndsUnshown, Complete,
       CompleteWith, DropSnapshot, NoDrain
  <2>22. ASSUME NEW r \in Acquire, SnapshotConsent(r) PROVE AcquisitionInv'
    BY <1>0, <1>2, <2>22 DEF SnapshotConsent, SnapshotFor, Deciding, DropSnapshot, BeginDrain
  <2>23. ASSUME NEW r \in Acquire, SnapshotAgain(r) PROVE AcquisitionInv'
    BY <1>0, <1>2, <2>23 DEF SnapshotAgain, SnapshotFor, Deciding, DropSnapshot, NoDrain
  <2>24. ASSUME NEW r \in Acquire, SnapshotFailsChooser(r) PROVE AcquisitionInv'
    BY <1>0, <1>2, <2>24 DEF SnapshotFailsChooser, SnapshotFor, Deciding, DropSnapshot, NoDrain
  <2>25. ASSUME NEW r \in Acquire, SnapshotShown(r) PROVE AcquisitionInv'
    BY <1>0, <1>2, <2>25 DEF SnapshotShown, SnapshotFor, Deciding, DropSnapshot, NoDrain
  <2>26. ASSUME NEW r \in Acquire, HandleReply(r) PROVE AcquisitionInv'
    BY <1>0, <1>2, <2>26 DEF HandleReply, FinishChooser, BeginDrain
  <2>27. ASSUME NEW r \in Acquire, ChooserCancelled(r) PROVE AcquisitionInv'
    BY <1>0, <1>2, <2>27 DEF ChooserCancelled, FinishChooser, BeginDrain
  <2>28. ASSUME NEW r \in Acquire, ConsentWaits(r) PROVE AcquisitionInv'
    BY <1>0, <1>2, <2>28 DEF ConsentWaits, NoDrain
  <2>29. ASSUME NEW r \in Acquire, ConsentEnds(r) PROVE AcquisitionInv'
    BY <1>0, <1>2, <2>29 DEF ConsentEnds, Complete, CompleteWith, Consented, ConsentFor,
       Deciding, Enumerating, NoDrain
  <2>30. ASSUME NEW r \in Acquire, Commit(r) PROVE AcquisitionInv'
    BY <1>0, <1>2, <2>30 DEF Commit, Complete, CompleteWith, Consented, ConsentFor, Deciding,
       Enumerating, Uncancelled, NoDrain
  <2>31. ASSUME NEW r \in Sign, SignDone(r) PROVE AcquisitionInv'
    BY <1>0, <1>2, <2>31 DEF SignDone, CompleteWith, EndSessions
  <2>32. ASSUME NEW r \in Request, RunCancel(r) PROVE AcquisitionInv'
    BY <1>0, <1>2, <2>32 DEF RunCancel
  <2>33. ASSUME NEW s \in Session, RunClose(s) PROVE AcquisitionInv'
    BY <1>0, <1>2, <2>33 DEF RunClose, EndSessions
  <2>34. ASSUME NEW s \in Session, LifetimeExpired(s) PROVE AcquisitionInv'
    BY <1>0, <1>2, <2>34 DEF LifetimeExpired, EndSessions
  <2>35. CASE RunGeneration
    BY <1>0, <1>2, <2>35 DEF RunGeneration
  <2>36. ASSUME NEW r \in Request, ReadIntent(r) PROVE AcquisitionInv'
    BY <1>0, <1>2, <2>36 DEF ReadIntent
  <2>37. ASSUME NEW r \in Request, Deliver(r) PROVE AcquisitionInv'
    BY <1>0, <1>2, <2>37 DEF Deliver
  <2>38. ASSUME NEW r \in Acquire, Rollback(r) PROVE AcquisitionInv'
    BY <1>0, <1>2, <2>38 DEF Rollback
  <2>39. ASSUME NEW r \in Request, CompletionAck(r) PROVE AcquisitionInv'
    BY <1>0, <1>2, <2>39 DEF CompletionAck
  <2>40. ASSUME NEW s \in Session, DeliverNotice(s) PROVE AcquisitionInv'
    BY <1>0, <1>2, <2>40 DEF DeliverNotice
  <2>41. CASE ShutdownStart
    BY <1>0, <1>2, <2>41 DEF ShutdownStart
  <2>42. CASE StopWatch
    BY <1>0, <1>2, <2>42 DEF StopWatch
  <2>43. CASE CheckShutdown
    BY <1>0, <1>2, <2>43 DEF CheckShutdown, Idle, NoDrain
  <2>44. CASE ShutdownDelivered
    BY <1>0, <1>2, <2>44 DEF ShutdownDelivered
  <2>45. CASE UNCHANGED vars
    BY <2>45 DEF vars
  <2> HIDE DEF AcquisitionInv
  <2> QED
    BY <2>1, <2>2, <2>3, <2>4, <2>5, <2>6, <2>7, <2>8, <2>9, <2>10, <2>11, <2>12, <2>13,
       <2>14, <2>15, <2>16, <2>17, <2>18, <2>19, <2>20, <2>21, <2>22, <2>23, <2>24,
       <2>25, <2>26, <2>27, <2>28, <2>29, <2>30, <2>31, <2>32, <2>33, <2>34, <2>35,
       <2>36, <2>37, <2>38, <2>39, <2>40, <2>41, <2>42, <2>43, <2>44, <2>45
    DEF Next, Callers, Tokens, Workers, Coordinator, Desktop
<1> QED BY <1>3

\* A committed candidate stays the session's grant until it is reported or taken back.
LEMMA HolderStep == TypeOK /\ GrantInv /\ [Next]_vars => HolderInv'
<1> USE CoreAssumption DEF HolderInv, shutVars, ownerVars, answerVars, cancelVars, workVars,
    chooserVars, requestVars, grantVars, sessionVars, tokenVars
<1>0. Acquire \subseteq Request /\ Sign \subseteq Request /\ Acquire \cap Sign = {}
  BY DEF Request
<1> SUFFICES ASSUME TypeOK, GrantInv, [Next]_vars PROVE HolderInv'
  OBVIOUS
<1>2. /\ phase \in [Request -> Phase] /\ error \in [Request -> Code]
      /\ cand \in [Request -> Presence \cup {NoCard}]
      /\ grant \in [Session -> Presence \cup {NoCard}] /\ pending \in [Session -> BOOLEAN]
      /\ chosen \in [Request -> Presence \cup {"none", "dismissed", "failed"}]
      /\ work \in [Request -> {"none", "reading", "read", "failed", "cancelled",
                               "signing", "signed", "removed"}]
  BY DEF TypeOK, RequestTypeOK, ChooserTypeOK, SessionTypeOK
<1>3. AcquisitionInv /\ HolderInv /\ UseInv
  BY DEF GrantInv
<1>4. HolderInv'
  <2>1. ASSUME NEW s \in Session, CreateSession(s) PROVE HolderInv'
    BY <1>0, <1>2, <1>3, <2>1 DEF CreateSession, Idle
  <2>2. ASSUME NEW r \in Request, Submit(r) PROVE HolderInv'
    BY <1>0, <1>2, <1>3, <2>2 DEF Submit
  <2>3. ASSUME NEW r \in Request, NEW why \in CancelReasons, Cancel(r, why) PROVE HolderInv'
    BY <1>0, <1>2, <1>3, <2>3 DEF Cancel
  <2>4. ASSUME NEW s \in Session, CloseSession(s) PROVE HolderInv'
    BY <1>0, <1>2, <1>3, <2>4 DEF CloseSession
  <2>5. CASE SetOwnerGeneration
    BY <1>0, <1>2, <1>3, <2>5 DEF SetOwnerGeneration
  <2>6. CASE ShutdownAsync
    BY <1>0, <1>2, <1>3, <2>6 DEF ShutdownAsync
  <2>7. ASSUME NEW r \in Request, Reply(r) PROVE HolderInv'
    BY <1>0, <1>2, <1>3, <2>7 DEF Reply
  <2>8. ASSUME NEW s \in Session, PassDeadline(s) PROVE HolderInv'
    BY <1>0, <1>2, <1>3, <2>8 DEF PassDeadline
  <2>9. ASSUME NEW p \in Presence, Insert(p) PROVE HolderInv'
    BY <1>0, <1>2, <1>3, <2>9 DEF Insert
  <2>10. ASSUME NEW p \in Presence, Remove(p) PROVE HolderInv'
    BY <1>0, <1>2, <1>3, <2>10 DEF Remove
  <2>11. ASSUME NEW p \in Presence, NEW added \in BOOLEAN, WatchEmit(p, added) PROVE HolderInv'
    BY <1>0, <1>2, <1>3, <2>11 DEF WatchEmit
  <2>12. ASSUME NEW p \in Presence, NEW q \in Presence, WatchMiss(p, q) PROVE HolderInv'
    BY <1>0, <1>2, <1>3, <2>12 DEF WatchMiss
  <2>13. CASE WatchDispatch
    BY <1>0, <1>2, <1>3, <2>13 DEF WatchDispatch, BeginDrain
  <2>14. CASE DispatchEvent
    BY <1>0, <1>2, <1>3, <2>14 DEF DispatchEvent, TokenEvent, Restarted, Watching, Enumerating,
       EndSessions, NoDrain
  <2>15. ASSUME NEW r \in Request, RefuseSpec(r) PROVE HolderInv'
    BY <1>0, <1>2, <1>3, <2>15 DEF RefuseSpec, Complete, CompleteWith, Validation
  <2>16. ASSUME NEW r \in Acquire, StartAcquire(r) PROVE HolderInv'
    BY <1>0, <1>2, <1>3, <2>16 DEF StartAcquire, Complete, CompleteWith, AcquireRefusal
  <2>17. ASSUME NEW r \in Sign, StartSign(r) PROVE HolderInv'
    BY <1>0, <1>2, <1>3, <2>17 DEF StartSign, Complete, CompleteWith, SignRefusal
  <2>18. ASSUME NEW r \in Acquire, EnumerateRead(r) PROVE HolderInv'
    BY <1>0, <1>2, <1>3, <2>18 DEF EnumerateRead
  <2>19. ASSUME NEW r \in Sign, SignWork(r) PROVE HolderInv'
    BY <1>0, <1>2, <1>3, <2>19 DEF SignWork
  <2>20. ASSUME NEW r \in Acquire, EnumerationDone(r) PROVE HolderInv'
    BY <1>0, <1>2, <1>3, <2>20 DEF EnumerationDone, BeginDrain
  <2>21. ASSUME NEW r \in Acquire, SnapshotEnds(r) PROVE HolderInv'
    <3>1. phase[r] = "active" /\ cand[r] = NoCard
      BY <1>0, <1>2, <1>3, <2>21 DEF SnapshotEnds, EndsUnshown, SnapshotFor, Deciding,
         AcquisitionInv
    <3>2. \E e \in Code : Complete(r, e)
      BY <2>21 DEF SnapshotEnds, EndsUnshown, Code
    <3>3. /\ phase' = [phase EXCEPT ![r] = "answered"]
          /\ \A q \in Request : q # r => error'[q] = error[q]
          /\ UNCHANGED <<cand, grant, pending>>
      BY <1>0, <1>2, <3>2, <2>21 DEF SnapshotEnds, Complete, CompleteWith
    <3> QED BY <1>0, <1>2, <1>3, <3>1, <3>3
  <2>22. ASSUME NEW r \in Acquire, SnapshotConsent(r) PROVE HolderInv'
    BY <1>0, <1>2, <1>3, <2>22 DEF SnapshotConsent, SnapshotFor, Deciding, DropSnapshot, BeginDrain
  <2>23. ASSUME NEW r \in Acquire, SnapshotAgain(r) PROVE HolderInv'
    BY <1>0, <1>2, <1>3, <2>23 DEF SnapshotAgain, SnapshotFor, Deciding, DropSnapshot, NoDrain
  <2>24. ASSUME NEW r \in Acquire, SnapshotFailsChooser(r) PROVE HolderInv'
    BY <1>0, <1>2, <1>3, <2>24 DEF SnapshotFailsChooser, SnapshotFor, Deciding, DropSnapshot, NoDrain
  <2>25. ASSUME NEW r \in Acquire, SnapshotShown(r) PROVE HolderInv'
    BY <1>0, <1>2, <1>3, <2>25 DEF SnapshotShown, SnapshotFor, Deciding, DropSnapshot, NoDrain
  <2>26. ASSUME NEW r \in Acquire, HandleReply(r) PROVE HolderInv'
    BY <1>0, <1>2, <1>3, <2>26 DEF HandleReply, FinishChooser, BeginDrain
  <2>27. ASSUME NEW r \in Acquire, ChooserCancelled(r) PROVE HolderInv'
    BY <1>0, <1>2, <1>3, <2>27 DEF ChooserCancelled, FinishChooser, BeginDrain
  <2>28. ASSUME NEW r \in Acquire, ConsentWaits(r) PROVE HolderInv'
    BY <1>0, <1>2, <1>3, <2>28 DEF ConsentWaits, NoDrain
  <2>29. ASSUME NEW r \in Acquire, ConsentEnds(r) PROVE HolderInv'
    <3>1. phase[r] = "active" /\ cand[r] = NoCard
      BY <1>0, <1>2, <1>3, <2>29 DEF ConsentEnds, Consented, ConsentFor, Deciding, AcquisitionInv
    <3>2. /\ phase' = [phase EXCEPT ![r] = "answered"]
          /\ \A q \in Request : q # r => error'[q] = error[q]
          /\ UNCHANGED <<cand, grant, pending>>
      BY <1>0, <1>2, <2>29 DEF ConsentEnds, Complete, CompleteWith
    <3> QED BY <1>0, <1>2, <1>3, <3>1, <3>2
  <2>30. ASSUME NEW r \in Acquire, Commit(r) PROVE HolderInv'
    <3>1. /\ phase[r] = "active" /\ chosen[r] \in Presence /\ code[r] = "ok" /\ ~cancelled[r]
          /\ grant[SessionOf[r]] = NoCard
      BY <1>0, <1>3, <2>30 DEF Commit, Consented, ConsentFor, Deciding, Uncancelled,
         AcquisitionInv, UseInv
    <3>2. \A q \in Request : SessionOf[q] = SessionOf[r] => cand[q] = NoCard
      BY <1>0, <1>3, <3>1
    <3>3. /\ phase' = [phase EXCEPT ![r] = "answered"] /\ error' = [error EXCEPT ![r] = "ok"]
          /\ cand' = [cand EXCEPT ![r] = chosen[r]]
          /\ grant' = [grant EXCEPT ![SessionOf[r]] = chosen[r]]
          /\ pending' = [pending EXCEPT ![SessionOf[r]] = TRUE]
      BY <3>1, <2>30 DEF Commit, Complete, CompleteWith
    <3>4. SessionOf[r] \in Session /\ \A q \in Request : SessionOf[q] \in Session
      BY <1>0
    <3>5. \A q \in Request : cand'[q] # NoCard => cand[q] # NoCard \/ q = r
      BY <1>0, <1>2, <3>3
    <3>6. HolderInv!1'
      BY <1>0, <1>2, <1>3, <3>1, <3>2, <3>3, <3>4, <3>5
    <3>7. HolderInv!2'
      BY <1>0, <1>2, <1>3, <3>1, <3>2, <3>3, <3>4, <3>5
    <3>8. HolderInv!3' /\ HolderInv!4' /\ HolderInv!5'
      BY <1>0, <1>2, <1>3, <3>1, <3>2, <3>3, <3>4
    <3> QED BY <3>6, <3>7, <3>8
  <2>31. ASSUME NEW r \in Sign, SignDone(r) PROVE HolderInv'
    BY <1>0, <1>2, <1>3, <2>31 DEF SignDone, CompleteWith, EndSessions
  <2>32. ASSUME NEW r \in Request, RunCancel(r) PROVE HolderInv'
    BY <1>0, <1>2, <1>3, <2>32 DEF RunCancel
  <2>33. ASSUME NEW s \in Session, RunClose(s) PROVE HolderInv'
    BY <1>0, <1>2, <1>3, <2>33 DEF RunClose, EndSessions
  <2>34. ASSUME NEW s \in Session, LifetimeExpired(s) PROVE HolderInv'
    BY <1>0, <1>2, <1>3, <2>34 DEF LifetimeExpired, EndSessions
  <2>35. CASE RunGeneration
    BY <1>0, <1>2, <1>3, <2>35 DEF RunGeneration
  <2>36. ASSUME NEW r \in Request, ReadIntent(r) PROVE HolderInv'
    <3>1. /\ phase[r] \in {"answered", "detached"} /\ UNCHANGED <<cand, grant, pending>>
          /\ \A q \in Request : q # r => error'[q] = error[q] /\ phase'[q] = phase[q]
          /\ phase'[r] \in {"rollback", "gone", "reading"}
          /\ phase'[r] = "rollback" => cand[r] # NoCard
          /\ phase'[r] # "rollback" /\ cand[r] # NoCard => error'[r] = "ok"
          /\ phase'[r] = "gone" => phase[r] = "detached"
      BY <1>0, <1>2, <2>36 DEF ReadIntent
    <3>2. \A q \in Request : cand[q] # NoCard =>
             /\ phase'[q] \in {"answered", "reading", "rollback", "told", "gone"}
             /\ phase'[q] \in {"answered", "reading", "rollback"}
                    <=> phase[q] \in {"answered", "reading", "rollback"}
             /\ phase'[q] \in {"reading", "told", "gone"} => error'[q] = "ok"
      BY <1>3, <3>1
    <3>3. \A q \in Request : phase'[q] = "rollback" => cand[q] # NoCard
      BY <1>3, <3>1
    <3>4. cand' = cand /\ grant' = grant /\ pending' = pending
      BY <3>1
    <3>5. \A q \in Request : cand'[q] # NoCard =>
             /\ q \in Acquire /\ cand'[q] = grant'[SessionOf[q]]
             /\ phase'[q] \in {"answered", "reading", "rollback", "told", "gone"}
             /\ pending'[SessionOf[q]] <=> phase'[q] \in {"answered", "reading", "rollback"}
             /\ phase'[q] \in {"reading", "told", "gone"} => error'[q] = "ok"
      BY <1>3, <3>2, <3>4
    <3>6. HolderInv!1'
      BY <3>5
    <3>7. HolderInv!2'
      BY <1>3, <3>4
    <3>8. HolderInv!3'
      BY <3>3, <3>4
    <3>9. HolderInv!4' /\ HolderInv!5'
      BY <1>3, <3>4
    <3> QED BY <3>6, <3>7, <3>8, <3>9
  <2>37. ASSUME NEW r \in Request, Deliver(r) PROVE HolderInv'
    <3>1. /\ phase[r] = "reading" /\ UNCHANGED <<cand, grant, error>>
          /\ \A q \in Request : phase'[q] = IF q = r THEN "told" ELSE phase[q]
          /\ \A s \in Session : s # SessionOf[r] => pending'[s] = pending[s]
          /\ cand[r] # NoCard => ~pending'[SessionOf[r]]
          /\ cand[r] = NoCard => pending'[SessionOf[r]] = pending[SessionOf[r]]
      BY <1>0, <1>2, <2>37 DEF Deliver
    <3>2. SessionOf[r] \in Session /\ \A q \in Request : SessionOf[q] \in Session
      BY <1>0
    <3>3. HolderInv!1'
      BY <1>3, <3>1, <3>2
    <3>4. HolderInv!2' /\ HolderInv!3' /\ HolderInv!4'
      BY <1>3, <3>1
    <3>5. HolderInv!5'
      BY <1>3, <3>1, <3>2
    <3> QED BY <3>3, <3>4, <3>5
  <2>38. ASSUME NEW r \in Acquire, Rollback(r) PROVE HolderInv'
    BY <1>0, <1>2, <1>3, <2>38 DEF Rollback
  <2>39. ASSUME NEW r \in Request, CompletionAck(r) PROVE HolderInv'
    BY <1>0, <1>2, <1>3, <2>39 DEF CompletionAck
  <2>40. ASSUME NEW s \in Session, DeliverNotice(s) PROVE HolderInv'
    BY <1>0, <1>2, <1>3, <2>40 DEF DeliverNotice
  <2>41. CASE ShutdownStart
    BY <1>0, <1>2, <1>3, <2>41 DEF ShutdownStart
  <2>42. CASE StopWatch
    BY <1>0, <1>2, <1>3, <2>42 DEF StopWatch
  <2>43. CASE CheckShutdown
    BY <1>0, <1>2, <1>3, <2>43 DEF CheckShutdown, Idle, NoDrain
  <2>44. CASE ShutdownDelivered
    BY <1>0, <1>2, <1>3, <2>44 DEF ShutdownDelivered
  <2>45. CASE UNCHANGED vars
    BY <1>3, <2>45 DEF vars
  <2> HIDE DEF HolderInv
  <2> QED
    BY <2>1, <2>2, <2>3, <2>4, <2>5, <2>6, <2>7, <2>8, <2>9, <2>10, <2>11, <2>12, <2>13,
       <2>14, <2>15, <2>16, <2>17, <2>18, <2>19, <2>20, <2>21, <2>22, <2>23, <2>24,
       <2>25, <2>26, <2>27, <2>28, <2>29, <2>30, <2>31, <2>32, <2>33, <2>34, <2>35,
       <2>36, <2>37, <2>38, <2>39, <2>40, <2>41, <2>42, <2>43, <2>44, <2>45
    DEF Next, Callers, Tokens, Workers, Coordinator, Desktop
<1> QED BY <1>4

\* While an acquisition is unanswered its session gets no grant from another one.
LEMMA UseStep == TypeOK /\ GrantInv /\ [Next]_vars => UseInv'
<1> USE CoreAssumption DEF UseInv, shutVars, ownerVars, answerVars, cancelVars, workVars,
    chooserVars, requestVars, grantVars, sessionVars, tokenVars
<1>0. Acquire \subseteq Request /\ Sign \subseteq Request /\ Acquire \cap Sign = {}
  BY DEF Request
<1> SUFFICES ASSUME TypeOK, GrantInv, [Next]_vars PROVE UseInv'
  OBVIOUS
<1>2. /\ phase \in [Request -> Phase] /\ error \in [Request -> Code]
      /\ cand \in [Request -> Presence \cup {NoCard}]
      /\ grant \in [Session -> Presence \cup {NoCard}] /\ pending \in [Session -> BOOLEAN]
      /\ chosen \in [Request -> Presence \cup {"none", "dismissed", "failed"}]
      /\ work \in [Request -> {"none", "reading", "read", "failed", "cancelled",
                               "signing", "signed", "removed"}]
  BY DEF TypeOK, RequestTypeOK, ChooserTypeOK, SessionTypeOK
<1>3. AcquisitionInv /\ HolderInv /\ UseInv
  BY DEF GrantInv
<1>4. UseInv'
  <2>1. ASSUME NEW s \in Session, CreateSession(s) PROVE UseInv'
    BY <1>0, <1>2, <1>3, <2>1 DEF CreateSession, Idle
  <2>2. ASSUME NEW r \in Request, Submit(r) PROVE UseInv'
    BY <1>0, <1>2, <1>3, <2>2 DEF Submit
  <2>3. ASSUME NEW r \in Request, NEW why \in CancelReasons, Cancel(r, why) PROVE UseInv'
    BY <1>0, <1>2, <1>3, <2>3 DEF Cancel
  <2>4. ASSUME NEW s \in Session, CloseSession(s) PROVE UseInv'
    BY <1>0, <1>2, <1>3, <2>4 DEF CloseSession
  <2>5. CASE SetOwnerGeneration
    BY <1>0, <1>2, <1>3, <2>5 DEF SetOwnerGeneration
  <2>6. CASE ShutdownAsync
    BY <1>0, <1>2, <1>3, <2>6 DEF ShutdownAsync
  <2>7. ASSUME NEW r \in Request, Reply(r) PROVE UseInv'
    BY <1>0, <1>2, <1>3, <2>7 DEF Reply
  <2>8. ASSUME NEW s \in Session, PassDeadline(s) PROVE UseInv'
    BY <1>0, <1>2, <1>3, <2>8 DEF PassDeadline
  <2>9. ASSUME NEW p \in Presence, Insert(p) PROVE UseInv'
    BY <1>0, <1>2, <1>3, <2>9 DEF Insert
  <2>10. ASSUME NEW p \in Presence, Remove(p) PROVE UseInv'
    BY <1>0, <1>2, <1>3, <2>10 DEF Remove
  <2>11. ASSUME NEW p \in Presence, NEW added \in BOOLEAN, WatchEmit(p, added) PROVE UseInv'
    BY <1>0, <1>2, <1>3, <2>11 DEF WatchEmit
  <2>12. ASSUME NEW p \in Presence, NEW q \in Presence, WatchMiss(p, q) PROVE UseInv'
    BY <1>0, <1>2, <1>3, <2>12 DEF WatchMiss
  <2>13. CASE WatchDispatch
    BY <1>0, <1>2, <1>3, <2>13 DEF WatchDispatch, BeginDrain
  <2>14. CASE DispatchEvent
    BY <1>0, <1>2, <1>3, <2>14 DEF DispatchEvent, TokenEvent, Restarted, Watching, Enumerating,
       EndSessions, NoDrain
  <2>15. ASSUME NEW r \in Request, RefuseSpec(r) PROVE UseInv'
    BY <1>0, <1>2, <1>3, <2>15 DEF RefuseSpec, Complete, CompleteWith, Validation
  <2>16. ASSUME NEW r \in Acquire, StartAcquire(r) PROVE UseInv'
    BY <1>0, <1>2, <1>3, <2>16 DEF StartAcquire, Complete, CompleteWith, AcquireRefusal
  <2>17. ASSUME NEW r \in Sign, StartSign(r) PROVE UseInv'
    BY <1>0, <1>2, <1>3, <2>17 DEF StartSign, Complete, CompleteWith, SignRefusal
  <2>18. ASSUME NEW r \in Acquire, EnumerateRead(r) PROVE UseInv'
    BY <1>0, <1>2, <1>3, <2>18 DEF EnumerateRead
  <2>19. ASSUME NEW r \in Sign, SignWork(r) PROVE UseInv'
    BY <1>0, <1>2, <1>3, <2>19 DEF SignWork
  <2>20. ASSUME NEW r \in Acquire, EnumerationDone(r) PROVE UseInv'
    BY <1>0, <1>2, <1>3, <2>20 DEF EnumerationDone, BeginDrain
  <2>21. ASSUME NEW r \in Acquire, SnapshotEnds(r) PROVE UseInv'
    BY <1>0, <1>2, <1>3, <2>21 DEF SnapshotEnds, SnapshotFor, Deciding, EndsUnshown, Complete,
       CompleteWith, DropSnapshot, NoDrain
  <2>22. ASSUME NEW r \in Acquire, SnapshotConsent(r) PROVE UseInv'
    BY <1>0, <1>2, <1>3, <2>22 DEF SnapshotConsent, SnapshotFor, Deciding, DropSnapshot, BeginDrain
  <2>23. ASSUME NEW r \in Acquire, SnapshotAgain(r) PROVE UseInv'
    BY <1>0, <1>2, <1>3, <2>23 DEF SnapshotAgain, SnapshotFor, Deciding, DropSnapshot, NoDrain
  <2>24. ASSUME NEW r \in Acquire, SnapshotFailsChooser(r) PROVE UseInv'
    BY <1>0, <1>2, <1>3, <2>24 DEF SnapshotFailsChooser, SnapshotFor, Deciding, DropSnapshot, NoDrain
  <2>25. ASSUME NEW r \in Acquire, SnapshotShown(r) PROVE UseInv'
    BY <1>0, <1>2, <1>3, <2>25 DEF SnapshotShown, SnapshotFor, Deciding, DropSnapshot, NoDrain
  <2>26. ASSUME NEW r \in Acquire, HandleReply(r) PROVE UseInv'
    BY <1>0, <1>2, <1>3, <2>26 DEF HandleReply, FinishChooser, BeginDrain
  <2>27. ASSUME NEW r \in Acquire, ChooserCancelled(r) PROVE UseInv'
    BY <1>0, <1>2, <1>3, <2>27 DEF ChooserCancelled, FinishChooser, BeginDrain
  <2>28. ASSUME NEW r \in Acquire, ConsentWaits(r) PROVE UseInv'
    BY <1>0, <1>2, <1>3, <2>28 DEF ConsentWaits, NoDrain
  <2>29. ASSUME NEW r \in Acquire, ConsentEnds(r) PROVE UseInv'
    BY <1>0, <1>2, <1>3, <2>29 DEF ConsentEnds, Complete, CompleteWith, Consented, ConsentFor,
       Deciding, Enumerating, NoDrain
  <2>30. ASSUME NEW r \in Acquire, Commit(r) PROVE UseInv'
    <3>1. phase[r] = "active" /\ grant[SessionOf[r]] = NoCard /\ chosen[r] \in Presence
      BY <1>0, <1>3, <2>30 DEF Commit, Consented, ConsentFor, Deciding, Uncancelled, AcquisitionInv
    <3>2. /\ phase' = [phase EXCEPT ![r] = "answered"]
          /\ grant' = [grant EXCEPT ![SessionOf[r]] = chosen[r]]
          /\ pending' = [pending EXCEPT ![SessionOf[r]] = TRUE] /\ UNCHANGED work
      BY <2>30 DEF Commit, Complete, CompleteWith, workVars
    <3>3. \A q \in Request : SessionOf[q] \in Session
      BY <1>0
    <3> QED BY <1>0, <1>2, <1>3, <3>1, <3>2, <3>3
  <2>31. ASSUME NEW r \in Sign, SignDone(r) PROVE UseInv'
    BY <1>0, <1>2, <1>3, <2>31 DEF SignDone, CompleteWith, EndSessions
  <2>32. ASSUME NEW r \in Request, RunCancel(r) PROVE UseInv'
    BY <1>0, <1>2, <1>3, <2>32 DEF RunCancel
  <2>33. ASSUME NEW s \in Session, RunClose(s) PROVE UseInv'
    BY <1>0, <1>2, <1>3, <2>33 DEF RunClose, EndSessions
  <2>34. ASSUME NEW s \in Session, LifetimeExpired(s) PROVE UseInv'
    BY <1>0, <1>2, <1>3, <2>34 DEF LifetimeExpired, EndSessions
  <2>35. CASE RunGeneration
    BY <1>0, <1>2, <1>3, <2>35 DEF RunGeneration
  <2>36. ASSUME NEW r \in Request, ReadIntent(r) PROVE UseInv'
    BY <1>0, <1>2, <1>3, <2>36 DEF ReadIntent
  <2>37. ASSUME NEW r \in Request, Deliver(r) PROVE UseInv'
    <3>1. /\ phase' = [phase EXCEPT ![r] = "told"] /\ UNCHANGED <<work, grant>>
          /\ \A s \in Session : pending'[s] => pending[s]
      BY <1>0, <1>2, <2>37 DEF Deliver
    <3>2. \A q \in Request : SessionOf[q] \in Session
      BY <1>0
    <3> QED BY <1>0, <1>2, <1>3, <3>1, <3>2
  <2>38. ASSUME NEW r \in Acquire, Rollback(r) PROVE UseInv'
    <3>1. pending[SessionOf[r]]
      BY <1>0, <1>3, <2>38 DEF Rollback, HolderInv
    <3>2. /\ phase' = [phase EXCEPT ![r] = "answered"] /\ UNCHANGED work
          /\ grant' = [grant EXCEPT ![SessionOf[r]] = NoCard]
          /\ pending' = [pending EXCEPT ![SessionOf[r]] = FALSE]
      BY <2>38 DEF Rollback, workVars
    <3>3. \A q \in Request : SessionOf[q] \in Session
      BY <1>0
    <3> QED BY <1>0, <1>2, <1>3, <3>1, <3>2, <3>3
  <2>39. ASSUME NEW r \in Request, CompletionAck(r) PROVE UseInv'
    BY <1>0, <1>2, <1>3, <2>39 DEF CompletionAck
  <2>40. ASSUME NEW s \in Session, DeliverNotice(s) PROVE UseInv'
    BY <1>0, <1>2, <1>3, <2>40 DEF DeliverNotice
  <2>41. CASE ShutdownStart
    BY <1>0, <1>2, <1>3, <2>41 DEF ShutdownStart
  <2>42. CASE StopWatch
    BY <1>0, <1>2, <1>3, <2>42 DEF StopWatch
  <2>43. CASE CheckShutdown
    BY <1>0, <1>2, <1>3, <2>43 DEF CheckShutdown, Idle, NoDrain
  <2>44. CASE ShutdownDelivered
    BY <1>0, <1>2, <1>3, <2>44 DEF ShutdownDelivered
  <2>45. CASE UNCHANGED vars
    BY <1>3, <2>45 DEF vars
  <2> HIDE DEF UseInv
  <2> QED
    BY <2>1, <2>2, <2>3, <2>4, <2>5, <2>6, <2>7, <2>8, <2>9, <2>10, <2>11, <2>12, <2>13,
       <2>14, <2>15, <2>16, <2>17, <2>18, <2>19, <2>20, <2>21, <2>22, <2>23, <2>24,
       <2>25, <2>26, <2>27, <2>28, <2>29, <2>30, <2>31, <2>32, <2>33, <2>34, <2>35,
       <2>36, <2>37, <2>38, <2>39, <2>40, <2>41, <2>42, <2>43, <2>44, <2>45
    DEF Next, Callers, Tokens, Workers, Coordinator, Desktop
<1> QED BY <1>4

\* The invariant of the grant's ownership holds in every reachable state.
THEOREM GrantInvariant == Spec => []GrantInv
<1>1. Init => GrantInv
  BY CoreAssumption DEF Init, GrantInv, AcquisitionInv, HolderInv, UseInv, NoDrain, Request
<1>2. TypeOK /\ GrantInv /\ [Next]_vars => GrantInv'
  <2> SUFFICES ASSUME TypeOK, GrantInv, [Next]_vars PROVE GrantInv'
    OBVIOUS
  <2>1. AcquisitionInv'
    BY AcquisitionStep DEF GrantInv
  <2>2. HolderInv'
    BY HolderStep
  <2>3. UseInv'
    BY UseStep
  <2> QED BY <2>1, <2>2, <2>3 DEF GrantInv
<1> QED BY <1>1, <1>2, TypeCorrect, PTL DEF Spec

\* The assertion of xcc_acquire_rollback never fails: a grant that is taken back
\* is still pending and still the one its acquisition committed.
THEOREM RollbackIsSafe == Spec => []RollbackFindsPendingGrant
<1>1. GrantInv => RollbackFindsPendingGrant
  BY DEF GrantInv, HolderInv, RollbackFindsPendingGrant, Request
<1> QED BY <1>1, GrantInvariant, PTL

\* A pending grant has exactly one acquisition that reports it or takes it back.
THEOREM PendingGrantOwned == Spec => []PendingGrantHasOneOwner
<1>1. GrantInv => PendingGrantHasOneOwner
  <2> SUFFICES ASSUME GrantInv, NEW s \in Session
               PROVE IF pending[s]
                     THEN \E r \in Acquire : Undelivered(s) = {r} /\ cand[r] = grant[s]
                     ELSE Undelivered(s) = {}
    BY DEF PendingGrantHasOneOwner
  <2>1. CASE pending[s]
    <3>1. PICK r \in Acquire : SessionOf[r] = s /\ cand[r] # NoCard
      BY <2>1 DEF GrantInv, HolderInv
    <3>2. cand[r] = grant[s] /\ phase[r] \in {"answered", "reading", "rollback"}
      BY <2>1, <3>1 DEF GrantInv, HolderInv, Request
    <3>3. \A q \in Undelivered(s) : q = r
      BY <3>1 DEF GrantInv, HolderInv, Undelivered, Request
    <3> QED BY <2>1, <3>1, <3>2, <3>3 DEF Undelivered
  <2>2. CASE ~pending[s]
    BY <2>2 DEF GrantInv, HolderInv, Undelivered, Request
  <2> QED BY <2>1, <2>2
<1> QED BY <1>1, GrantInvariant, PTL

\* A grant that signatures may use was reported as a success to an acquisition.
THEOREM UsableGrantReported == Spec => []UsableGrantWasReported
<1>1. GrantInv => UsableGrantWasReported
  <2> SUFFICES ASSUME GrantInv, NEW s \in Session, grant[s] # NoCard, ~pending[s]
               PROVE \E r \in Acquire : /\ SessionOf[r] = s /\ cand[r] = grant[s]
                                        /\ phase[r] \in {"told", "gone"} /\ error[r] = "ok"
    BY DEF UsableGrantWasReported
  <2>1. PICK r \in Acquire : SessionOf[r] = s /\ cand[r] # NoCard
    BY DEF GrantInv, HolderInv
  <2> QED BY <2>1 DEF GrantInv, HolderInv, Request
<1> QED BY <1>1, GrantInvariant, PTL

\* A signature's worker runs only under a grant that was reported.
THEOREM SignatureGrantReported == Spec => []SignatureUsesReportedGrant
<1>1. GrantInv => SignatureUsesReportedGrant
  <2> SUFFICES ASSUME GrantInv, NEW r \in Sign, work[r] \in {"signing", "signed", "removed"}
               PROVE \E q \in Acquire :
                         /\ SessionOf[q] = SessionOf[r] /\ cand[q] = grant[SessionOf[r]]
                         /\ phase[q] \in {"told", "gone"} /\ error[q] = "ok"
    BY DEF SignatureUsesReportedGrant
  <2>1. SessionOf[r] \in Session /\ grant[SessionOf[r]] # NoCard /\ ~pending[SessionOf[r]]
    BY CoreAssumption DEF GrantInv, UseInv, Request
  <2>2. PICK q \in Acquire : SessionOf[q] = SessionOf[r] /\ cand[q] # NoCard
    BY <2>1 DEF GrantInv, HolderInv
  <2> QED BY <2>1, <2>2 DEF GrantInv, HolderInv, Request
<1> QED BY <1>1, GrantInvariant, PTL

-----------------------------------------------------------------------------
\* What the callback in progress is for: only a chooser's or an enumeration's
\* callback has an acquisition.
DrainInv ==
    /\ drain.kind \in {"idle", "watch"} => drain.req = NoRequest
    /\ drain.kind = "idle" => drain = NoDrain

\* Steps leave every unanswered acquisition with something that will answer it.
LEMMA ContinueStep ==
    ASSUME TypeOK, AcquisitionInv, DrainInv, AcquisitionContinues, [Next]_vars
    PROVE  DrainInv' /\ AcquisitionContinues'
<1> DEFINE Goal == DrainInv /\ AcquisitionContinues
<1> USE CoreAssumption DEF DrainInv, AcquisitionContinues, AcquisitionInv, Enumerating, NoDrain,
    shutVars, ownerVars, answerVars, cancelVars, workVars, chooserVars, requestVars, grantVars,
    sessionVars, tokenVars
<1>0. Acquire \subseteq Request /\ Sign \subseteq Request /\ Acquire \cap Sign = {}
      /\ NoRequest \notin Acquire
  BY DEF Request
<1>1. /\ phase \in [Request -> Phase] /\ chooser \in [Request -> {"none", "open", "done"}]
      /\ drain \in [kind: {"idle", "watch", "consent", "snapshot"},
                    req: Acquire \cup {NoRequest}, left: Nat]
      /\ work \in [Request -> {"none", "reading", "read", "failed", "cancelled",
                               "signing", "signed", "removed"}]
  BY DEF TypeOK, ControlTypeOK, RequestTypeOK, ChooserTypeOK
<1>2. Goal'
  <2>1. ASSUME NEW s \in Session, CreateSession(s) PROVE Goal'
    BY <1>0, <1>1, <2>1 DEF CreateSession, Idle
  <2>2. ASSUME NEW r \in Request, Submit(r) PROVE Goal'
    BY <1>0, <1>1, <2>2 DEF Submit
  <2>3. ASSUME NEW r \in Request, NEW why \in CancelReasons, Cancel(r, why) PROVE Goal'
    BY <1>0, <1>1, <2>3 DEF Cancel
  <2>4. ASSUME NEW s \in Session, CloseSession(s) PROVE Goal'
    BY <1>0, <1>1, <2>4 DEF CloseSession
  <2>5. CASE SetOwnerGeneration
    BY <1>0, <1>1, <2>5 DEF SetOwnerGeneration
  <2>6. CASE ShutdownAsync
    BY <1>0, <1>1, <2>6 DEF ShutdownAsync
  <2>7. ASSUME NEW r \in Request, Reply(r) PROVE Goal'
    BY <1>0, <1>1, <2>7 DEF Reply
  <2>8. ASSUME NEW s \in Session, PassDeadline(s) PROVE Goal'
    BY <1>0, <1>1, <2>8 DEF PassDeadline
  <2>9. ASSUME NEW p \in Presence, Insert(p) PROVE Goal'
    BY <1>0, <1>1, <2>9 DEF Insert
  <2>10. ASSUME NEW p \in Presence, Remove(p) PROVE Goal'
    BY <1>0, <1>1, <2>10 DEF Remove
  <2>11. ASSUME NEW p \in Presence, NEW added \in BOOLEAN, WatchEmit(p, added) PROVE Goal'
    BY <1>0, <1>1, <2>11 DEF WatchEmit
  <2>12. ASSUME NEW p \in Presence, NEW q \in Presence, WatchMiss(p, q) PROVE Goal'
    BY <1>0, <1>1, <2>12 DEF WatchMiss
  <2>13. CASE WatchDispatch
    BY <1>0, <1>1, <2>13 DEF WatchDispatch, BeginDrain, Idle
  <2>14. CASE DispatchEvent
    BY <1>0, <1>1, <2>14 DEF DispatchEvent, TokenEvent, Restarted, Watching, Enumerating,
       EndSessions, NoDrain
  <2>15. ASSUME NEW r \in Request, RefuseSpec(r) PROVE Goal'
    BY <1>0, <1>1, <2>15 DEF RefuseSpec, Complete, CompleteWith, Validation
  <2>16. ASSUME NEW r \in Acquire, StartAcquire(r) PROVE Goal'
    BY <1>0, <1>1, <2>16 DEF StartAcquire, Complete, CompleteWith, AcquireRefusal
  <2>17. ASSUME NEW r \in Sign, StartSign(r) PROVE Goal'
    BY <1>0, <1>1, <2>17 DEF StartSign, Complete, CompleteWith, SignRefusal
  <2>18. ASSUME NEW r \in Acquire, EnumerateRead(r) PROVE Goal'
    BY <1>0, <1>1, <2>18 DEF EnumerateRead
  <2>19. ASSUME NEW r \in Sign, SignWork(r) PROVE Goal'
    BY <1>0, <1>1, <2>19 DEF SignWork
  <2>20. ASSUME NEW r \in Acquire, EnumerationDone(r) PROVE Goal'
    BY <1>0, <1>1, <2>20 DEF EnumerationDone, BeginDrain, Idle
  <2>21. ASSUME NEW r \in Acquire, SnapshotEnds(r) PROVE Goal'
    BY <1>0, <1>1, <2>21 DEF SnapshotEnds, SnapshotFor, Deciding, EndsUnshown, Complete,
       CompleteWith, DropSnapshot, NoDrain
  <2>22. ASSUME NEW r \in Acquire, SnapshotConsent(r) PROVE Goal'
    BY <1>0, <1>1, <2>22 DEF SnapshotConsent, SnapshotFor, Deciding, DropSnapshot, BeginDrain
  <2>23. ASSUME NEW r \in Acquire, SnapshotAgain(r) PROVE Goal'
    BY <1>0, <1>1, <2>23 DEF SnapshotAgain, SnapshotFor, Deciding, DropSnapshot, NoDrain
  <2>24. ASSUME NEW r \in Acquire, SnapshotFailsChooser(r) PROVE Goal'
    BY <1>0, <1>1, <2>24 DEF SnapshotFailsChooser, SnapshotFor, Deciding, DropSnapshot, NoDrain
  <2>25. ASSUME NEW r \in Acquire, SnapshotShown(r) PROVE Goal'
    BY <1>0, <1>1, <2>25 DEF SnapshotShown, SnapshotFor, Deciding, DropSnapshot, NoDrain
  <2>26. ASSUME NEW r \in Acquire, HandleReply(r) PROVE Goal'
    BY <1>0, <1>1, <2>26 DEF HandleReply, FinishChooser, BeginDrain, Idle
  <2>27. ASSUME NEW r \in Acquire, ChooserCancelled(r) PROVE Goal'
    BY <1>0, <1>1, <2>27 DEF ChooserCancelled, FinishChooser, BeginDrain, Idle
  <2>28. ASSUME NEW r \in Acquire, ConsentWaits(r) PROVE Goal'
    BY <1>0, <1>1, <2>28 DEF ConsentWaits, Deciding, NoDrain
  <2>29. ASSUME NEW r \in Acquire, ConsentEnds(r) PROVE Goal'
    BY <1>0, <1>1, <2>29 DEF ConsentEnds, Complete, CompleteWith, Consented, ConsentFor, Deciding,
       NoDrain
  <2>30. ASSUME NEW r \in Acquire, Commit(r) PROVE Goal'
    BY <1>0, <1>1, <2>30 DEF Commit, Complete, CompleteWith, Consented, ConsentFor, Deciding,
       Uncancelled, NoDrain
  <2>31. ASSUME NEW r \in Sign, SignDone(r) PROVE Goal'
    BY <1>0, <1>1, <2>31 DEF SignDone, CompleteWith, EndSessions
  <2>32. ASSUME NEW r \in Request, RunCancel(r) PROVE Goal'
    BY <1>0, <1>1, <2>32 DEF RunCancel
  <2>33. ASSUME NEW s \in Session, RunClose(s) PROVE Goal'
    BY <1>0, <1>1, <2>33 DEF RunClose, EndSessions
  <2>34. ASSUME NEW s \in Session, LifetimeExpired(s) PROVE Goal'
    BY <1>0, <1>1, <2>34 DEF LifetimeExpired, EndSessions
  <2>35. CASE RunGeneration
    BY <1>0, <1>1, <2>35 DEF RunGeneration
  <2>36. ASSUME NEW r \in Request, ReadIntent(r) PROVE Goal'
    BY <1>0, <1>1, <2>36 DEF ReadIntent
  <2>37. ASSUME NEW r \in Request, Deliver(r) PROVE Goal'
    BY <1>0, <1>1, <2>37 DEF Deliver
  <2>38. ASSUME NEW r \in Acquire, Rollback(r) PROVE Goal'
    BY <1>0, <1>1, <2>38 DEF Rollback
  <2>39. ASSUME NEW r \in Request, CompletionAck(r) PROVE Goal'
    BY <1>0, <1>1, <2>39 DEF CompletionAck
  <2>40. ASSUME NEW s \in Session, DeliverNotice(s) PROVE Goal'
    BY <1>0, <1>1, <2>40 DEF DeliverNotice
  <2>41. CASE ShutdownStart
    BY <1>0, <1>1, <2>41 DEF ShutdownStart
  <2>42. CASE StopWatch
    BY <1>0, <1>1, <2>42 DEF StopWatch
  <2>43. CASE CheckShutdown
    BY <1>0, <1>1, <2>43 DEF CheckShutdown, Idle
  <2>44. CASE ShutdownDelivered
    BY <1>0, <1>1, <2>44 DEF ShutdownDelivered
  <2>45. CASE UNCHANGED vars
    BY <1>0, <1>1, <2>45 DEF vars
  <2> HIDE DEF Goal
  <2> QED
    BY <2>1, <2>2, <2>3, <2>4, <2>5, <2>6, <2>7, <2>8, <2>9, <2>10, <2>11, <2>12, <2>13, <2>14,
       <2>15, <2>16, <2>17, <2>18, <2>19, <2>20, <2>21, <2>22, <2>23, <2>24, <2>25, <2>26, <2>27,
       <2>28, <2>29, <2>30, <2>31, <2>32, <2>33, <2>34, <2>35, <2>36, <2>37, <2>38, <2>39, <2>40,
       <2>41, <2>42, <2>43, <2>44, <2>45
    DEF Next, Callers, Tokens, Workers, Coordinator, Desktop
<1> QED
  BY <1>2
-----------------------------------------------------------------------------
\* A presence whose removal is queued or handled is out, for good.
TokenTrackInv ==
    /\ \A p \in gone : card[p] = "out"
    /\ \A i \in 1..Len(events) : ~events[i].added => card[events[i].card] = "out"

\* The removal of a token reaches what an acquisition has of it: an enumeration
\* that has read it is repeated, unless the consent that waits for it is settled;
\* a chooser no longer offers it; a consent to it is cancelled.
Settled(r) == chooser[r] = "done" /\ (chosen[r] \notin Presence \/ cancelled[r])

ConsentInv ==
    /\ \A r \in Acquire : work[r] = "read" /\ snap[r] \cap gone # {} => again[r] \/ Settled(r)
    /\ \A r \in Acquire : choices[r] # {} => chooser[r] = "open" /\ choices[r] \cap gone = {}
    /\ \A r \in Acquire : phase[r] = "active" /\ chooser[r] = "done" /\ chosen[r] \in gone =>
           cancelled[r] \/ TokenOf[chosen[r]] \in Serialless
    /\ \A r \in Acquire : phase[r] \in {"new", "posted"} => chooser[r] = "none"

\* A grant is on a token that has a serial number, so the removal finds it.
RemovedGrantInv ==
    \A s \in Session : grant[s] # NoCard =>
        /\ TokenOf[grant[s]] \notin Serialless /\ sess[s] # "none"
        /\ sess[s] = "open" => grant[s] \notin gone

\* The event that the coordinator handles next.
LEMMA HeadEvent ==
    ASSUME TypeOK, drain.left > 0
    PROVE  /\ events # <<>> /\ 1 \in 1..Len(events) /\ Head(events) = events[1]
           /\ Head(events).card \in Presence /\ Head(events).added \in BOOLEAN
           /\ Tail(events) \in Seq(Event) /\ Len(Tail(events)) = Len(events) - 1
           /\ \A i \in 1..Len(Tail(events)) : i + 1 \in 1..Len(events) /\ Tail(events)[i] = events[i + 1]
<1>1. events \in Seq(Event) /\ events # <<>> /\ Len(events) \in Nat /\ Len(events) > 0
  BY DEF TypeOK, TokenTypeOK, ControlTypeOK
<1>2. /\ Head(events) \in Event /\ Tail(events) \in Seq(Event)
      /\ Len(Tail(events)) = Len(events) - 1 /\ Head(events) = events[1]
      /\ \A i \in 1..Len(Tail(events)) : Tail(events)[i] = events[i + 1]
  BY <1>1, HeadTailProperties
<1>3. Head(events).card \in Presence /\ Head(events).added \in BOOLEAN
  BY <1>2 DEF Event
<1> QED
  BY <1>1, <1>2, <1>3

\* No step brings a removed presence back: the watcher's events stay true of the slots.
LEMMA TokenTrackStep == TypeOK /\ TokenTrackInv /\ [Next]_vars => TokenTrackInv'
<1> USE CoreAssumption DEF TokenTrackInv, shutVars, ownerVars, answerVars, cancelVars, workVars,
    chooserVars, requestVars, grantVars, sessionVars, tokenVars
<1> SUFFICES ASSUME TypeOK, TokenTrackInv, [Next]_vars PROVE TokenTrackInv'
  OBVIOUS
<1>1. /\ card \in [Presence -> {"absent", "in", "out"}] /\ gone \in SUBSET Presence
      /\ events \in Seq(Event) /\ Len(events) \in Nat
      /\ \A i \in 1..Len(events) : events[i].card \in Presence
  <2>1. events \in Seq(Event)
    BY DEF TypeOK, TokenTypeOK
  <2>2. Len(events) \in Nat /\ \A i \in 1..Len(events) : events[i] \in Event
    BY <2>1
  <2>3. \A e \in Event : e.card \in Presence
    BY DEF Event
  <2> QED
    BY <2>1, <2>2, <2>3 DEF TypeOK, TokenTypeOK
<1>2. TokenTrackInv'
  <2>1. ASSUME NEW s \in Session, CreateSession(s) PROVE TokenTrackInv'
    BY <1>1, <2>1 DEF CreateSession, Idle
  <2>2. ASSUME NEW r \in Request, Submit(r) PROVE TokenTrackInv'
    BY <1>1, <2>2 DEF Submit
  <2>3. ASSUME NEW r \in Request, NEW why \in CancelReasons, Cancel(r, why) PROVE TokenTrackInv'
    BY <1>1, <2>3 DEF Cancel
  <2>4. ASSUME NEW s \in Session, CloseSession(s) PROVE TokenTrackInv'
    BY <1>1, <2>4 DEF CloseSession
  <2>5. CASE SetOwnerGeneration
    BY <1>1, <2>5 DEF SetOwnerGeneration
  <2>6. CASE ShutdownAsync
    BY <1>1, <2>6 DEF ShutdownAsync
  <2>7. ASSUME NEW r \in Request, Reply(r) PROVE TokenTrackInv'
    BY <1>1, <2>7 DEF Reply
  <2>8. ASSUME NEW s \in Session, PassDeadline(s) PROVE TokenTrackInv'
    BY <1>1, <2>8 DEF PassDeadline
  <2>9. ASSUME NEW p \in Presence, Insert(p) PROVE TokenTrackInv'
    BY <1>1, <2>9 DEF Insert
  <2>10. ASSUME NEW p \in Presence, Remove(p) PROVE TokenTrackInv'
    BY <1>1, <2>10 DEF Remove
  <2>11. ASSUME NEW p \in Presence, NEW added \in BOOLEAN, WatchEmit(p, added) PROVE TokenTrackInv'
    <3>1. /\ UNCHANGED <<card, gone>> /\ events' = Append(events, [card |-> p, added |-> added])
          /\ added \/ card[p] = "out"
      BY <2>11 DEF WatchEmit
    <3>2. /\ Len(events') = Len(events) + 1
          /\ \A i \in 1..Len(events) : events'[i] = events[i]
          /\ events'[Len(events) + 1] = [card |-> p, added |-> added]
      BY <1>1, <3>1
    <3>3. ASSUME NEW i \in 1..Len(events'), ~events'[i].added PROVE card[events'[i].card] = "out"
      <4>1. CASE i \in 1..Len(events)
        BY <3>2, <3>3, <4>1
      <4>2. CASE i = Len(events) + 1
        BY <3>1, <3>2, <3>3, <4>2
      <4> QED
        BY <1>1, <3>2, <4>1, <4>2
    <3> QED
      BY <3>1, <3>3
  <2>12. ASSUME NEW p \in Presence, NEW q \in Presence, WatchMiss(p, q) PROVE TokenTrackInv'
    BY <1>1, <2>12 DEF WatchMiss
  <2>13. CASE WatchDispatch
    BY <1>1, <2>13 DEF WatchDispatch, BeginDrain, Idle
  <2>14. CASE DispatchEvent
    <3>1. /\ UNCHANGED card /\ events' = Tail(events)
          /\ gone' = gone \/ (~Head(events).added /\ gone' = gone \cup {Head(events).card})
      BY <2>14 DEF DispatchEvent, TokenEvent
    <3>2. /\ 1 \in 1..Len(events) /\ Head(events) = events[1]
          /\ \A i \in 1..Len(events') : i + 1 \in 1..Len(events) /\ events'[i] = events[i + 1]
      BY <2>14, <3>1, HeadEvent DEF DispatchEvent
    <3> QED
      BY <3>1, <3>2
  <2>15. ASSUME NEW r \in Request, RefuseSpec(r) PROVE TokenTrackInv'
    BY <1>1, <2>15 DEF RefuseSpec, Complete, CompleteWith, Validation
  <2>16. ASSUME NEW r \in Acquire, StartAcquire(r) PROVE TokenTrackInv'
    BY <1>1, <2>16 DEF StartAcquire, Complete, CompleteWith, AcquireRefusal
  <2>17. ASSUME NEW r \in Sign, StartSign(r) PROVE TokenTrackInv'
    BY <1>1, <2>17 DEF StartSign, Complete, CompleteWith, SignRefusal
  <2>18. ASSUME NEW r \in Acquire, EnumerateRead(r) PROVE TokenTrackInv'
    BY <1>1, <2>18 DEF EnumerateRead
  <2>19. ASSUME NEW r \in Sign, SignWork(r) PROVE TokenTrackInv'
    BY <1>1, <2>19 DEF SignWork
  <2>20. ASSUME NEW r \in Acquire, EnumerationDone(r) PROVE TokenTrackInv'
    BY <1>1, <2>20 DEF EnumerationDone, BeginDrain, Idle
  <2>21. ASSUME NEW r \in Acquire, SnapshotEnds(r) PROVE TokenTrackInv'
    BY <1>1, <2>21 DEF SnapshotEnds, SnapshotFor, Deciding, EndsUnshown, Complete, CompleteWith,
       DropSnapshot, NoDrain
  <2>22. ASSUME NEW r \in Acquire, SnapshotConsent(r) PROVE TokenTrackInv'
    BY <1>1, <2>22 DEF SnapshotConsent, SnapshotFor, Deciding, DropSnapshot, BeginDrain
  <2>23. ASSUME NEW r \in Acquire, SnapshotAgain(r) PROVE TokenTrackInv'
    BY <1>1, <2>23 DEF SnapshotAgain, SnapshotFor, Deciding, DropSnapshot, NoDrain
  <2>24. ASSUME NEW r \in Acquire, SnapshotFailsChooser(r) PROVE TokenTrackInv'
    BY <1>1, <2>24 DEF SnapshotFailsChooser, SnapshotFor, Deciding, DropSnapshot, NoDrain
  <2>25. ASSUME NEW r \in Acquire, SnapshotShown(r) PROVE TokenTrackInv'
    BY <1>1, <2>25 DEF SnapshotShown, SnapshotFor, Deciding, DropSnapshot, NoDrain
  <2>26. ASSUME NEW r \in Acquire, HandleReply(r) PROVE TokenTrackInv'
    BY <1>1, <2>26 DEF HandleReply, FinishChooser, BeginDrain, Idle
  <2>27. ASSUME NEW r \in Acquire, ChooserCancelled(r) PROVE TokenTrackInv'
    BY <1>1, <2>27 DEF ChooserCancelled, FinishChooser, BeginDrain, Idle
  <2>28. ASSUME NEW r \in Acquire, ConsentWaits(r) PROVE TokenTrackInv'
    BY <1>1, <2>28 DEF ConsentWaits, Deciding, NoDrain
  <2>29. ASSUME NEW r \in Acquire, ConsentEnds(r) PROVE TokenTrackInv'
    BY <1>1, <2>29 DEF ConsentEnds, Complete, CompleteWith, Consented, ConsentFor, Deciding,
       NoDrain
  <2>30. ASSUME NEW r \in Acquire, Commit(r) PROVE TokenTrackInv'
    BY <1>1, <2>30 DEF Commit, Complete, CompleteWith, Consented, ConsentFor, Deciding,
       Uncancelled, NoDrain
  <2>31. ASSUME NEW r \in Sign, SignDone(r) PROVE TokenTrackInv'
    BY <1>1, <2>31 DEF SignDone, CompleteWith, EndSessions
  <2>32. ASSUME NEW r \in Request, RunCancel(r) PROVE TokenTrackInv'
    BY <1>1, <2>32 DEF RunCancel
  <2>33. ASSUME NEW s \in Session, RunClose(s) PROVE TokenTrackInv'
    BY <1>1, <2>33 DEF RunClose, EndSessions
  <2>34. ASSUME NEW s \in Session, LifetimeExpired(s) PROVE TokenTrackInv'
    BY <1>1, <2>34 DEF LifetimeExpired, EndSessions
  <2>35. CASE RunGeneration
    BY <1>1, <2>35 DEF RunGeneration
  <2>36. ASSUME NEW r \in Request, ReadIntent(r) PROVE TokenTrackInv'
    BY <1>1, <2>36 DEF ReadIntent
  <2>37. ASSUME NEW r \in Request, Deliver(r) PROVE TokenTrackInv'
    BY <1>1, <2>37 DEF Deliver
  <2>38. ASSUME NEW r \in Acquire, Rollback(r) PROVE TokenTrackInv'
    BY <1>1, <2>38 DEF Rollback
  <2>39. ASSUME NEW r \in Request, CompletionAck(r) PROVE TokenTrackInv'
    BY <1>1, <2>39 DEF CompletionAck
  <2>40. ASSUME NEW s \in Session, DeliverNotice(s) PROVE TokenTrackInv'
    BY <1>1, <2>40 DEF DeliverNotice
  <2>41. CASE ShutdownStart
    BY <1>1, <2>41 DEF ShutdownStart
  <2>42. CASE StopWatch
    BY <1>1, <2>42 DEF StopWatch
  <2>43. CASE CheckShutdown
    BY <1>1, <2>43 DEF CheckShutdown, Idle
  <2>44. CASE ShutdownDelivered
    BY <1>1, <2>44 DEF ShutdownDelivered
  <2>45. CASE UNCHANGED vars
    BY <1>1, <2>45 DEF vars
  <2> HIDE DEF TokenTrackInv
  <2> QED
    BY <2>1, <2>2, <2>3, <2>4, <2>5, <2>6, <2>7, <2>8, <2>9, <2>10, <2>11, <2>12, <2>13, <2>14,
       <2>15, <2>16, <2>17, <2>18, <2>19, <2>20, <2>21, <2>22, <2>23, <2>24, <2>25, <2>26, <2>27,
       <2>28, <2>29, <2>30, <2>31, <2>32, <2>33, <2>34, <2>35, <2>36, <2>37, <2>38, <2>39, <2>40,
       <2>41, <2>42, <2>43, <2>44, <2>45
    DEF Next, Callers, Tokens, Workers, Coordinator, Desktop
<1> QED
  BY <1>2

\* The removal of a token reaches every acquisition that has read, offers or chose it.
LEMMA ConsentStep ==
    TypeOK /\ AcquisitionInv /\ TokenTrackInv /\ ConsentInv /\ [Next]_vars => ConsentInv'
<1> USE CoreAssumption DEF ConsentInv, Settled, shutVars, ownerVars, answerVars, cancelVars,
    workVars, chooserVars, requestVars, grantVars, sessionVars, tokenVars
<1>0. Acquire \subseteq Request /\ Sign \subseteq Request /\ Acquire \cap Sign = {}
  BY DEF Request
<1> SUFFICES ASSUME TypeOK, AcquisitionInv, TokenTrackInv, ConsentInv, [Next]_vars
             PROVE  ConsentInv'
  OBVIOUS
<1>1. /\ phase \in [Request -> Phase] /\ cancelled \in [Request -> BOOLEAN]
      /\ work \in [Request -> {"none", "reading", "read", "failed", "cancelled",
                               "signing", "signed", "removed"}]
      /\ snap \in [Request -> SUBSET Presence] /\ again \in [Request -> BOOLEAN]
  BY DEF TypeOK, RequestTypeOK
<1>2. /\ chooser \in [Request -> {"none", "open", "done"}]
      /\ choices \in [Request -> SUBSET Presence]
      /\ reply \in [Request -> Presence \cup {"none", "dismissed", "failed"}]
      /\ chosen \in [Request -> Presence \cup {"none", "dismissed", "failed"}]
      /\ gone \in SUBSET Presence /\ "none" \notin gone /\ "dismissed" \notin gone /\ "failed" \notin gone
  BY DEF TypeOK, ChooserTypeOK, TokenTypeOK
<1>3. \A r \in Acquire : phase[r] # "active" => work[r] = "none" /\ chooser[r] # "open"
  BY DEF AcquisitionInv
<1>4. ConsentInv'
  <2>1. ASSUME NEW s \in Session, CreateSession(s) PROVE ConsentInv'
    BY <1>0, <1>1, <1>2, <1>3, <2>1 DEF CreateSession, Idle
  <2>2. ASSUME NEW r \in Request, Submit(r) PROVE ConsentInv'
    BY <1>0, <1>1, <1>2, <1>3, <2>2 DEF Submit
  <2>3. ASSUME NEW r \in Request, NEW why \in CancelReasons, Cancel(r, why) PROVE ConsentInv'
    BY <1>0, <1>1, <1>2, <1>3, <2>3 DEF Cancel
  <2>4. ASSUME NEW s \in Session, CloseSession(s) PROVE ConsentInv'
    BY <1>0, <1>1, <1>2, <1>3, <2>4 DEF CloseSession
  <2>5. CASE SetOwnerGeneration
    BY <1>0, <1>1, <1>2, <1>3, <2>5 DEF SetOwnerGeneration
  <2>6. CASE ShutdownAsync
    BY <1>0, <1>1, <1>2, <1>3, <2>6 DEF ShutdownAsync
  <2>7. ASSUME NEW r \in Request, Reply(r) PROVE ConsentInv'
    BY <1>0, <1>1, <1>2, <1>3, <2>7 DEF Reply
  <2>8. ASSUME NEW s \in Session, PassDeadline(s) PROVE ConsentInv'
    BY <1>0, <1>1, <1>2, <1>3, <2>8 DEF PassDeadline
  <2>9. ASSUME NEW p \in Presence, Insert(p) PROVE ConsentInv'
    BY <1>0, <1>1, <1>2, <1>3, <2>9 DEF Insert
  <2>10. ASSUME NEW p \in Presence, Remove(p) PROVE ConsentInv'
    BY <1>0, <1>1, <1>2, <1>3, <2>10 DEF Remove
  <2>11. ASSUME NEW p \in Presence, NEW added \in BOOLEAN, WatchEmit(p, added) PROVE ConsentInv'
    BY <1>0, <1>1, <1>2, <1>3, <2>11 DEF WatchEmit
  <2>12. ASSUME NEW p \in Presence, NEW q \in Presence, WatchMiss(p, q) PROVE ConsentInv'
    BY <1>0, <1>1, <1>2, <1>3, <2>12 DEF WatchMiss
  <2>13. CASE WatchDispatch
    BY <1>0, <1>1, <1>2, <1>3, <2>13 DEF WatchDispatch, BeginDrain, Idle
  <2>14. CASE DispatchEvent
    <3> DEFINE p == Head(events).card
               added == Head(events).added
    <3>1. p \in Presence /\ added \in BOOLEAN
      BY <2>14, HeadEvent DEF DispatchEvent
    <3>2. /\ again' = [q \in Request |-> q \in Outdated(p, added) \/ (again[q] /\ q \notin Restarted)]
          /\ work' = [q \in Request |-> IF q \in Restarted THEN "reading" ELSE work[q]]
          /\ choices' = [q \in Request |-> IF q \in Shown /\ ~added THEN {} ELSE choices[q]]
          /\ UNCHANGED <<phase, snap, chooser, chosen>>
          /\ added => UNCHANGED <<cancelled, gone>>
          /\ ~added => gone' = gone \cup {p} /\ EndSessions(Holders(p), "token_removed", TRUE, Revoked(p))
      BY <2>14 DEF DispatchEvent, TokenEvent
    <3>3. ~added => \A q \in Request : /\ cancelled[q] \/ q \in Revoked(p) => cancelled'[q]
      BY <1>1, <3>2 DEF EndSessions
    <3> HIDE DEF p, added
    <3>4. ASSUME NEW r \in Acquire, work'[r] = "read", snap'[r] \cap gone' # {}
          PROVE  again'[r] \/ Settled(r)'
      <4>1. /\ work[r] = "read" /\ r \notin Restarted /\ phase[r] = "active" /\ Enumerating(r)
        BY <1>0, <1>3, <3>2, <3>4 DEF Enumerating
      <4>2. again[r] => again'[r]
        BY <1>0, <3>2, <4>1
      <4>3. CASE added
        BY <1>0, <3>2, <3>4, <4>1, <4>2, <4>3
      <4>4. CASE ~added
        <5>1. CASE chooser[r] # "done"
          <6>1. r \in Outdated(p, added)
            BY <1>0, <1>2, <4>1, <5>1 DEF Outdated, Watching
          <6> QED
            BY <1>0, <3>2, <6>1
        <5>2. CASE chooser[r] = "done" /\ chosen[r] \in Presence
          <6>1. CASE r \in Revoked(p)
            BY <1>0, <3>2, <3>3, <4>4, <5>2, <6>1
          <6>2. CASE r \notin Revoked(p)
            <7>1. r \in Outdated(p, added)
              BY <1>0, <4>1, <5>2, <6>2 DEF Outdated
            <7> QED
              BY <1>0, <3>2, <7>1
          <6> QED
            BY <6>1, <6>2
        <5>3. CASE chooser[r] = "done" /\ chosen[r] \notin Presence
          BY <3>2, <5>3
        <5> QED
          BY <5>1, <5>2, <5>3
      <4> QED
        BY <3>1, <4>3, <4>4
    <3>5. ASSUME NEW r \in Acquire, choices'[r] # {}
          PROVE  chooser'[r] = "open" /\ choices'[r] \cap gone' = {}
      <4>1. CASE added
        BY <1>0, <3>2, <3>5, <4>1
      <4>2. CASE ~added /\ chooser[r] = "open"
        <5>1. r \in Shown
          BY <1>3, <4>2 DEF Shown
        <5> QED
          BY <1>0, <3>2, <3>5, <4>2, <5>1
      <4>3. CASE ~added /\ chooser[r] # "open"
        <5>1. choices[r] = {}
          BY <4>3
        <5> QED
          BY <1>0, <3>2, <3>5, <5>1
      <4> QED
        BY <3>1, <4>1, <4>2, <4>3
    <3>6. ASSUME NEW r \in Acquire, phase'[r] = "active", chooser'[r] = "done", chosen'[r] \in gone'
          PROVE  cancelled'[r] \/ TokenOf[chosen'[r]] \in Serialless
      <4>1. CASE chosen[r] \in gone
        BY <1>0, <3>1, <3>2, <3>3, <3>6, <4>1
      <4>2. CASE ~added /\ chosen[r] = p
        <5>1. cancelled[r] \/ TokenOf[p] \in Serialless \/ r \in Revoked(p)
          BY <3>1, <3>2, <3>6, <4>2 DEF Revoked, SameToken
        <5> QED
          BY <1>0, <3>2, <3>3, <4>2, <5>1
      <4> QED
        BY <3>1, <3>2, <3>6, <4>1, <4>2
    <3> QED
      BY <3>2, <3>4, <3>5, <3>6
  <2>15. ASSUME NEW r \in Request, RefuseSpec(r) PROVE ConsentInv'
    BY <1>0, <1>1, <1>2, <1>3, <2>15 DEF RefuseSpec, Complete, CompleteWith, Validation
  <2>16. ASSUME NEW r \in Acquire, StartAcquire(r) PROVE ConsentInv'
    BY <1>0, <1>1, <1>2, <1>3, <2>16 DEF StartAcquire, Complete, CompleteWith, AcquireRefusal
  <2>17. ASSUME NEW r \in Sign, StartSign(r) PROVE ConsentInv'
    BY <1>0, <1>1, <1>2, <1>3, <2>17 DEF StartSign, Complete, CompleteWith, SignRefusal
  <2>18. ASSUME NEW r \in Acquire, EnumerateRead(r) PROVE ConsentInv'
    BY <1>0, <1>1, <1>2, <1>3, <2>18 DEF EnumerateRead, TokenTrackInv
  <2>19. ASSUME NEW r \in Sign, SignWork(r) PROVE ConsentInv'
    BY <1>0, <1>1, <1>2, <1>3, <2>19 DEF SignWork
  <2>20. ASSUME NEW r \in Acquire, EnumerationDone(r) PROVE ConsentInv'
    BY <1>0, <1>1, <1>2, <1>3, <2>20 DEF EnumerationDone, BeginDrain, Idle
  <2>21. ASSUME NEW r \in Acquire, SnapshotEnds(r) PROVE ConsentInv'
    BY <1>0, <1>1, <1>2, <1>3, <2>21 DEF SnapshotEnds, SnapshotFor, Deciding, EndsUnshown,
       Complete, CompleteWith, DropSnapshot, NoDrain
  <2>22. ASSUME NEW r \in Acquire, SnapshotConsent(r) PROVE ConsentInv'
    BY <1>0, <1>1, <1>2, <1>3, <2>22 DEF SnapshotConsent, SnapshotFor, Deciding, DropSnapshot,
       BeginDrain, Uncancelled
  <2>23. ASSUME NEW r \in Acquire, SnapshotAgain(r) PROVE ConsentInv'
    BY <1>0, <1>1, <1>2, <1>3, <2>23 DEF SnapshotAgain, SnapshotFor, Deciding, DropSnapshot,
       NoDrain, Uncancelled
  <2>24. ASSUME NEW r \in Acquire, SnapshotFailsChooser(r) PROVE ConsentInv'
    BY <1>0, <1>1, <1>2, <1>3, <2>24 DEF SnapshotFailsChooser, SnapshotFor, Deciding, DropSnapshot,
       NoDrain
  <2>25. ASSUME NEW r \in Acquire, SnapshotShown(r) PROVE ConsentInv'
    BY <1>0, <1>1, <1>2, <1>3, <2>25 DEF SnapshotShown, SnapshotFor, Deciding, DropSnapshot,
       NoDrain
  <2>26. ASSUME NEW r \in Acquire, HandleReply(r) PROVE ConsentInv'
    BY <1>0, <1>1, <1>2, <1>3, <2>26 DEF HandleReply, FinishChooser, BeginDrain, Idle
  <2>27. ASSUME NEW r \in Acquire, ChooserCancelled(r) PROVE ConsentInv'
    BY <1>0, <1>1, <1>2, <1>3, <2>27 DEF ChooserCancelled, FinishChooser, BeginDrain, Idle
  <2>28. ASSUME NEW r \in Acquire, ConsentWaits(r) PROVE ConsentInv'
    BY <1>0, <1>1, <1>2, <1>3, <2>28 DEF ConsentWaits, Deciding, NoDrain
  <2>29. ASSUME NEW r \in Acquire, ConsentEnds(r) PROVE ConsentInv'
    BY <1>0, <1>1, <1>2, <1>3, <2>29 DEF ConsentEnds, Complete, CompleteWith, Consented,
       ConsentFor, Deciding, NoDrain
  <2>30. ASSUME NEW r \in Acquire, Commit(r) PROVE ConsentInv'
    BY <1>0, <1>1, <1>2, <1>3, <2>30 DEF Commit, Complete, CompleteWith, Consented, ConsentFor,
       Deciding, Uncancelled, NoDrain
  <2>31. ASSUME NEW r \in Sign, SignDone(r) PROVE ConsentInv'
    BY <1>0, <1>1, <1>2, <1>3, <2>31 DEF SignDone, CompleteWith, EndSessions
  <2>32. ASSUME NEW r \in Request, RunCancel(r) PROVE ConsentInv'
    BY <1>0, <1>1, <1>2, <1>3, <2>32 DEF RunCancel
  <2>33. ASSUME NEW s \in Session, RunClose(s) PROVE ConsentInv'
    BY <1>0, <1>1, <1>2, <1>3, <2>33 DEF RunClose, EndSessions
  <2>34. ASSUME NEW s \in Session, LifetimeExpired(s) PROVE ConsentInv'
    BY <1>0, <1>1, <1>2, <1>3, <2>34 DEF LifetimeExpired, EndSessions
  <2>35. CASE RunGeneration
    BY <1>0, <1>1, <1>2, <1>3, <2>35 DEF RunGeneration
  <2>36. ASSUME NEW r \in Request, ReadIntent(r) PROVE ConsentInv'
    BY <1>0, <1>1, <1>2, <1>3, <2>36 DEF ReadIntent
  <2>37. ASSUME NEW r \in Request, Deliver(r) PROVE ConsentInv'
    BY <1>0, <1>1, <1>2, <1>3, <2>37 DEF Deliver
  <2>38. ASSUME NEW r \in Acquire, Rollback(r) PROVE ConsentInv'
    BY <1>0, <1>1, <1>2, <1>3, <2>38 DEF Rollback
  <2>39. ASSUME NEW r \in Request, CompletionAck(r) PROVE ConsentInv'
    BY <1>0, <1>1, <1>2, <1>3, <2>39 DEF CompletionAck
  <2>40. ASSUME NEW s \in Session, DeliverNotice(s) PROVE ConsentInv'
    BY <1>0, <1>1, <1>2, <1>3, <2>40 DEF DeliverNotice
  <2>41. CASE ShutdownStart
    BY <1>0, <1>1, <1>2, <1>3, <2>41 DEF ShutdownStart
  <2>42. CASE StopWatch
    BY <1>0, <1>1, <1>2, <1>3, <2>42 DEF StopWatch
  <2>43. CASE CheckShutdown
    BY <1>0, <1>1, <1>2, <1>3, <2>43 DEF CheckShutdown, Idle
  <2>44. CASE ShutdownDelivered
    BY <1>0, <1>1, <1>2, <1>3, <2>44 DEF ShutdownDelivered
  <2>45. CASE UNCHANGED vars
    BY <1>0, <1>1, <1>2, <1>3, <2>45 DEF vars
  <2> HIDE DEF ConsentInv
  <2> QED
    BY <2>1, <2>2, <2>3, <2>4, <2>5, <2>6, <2>7, <2>8, <2>9, <2>10, <2>11, <2>12, <2>13, <2>14,
       <2>15, <2>16, <2>17, <2>18, <2>19, <2>20, <2>21, <2>22, <2>23, <2>24, <2>25, <2>26, <2>27,
       <2>28, <2>29, <2>30, <2>31, <2>32, <2>33, <2>34, <2>35, <2>36, <2>37, <2>38, <2>39, <2>40,
       <2>41, <2>42, <2>43, <2>44, <2>45
    DEF Next, Callers, Tokens, Workers, Coordinator, Desktop
<1> QED
  BY <1>4

\* No step leaves, or commits, a grant on a removed token in an open session.
LEMMA RemovedGrantStep ==
    TypeOK /\ AcquisitionInv /\ ConsentInv /\ RemovedGrantInv /\ [Next]_vars => RemovedGrantInv'
<1> USE CoreAssumption DEF RemovedGrantInv, shutVars, ownerVars, answerVars, cancelVars, workVars,
    chooserVars, requestVars, grantVars, sessionVars, tokenVars
<1>0. Acquire \subseteq Request /\ Sign \subseteq Request /\ Acquire \cap Sign = {}
  BY DEF Request
<1> SUFFICES ASSUME TypeOK, AcquisitionInv, ConsentInv, RemovedGrantInv, [Next]_vars
             PROVE  RemovedGrantInv'
  OBVIOUS
<1>1. /\ grant \in [Session -> Presence \cup {NoCard}]
      /\ sess \in [Session -> {"none", "open", "closed"}]
      /\ chosen \in [Request -> Presence \cup {"none", "dismissed", "failed"}]
      /\ gone \in SUBSET Presence
  BY DEF TypeOK, ChooserTypeOK, SessionTypeOK, TokenTypeOK
<1>2. RemovedGrantInv'
  <2>1. ASSUME NEW s \in Session, CreateSession(s) PROVE RemovedGrantInv'
    BY <1>0, <1>1, <2>1 DEF CreateSession, Idle
  <2>2. ASSUME NEW r \in Request, Submit(r) PROVE RemovedGrantInv'
    BY <1>0, <1>1, <2>2 DEF Submit
  <2>3. ASSUME NEW r \in Request, NEW why \in CancelReasons, Cancel(r, why) PROVE RemovedGrantInv'
    BY <1>0, <1>1, <2>3 DEF Cancel
  <2>4. ASSUME NEW s \in Session, CloseSession(s) PROVE RemovedGrantInv'
    BY <1>0, <1>1, <2>4 DEF CloseSession
  <2>5. CASE SetOwnerGeneration
    BY <1>0, <1>1, <2>5 DEF SetOwnerGeneration
  <2>6. CASE ShutdownAsync
    BY <1>0, <1>1, <2>6 DEF ShutdownAsync
  <2>7. ASSUME NEW r \in Request, Reply(r) PROVE RemovedGrantInv'
    BY <1>0, <1>1, <2>7 DEF Reply
  <2>8. ASSUME NEW s \in Session, PassDeadline(s) PROVE RemovedGrantInv'
    BY <1>0, <1>1, <2>8 DEF PassDeadline
  <2>9. ASSUME NEW p \in Presence, Insert(p) PROVE RemovedGrantInv'
    BY <1>0, <1>1, <2>9 DEF Insert
  <2>10. ASSUME NEW p \in Presence, Remove(p) PROVE RemovedGrantInv'
    BY <1>0, <1>1, <2>10 DEF Remove
  <2>11. ASSUME NEW p \in Presence, NEW added \in BOOLEAN, WatchEmit(p, added) PROVE
          RemovedGrantInv'
    BY <1>0, <1>1, <2>11 DEF WatchEmit
  <2>12. ASSUME NEW p \in Presence, NEW q \in Presence, WatchMiss(p, q) PROVE RemovedGrantInv'
    BY <1>0, <1>1, <2>12 DEF WatchMiss
  <2>13. CASE WatchDispatch
    BY <1>0, <1>1, <2>13 DEF WatchDispatch, BeginDrain, Idle
  <2>14. CASE DispatchEvent
    <3> DEFINE p == Head(events).card
    <3>1. p \in Presence
      BY <2>14, HeadEvent DEF DispatchEvent
    <3>2. /\ UNCHANGED grant
          /\ \/ UNCHANGED <<sess, gone>>
             \/ /\ gone' = gone \cup {p}
                /\ sess' = [s \in Session |-> IF s \in Holders(p) THEN "closed" ELSE sess[s]]
      BY <2>14 DEF DispatchEvent, TokenEvent, EndSessions
    <3> HIDE DEF p
    <3>3. CASE UNCHANGED <<sess, gone>>
      BY <3>2, <3>3
    <3>4. ASSUME NEW s \in Session, grant[s] # NoCard, gone' = gone \cup {p},
                 sess' = [q \in Session |-> IF q \in Holders(p) THEN "closed" ELSE sess[q]]
          PROVE  /\ TokenOf[grant[s]] \notin Serialless /\ sess'[s] # "none"
                 /\ sess'[s] = "open" => grant[s] \notin gone'
      <4>1. sess'[s] = "open" => grant[s] # p
        BY <3>1, <3>4 DEF Holders, Open, SameToken
      <4> QED
        BY <3>4, <4>1
    <3> QED
      BY <3>2, <3>3, <3>4
  <2>15. ASSUME NEW r \in Request, RefuseSpec(r) PROVE RemovedGrantInv'
    BY <1>0, <1>1, <2>15 DEF RefuseSpec, Complete, CompleteWith, Validation
  <2>16. ASSUME NEW r \in Acquire, StartAcquire(r) PROVE RemovedGrantInv'
    BY <1>0, <1>1, <2>16 DEF StartAcquire, Complete, CompleteWith, AcquireRefusal
  <2>17. ASSUME NEW r \in Sign, StartSign(r) PROVE RemovedGrantInv'
    BY <1>0, <1>1, <2>17 DEF StartSign, Complete, CompleteWith, SignRefusal
  <2>18. ASSUME NEW r \in Acquire, EnumerateRead(r) PROVE RemovedGrantInv'
    BY <1>0, <1>1, <2>18 DEF EnumerateRead
  <2>19. ASSUME NEW r \in Sign, SignWork(r) PROVE RemovedGrantInv'
    BY <1>0, <1>1, <2>19 DEF SignWork
  <2>20. ASSUME NEW r \in Acquire, EnumerationDone(r) PROVE RemovedGrantInv'
    BY <1>0, <1>1, <2>20 DEF EnumerationDone, BeginDrain, Idle
  <2>21. ASSUME NEW r \in Acquire, SnapshotEnds(r) PROVE RemovedGrantInv'
    BY <1>0, <1>1, <2>21 DEF SnapshotEnds, SnapshotFor, Deciding, EndsUnshown, Complete,
       CompleteWith, DropSnapshot, NoDrain
  <2>22. ASSUME NEW r \in Acquire, SnapshotConsent(r) PROVE RemovedGrantInv'
    BY <1>0, <1>1, <2>22 DEF SnapshotConsent, SnapshotFor, Deciding, DropSnapshot, BeginDrain
  <2>23. ASSUME NEW r \in Acquire, SnapshotAgain(r) PROVE RemovedGrantInv'
    BY <1>0, <1>1, <2>23 DEF SnapshotAgain, SnapshotFor, Deciding, DropSnapshot, NoDrain
  <2>24. ASSUME NEW r \in Acquire, SnapshotFailsChooser(r) PROVE RemovedGrantInv'
    BY <1>0, <1>1, <2>24 DEF SnapshotFailsChooser, SnapshotFor, Deciding, DropSnapshot, NoDrain
  <2>25. ASSUME NEW r \in Acquire, SnapshotShown(r) PROVE RemovedGrantInv'
    BY <1>0, <1>1, <2>25 DEF SnapshotShown, SnapshotFor, Deciding, DropSnapshot, NoDrain
  <2>26. ASSUME NEW r \in Acquire, HandleReply(r) PROVE RemovedGrantInv'
    BY <1>0, <1>1, <2>26 DEF HandleReply, FinishChooser, BeginDrain, Idle
  <2>27. ASSUME NEW r \in Acquire, ChooserCancelled(r) PROVE RemovedGrantInv'
    BY <1>0, <1>1, <2>27 DEF ChooserCancelled, FinishChooser, BeginDrain, Idle
  <2>28. ASSUME NEW r \in Acquire, ConsentWaits(r) PROVE RemovedGrantInv'
    BY <1>0, <1>1, <2>28 DEF ConsentWaits, Deciding, NoDrain
  <2>29. ASSUME NEW r \in Acquire, ConsentEnds(r) PROVE RemovedGrantInv'
    BY <1>0, <1>1, <2>29 DEF ConsentEnds, Complete, CompleteWith, Consented, ConsentFor, Deciding,
       NoDrain
  <2>30. ASSUME NEW r \in Acquire, Commit(r) PROVE RemovedGrantInv'
    <3>1. /\ Deciding("consent", r) /\ chosen[r] \in Presence /\ ~cancelled[r]
          /\ sess[SessionOf[r]] = "open" /\ TokenOf[chosen[r]] \notin Serialless
      BY <2>30 DEF Commit, Consented, ConsentFor, Uncancelled, Refusal
    <3>2. /\ grant' = [grant EXCEPT ![SessionOf[r]] = chosen[r]] /\ UNCHANGED <<sess, gone>>
      BY <2>30 DEF Commit
    <3>3. phase[r] = "active" /\ chooser[r] = "done"
      BY <3>1 DEF Deciding, AcquisitionInv
    <3>4. chosen[r] \notin gone
      BY <3>1, <3>3 DEF ConsentInv
    <3> QED
      BY <1>0, <1>1, <3>1, <3>2, <3>4
  <2>31. ASSUME NEW r \in Sign, SignDone(r) PROVE RemovedGrantInv'
    BY <1>0, <1>1, <2>31 DEF SignDone, CompleteWith, EndSessions
  <2>32. ASSUME NEW r \in Request, RunCancel(r) PROVE RemovedGrantInv'
    BY <1>0, <1>1, <2>32 DEF RunCancel
  <2>33. ASSUME NEW s \in Session, RunClose(s) PROVE RemovedGrantInv'
    BY <1>0, <1>1, <2>33 DEF RunClose, EndSessions
  <2>34. ASSUME NEW s \in Session, LifetimeExpired(s) PROVE RemovedGrantInv'
    BY <1>0, <1>1, <2>34 DEF LifetimeExpired, EndSessions
  <2>35. CASE RunGeneration
    BY <1>0, <1>1, <2>35 DEF RunGeneration
  <2>36. ASSUME NEW r \in Request, ReadIntent(r) PROVE RemovedGrantInv'
    BY <1>0, <1>1, <2>36 DEF ReadIntent
  <2>37. ASSUME NEW r \in Request, Deliver(r) PROVE RemovedGrantInv'
    BY <1>0, <1>1, <2>37 DEF Deliver
  <2>38. ASSUME NEW r \in Acquire, Rollback(r) PROVE RemovedGrantInv'
    BY <1>0, <1>1, <2>38 DEF Rollback
  <2>39. ASSUME NEW r \in Request, CompletionAck(r) PROVE RemovedGrantInv'
    BY <1>0, <1>1, <2>39 DEF CompletionAck
  <2>40. ASSUME NEW s \in Session, DeliverNotice(s) PROVE RemovedGrantInv'
    BY <1>0, <1>1, <2>40 DEF DeliverNotice
  <2>41. CASE ShutdownStart
    BY <1>0, <1>1, <2>41 DEF ShutdownStart
  <2>42. CASE StopWatch
    BY <1>0, <1>1, <2>42 DEF StopWatch
  <2>43. CASE CheckShutdown
    BY <1>0, <1>1, <2>43 DEF CheckShutdown, Idle
  <2>44. CASE ShutdownDelivered
    BY <1>0, <1>1, <2>44 DEF ShutdownDelivered
  <2>45. CASE UNCHANGED vars
    BY <1>0, <1>1, <2>45 DEF vars
  <2> HIDE DEF RemovedGrantInv
  <2> QED
    BY <2>1, <2>2, <2>3, <2>4, <2>5, <2>6, <2>7, <2>8, <2>9, <2>10, <2>11, <2>12, <2>13, <2>14,
       <2>15, <2>16, <2>17, <2>18, <2>19, <2>20, <2>21, <2>22, <2>23, <2>24, <2>25, <2>26, <2>27,
       <2>28, <2>29, <2>30, <2>31, <2>32, <2>33, <2>34, <2>35, <2>36, <2>37, <2>38, <2>39, <2>40,
       <2>41, <2>42, <2>43, <2>44, <2>45
    DEF Next, Callers, Tokens, Workers, Coordinator, Desktop
<1> QED
  BY <1>2
-----------------------------------------------------------------------------
\* A stopping context has ended its sessions, and once its loop has stopped no
\* callback is in progress and nothing of a request is left.
ShutdownInv ==
    /\ \A r \in Sign : phase[r] # "active" => work[r] = "none"
    /\ Stopping => \A s \in Session : sess[s] # "open"
    /\ ShutdownPosted => drain = NoDrain
    /\ ShutdownLeavesNothing

\* Steps leave a stopping core without open sessions and a stopped loop with nothing.
LEMMA ShutdownStep == TypeOK /\ GrantInv /\ ShutdownInv /\ [Next]_vars => ShutdownInv'
<1> USE CoreAssumption DEF ShutdownInv, Stopping, ShutdownPosted, ShutdownLeavesNothing, NoDrain,
    shutVars, ownerVars, answerVars, cancelVars, workVars, chooserVars, requestVars, grantVars, sessionVars, tokenVars
<1>0. Acquire \subseteq Request /\ Sign \subseteq Request /\ Acquire \cap Sign = {}
  BY DEF Request
<1> SUFFICES ASSUME TypeOK, GrantInv, ShutdownInv, [Next]_vars PROVE ShutdownInv'
  OBVIOUS
<1>1. /\ shut \in {"running", "asked", "stopping", "posted", "done"}
      /\ phase \in [Request -> Phase] /\ chooser \in [Request -> {"none", "open", "done"}]
      /\ work \in [Request -> {"none", "reading", "read", "failed", "cancelled",
                               "signing", "signed", "removed"}]
      /\ reply \in [Request -> Presence \cup {"none", "dismissed", "failed"}]
  BY DEF TypeOK, ControlTypeOK, RequestTypeOK, ChooserTypeOK
<1>2. /\ sess \in [Session -> {"none", "open", "closed"}] /\ closing \in [Session -> BOOLEAN]
      /\ pending \in [Session -> BOOLEAN]
  BY DEF TypeOK, SessionTypeOK
<1>3. \A r \in Request : phase[r] # "active" => work[r] = "none"
  BY DEF GrantInv, AcquisitionInv, Request
<1>4. \A r \in Request : cand[r] # NoCard =>
          phase[r] \in {"answered", "reading", "rollback", "told", "gone"}
  BY DEF GrantInv, HolderInv
<1>5. ShutdownInv'
  <2>1. ASSUME NEW s \in Session, CreateSession(s) PROVE ShutdownInv'
    BY <1>0, <1>1, <1>2, <1>3, <1>4, <2>1 DEF CreateSession, Idle
  <2>2. ASSUME NEW r \in Request, Submit(r) PROVE ShutdownInv'
    BY <1>0, <1>1, <1>2, <1>3, <1>4, <2>2 DEF Submit
  <2>3. ASSUME NEW r \in Request, NEW why \in CancelReasons, Cancel(r, why) PROVE ShutdownInv'
    BY <1>0, <1>1, <1>2, <1>3, <1>4, <2>3 DEF Cancel
  <2>4. ASSUME NEW s \in Session, CloseSession(s) PROVE ShutdownInv'
    BY <1>0, <1>1, <1>2, <1>3, <1>4, <2>4 DEF CloseSession
  <2>5. CASE SetOwnerGeneration
    BY <1>0, <1>1, <1>2, <1>3, <1>4, <2>5 DEF SetOwnerGeneration
  <2>6. CASE ShutdownAsync
    BY <1>0, <1>1, <1>2, <1>3, <1>4, <2>6 DEF ShutdownAsync
  <2>7. ASSUME NEW r \in Request, Reply(r) PROVE ShutdownInv'
    BY <1>0, <1>1, <1>2, <1>3, <1>4, <2>7 DEF Reply
  <2>8. ASSUME NEW s \in Session, PassDeadline(s) PROVE ShutdownInv'
    BY <1>0, <1>1, <1>2, <1>3, <1>4, <2>8 DEF PassDeadline
  <2>9. ASSUME NEW p \in Presence, Insert(p) PROVE ShutdownInv'
    BY <1>0, <1>1, <1>2, <1>3, <1>4, <2>9 DEF Insert
  <2>10. ASSUME NEW p \in Presence, Remove(p) PROVE ShutdownInv'
    BY <1>0, <1>1, <1>2, <1>3, <1>4, <2>10 DEF Remove
  <2>11. ASSUME NEW p \in Presence, NEW added \in BOOLEAN, WatchEmit(p, added) PROVE ShutdownInv'
    BY <1>0, <1>1, <1>2, <1>3, <1>4, <2>11 DEF WatchEmit
  <2>12. ASSUME NEW p \in Presence, NEW q \in Presence, WatchMiss(p, q) PROVE ShutdownInv'
    BY <1>0, <1>1, <1>2, <1>3, <1>4, <2>12 DEF WatchMiss
  <2>13. CASE WatchDispatch
    BY <1>0, <1>1, <1>2, <1>3, <1>4, <2>13 DEF WatchDispatch, BeginDrain, Idle
  <2>14. CASE DispatchEvent
    BY <1>0, <1>1, <1>2, <1>3, <1>4, <2>14 DEF DispatchEvent, TokenEvent, Restarted, Watching,
       Enumerating, EndSessions, NoDrain
  <2>15. ASSUME NEW r \in Request, RefuseSpec(r) PROVE ShutdownInv'
    BY <1>0, <1>1, <1>2, <1>3, <1>4, <2>15 DEF RefuseSpec, Complete, CompleteWith, Validation
  <2>16. ASSUME NEW r \in Acquire, StartAcquire(r) PROVE ShutdownInv'
    BY <1>0, <1>1, <1>2, <1>3, <1>4, <2>16 DEF StartAcquire, Complete, CompleteWith, AcquireRefusal
  <2>17. ASSUME NEW r \in Sign, StartSign(r) PROVE ShutdownInv'
    BY <1>0, <1>1, <1>2, <1>3, <1>4, <2>17 DEF StartSign, Complete, CompleteWith, SignRefusal
  <2>18. ASSUME NEW r \in Acquire, EnumerateRead(r) PROVE ShutdownInv'
    BY <1>0, <1>1, <1>2, <1>3, <1>4, <2>18 DEF EnumerateRead
  <2>19. ASSUME NEW r \in Sign, SignWork(r) PROVE ShutdownInv'
    BY <1>0, <1>1, <1>2, <1>3, <1>4, <2>19 DEF SignWork
  <2>20. ASSUME NEW r \in Acquire, EnumerationDone(r) PROVE ShutdownInv'
    BY <1>0, <1>1, <1>2, <1>3, <1>4, <2>20 DEF EnumerationDone, BeginDrain, Idle
  <2>21. ASSUME NEW r \in Acquire, SnapshotEnds(r) PROVE ShutdownInv'
    BY <1>0, <1>1, <1>2, <1>3, <1>4, <2>21 DEF SnapshotEnds, SnapshotFor, Deciding, EndsUnshown,
       Complete, CompleteWith, DropSnapshot, NoDrain
  <2>22. ASSUME NEW r \in Acquire, SnapshotConsent(r) PROVE ShutdownInv'
    BY <1>0, <1>1, <1>2, <1>3, <1>4, <2>22 DEF SnapshotConsent, SnapshotFor, Deciding,
       DropSnapshot, BeginDrain
  <2>23. ASSUME NEW r \in Acquire, SnapshotAgain(r) PROVE ShutdownInv'
    BY <1>0, <1>1, <1>2, <1>3, <1>4, <2>23 DEF SnapshotAgain, SnapshotFor, Deciding, DropSnapshot,
       NoDrain
  <2>24. ASSUME NEW r \in Acquire, SnapshotFailsChooser(r) PROVE ShutdownInv'
    BY <1>0, <1>1, <1>2, <1>3, <1>4, <2>24 DEF SnapshotFailsChooser, SnapshotFor, Deciding,
       DropSnapshot, NoDrain
  <2>25. ASSUME NEW r \in Acquire, SnapshotShown(r) PROVE ShutdownInv'
    BY <1>0, <1>1, <1>2, <1>3, <1>4, <2>25 DEF SnapshotShown, SnapshotFor, Deciding, DropSnapshot,
       NoDrain
  <2>26. ASSUME NEW r \in Acquire, HandleReply(r) PROVE ShutdownInv'
    BY <1>0, <1>1, <1>2, <1>3, <1>4, <2>26 DEF HandleReply, FinishChooser, BeginDrain, Idle
  <2>27. ASSUME NEW r \in Acquire, ChooserCancelled(r) PROVE ShutdownInv'
    BY <1>0, <1>1, <1>2, <1>3, <1>4, <2>27 DEF ChooserCancelled, FinishChooser, BeginDrain, Idle
  <2>28. ASSUME NEW r \in Acquire, ConsentWaits(r) PROVE ShutdownInv'
    BY <1>0, <1>1, <1>2, <1>3, <1>4, <2>28 DEF ConsentWaits, Deciding, NoDrain
  <2>29. ASSUME NEW r \in Acquire, ConsentEnds(r) PROVE ShutdownInv'
    BY <1>0, <1>1, <1>2, <1>3, <1>4, <2>29 DEF ConsentEnds, Complete, CompleteWith, Consented,
       ConsentFor, Deciding, NoDrain
  <2>30. ASSUME NEW r \in Acquire, Commit(r) PROVE ShutdownInv'
    BY <1>0, <1>1, <1>2, <1>3, <1>4, <2>30 DEF Commit, Complete, CompleteWith, Consented,
       ConsentFor, Deciding, Uncancelled, NoDrain
  <2>31. ASSUME NEW r \in Sign, SignDone(r) PROVE ShutdownInv'
    BY <1>0, <1>1, <1>2, <1>3, <1>4, <2>31 DEF SignDone, CompleteWith, EndSessions
  <2>32. ASSUME NEW r \in Request, RunCancel(r) PROVE ShutdownInv'
    BY <1>0, <1>1, <1>2, <1>3, <1>4, <2>32 DEF RunCancel
  <2>33. ASSUME NEW s \in Session, RunClose(s) PROVE ShutdownInv'
    BY <1>0, <1>1, <1>2, <1>3, <1>4, <2>33 DEF RunClose, EndSessions
  <2>34. ASSUME NEW s \in Session, LifetimeExpired(s) PROVE ShutdownInv'
    BY <1>0, <1>1, <1>2, <1>3, <1>4, <2>34 DEF LifetimeExpired, EndSessions
  <2>35. CASE RunGeneration
    BY <1>0, <1>1, <1>2, <1>3, <1>4, <2>35 DEF RunGeneration
  <2>36. ASSUME NEW r \in Request, ReadIntent(r) PROVE ShutdownInv'
    BY <1>0, <1>1, <1>2, <1>3, <1>4, <2>36 DEF ReadIntent
  <2>37. ASSUME NEW r \in Request, Deliver(r) PROVE ShutdownInv'
    BY <1>0, <1>1, <1>2, <1>3, <1>4, <2>37 DEF Deliver
  <2>38. ASSUME NEW r \in Acquire, Rollback(r) PROVE ShutdownInv'
    BY <1>0, <1>1, <1>2, <1>3, <1>4, <2>38 DEF Rollback
  <2>39. ASSUME NEW r \in Request, CompletionAck(r) PROVE ShutdownInv'
    BY <1>0, <1>1, <1>2, <1>3, <1>4, <2>39 DEF CompletionAck
  <2>40. ASSUME NEW s \in Session, DeliverNotice(s) PROVE ShutdownInv'
    BY <1>0, <1>1, <1>2, <1>3, <1>4, <2>40 DEF DeliverNotice
  <2>41. CASE ShutdownStart
    BY <1>0, <1>1, <1>2, <1>3, <1>4, <2>41 DEF ShutdownStart, Open
  <2>42. CASE StopWatch
    BY <1>0, <1>1, <1>2, <1>3, <1>4, <2>42 DEF StopWatch
  <2>43. CASE CheckShutdown
    <3>1. /\ shut' = "posted" /\ drain = NoDrain /\ shut = "stopping"
          /\ UNCHANGED <<drain, phase, work, chooser, reply, sess, pending, closing>>
      BY <2>43 DEF CheckShutdown, Idle
    <3>2. /\ \A r \in Request : ~InList(r) /\ chooser[r] # "open"
          /\ \A r \in Request : phase[r] \notin {"posted", "rollback", "told"} /\ reply[r] = "none"
          /\ \A s \in Session : ~closing[s]
      BY <2>43 DEF CheckShutdown, PostsQueued
    <3>3. \A r \in Request : phase[r] \in {"new", "gone", "detached"}
      BY <1>1, <3>2 DEF InList, Phase
    <3>4. \A r \in Request : work[r] = "none"
      BY <1>3, <3>3
    <3>5. \A s \in Session : ~pending[s]
      <4> SUFFICES ASSUME NEW s \in Session, pending[s] PROVE FALSE
        OBVIOUS
      <4>1. PICK r \in Acquire : SessionOf[r] = s /\ cand[r] # NoCard
        BY DEF GrantInv, HolderInv
      <4>2. phase[r] \in {"answered", "reading", "rollback"}
        BY <1>0, <4>1 DEF GrantInv, HolderInv
      <4> QED
        BY <1>0, <3>3, <4>2
    <3>6. \A s \in Session : sess[s] # "open"
      BY <3>1
    <3>7. ShutdownLeavesNothing'
      BY <3>1, <3>2, <3>3, <3>4, <3>5, <3>6
    <3> QED
      BY <3>1, <3>6, <3>7
  <2>44. CASE ShutdownDelivered
    BY <1>0, <1>1, <1>2, <1>3, <1>4, <2>44 DEF ShutdownDelivered
  <2>45. CASE UNCHANGED vars
    BY <1>0, <1>1, <1>2, <1>3, <1>4, <2>45 DEF vars
  <2> HIDE DEF ShutdownInv
  <2> QED
    BY <2>1, <2>2, <2>3, <2>4, <2>5, <2>6, <2>7, <2>8, <2>9, <2>10, <2>11, <2>12, <2>13, <2>14,
       <2>15, <2>16, <2>17, <2>18, <2>19, <2>20, <2>21, <2>22, <2>23, <2>24, <2>25, <2>26, <2>27,
       <2>28, <2>29, <2>30, <2>31, <2>32, <2>33, <2>34, <2>35, <2>36, <2>37, <2>38, <2>39, <2>40,
       <2>41, <2>42, <2>43, <2>44, <2>45
    DEF Next, Callers, Tokens, Workers, Coordinator, Desktop
<1> QED
  BY <1>5
-----------------------------------------------------------------------------
\* Ending a session reaches its requests through their intent: one that is not
\* answered, or is answered with a success, and has no intent is of a session
\* that is open and of the current owner.  A notice is of a session that has
\* ended, and none is delivered between the decision for a success and its report.
Live(s) == sess[s] = "open" /\ gen[s] = generation

LiveInv ==
    /\ \A r \in Request : phase[r] = "active" /\ intent[r] = "none" => Live(SessionOf[r])
    /\ \A r \in Request : phase[r] = "answered" /\ intent[r] = "none" /\ error[r] = "ok"
           => Live(SessionOf[r])
    /\ \A r \in Request : phase[r] \in {"rollback", "detached"} => error[r] # "ok"
    /\ \A s \in Session : notice[s] # "none" => sess[s] = "closed"
    /\ \A r \in Request : phase[r] = "reading" /\ error[r] = "ok" => notice[SessionOf[r]] # "told"

\* No end of a session misses a request of it that may still succeed.
LEMMA LiveStep ==
    TypeOK /\ AcquisitionInv /\ ShutdownInv /\ LiveInv /\ [Next]_vars => LiveInv'
<1> USE CoreAssumption DEF LiveInv, Live, shutVars, ownerVars, answerVars, cancelVars, workVars,
    chooserVars, requestVars, grantVars, sessionVars, tokenVars
<1>0. Acquire \subseteq Request /\ Sign \subseteq Request /\ Acquire \cap Sign = {}
  BY DEF Request
<1> SUFFICES ASSUME TypeOK, AcquisitionInv, ShutdownInv, LiveInv, [Next]_vars PROVE LiveInv'
  OBVIOUS
<1>1. /\ phase \in [Request -> Phase] /\ error \in [Request -> Code]
      /\ intent \in [Request -> Reason] /\ code \in [Request -> Code]
      /\ cancelled \in [Request -> BOOLEAN] /\ ask \in [Request -> {"never", "ran"} \cup CancelReasons]
  BY DEF TypeOK, RequestTypeOK
<1>2. /\ sess \in [Session -> {"none", "open", "closed"}]
      /\ notice \in [Session -> {"none", "queued", "told"}]
      /\ gen \in [Session -> 0..MaxGeneration] /\ generation \in Nat
  BY DEF TypeOK, SessionTypeOK, ControlTypeOK
<1>3. LiveInv'
  <2>1. ASSUME NEW s \in Session, CreateSession(s) PROVE LiveInv'
    BY <1>0, <1>1, <1>2, <2>1 DEF CreateSession, Idle
  <2>2. ASSUME NEW r \in Request, Submit(r) PROVE LiveInv'
    BY <1>0, <1>1, <1>2, <2>2 DEF Submit
  <2>3. ASSUME NEW r \in Request, NEW why \in CancelReasons, Cancel(r, why) PROVE LiveInv'
    BY <1>0, <1>1, <1>2, <2>3 DEF Cancel
  <2>4. ASSUME NEW s \in Session, CloseSession(s) PROVE LiveInv'
    BY <1>0, <1>1, <1>2, <2>4 DEF CloseSession
  <2>5. CASE SetOwnerGeneration
    BY <1>0, <1>1, <1>2, <2>5 DEF SetOwnerGeneration
  <2>6. CASE ShutdownAsync
    BY <1>0, <1>1, <1>2, <2>6 DEF ShutdownAsync
  <2>7. ASSUME NEW r \in Request, Reply(r) PROVE LiveInv'
    BY <1>0, <1>1, <1>2, <2>7 DEF Reply
  <2>8. ASSUME NEW s \in Session, PassDeadline(s) PROVE LiveInv'
    BY <1>0, <1>1, <1>2, <2>8 DEF PassDeadline
  <2>9. ASSUME NEW p \in Presence, Insert(p) PROVE LiveInv'
    BY <1>0, <1>1, <1>2, <2>9 DEF Insert
  <2>10. ASSUME NEW p \in Presence, Remove(p) PROVE LiveInv'
    BY <1>0, <1>1, <1>2, <2>10 DEF Remove
  <2>11. ASSUME NEW p \in Presence, NEW added \in BOOLEAN, WatchEmit(p, added) PROVE LiveInv'
    BY <1>0, <1>1, <1>2, <2>11 DEF WatchEmit
  <2>12. ASSUME NEW p \in Presence, NEW q \in Presence, WatchMiss(p, q) PROVE LiveInv'
    BY <1>0, <1>1, <1>2, <2>12 DEF WatchMiss
  <2>13. CASE WatchDispatch
    BY <1>0, <1>1, <1>2, <2>13 DEF WatchDispatch, BeginDrain, Idle
  <2>14. CASE DispatchEvent
    BY <1>0, <1>1, <1>2, <2>14 DEF DispatchEvent, TokenEvent, Restarted, Watching, Enumerating,
       EndSessions, NoDrain, InList, Holders, Open
  <2>15. ASSUME NEW r \in Request, RefuseSpec(r) PROVE LiveInv'
    BY <1>0, <1>1, <1>2, <2>15 DEF RefuseSpec, Complete, CompleteWith, Validation
  <2>16. ASSUME NEW r \in Acquire, StartAcquire(r) PROVE LiveInv'
    BY <1>0, <1>1, <1>2, <2>16 DEF StartAcquire, Complete, CompleteWith, AcquireRefusal, Validation
  <2>17. ASSUME NEW r \in Sign, StartSign(r) PROVE LiveInv'
    BY <1>0, <1>1, <1>2, <2>17 DEF StartSign, Complete, CompleteWith, SignRefusal, Validation
  <2>18. ASSUME NEW r \in Acquire, EnumerateRead(r) PROVE LiveInv'
    BY <1>0, <1>1, <1>2, <2>18 DEF EnumerateRead
  <2>19. ASSUME NEW r \in Sign, SignWork(r) PROVE LiveInv'
    BY <1>0, <1>1, <1>2, <2>19 DEF SignWork
  <2>20. ASSUME NEW r \in Acquire, EnumerationDone(r) PROVE LiveInv'
    BY <1>0, <1>1, <1>2, <2>20 DEF EnumerationDone, BeginDrain, Idle
  <2>21. ASSUME NEW r \in Acquire, SnapshotEnds(r) PROVE LiveInv'
    BY <1>0, <1>1, <1>2, <2>21 DEF SnapshotEnds, SnapshotFor, Deciding, EndsUnshown, Complete,
       CompleteWith, DropSnapshot, NoDrain
  <2>22. ASSUME NEW r \in Acquire, SnapshotConsent(r) PROVE LiveInv'
    BY <1>0, <1>1, <1>2, <2>22 DEF SnapshotConsent, SnapshotFor, Deciding, DropSnapshot, BeginDrain
  <2>23. ASSUME NEW r \in Acquire, SnapshotAgain(r) PROVE LiveInv'
    BY <1>0, <1>1, <1>2, <2>23 DEF SnapshotAgain, SnapshotFor, Deciding, DropSnapshot, NoDrain
  <2>24. ASSUME NEW r \in Acquire, SnapshotFailsChooser(r) PROVE LiveInv'
    BY <1>0, <1>1, <1>2, <2>24 DEF SnapshotFailsChooser, SnapshotFor, Deciding, DropSnapshot,
       NoDrain
  <2>25. ASSUME NEW r \in Acquire, SnapshotShown(r) PROVE LiveInv'
    BY <1>0, <1>1, <1>2, <2>25 DEF SnapshotShown, SnapshotFor, Deciding, DropSnapshot, NoDrain
  <2>26. ASSUME NEW r \in Acquire, HandleReply(r) PROVE LiveInv'
    BY <1>0, <1>1, <1>2, <2>26 DEF HandleReply, FinishChooser, BeginDrain, Idle
  <2>27. ASSUME NEW r \in Acquire, ChooserCancelled(r) PROVE LiveInv'
    BY <1>0, <1>1, <1>2, <2>27 DEF ChooserCancelled, FinishChooser, BeginDrain, Idle
  <2>28. ASSUME NEW r \in Acquire, ConsentWaits(r) PROVE LiveInv'
    BY <1>0, <1>1, <1>2, <2>28 DEF ConsentWaits, Deciding, NoDrain
  <2>29. ASSUME NEW r \in Acquire, ConsentEnds(r) PROVE LiveInv'
    BY <1>0, <1>1, <1>2, <2>29 DEF ConsentEnds, Complete, CompleteWith, Consented, ConsentFor,
       Deciding, NoDrain
  <2>30. ASSUME NEW r \in Acquire, Commit(r) PROVE LiveInv'
    <3>1. /\ phase' = [phase EXCEPT ![r] = "answered"] /\ UNCHANGED <<intent, sess, gen, notice>>
          /\ generation' = generation /\ \A q \in Request : q # r => error'[q] = error[q]
      BY <1>1, <2>30 DEF Commit, Complete, CompleteWith
    <3>2. phase[r] = "active" /\ intent[r] = "none"
      BY <2>30 DEF Commit, Consented, ConsentFor, Deciding, AcquisitionInv, Refusal
    <3>3. Live(SessionOf[r])
      BY <1>0, <3>2
    <3> QED
      BY <1>0, <1>1, <3>1, <3>3
  <2>31. ASSUME NEW r \in Sign, SignDone(r) PROVE LiveInv'
    <3> DEFINE ended == IF work[r] = "removed" /\ ~cancelled[r] THEN {SessionOf[r]} \cap Open ELSE {}
    <3>1. /\ phase' = [phase EXCEPT ![r] = "answered"] /\ UNCHANGED <<gen, generation>>
          /\ \A q \in Request : q # r => error'[q] = error[q]
          /\ EndSessions(ended, "token_removed", TRUE, {})
      BY <1>1, <2>31 DEF SignDone, CompleteWith
    <3>2. phase[r] = "active"
      BY <2>31 DEF SignDone, ShutdownInv
    <3>3. /\ \A q \in Request :
               /\ intent'[q] = "none" => intent[q] = "none"
               /\ intent'[q] = "none" /\ InList(q) => SessionOf[q] \notin ended
          /\ \A s \in Session : /\ sess'[s] = IF s \in ended THEN "closed" ELSE sess[s]
                                /\ s \notin ended => notice'[s] = notice[s]
                                /\ s \in ended => notice'[s] = "queued"
      BY <1>1, <3>1 DEF EndSessions
    <3> HIDE DEF ended
    <3>4. \A q \in Request : phase'[q] \in {"active", "answered"} => InList(q)
      BY <1>1, <3>1, <3>2 DEF InList
    <3>5. \A q \in Request : /\ SessionOf[q] \in Session
                             /\ SessionOf[q] \notin ended => sess'[SessionOf[q]] = sess[SessionOf[q]]
      BY <1>0, <3>3
    <3>6. LiveInv!1' /\ LiveInv!2'
      BY <1>0, <1>1, <3>1, <3>2, <3>3, <3>4, <3>5
    <3>7. LiveInv!3' /\ LiveInv!5'
      <4>1. \A q \in Request : phase'[q] \in {"rollback", "detached", "reading"} =>
               q # r /\ phase'[q] = phase[q] /\ error'[q] = error[q]
        BY <1>0, <1>1, <3>1
      <4> QED
        BY <3>3, <3>5, <4>1
    <3>8. LiveInv!4'
      BY <1>2, <3>3
    <3> QED
      BY <3>6, <3>7, <3>8
  <2>32. ASSUME NEW r \in Request, RunCancel(r) PROVE LiveInv'
    BY <1>0, <1>1, <1>2, <2>32 DEF RunCancel
  <2>33. ASSUME NEW s \in Session, RunClose(s) PROVE LiveInv'
    BY <1>0, <1>1, <1>2, <2>33 DEF RunClose, EndSessions, InList
  <2>34. ASSUME NEW s \in Session, LifetimeExpired(s) PROVE LiveInv'
    BY <1>0, <1>1, <1>2, <2>34 DEF LifetimeExpired, EndSessions, InList
  <2>35. CASE RunGeneration
    BY <1>0, <1>1, <1>2, <2>35 DEF RunGeneration, Open, InList
  <2>36. ASSUME NEW r \in Request, ReadIntent(r) PROVE LiveInv'
    BY <1>0, <1>1, <1>2, <2>36 DEF ReadIntent, Reason, DesktopIdle
  <2>37. ASSUME NEW r \in Request, Deliver(r) PROVE LiveInv'
    BY <1>0, <1>1, <1>2, <2>37 DEF Deliver
  <2>38. ASSUME NEW r \in Acquire, Rollback(r) PROVE LiveInv'
    BY <1>0, <1>1, <1>2, <2>38 DEF Rollback
  <2>39. ASSUME NEW r \in Request, CompletionAck(r) PROVE LiveInv'
    BY <1>0, <1>1, <1>2, <2>39 DEF CompletionAck
  <2>40. ASSUME NEW s \in Session, DeliverNotice(s) PROVE LiveInv'
    BY <1>0, <1>1, <1>2, <2>40 DEF DeliverNotice, DesktopIdle
  <2>41. CASE ShutdownStart
    BY <1>0, <1>1, <1>2, <2>41 DEF ShutdownStart, Open, InList
  <2>42. CASE StopWatch
    BY <1>0, <1>1, <1>2, <2>42 DEF StopWatch
  <2>43. CASE CheckShutdown
    BY <1>0, <1>1, <1>2, <2>43 DEF CheckShutdown, Idle
  <2>44. CASE ShutdownDelivered
    BY <1>0, <1>1, <1>2, <2>44 DEF ShutdownDelivered
  <2>45. CASE UNCHANGED vars
    BY <1>0, <1>1, <1>2, <2>45 DEF vars
  <2> HIDE DEF LiveInv
  <2> QED
    BY <2>1, <2>2, <2>3, <2>4, <2>5, <2>6, <2>7, <2>8, <2>9, <2>10, <2>11, <2>12, <2>13, <2>14,
       <2>15, <2>16, <2>17, <2>18, <2>19, <2>20, <2>21, <2>22, <2>23, <2>24, <2>25, <2>26, <2>27,
       <2>28, <2>29, <2>30, <2>31, <2>32, <2>33, <2>34, <2>35, <2>36, <2>37, <2>38, <2>39, <2>40,
       <2>41, <2>42, <2>43, <2>44, <2>45
    DEF Next, Callers, Tokens, Workers, Coordinator, Desktop
<1> QED
  BY <1>3
-----------------------------------------------------------------------------
\* An answer that is a success, and not yet decided, has what it promises: the
\* acquisition's candidate, the signature's grant that was reported.
AnswerInv ==
    /\ \A r \in Acquire : phase[r] = "answered" /\ error[r] = "ok" => cand[r] # NoCard
    /\ \A r \in Sign : phase[r] = "answered" /\ error[r] = "ok" =>
           grant[SessionOf[r]] # NoCard /\ ~pending[SessionOf[r]]

\* A success that waits to be decided has its grant: its own, or the one it signed with.
LEMMA AnswerStep ==
    TypeOK /\ GrantInv /\ LiveInv /\ AnswerInv /\ [Next]_vars => AnswerInv'
<1> USE CoreAssumption DEF AnswerInv, shutVars, ownerVars, answerVars, cancelVars, workVars,
    chooserVars, requestVars, grantVars, sessionVars, tokenVars
<1>0. Acquire \subseteq Request /\ Sign \subseteq Request /\ Acquire \cap Sign = {}
  BY DEF Request
<1> SUFFICES ASSUME TypeOK, GrantInv, LiveInv, AnswerInv, [Next]_vars PROVE AnswerInv'
  OBVIOUS
<1>1. /\ phase \in [Request -> Phase] /\ error \in [Request -> Code]
      /\ intent \in [Request -> Reason] /\ code \in [Request -> Code]
      /\ cancelled \in [Request -> BOOLEAN]
      /\ cand \in [Request -> Presence \cup {NoCard}]
      /\ grant \in [Session -> Presence \cup {NoCard}] /\ pending \in [Session -> BOOLEAN]
      /\ \A r \in Request : SessionOf[r] \in Session
  BY DEF TypeOK, RequestTypeOK, SessionTypeOK
<1>2. AnswerInv'
  <2>1. ASSUME NEW s \in Session, CreateSession(s) PROVE AnswerInv'
    BY <1>0, <1>1, <2>1 DEF CreateSession, Idle
  <2>2. ASSUME NEW r \in Request, Submit(r) PROVE AnswerInv'
    BY <1>0, <1>1, <2>2 DEF Submit
  <2>3. ASSUME NEW r \in Request, NEW why \in CancelReasons, Cancel(r, why) PROVE AnswerInv'
    BY <1>0, <1>1, <2>3 DEF Cancel
  <2>4. ASSUME NEW s \in Session, CloseSession(s) PROVE AnswerInv'
    BY <1>0, <1>1, <2>4 DEF CloseSession
  <2>5. CASE SetOwnerGeneration
    BY <1>0, <1>1, <2>5 DEF SetOwnerGeneration
  <2>6. CASE ShutdownAsync
    BY <1>0, <1>1, <2>6 DEF ShutdownAsync
  <2>7. ASSUME NEW r \in Request, Reply(r) PROVE AnswerInv'
    BY <1>0, <1>1, <2>7 DEF Reply
  <2>8. ASSUME NEW s \in Session, PassDeadline(s) PROVE AnswerInv'
    BY <1>0, <1>1, <2>8 DEF PassDeadline
  <2>9. ASSUME NEW p \in Presence, Insert(p) PROVE AnswerInv'
    BY <1>0, <1>1, <2>9 DEF Insert
  <2>10. ASSUME NEW p \in Presence, Remove(p) PROVE AnswerInv'
    BY <1>0, <1>1, <2>10 DEF Remove
  <2>11. ASSUME NEW p \in Presence, NEW added \in BOOLEAN, WatchEmit(p, added) PROVE AnswerInv'
    BY <1>0, <1>1, <2>11 DEF WatchEmit
  <2>12. ASSUME NEW p \in Presence, NEW q \in Presence, WatchMiss(p, q) PROVE AnswerInv'
    BY <1>0, <1>1, <2>12 DEF WatchMiss
  <2>13. CASE WatchDispatch
    BY <1>0, <1>1, <2>13 DEF WatchDispatch, BeginDrain, Idle
  <2>14. CASE DispatchEvent
    BY <1>0, <1>1, <2>14 DEF DispatchEvent, TokenEvent, Restarted, Watching, Enumerating,
       EndSessions, NoDrain
  <2>15. ASSUME NEW r \in Request, RefuseSpec(r) PROVE AnswerInv'
    BY <1>0, <1>1, <2>15 DEF RefuseSpec, Complete, CompleteWith, Validation
  <2>16. ASSUME NEW r \in Acquire, StartAcquire(r) PROVE AnswerInv'
    BY <1>0, <1>1, <2>16 DEF StartAcquire, Complete, CompleteWith, AcquireRefusal
  <2>17. ASSUME NEW r \in Sign, StartSign(r) PROVE AnswerInv'
    BY <1>0, <1>1, <2>17 DEF StartSign, Complete, CompleteWith, SignRefusal
  <2>18. ASSUME NEW r \in Acquire, EnumerateRead(r) PROVE AnswerInv'
    BY <1>0, <1>1, <2>18 DEF EnumerateRead
  <2>19. ASSUME NEW r \in Sign, SignWork(r) PROVE AnswerInv'
    BY <1>0, <1>1, <2>19 DEF SignWork
  <2>20. ASSUME NEW r \in Acquire, EnumerationDone(r) PROVE AnswerInv'
    BY <1>0, <1>1, <2>20 DEF EnumerationDone, BeginDrain, Idle
  <2>21. ASSUME NEW r \in Acquire, SnapshotEnds(r) PROVE AnswerInv'
    BY <1>0, <1>1, <2>21 DEF SnapshotEnds, SnapshotFor, Deciding, EndsUnshown, Complete,
       CompleteWith, DropSnapshot, NoDrain
  <2>22. ASSUME NEW r \in Acquire, SnapshotConsent(r) PROVE AnswerInv'
    BY <1>0, <1>1, <2>22 DEF SnapshotConsent, SnapshotFor, Deciding, DropSnapshot, BeginDrain
  <2>23. ASSUME NEW r \in Acquire, SnapshotAgain(r) PROVE AnswerInv'
    BY <1>0, <1>1, <2>23 DEF SnapshotAgain, SnapshotFor, Deciding, DropSnapshot, NoDrain
  <2>24. ASSUME NEW r \in Acquire, SnapshotFailsChooser(r) PROVE AnswerInv'
    BY <1>0, <1>1, <2>24 DEF SnapshotFailsChooser, SnapshotFor, Deciding, DropSnapshot, NoDrain
  <2>25. ASSUME NEW r \in Acquire, SnapshotShown(r) PROVE AnswerInv'
    BY <1>0, <1>1, <2>25 DEF SnapshotShown, SnapshotFor, Deciding, DropSnapshot, NoDrain
  <2>26. ASSUME NEW r \in Acquire, HandleReply(r) PROVE AnswerInv'
    BY <1>0, <1>1, <2>26 DEF HandleReply, FinishChooser, BeginDrain, Idle
  <2>27. ASSUME NEW r \in Acquire, ChooserCancelled(r) PROVE AnswerInv'
    BY <1>0, <1>1, <2>27 DEF ChooserCancelled, FinishChooser, BeginDrain, Idle
  <2>28. ASSUME NEW r \in Acquire, ConsentWaits(r) PROVE AnswerInv'
    BY <1>0, <1>1, <2>28 DEF ConsentWaits, Deciding, NoDrain
  <2>29. ASSUME NEW r \in Acquire, ConsentEnds(r) PROVE AnswerInv'
    BY <1>0, <1>1, <2>29 DEF ConsentEnds, Complete, CompleteWith, Consented, ConsentFor, Deciding,
       NoDrain
  <2>30. ASSUME NEW r \in Acquire, Commit(r) PROVE AnswerInv'
    <3>1. /\ phase' = [phase EXCEPT ![r] = "answered"] /\ chosen[r] \in Presence
          /\ \A q \in Request : q # r => error'[q] = error[q]
          /\ cand' = [cand EXCEPT ![r] = chosen[r]]
          /\ grant' = [grant EXCEPT ![SessionOf[r]] = chosen[r]]
          /\ pending' = [pending EXCEPT ![SessionOf[r]] = TRUE]
      BY <1>1, <2>30 DEF Commit, Complete, CompleteWith, Consented, Uncancelled
    <3>2. grant[SessionOf[r]] = NoCard
      BY <2>30 DEF Commit, Consented, ConsentFor, Deciding, GrantInv, AcquisitionInv, UseInv
    <3> QED
      BY <1>0, <1>1, <3>1, <3>2
  <2>31. ASSUME NEW r \in Sign, SignDone(r) PROVE AnswerInv'
    <3>1. /\ phase' = [phase EXCEPT ![r] = "answered"] /\ UNCHANGED <<cand, grant, pending>>
          /\ \A q \in Request : q # r => error'[q] = error[q]
      BY <1>1, <2>31 DEF SignDone, CompleteWith
    <3>2. grant[SessionOf[r]] # NoCard /\ ~pending[SessionOf[r]]
      BY <2>31 DEF SignDone, GrantInv, UseInv
    <3> QED
      BY <1>0, <1>1, <3>1, <3>2
  <2>32. ASSUME NEW r \in Request, RunCancel(r) PROVE AnswerInv'
    BY <1>0, <1>1, <2>32 DEF RunCancel
  <2>33. ASSUME NEW s \in Session, RunClose(s) PROVE AnswerInv'
    BY <1>0, <1>1, <2>33 DEF RunClose, EndSessions
  <2>34. ASSUME NEW s \in Session, LifetimeExpired(s) PROVE AnswerInv'
    BY <1>0, <1>1, <2>34 DEF LifetimeExpired, EndSessions
  <2>35. CASE RunGeneration
    BY <1>0, <1>1, <2>35 DEF RunGeneration
  <2>36. ASSUME NEW r \in Request, ReadIntent(r) PROVE AnswerInv'
    BY <1>0, <1>1, <2>36 DEF ReadIntent
  <2>37. ASSUME NEW r \in Request, Deliver(r) PROVE AnswerInv'
    BY <1>0, <1>1, <2>37 DEF Deliver
  <2>38. ASSUME NEW r \in Acquire, Rollback(r) PROVE AnswerInv'
    <3>1. /\ phase' = [phase EXCEPT ![r] = "answered"] /\ UNCHANGED error /\ phase[r] = "rollback"
          /\ cand' = [cand EXCEPT ![r] = NoCard]
          /\ grant' = [grant EXCEPT ![SessionOf[r]] = NoCard]
          /\ pending' = [pending EXCEPT ![SessionOf[r]] = FALSE]
      BY <2>38 DEF Rollback
    <3>2. error[r] # "ok" /\ pending[SessionOf[r]]
      BY <1>0, <3>1 DEF LiveInv, GrantInv, HolderInv
    <3> QED
      BY <1>0, <1>1, <3>1, <3>2
  <2>39. ASSUME NEW r \in Request, CompletionAck(r) PROVE AnswerInv'
    BY <1>0, <1>1, <2>39 DEF CompletionAck
  <2>40. ASSUME NEW s \in Session, DeliverNotice(s) PROVE AnswerInv'
    BY <1>0, <1>1, <2>40 DEF DeliverNotice
  <2>41. CASE ShutdownStart
    BY <1>0, <1>1, <2>41 DEF ShutdownStart
  <2>42. CASE StopWatch
    BY <1>0, <1>1, <2>42 DEF StopWatch
  <2>43. CASE CheckShutdown
    BY <1>0, <1>1, <2>43 DEF CheckShutdown, Idle
  <2>44. CASE ShutdownDelivered
    BY <1>0, <1>1, <2>44 DEF ShutdownDelivered
  <2>45. CASE UNCHANGED vars
    BY <1>0, <1>1, <2>45 DEF vars
  <2> HIDE DEF AnswerInv
  <2> QED
    BY <2>1, <2>2, <2>3, <2>4, <2>5, <2>6, <2>7, <2>8, <2>9, <2>10, <2>11, <2>12, <2>13, <2>14,
       <2>15, <2>16, <2>17, <2>18, <2>19, <2>20, <2>21, <2>22, <2>23, <2>24, <2>25, <2>26, <2>27,
       <2>28, <2>29, <2>30, <2>31, <2>32, <2>33, <2>34, <2>35, <2>36, <2>37, <2>38, <2>39, <2>40,
       <2>41, <2>42, <2>43, <2>44, <2>45
    DEF Next, Callers, Tokens, Workers, Coordinator, Desktop
<1> QED
  BY <1>2
-----------------------------------------------------------------------------
\* The refinement of GrantLifecycle: its variables, as functions of the core's.
LifeIn(v)   == [s \in Session |-> IF v[s] = "none" THEN "none"
                                  ELSE IF v[s] = "open" THEN "alive" ELSE "ended"]
HoldingIn(v, s) == {r \in Acquire : SessionOf[r] = s /\ v[r] # NoCard}
HolderIn(v) == [s \in Session |-> IF HoldingIn(v, s) = {} THEN NoRequest
                                  ELSE CHOOSE r \in Acquire : r \in HoldingIn(v, s)]
AnswerIn(p, e) == [r \in Request |-> IF p[r] \in {"reading", "told", "gone"}
                                     THEN IF e[r] = "ok" THEN "ok" ELSE "error"
                                     ELSE "waiting"]

\* At most one acquisition of a session holds a candidate.
OneHolder(v) ==
    \A q, r \in Acquire : v[q] # NoCard /\ v[r] # NoCard /\ SessionOf[q] = SessionOf[r] => q = r

\* The holder that the mapping chooses is the only acquisition with a candidate.
LEMMA HolderIsKnown ==
    ASSUME NEW v, OneHolder(v), NEW s \in Session
    PROVE  /\ \A r \in Acquire : v[r] # NoCard /\ SessionOf[r] = s => HolderIn(v)[s] = r
           /\ (\A r \in Acquire : v[r] # NoCard => SessionOf[r] # s) => HolderIn(v)[s] = NoRequest
<1>1. ASSUME NEW r \in Acquire, v[r] # NoCard, SessionOf[r] = s PROVE HolderIn(v)[s] = r
  <2>1. HoldingIn(v, s) = {r}
    BY <1>1 DEF HoldingIn, OneHolder
  <2>2. HolderIn(v)[s] = CHOOSE q \in Acquire : q \in {r}
    BY <2>1 DEF HolderIn
  <2> QED
    BY <2>2
<1>2. ASSUME \A r \in Acquire : v[r] # NoCard => SessionOf[r] # s PROVE HolderIn(v)[s] = NoRequest
  <2>1. HoldingIn(v, s) = {}
    BY <1>2 DEF HoldingIn
  <2> QED
    BY <2>1 DEF HolderIn
<1> QED
  BY <1>1, <1>2

\* The actions of the life cycle, in those terms.
LEMMA LifecycleActions ==
    /\ Lifecycle!lifecycleVars = <<LifeIn(sess), HolderIn(cand), AnswerIn(phase, error)>>
    /\ \A s \in Session : Lifecycle!OpenSession(s) <=>
           /\ LifeIn(sess)[s] = "none" /\ LifeIn(sess') = [LifeIn(sess) EXCEPT ![s] = "alive"]
           /\ HolderIn(cand') = HolderIn(cand) /\ AnswerIn(phase', error') = AnswerIn(phase, error)
    /\ \A S \in SUBSET Session : Lifecycle!EndSome(S) <=>
           /\ \A s \in S : LifeIn(sess)[s] = "alive"
           /\ LifeIn(sess') = [s \in Session |-> IF s \in S THEN "ended" ELSE LifeIn(sess)[s]]
           /\ HolderIn(cand') = HolderIn(cand) /\ AnswerIn(phase', error') = AnswerIn(phase, error)
    /\ \A r \in Acquire : Lifecycle!Take(r) <=>
           /\ AnswerIn(phase, error)[r] = "waiting" /\ LifeIn(sess)[SessionOf[r]] = "alive"
           /\ HolderIn(cand)[SessionOf[r]] = NoRequest
           /\ HolderIn(cand') = [HolderIn(cand) EXCEPT ![SessionOf[r]] = r]
           /\ LifeIn(sess') = LifeIn(sess) /\ AnswerIn(phase', error') = AnswerIn(phase, error)
    /\ \A r \in Acquire : Lifecycle!GiveBack(r) <=>
           /\ AnswerIn(phase, error)[r] = "waiting" /\ HolderIn(cand)[SessionOf[r]] = r
           /\ HolderIn(cand') = [HolderIn(cand) EXCEPT ![SessionOf[r]] = NoRequest]
           /\ LifeIn(sess') = LifeIn(sess) /\ AnswerIn(phase', error') = AnswerIn(phase, error)
    /\ \A r \in Request : Lifecycle!Succeed(r) <=>
           /\ AnswerIn(phase, error)[r] = "waiting" /\ LifeIn(sess)[SessionOf[r]] = "alive"
           /\ IF r \in Acquire THEN HolderIn(cand)[SessionOf[r]] = r
              ELSE /\ HolderIn(cand)[SessionOf[r]] # NoRequest
                   /\ AnswerIn(phase, error)[HolderIn(cand)[SessionOf[r]]] = "ok"
           /\ AnswerIn(phase', error') = [AnswerIn(phase, error) EXCEPT ![r] = "ok"]
           /\ LifeIn(sess') = LifeIn(sess) /\ HolderIn(cand') = HolderIn(cand)
    /\ \A r \in Request : Lifecycle!Refuse(r) <=>
           /\ AnswerIn(phase, error)[r] = "waiting" /\ HolderIn(cand)[SessionOf[r]] # r
           /\ AnswerIn(phase', error') = [AnswerIn(phase, error) EXCEPT ![r] = "error"]
           /\ LifeIn(sess') = LifeIn(sess) /\ HolderIn(cand') = HolderIn(cand)
BY DEF Lifecycle!lifecycleVars, Lifecycle!OpenSession, Lifecycle!EndSome, Lifecycle!Take,
       Lifecycle!GiveBack, Lifecycle!Succeed, Lifecycle!Refuse, Lifecycle!Usable,
       LifeIn, HolderIn, HoldingIn, AnswerIn, DecidedAnswer, Holding

\* A step that leaves the three functions alone is a stutter of the life cycle.
LEMMA LifecycleStutters ==
    ASSUME LifeIn(sess') = LifeIn(sess), HolderIn(cand') = HolderIn(cand),
           AnswerIn(phase', error') = AnswerIn(phase, error)
    PROVE  UNCHANGED Lifecycle!lifecycleVars
<1>1. Lifecycle!lifecycleVars = <<LifeIn(sess), HolderIn(cand), AnswerIn(phase, error)>>
  BY LifecycleActions
<1>2. Lifecycle!lifecycleVars' = <<LifeIn(sess'), HolderIn(cand'), AnswerIn(phase', error')>>
  BY DEF Lifecycle!lifecycleVars, LifeIn, HolderIn, HoldingIn, AnswerIn, DecidedAnswer, Holding
<1> QED
  BY <1>1, <1>2
-----------------------------------------------------------------------------
\* Most steps neither commit a candidate nor decide an answer, and end at most
\* some open sessions.
Quiet ==
    /\ cand' = cand
    /\ \A r \in Request : DecidedAnswer(r)' = DecidedAnswer(r)
    /\ \/ sess' = sess
       \/ \E S \in SUBSET Open : sess' = [x \in Session |-> IF x \in S THEN "closed" ELSE sess[x]]

\* Only four steps do more to the life cycle than end sessions.
LEMMA QuietStep ==
    ASSUME TypeOK, AcquisitionInv, ShutdownInv, [Next]_vars
    PROVE  \/ Quiet
           \/ \E s \in Session : CreateSession(s)
           \/ \E r \in Acquire : Commit(r) \/ Rollback(r)
           \/ \E r \in Request : ReadIntent(r)
<1> USE CoreAssumption DEF DecidedAnswer, shutVars, ownerVars, answerVars, cancelVars, workVars,
    chooserVars, requestVars, grantVars, sessionVars, tokenVars
<1>0. Acquire \subseteq Request /\ Sign \subseteq Request /\ Acquire \cap Sign = {}
  BY DEF Request
<1> DEFINE Known == \/ \E s \in Session : CreateSession(s)
                    \/ \E r \in Acquire : Commit(r) \/ Rollback(r)
                    \/ \E r \in Request : ReadIntent(r)
<1>1. /\ phase \in [Request -> Phase] /\ error \in [Request -> Code]
      /\ sess \in [Session -> {"none", "open", "closed"}]
  BY DEF TypeOK, RequestTypeOK, SessionTypeOK
<1>2. Quiet \/ Known
  <2>1. ASSUME NEW s \in Session, CreateSession(s) PROVE Quiet \/ Known
    BY <2>1 DEF Known
  <2>2. ASSUME NEW r \in Request, Submit(r) PROVE Quiet \/ Known
    BY <1>0, <1>1, <2>2 DEF Submit, Quiet
  <2>3. ASSUME NEW r \in Request, NEW why \in CancelReasons, Cancel(r, why) PROVE Quiet \/ Known
    BY <1>0, <1>1, <2>3 DEF Cancel, Quiet
  <2>4. ASSUME NEW s \in Session, CloseSession(s) PROVE Quiet \/ Known
    BY <1>0, <1>1, <2>4 DEF CloseSession, Quiet
  <2>5. CASE SetOwnerGeneration
    BY <1>0, <1>1, <2>5 DEF SetOwnerGeneration, Quiet
  <2>6. CASE ShutdownAsync
    BY <1>0, <1>1, <2>6 DEF ShutdownAsync, Quiet
  <2>7. ASSUME NEW r \in Request, Reply(r) PROVE Quiet \/ Known
    BY <1>0, <1>1, <2>7 DEF Reply, Quiet
  <2>8. ASSUME NEW s \in Session, PassDeadline(s) PROVE Quiet \/ Known
    BY <1>0, <1>1, <2>8 DEF PassDeadline, Quiet
  <2>9. ASSUME NEW p \in Presence, Insert(p) PROVE Quiet \/ Known
    BY <1>0, <1>1, <2>9 DEF Insert, Quiet
  <2>10. ASSUME NEW p \in Presence, Remove(p) PROVE Quiet \/ Known
    BY <1>0, <1>1, <2>10 DEF Remove, Quiet
  <2>11. ASSUME NEW p \in Presence, NEW added \in BOOLEAN, WatchEmit(p, added) PROVE Quiet \/ Known
    BY <1>0, <1>1, <2>11 DEF WatchEmit, Quiet
  <2>12. ASSUME NEW p \in Presence, NEW q \in Presence, WatchMiss(p, q) PROVE Quiet \/ Known
    BY <1>0, <1>1, <2>12 DEF WatchMiss, Quiet
  <2>13. CASE WatchDispatch
    BY <1>0, <1>1, <2>13 DEF WatchDispatch, BeginDrain, Idle, Quiet
  <2>14. CASE DispatchEvent
    <3> DEFINE p == Head(events).card
    <3>1. /\ cand' = cand /\ \A q \in Request : DecidedAnswer(q)' = DecidedAnswer(q)
      BY <1>0, <1>1, <2>14 DEF DispatchEvent
    <3>2. sess' = sess \/ sess' = [s \in Session |-> IF s \in Holders(p) THEN "closed" ELSE sess[s]]
      BY <2>14 DEF DispatchEvent, TokenEvent, EndSessions
    <3>3. Holders(p) \subseteq Open
      BY DEF Holders, Open
    <3> HIDE DEF p
    <3> QED
      BY <3>1, <3>2, <3>3 DEF Quiet
  <2>15. ASSUME NEW r \in Request, RefuseSpec(r) PROVE Quiet \/ Known
    BY <1>0, <1>1, <2>15 DEF RefuseSpec, Complete, CompleteWith, Validation, Quiet
  <2>16. ASSUME NEW r \in Acquire, StartAcquire(r) PROVE Quiet \/ Known
    BY <1>0, <1>1, <2>16 DEF StartAcquire, Complete, CompleteWith, AcquireRefusal, Quiet
  <2>17. ASSUME NEW r \in Sign, StartSign(r) PROVE Quiet \/ Known
    BY <1>0, <1>1, <2>17 DEF StartSign, Complete, CompleteWith, SignRefusal, Quiet
  <2>18. ASSUME NEW r \in Acquire, EnumerateRead(r) PROVE Quiet \/ Known
    BY <1>0, <1>1, <2>18 DEF EnumerateRead, Quiet
  <2>19. ASSUME NEW r \in Sign, SignWork(r) PROVE Quiet \/ Known
    BY <1>0, <1>1, <2>19 DEF SignWork, Quiet
  <2>20. ASSUME NEW r \in Acquire, EnumerationDone(r) PROVE Quiet \/ Known
    BY <1>0, <1>1, <2>20 DEF EnumerationDone, BeginDrain, Idle, Quiet
  <2>21. ASSUME NEW r \in Acquire, SnapshotEnds(r) PROVE Quiet \/ Known
    <3>1. phase[r] = "active"
      BY <2>21 DEF SnapshotEnds, SnapshotFor, EndsUnshown, Deciding, AcquisitionInv
    <3>2. /\ phase' = [phase EXCEPT ![r] = "answered"] /\ UNCHANGED <<cand, sess>>
          /\ \A q \in Request : q # r => error'[q] = error[q]
      BY <1>1, <2>21 DEF SnapshotEnds, SnapshotFor, EndsUnshown, Complete, CompleteWith
    <3>3. \A q \in Request : DecidedAnswer(q)' = DecidedAnswer(q)
      BY <1>0, <1>1, <3>1, <3>2
    <3> QED
      BY <3>2, <3>3 DEF Quiet
  <2>22. ASSUME NEW r \in Acquire, SnapshotConsent(r) PROVE Quiet \/ Known
    BY <1>0, <1>1, <2>22 DEF SnapshotConsent, SnapshotFor, Deciding, DropSnapshot, BeginDrain,
       Quiet
  <2>23. ASSUME NEW r \in Acquire, SnapshotAgain(r) PROVE Quiet \/ Known
    BY <1>0, <1>1, <2>23 DEF SnapshotAgain, SnapshotFor, Deciding, DropSnapshot, NoDrain, Quiet
  <2>24. ASSUME NEW r \in Acquire, SnapshotFailsChooser(r) PROVE Quiet \/ Known
    BY <1>0, <1>1, <2>24 DEF SnapshotFailsChooser, SnapshotFor, Deciding, DropSnapshot, NoDrain,
       Quiet
  <2>25. ASSUME NEW r \in Acquire, SnapshotShown(r) PROVE Quiet \/ Known
    BY <1>0, <1>1, <2>25 DEF SnapshotShown, SnapshotFor, Deciding, DropSnapshot, NoDrain, Quiet
  <2>26. ASSUME NEW r \in Acquire, HandleReply(r) PROVE Quiet \/ Known
    BY <1>0, <1>1, <2>26 DEF HandleReply, FinishChooser, BeginDrain, Idle, Quiet
  <2>27. ASSUME NEW r \in Acquire, ChooserCancelled(r) PROVE Quiet \/ Known
    BY <1>0, <1>1, <2>27 DEF ChooserCancelled, FinishChooser, BeginDrain, Idle, Quiet
  <2>28. ASSUME NEW r \in Acquire, ConsentWaits(r) PROVE Quiet \/ Known
    BY <1>0, <1>1, <2>28 DEF ConsentWaits, Deciding, NoDrain, Quiet
  <2>29. ASSUME NEW r \in Acquire, ConsentEnds(r) PROVE Quiet \/ Known
    <3>1. phase[r] = "active"
      BY <2>29 DEF ConsentEnds, ConsentFor, Consented, Deciding, AcquisitionInv
    <3>2. /\ phase' = [phase EXCEPT ![r] = "answered"] /\ UNCHANGED <<cand, sess>>
          /\ \A q \in Request : q # r => error'[q] = error[q]
      BY <1>1, <2>29 DEF ConsentEnds, ConsentFor, Consented, Complete, CompleteWith
    <3>3. \A q \in Request : DecidedAnswer(q)' = DecidedAnswer(q)
      BY <1>0, <1>1, <3>1, <3>2
    <3> QED
      BY <3>2, <3>3 DEF Quiet
  <2>30. ASSUME NEW r \in Acquire, Commit(r) PROVE Quiet \/ Known
    BY <2>30 DEF Known
  <2>31. ASSUME NEW r \in Sign, SignDone(r) PROVE Quiet \/ Known
    <3> DEFINE ended == IF work[r] = "removed" /\ ~cancelled[r] THEN {SessionOf[r]} \cap Open ELSE {}
    <3>1. phase[r] = "active"
      BY <2>31 DEF SignDone, ShutdownInv
    <3>2. /\ cand' = cand /\ phase' = [phase EXCEPT ![r] = "answered"]
          /\ \A q \in Request : q # r => error'[q] = error[q]
          /\ sess' = [s \in Session |-> IF s \in ended THEN "closed" ELSE sess[s]]
      BY <1>1, <2>31 DEF SignDone, CompleteWith, EndSessions
    <3>3. \A q \in Request : DecidedAnswer(q)' = DecidedAnswer(q)
      BY <1>0, <1>1, <3>1, <3>2
    <3>4. ended \in SUBSET Open
      OBVIOUS
    <3> HIDE DEF ended
    <3> QED
      BY <3>2, <3>3, <3>4 DEF Quiet
  <2>32. ASSUME NEW r \in Request, RunCancel(r) PROVE Quiet \/ Known
    BY <1>0, <1>1, <2>32 DEF RunCancel, Quiet
  <2>33. ASSUME NEW s \in Session, RunClose(s) PROVE Quiet \/ Known
    <3>1. /\ cand' = cand /\ \A q \in Request : DecidedAnswer(q)' = DecidedAnswer(q)
      BY <1>0, <1>1, <2>33 DEF RunClose, EndSessions
    <3>2. \E S \in SUBSET Open : sess' = [x \in Session |-> IF x \in S THEN "closed" ELSE sess[x]]
      <4>1. ({s} \cap Open) \subseteq Open
        BY <2>33 DEF RunClose, Open
      <4>2. sess' = [q \in Session |-> IF q \in ({s} \cap Open) THEN "closed" ELSE sess[q]]
        BY <2>33 DEF RunClose, EndSessions, Open
      <4> QED
        BY <4>1, <4>2
    <3> QED
      BY <3>1, <3>2 DEF Quiet
  <2>34. ASSUME NEW s \in Session, LifetimeExpired(s) PROVE Quiet \/ Known
    <3>1. /\ cand' = cand /\ \A q \in Request : DecidedAnswer(q)' = DecidedAnswer(q)
      BY <1>0, <1>1, <2>34 DEF LifetimeExpired, EndSessions
    <3>2. \E S \in SUBSET Open : sess' = [x \in Session |-> IF x \in S THEN "closed" ELSE sess[x]]
      <4>1. {s} \subseteq Open
        BY <2>34 DEF LifetimeExpired, Open
      <4>2. sess' = [q \in Session |-> IF q \in {s} THEN "closed" ELSE sess[q]]
        BY <2>34 DEF LifetimeExpired, EndSessions, Open
      <4> QED
        BY <4>1, <4>2
    <3> QED
      BY <3>1, <3>2 DEF Quiet
  <2>35. CASE RunGeneration
    <3>1. /\ cand' = cand /\ \A q \in Request : DecidedAnswer(q)' = DecidedAnswer(q)
      BY <1>0, <1>1, <2>35 DEF RunGeneration
    <3>2. \E S \in SUBSET Open : sess' = [x \in Session |-> IF x \in S THEN "closed" ELSE sess[x]]
      <4>1. {q \in Open : gen[q] # generation'} \subseteq Open
        BY <2>35 DEF RunGeneration, Open
      <4>2. sess' = [q \in Session |->
                  IF q \in {x \in Open : gen[x] # generation'} THEN "closed" ELSE sess[q]]
        BY <2>35 DEF RunGeneration, EndSessions, Open
      <4> QED
        BY <4>1, <4>2
    <3> QED
      BY <3>1, <3>2 DEF Quiet
  <2>36. ASSUME NEW r \in Request, ReadIntent(r) PROVE Quiet \/ Known
    BY <2>36 DEF Known
  <2>37. ASSUME NEW r \in Request, Deliver(r) PROVE Quiet \/ Known
    BY <1>0, <1>1, <2>37 DEF Deliver, Quiet
  <2>38. ASSUME NEW r \in Acquire, Rollback(r) PROVE Quiet \/ Known
    BY <2>38 DEF Known
  <2>39. ASSUME NEW r \in Request, CompletionAck(r) PROVE Quiet \/ Known
    BY <1>0, <1>1, <2>39 DEF CompletionAck, Quiet
  <2>40. ASSUME NEW s \in Session, DeliverNotice(s) PROVE Quiet \/ Known
    BY <1>0, <1>1, <2>40 DEF DeliverNotice, Quiet
  <2>41. CASE ShutdownStart
    <3>1. /\ cand' = cand /\ \A q \in Request : DecidedAnswer(q)' = DecidedAnswer(q)
      BY <1>0, <1>1, <2>41 DEF ShutdownStart
    <3>2. \E S \in SUBSET Open : sess' = [x \in Session |-> IF x \in S THEN "closed" ELSE sess[x]]
      <4>1. Open \subseteq Open
        BY <2>41 DEF ShutdownStart, Open
      <4>2. sess' = [q \in Session |-> IF q \in Open THEN "closed" ELSE sess[q]]
        BY <2>41 DEF ShutdownStart, EndSessions, Open
      <4> QED
        BY <4>1, <4>2
    <3> QED
      BY <3>1, <3>2 DEF Quiet
  <2>42. CASE StopWatch
    BY <1>0, <1>1, <2>42 DEF StopWatch, Quiet
  <2>43. CASE CheckShutdown
    BY <1>0, <1>1, <2>43 DEF CheckShutdown, Idle, Quiet
  <2>44. CASE ShutdownDelivered
    BY <1>0, <1>1, <2>44 DEF ShutdownDelivered, Quiet
  <2>45. CASE UNCHANGED vars
    BY <1>0, <1>1, <2>45 DEF vars, Quiet
  <2> HIDE DEF Quiet, Known
  <2> QED
    BY <2>1, <2>2, <2>3, <2>4, <2>5, <2>6, <2>7, <2>8, <2>9, <2>10, <2>11, <2>12, <2>13, <2>14,
       <2>15, <2>16, <2>17, <2>18, <2>19, <2>20, <2>21, <2>22, <2>23, <2>24, <2>25, <2>26, <2>27,
       <2>28, <2>29, <2>30, <2>31, <2>32, <2>33, <2>34, <2>35, <2>36, <2>37, <2>38, <2>39, <2>40,
       <2>41, <2>42, <2>43, <2>44, <2>45
    DEF Next, Callers, Tokens, Workers, Coordinator, Desktop
<1> QED
  BY <1>2
-----------------------------------------------------------------------------
\* Every step of the core is a step of the life cycle, or a stutter of it.
LEMMA LifecycleStep ==
    ASSUME TypeOK, GrantInv, ShutdownInv, LiveInv, AnswerInv, GrantInv', [Next]_vars
    PROVE  [Lifecycle!GrantNext]_(Lifecycle!lifecycleVars)
<1> USE CoreAssumption
<1>0. /\ Acquire \subseteq Request /\ Sign \subseteq Request /\ Acquire \cap Sign = {}
      /\ \A r \in Request : SessionOf[r] \in Session /\ (r \in Acquire \/ r \in Sign) /\ r # NoRequest
  BY DEF Request
<1>1. /\ phase \in [Request -> Phase] /\ error \in [Request -> Code]
      /\ intent \in [Request -> Reason]
      /\ cand \in [Request -> Presence \cup {NoCard}] /\ sess \in [Session -> {"none", "open", "closed"}]
  BY DEF TypeOK, RequestTypeOK, SessionTypeOK
<1>2. OneHolder(cand) /\ OneHolder(cand')
  <2>1. OneHolder(cand)
    BY <1>0 DEF GrantInv, HolderInv, OneHolder
  <2>2. OneHolder(cand')
    BY <1>0 DEF GrantInv, HolderInv, OneHolder
  <2> QED
    BY <2>1, <2>2
<1>3. \A s \in Session, r \in Acquire :
          cand[r] # NoCard /\ SessionOf[r] = s => HolderIn(cand)[s] = r
  BY <1>2, HolderIsKnown
<1>4. CASE Quiet
  <2>1. HolderIn(cand') = HolderIn(cand)
    BY <1>4 DEF Quiet
  <2>2. AnswerIn(phase', error') = AnswerIn(phase, error)
    BY <1>4 DEF Quiet, AnswerIn, DecidedAnswer
  <2>3. ASSUME sess' = sess PROVE UNCHANGED Lifecycle!lifecycleVars
    <3>1. LifeIn(sess') = LifeIn(sess)
      BY <2>3
    <3> QED
      BY <2>1, <2>2, <3>1, LifecycleStutters
  <2>4. ASSUME NEW S \in SUBSET Open, sess' = [x \in Session |-> IF x \in S THEN "closed" ELSE sess[x]]
        PROVE  Lifecycle!GrantNext
    <3>1. S \in SUBSET Session /\ \A s \in S : LifeIn(sess)[s] = "alive"
      BY DEF Open, LifeIn
    <3>2. LifeIn(sess') = [s \in Session |-> IF s \in S THEN "ended" ELSE LifeIn(sess)[s]]
      BY <2>4 DEF LifeIn
    <3>3. Lifecycle!EndSome(S)
      BY <2>1, <2>2, <3>1, <3>2, LifecycleActions
    <3> QED
      BY <3>1, <3>3 DEF Lifecycle!GrantNext
  <2> QED
    BY <1>4, <2>3, <2>4 DEF Quiet
<1>5. ASSUME NEW s \in Session, CreateSession(s) PROVE Lifecycle!GrantNext
  <2>1. /\ sess[s] = "none" /\ sess' = [sess EXCEPT ![s] = "open"]
        /\ UNCHANGED <<cand, phase, error>>
    BY <1>5 DEF CreateSession, requestVars, answerVars, grantVars
  <2>2. LifeIn(sess)[s] = "none" /\ LifeIn(sess') = [LifeIn(sess) EXCEPT ![s] = "alive"]
    BY <1>1, <2>1 DEF LifeIn
  <2>3. Lifecycle!OpenSession(s)
    BY <2>1, <2>2, LifecycleActions
  <2> QED
    BY <2>3 DEF Lifecycle!GrantNext
<1>6. ASSUME NEW r \in Acquire, Commit(r) PROVE Lifecycle!GrantNext
  <2>1. /\ phase[r] = "active" /\ grant[SessionOf[r]] = NoCard
    BY <1>6 DEF Commit, Consented, ConsentFor, Deciding, GrantInv, AcquisitionInv, UseInv
  <2>2. /\ phase' = [phase EXCEPT ![r] = "answered"] /\ cand' = [cand EXCEPT ![r] = chosen[r]]
        /\ chosen[r] \in Presence /\ sess' = sess /\ sess[SessionOf[r]] = "open"
        /\ \A q \in Request : q # r => error'[q] = error[q]
    BY <1>1, <1>6 DEF Commit, Complete, CompleteWith, Consented, Uncancelled, Refusal
  <2>3. \A q \in Acquire : cand[q] # NoCard => SessionOf[q] # SessionOf[r]
    BY <1>0, <2>1 DEF GrantInv, HolderInv
  <2>4. HolderIn(cand)[SessionOf[r]] = NoRequest
    BY <1>0, <1>2, <2>3, HolderIsKnown
  <2>5. HolderIn(cand')[SessionOf[r]] = r
    <3>1. cand'[r] # NoCard
      BY <1>0, <1>1, <2>2
    <3> QED
      BY <1>0, <1>2, <3>1, HolderIsKnown
  <2>6. HolderIn(cand') = [HolderIn(cand) EXCEPT ![SessionOf[r]] = r]
    <3>1. ASSUME NEW s \in Session, s # SessionOf[r] PROVE HolderIn(cand')[s] = HolderIn(cand)[s]
      <4>1. HoldingIn(cand', s) = HoldingIn(cand, s)
        BY <1>0, <1>1, <2>2, <3>1 DEF HoldingIn
      <4> QED
        BY <4>1 DEF HolderIn
    <3>2. /\ HolderIn(cand') = [s \in Session |-> HolderIn(cand')[s]]
          /\ HolderIn(cand) = [s \in Session |-> HolderIn(cand)[s]]
      BY DEF HolderIn
    <3> QED
      BY <2>5, <3>1, <3>2
  <2>7. AnswerIn(phase', error') = AnswerIn(phase, error) /\ AnswerIn(phase, error)[r] = "waiting"
    BY <1>0, <1>1, <2>1, <2>2 DEF AnswerIn
  <2>8. LifeIn(sess)[SessionOf[r]] = "alive" /\ LifeIn(sess') = LifeIn(sess)
    BY <1>0, <2>2 DEF LifeIn
  <2>9. Lifecycle!Take(r)
    BY <2>4, <2>6, <2>7, <2>8, LifecycleActions
  <2> QED
    BY <2>9 DEF Lifecycle!GrantNext
<1>7. ASSUME NEW r \in Acquire, Rollback(r) PROVE Lifecycle!GrantNext
  <2>1. /\ phase[r] = "rollback" /\ phase' = [phase EXCEPT ![r] = "answered"]
        /\ cand' = [cand EXCEPT ![r] = NoCard] /\ UNCHANGED <<error, sess>>
    BY <1>7 DEF Rollback
  <2>2. cand[r] # NoCard
    BY <1>0, <2>1 DEF GrantInv, HolderInv
  <2>3. HolderIn(cand)[SessionOf[r]] = r
    BY <1>0, <1>3, <2>2
  <2>4. HolderIn(cand')[SessionOf[r]] = NoRequest
    <3>1. \A q \in Acquire : cand'[q] # NoCard => SessionOf[q] # SessionOf[r]
      BY <1>0, <1>1, <1>2, <2>1, <2>2 DEF OneHolder
    <3> QED
      BY <1>0, <1>2, <3>1, HolderIsKnown
  <2>5. HolderIn(cand') = [HolderIn(cand) EXCEPT ![SessionOf[r]] = NoRequest]
    <3>1. ASSUME NEW s \in Session, s # SessionOf[r] PROVE HolderIn(cand')[s] = HolderIn(cand)[s]
      <4>1. HoldingIn(cand', s) = HoldingIn(cand, s)
        BY <1>0, <1>1, <2>1, <3>1 DEF HoldingIn
      <4> QED
        BY <4>1 DEF HolderIn
    <3>2. /\ HolderIn(cand') = [s \in Session |-> HolderIn(cand')[s]]
          /\ HolderIn(cand) = [s \in Session |-> HolderIn(cand)[s]]
      BY DEF HolderIn
    <3> QED
      BY <2>4, <3>1, <3>2
  <2>6. AnswerIn(phase', error') = AnswerIn(phase, error) /\ AnswerIn(phase, error)[r] = "waiting"
    BY <1>0, <1>1, <2>1 DEF AnswerIn
  <2>7. Lifecycle!GiveBack(r)
    BY <2>1, <2>3, <2>5, <2>6, LifecycleActions
  <2> QED
    BY <2>7 DEF Lifecycle!GrantNext
<1>8. ASSUME NEW r \in Request, ReadIntent(r)
      PROVE  [Lifecycle!GrantNext]_(Lifecycle!lifecycleVars)
  <2> DEFINE e == IF intent[r] # "none" THEN intent[r] ELSE error[r]
  <2>1. /\ phase[r] \in {"answered", "detached"} /\ error' = [error EXCEPT ![r] = e]
        /\ phase' = [phase EXCEPT ![r] = IF cand[r] # NoCard /\ e # "ok" THEN "rollback"
                                         ELSE IF @ = "detached" THEN "gone" ELSE "reading"]
        /\ UNCHANGED <<sess, cand>>
    BY <1>8 DEF ReadIntent, sessionVars, grantVars
  <2>2. AnswerIn(phase, error)[r] = "waiting"
    BY <2>1 DEF AnswerIn
  <2>3. LifeIn(sess') = LifeIn(sess) /\ HolderIn(cand') = HolderIn(cand)
    BY <2>1
  <2>4. intent[r] # "ok"
    BY <1>1 DEF Reason
  <2> HIDE DEF e
  <2>5. CASE cand[r] # NoCard /\ e # "ok"
    <3>1. AnswerIn(phase', error') = AnswerIn(phase, error)
      BY <1>1, <2>1, <2>5 DEF AnswerIn
    <3> QED
      BY <2>3, <3>1, LifecycleStutters
  <2>6. CASE e = "ok"
    <3>1. intent[r] = "none" /\ error[r] = "ok"
      BY <2>4, <2>6 DEF e
    <3>2. phase[r] = "answered"
      BY <2>1, <3>1 DEF LiveInv
    <3>3. LifeIn(sess)[SessionOf[r]] = "alive"
      BY <1>0, <3>1, <3>2 DEF LiveInv, Live, LifeIn
    <3>4. AnswerIn(phase', error') = [AnswerIn(phase, error) EXCEPT ![r] = "ok"]
      BY <1>1, <2>1, <2>6, <3>2 DEF AnswerIn
    <3>5. CASE r \in Acquire
      <4>1. HolderIn(cand)[SessionOf[r]] = r
        BY <1>0, <1>3, <3>1, <3>2, <3>5 DEF AnswerInv
      <4>2. Lifecycle!Succeed(r)
        BY <2>2, <2>3, <3>3, <3>4, <3>5, <4>1, LifecycleActions
      <4> QED
        BY <4>2 DEF Lifecycle!GrantNext, Lifecycle!Request, Request
    <3>6. CASE r \in Sign
      <4>1. grant[SessionOf[r]] # NoCard /\ ~pending[SessionOf[r]]
        BY <3>1, <3>2, <3>6 DEF AnswerInv
      <4>2. PICK q \in Acquire : SessionOf[q] = SessionOf[r] /\ cand[q] # NoCard
        BY <1>0, <4>1 DEF GrantInv, HolderInv
      <4>3. phase[q] \in {"told", "gone"} /\ error[q] = "ok"
        BY <1>0, <4>1, <4>2 DEF GrantInv, HolderInv
      <4>4. HolderIn(cand)[SessionOf[r]] = q /\ AnswerIn(phase, error)[q] = "ok" /\ q # NoRequest
        <5>1. HolderIn(cand)[SessionOf[r]] = q
          BY <1>0, <1>3, <4>2
        <5>2. AnswerIn(phase, error)[q] = "ok"
          BY <1>0, <4>3 DEF AnswerIn
        <5> QED
          BY <1>0, <5>1, <5>2
      <4>5. Lifecycle!Succeed(r)
        BY <1>0, <2>2, <2>3, <3>3, <3>4, <3>6, <4>4, LifecycleActions
      <4> QED
        BY <4>5 DEF Lifecycle!GrantNext, Lifecycle!Request, Request
    <3> QED
      BY <1>0, <3>5, <3>6
  <2>7. CASE cand[r] = NoCard /\ e # "ok"
    <3>1. HolderIn(cand)[SessionOf[r]] # r
      <4>1. CASE \E q \in Acquire : cand[q] # NoCard /\ SessionOf[q] = SessionOf[r]
        BY <1>0, <1>3, <2>7, <4>1
      <4>2. CASE ~\E q \in Acquire : cand[q] # NoCard /\ SessionOf[q] = SessionOf[r]
        BY <1>0, <1>2, <4>2, HolderIsKnown
      <4> QED
        BY <4>1, <4>2
    <3>2. AnswerIn(phase', error') = [AnswerIn(phase, error) EXCEPT ![r] = "error"]
      BY <1>1, <2>1, <2>7 DEF AnswerIn
    <3>3. Lifecycle!Refuse(r)
      BY <2>2, <2>3, <3>1, <3>2, LifecycleActions
    <3> QED
      BY <3>3 DEF Lifecycle!GrantNext, Lifecycle!Request, Request
  <2> QED
    BY <2>5, <2>6, <2>7
<1> QED
  BY <1>4, <1>5, <1>6, <1>7, <1>8, QuietStep DEF GrantInv
-----------------------------------------------------------------------------
\* A request is told its answer, or has its answer decided, only by the steps of
\* the desktop's loop that do so.
Untold == \A q \in Request : phase'[q] \in {"told", "reading"} => phase'[q] = phase[q]

\* Only ReadIntent and Deliver move a request on to its answer.
LEMMA DecisionSteps ==
    ASSUME TypeOK, [Next]_vars
    PROVE  Untold \/ \E r \in Request : ReadIntent(r) \/ Deliver(r)
<1> USE CoreAssumption DEF Untold, shutVars, ownerVars, answerVars, cancelVars, workVars,
    chooserVars, requestVars, grantVars, sessionVars, tokenVars
<1>0. Acquire \subseteq Request /\ Sign \subseteq Request /\ Acquire \cap Sign = {}
  BY DEF Request
<1> DEFINE Known == \E r \in Request : ReadIntent(r) \/ Deliver(r)
<1>1. phase \in [Request -> Phase]
  BY DEF TypeOK, RequestTypeOK
<1>2. Untold \/ Known
  <2>1. ASSUME NEW s \in Session, CreateSession(s) PROVE Untold \/ Known
    BY <1>0, <1>1, <2>1 DEF CreateSession, Idle
  <2>2. ASSUME NEW r \in Request, Submit(r) PROVE Untold \/ Known
    BY <1>0, <1>1, <2>2 DEF Submit
  <2>3. ASSUME NEW r \in Request, NEW why \in CancelReasons, Cancel(r, why) PROVE Untold \/ Known
    BY <1>0, <1>1, <2>3 DEF Cancel
  <2>4. ASSUME NEW s \in Session, CloseSession(s) PROVE Untold \/ Known
    BY <1>0, <1>1, <2>4 DEF CloseSession
  <2>5. CASE SetOwnerGeneration
    BY <1>0, <1>1, <2>5 DEF SetOwnerGeneration
  <2>6. CASE ShutdownAsync
    BY <1>0, <1>1, <2>6 DEF ShutdownAsync
  <2>7. ASSUME NEW r \in Request, Reply(r) PROVE Untold \/ Known
    BY <1>0, <1>1, <2>7 DEF Reply
  <2>8. ASSUME NEW s \in Session, PassDeadline(s) PROVE Untold \/ Known
    BY <1>0, <1>1, <2>8 DEF PassDeadline
  <2>9. ASSUME NEW p \in Presence, Insert(p) PROVE Untold \/ Known
    BY <1>0, <1>1, <2>9 DEF Insert
  <2>10. ASSUME NEW p \in Presence, Remove(p) PROVE Untold \/ Known
    BY <1>0, <1>1, <2>10 DEF Remove
  <2>11. ASSUME NEW p \in Presence, NEW added \in BOOLEAN, WatchEmit(p, added) PROVE Untold \/
          Known
    BY <1>0, <1>1, <2>11 DEF WatchEmit
  <2>12. ASSUME NEW p \in Presence, NEW q \in Presence, WatchMiss(p, q) PROVE Untold \/ Known
    BY <1>0, <1>1, <2>12 DEF WatchMiss
  <2>13. CASE WatchDispatch
    BY <1>0, <1>1, <2>13 DEF WatchDispatch, BeginDrain, Idle
  <2>14. CASE DispatchEvent
    BY <1>0, <1>1, <2>14 DEF DispatchEvent, TokenEvent, Restarted, Watching, Enumerating,
       EndSessions, NoDrain
  <2>15. ASSUME NEW r \in Request, RefuseSpec(r) PROVE Untold \/ Known
    BY <1>0, <1>1, <2>15 DEF RefuseSpec, Complete, CompleteWith, Validation
  <2>16. ASSUME NEW r \in Acquire, StartAcquire(r) PROVE Untold \/ Known
    BY <1>0, <1>1, <2>16 DEF StartAcquire, Complete, CompleteWith, AcquireRefusal
  <2>17. ASSUME NEW r \in Sign, StartSign(r) PROVE Untold \/ Known
    BY <1>0, <1>1, <2>17 DEF StartSign, Complete, CompleteWith, SignRefusal
  <2>18. ASSUME NEW r \in Acquire, EnumerateRead(r) PROVE Untold \/ Known
    BY <1>0, <1>1, <2>18 DEF EnumerateRead
  <2>19. ASSUME NEW r \in Sign, SignWork(r) PROVE Untold \/ Known
    BY <1>0, <1>1, <2>19 DEF SignWork
  <2>20. ASSUME NEW r \in Acquire, EnumerationDone(r) PROVE Untold \/ Known
    BY <1>0, <1>1, <2>20 DEF EnumerationDone, BeginDrain, Idle
  <2>21. ASSUME NEW r \in Acquire, SnapshotEnds(r) PROVE Untold \/ Known
    BY <1>0, <1>1, <2>21 DEF SnapshotEnds, SnapshotFor, Deciding, EndsUnshown, Complete,
       CompleteWith, DropSnapshot, NoDrain
  <2>22. ASSUME NEW r \in Acquire, SnapshotConsent(r) PROVE Untold \/ Known
    BY <1>0, <1>1, <2>22 DEF SnapshotConsent, SnapshotFor, Deciding, DropSnapshot, BeginDrain
  <2>23. ASSUME NEW r \in Acquire, SnapshotAgain(r) PROVE Untold \/ Known
    BY <1>0, <1>1, <2>23 DEF SnapshotAgain, SnapshotFor, Deciding, DropSnapshot, NoDrain
  <2>24. ASSUME NEW r \in Acquire, SnapshotFailsChooser(r) PROVE Untold \/ Known
    BY <1>0, <1>1, <2>24 DEF SnapshotFailsChooser, SnapshotFor, Deciding, DropSnapshot, NoDrain
  <2>25. ASSUME NEW r \in Acquire, SnapshotShown(r) PROVE Untold \/ Known
    BY <1>0, <1>1, <2>25 DEF SnapshotShown, SnapshotFor, Deciding, DropSnapshot, NoDrain
  <2>26. ASSUME NEW r \in Acquire, HandleReply(r) PROVE Untold \/ Known
    BY <1>0, <1>1, <2>26 DEF HandleReply, FinishChooser, BeginDrain, Idle
  <2>27. ASSUME NEW r \in Acquire, ChooserCancelled(r) PROVE Untold \/ Known
    BY <1>0, <1>1, <2>27 DEF ChooserCancelled, FinishChooser, BeginDrain, Idle
  <2>28. ASSUME NEW r \in Acquire, ConsentWaits(r) PROVE Untold \/ Known
    BY <1>0, <1>1, <2>28 DEF ConsentWaits, Deciding, NoDrain
  <2>29. ASSUME NEW r \in Acquire, ConsentEnds(r) PROVE Untold \/ Known
    BY <1>0, <1>1, <2>29 DEF ConsentEnds, Complete, CompleteWith, Consented, ConsentFor, Deciding,
       NoDrain
  <2>30. ASSUME NEW r \in Acquire, Commit(r) PROVE Untold \/ Known
    BY <1>0, <1>1, <2>30 DEF Commit, Complete, CompleteWith, Consented, ConsentFor, Deciding,
       Uncancelled, NoDrain
  <2>31. ASSUME NEW r \in Sign, SignDone(r) PROVE Untold \/ Known
    BY <1>0, <1>1, <2>31 DEF SignDone, CompleteWith, EndSessions
  <2>32. ASSUME NEW r \in Request, RunCancel(r) PROVE Untold \/ Known
    BY <1>0, <1>1, <2>32 DEF RunCancel
  <2>33. ASSUME NEW s \in Session, RunClose(s) PROVE Untold \/ Known
    BY <1>0, <1>1, <2>33 DEF RunClose, EndSessions
  <2>34. ASSUME NEW s \in Session, LifetimeExpired(s) PROVE Untold \/ Known
    BY <1>0, <1>1, <2>34 DEF LifetimeExpired, EndSessions
  <2>35. CASE RunGeneration
    BY <1>0, <1>1, <2>35 DEF RunGeneration
  <2>36. ASSUME NEW r \in Request, ReadIntent(r) PROVE Untold \/ Known
    BY <2>36 DEF Known
  <2>37. ASSUME NEW r \in Request, Deliver(r) PROVE Untold \/ Known
    BY <2>37 DEF Known
  <2>38. ASSUME NEW r \in Acquire, Rollback(r) PROVE Untold \/ Known
    BY <1>0, <1>1, <2>38 DEF Rollback
  <2>39. ASSUME NEW r \in Request, CompletionAck(r) PROVE Untold \/ Known
    BY <1>0, <1>1, <2>39 DEF CompletionAck
  <2>40. ASSUME NEW s \in Session, DeliverNotice(s) PROVE Untold \/ Known
    BY <1>0, <1>1, <2>40 DEF DeliverNotice
  <2>41. CASE ShutdownStart
    BY <1>0, <1>1, <2>41 DEF ShutdownStart
  <2>42. CASE StopWatch
    BY <1>0, <1>1, <2>42 DEF StopWatch
  <2>43. CASE CheckShutdown
    BY <1>0, <1>1, <2>43 DEF CheckShutdown, Idle
  <2>44. CASE ShutdownDelivered
    BY <1>0, <1>1, <2>44 DEF ShutdownDelivered
  <2>45. CASE UNCHANGED vars
    BY <1>0, <1>1, <2>45 DEF vars
  <2> HIDE DEF Untold, Known
  <2> QED
    BY <2>1, <2>2, <2>3, <2>4, <2>5, <2>6, <2>7, <2>8, <2>9, <2>10, <2>11, <2>12, <2>13, <2>14,
       <2>15, <2>16, <2>17, <2>18, <2>19, <2>20, <2>21, <2>22, <2>23, <2>24, <2>25, <2>26, <2>27,
       <2>28, <2>29, <2>30, <2>31, <2>32, <2>33, <2>34, <2>35, <2>36, <2>37, <2>38, <2>39, <2>40,
       <2>41, <2>42, <2>43, <2>44, <2>45
    DEF Next, Callers, Tokens, Workers, Coordinator, Desktop
<1> QED
  BY <1>2

-----------------------------------------------------------------------------
\* All of the above, of every state.
CoreInv ==
    /\ DrainInv /\ AcquisitionContinues
    /\ TokenTrackInv /\ ConsentInv /\ RemovedGrantInv
    /\ ShutdownInv /\ LiveInv /\ AnswerInv

\* The initial states satisfy it: nothing has been submitted or removed.
LEMMA CoreStart == Init => CoreInv
<1> SUFFICES ASSUME Init PROVE CoreInv
  OBVIOUS
<1> USE CoreAssumption DEF Init
<1>1. DrainInv /\ AcquisitionContinues
  BY DEF DrainInv, AcquisitionContinues, NoDrain, Request
<1>2. TokenTrackInv
  BY DEF TokenTrackInv
<1>3. ConsentInv
  BY DEF ConsentInv, Request
<1>4. RemovedGrantInv
  BY DEF RemovedGrantInv
<1>5. ShutdownInv
  BY DEF ShutdownInv, Stopping, ShutdownPosted, ShutdownLeavesNothing, Request
<1>6. LiveInv
  BY DEF LiveInv
<1>7. AnswerInv
  BY DEF AnswerInv, Request
<1> QED
  BY <1>1, <1>2, <1>3, <1>4, <1>5, <1>6, <1>7 DEF CoreInv

\* The invariant of the acquisitions' progress, the tokens' removal, the shutdown
\* and the decided answers holds in every reachable state.
THEOREM CoreInvariant == Spec => []CoreInv
<1>1. TypeOK /\ GrantInv /\ CoreInv /\ [Next]_vars => CoreInv'
  <2> SUFFICES ASSUME TypeOK, GrantInv, CoreInv, [Next]_vars PROVE CoreInv'
    OBVIOUS
  <2>0. AcquisitionInv
    BY DEF GrantInv
  <2>1. DrainInv' /\ AcquisitionContinues'
    BY <2>0, ContinueStep DEF CoreInv
  <2>2. TokenTrackInv' /\ ConsentInv' /\ RemovedGrantInv'
    BY <2>0, TokenTrackStep, ConsentStep, RemovedGrantStep DEF CoreInv
  <2>3. ShutdownInv' /\ LiveInv' /\ AnswerInv'
    BY <2>0, ShutdownStep, LiveStep, AnswerStep DEF CoreInv
  <2> QED
    BY <2>1, <2>2, <2>3 DEF CoreInv
<1> QED
  BY <1>1, CoreStart, TypeCorrect, GrantInvariant, PTL DEF Spec

\* No open session keeps a grant on a token whose removal has been handled,
\* whatever the removal met: an enumeration, a chooser, a consent or a commit.
THEOREM RemovalEndsGrants == Spec => []NoGrantOnRemovedToken
<1>1. TypeOK /\ CoreInv => NoGrantOnRemovedToken
  <2> SUFFICES ASSUME TypeOK, CoreInv, NEW s \in Open PROVE grant[s] \notin gone
    BY DEF NoGrantOnRemovedToken
  <2>1. s \in Session /\ sess[s] = "open" /\ NoCard \notin gone
    BY CoreAssumption DEF Open, TypeOK, TokenTypeOK
  <2> QED
    BY <2>1 DEF CoreInv, RemovedGrantInv
<1> QED
  BY <1>1, TypeCorrect, CoreInvariant, PTL

\* An acquisition that is not answered has an enumeration, an open chooser or the
\* coordinator's callback in progress: no path of the coordinator forgets it.
THEOREM AcquisitionIsNeverForgotten == Spec => []AcquisitionContinues
<1>1. CoreInv => AcquisitionContinues
  BY DEF CoreInv
<1> QED
  BY <1>1, CoreInvariant, PTL

\* Once xcc_context_check_shutdown has stopped the loop, no request, worker,
\* chooser, open session or pending grant is left in it.
THEOREM ShutdownIsComplete == Spec => []ShutdownLeavesNothing
<1>1. CoreInv => ShutdownLeavesNothing
  BY DEF CoreInv, ShutdownInv
<1> QED
  BY <1>1, CoreInvariant, PTL

\* After a session's invalidation has been delivered to the desktop no request of
\* it is reported as a success (completion and its idle callback).
THEOREM NoticeEndsSuccess == Spec => NoSuccessAfterNotice
<1> DEFINE Told == \A r \in Request : phase[r] # "told" /\ phase'[r] = "told" /\ error'[r] = "ok"
                      => notice[SessionOf[r]] # "told"
<1>1. TypeOK /\ CoreInv /\ [Next]_vars => Told
  <2> SUFFICES ASSUME TypeOK, CoreInv, [Next]_vars, NEW r \in Request,
                      phase[r] # "told", phase'[r] = "told", error'[r] = "ok"
               PROVE  notice[SessionOf[r]] # "told"
    OBVIOUS
  <2>1. phase \in [Request -> Phase]
    BY DEF TypeOK, RequestTypeOK
  <2>2. ~Untold
    BY DEF Untold
  <2>3. ASSUME NEW q \in Request, ReadIntent(q) PROVE FALSE
    BY <2>1, <2>3 DEF ReadIntent
  <2>4. ASSUME NEW q \in Request, Deliver(q) PROVE phase[r] = "reading" /\ error[r] = "ok"
    BY <2>1, <2>4 DEF Deliver
  <2>5. phase[r] = "reading" /\ error[r] = "ok"
    BY <2>2, <2>3, <2>4, DecisionSteps
  <2> QED
    BY <2>5 DEF CoreInv, LiveInv
<1>2. TypeOK /\ CoreInv /\ [Next]_vars => [Told]_vars
  BY <1>1
<1> QED
  BY <1>2, TypeCorrect, CoreInvariant, PTL DEF Spec, NoSuccessAfterNotice

\* completion decides on success only while the session is open and of the
\* current owner: every end of a session has left its intent or its answer.
THEOREM SuccessIsDecidedLive == Spec => SuccessDecidedOnLiveSession
<1> DEFINE Decided == \A r \in Request :
                          phase[r] = "answered" /\ phase'[r] = "reading" /\ error'[r] = "ok"
                          => sess[SessionOf[r]] = "open" /\ gen[SessionOf[r]] = generation
<1>1. TypeOK /\ CoreInv /\ [Next]_vars => Decided
  <2> SUFFICES ASSUME TypeOK, CoreInv, [Next]_vars, NEW r \in Request,
                      phase[r] = "answered", phase'[r] = "reading", error'[r] = "ok"
               PROVE  sess[SessionOf[r]] = "open" /\ gen[SessionOf[r]] = generation
    OBVIOUS
  <2>1. /\ phase \in [Request -> Phase] /\ error \in [Request -> Code]
        /\ intent \in [Request -> Reason]
    BY DEF TypeOK, RequestTypeOK
  <2>2. ~Untold
    BY DEF Untold
  <2>3. ASSUME NEW q \in Request, Deliver(q) PROVE FALSE
    BY <2>1, <2>3 DEF Deliver
  <2>4. ASSUME NEW q \in Request, ReadIntent(q) PROVE intent[r] = "none" /\ error[r] = "ok"
    <3>1. q = r
      BY <2>1, <2>4 DEF ReadIntent
    <3>2. error'[r] = IF intent[r] # "none" THEN intent[r] ELSE error[r]
      BY <2>1, <2>4, <3>1 DEF ReadIntent
    <3>3. intent[r] # "ok"
      BY <2>1 DEF Reason
    <3> QED
      BY <3>2, <3>3
  <2>5. intent[r] = "none" /\ error[r] = "ok"
    BY <2>2, <2>3, <2>4, DecisionSteps
  <2> QED
    BY <2>5 DEF CoreInv, LiveInv, Live
<1>2. TypeOK /\ CoreInv /\ [Next]_vars => [Decided]_vars
  BY <1>1
<1> QED
  BY <1>2, TypeCorrect, CoreInvariant, PTL DEF Spec, SuccessDecidedOnLiveSession

\* The core, with its threads and its queues, implements the life cycle of a
\* grant: one decision per request, and only grants that were reported are used.
THEOREM GrantLifecycleIsImplemented == Spec => ImplementsGrantLifecycle
<1>1. Init => Lifecycle!GrantInit
  BY CoreAssumption DEF Init, Lifecycle!GrantInit, Lifecycle!Request, Request, Holding, DecidedAnswer
<1>2. TypeOK /\ GrantInv /\ CoreInv /\ GrantInv' /\ [Next]_vars
          => [Lifecycle!GrantNext]_(Lifecycle!lifecycleVars)
  BY LifecycleStep DEF CoreInv
<1> QED
  BY <1>1, <1>2, TypeCorrect, GrantInvariant, CoreInvariant, PTL
     DEF Spec, ImplementsGrantLifecycle, Lifecycle!GrantSpec
=============================================================================
