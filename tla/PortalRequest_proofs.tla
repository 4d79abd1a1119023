------------------------ MODULE PortalRequest_proofs ------------------------
(***************************************************************************)
(* Proofs about the module's portal client for every set of callers and    *)
(* every number of owners of the portal's name: its types, that what a     *)
(* caller gave up on is closed at the portal, that no grant is left there  *)
(* without a holder, and that requests stay with one owner.                *)
(***************************************************************************)
EXTENDS PortalRequest, TLAPS

\* A request and its caller: who waits for it, and which owner it was sent to.
RequestOK(r) ==
    /\ req[r].state \in {"none", "posted"} => req[r].sentTo = 0 /\ req[r].result = "none"
    /\ req[r].state = "live" => req[r].sentTo # 0 /\ req[r].result = "none"
    /\ req[r].sentTo # 0 => req[r].sentTo = gen[r[1]] /\ HasOwner(gen[r[1]])
    /\ Responded(r) => req[r].sentTo # 0
    /\ portal[r] # "none" => req[r].sentTo # 0
    /\ response[r] # "none" => portal[r] = "ended"

RequestInv == \A r \in Request : RequestOK(r)

\* A caller waits for one request at a time, each after the success of the last.
CallerOK(c) ==
    /\ phase[c] \in {"idle", "probing", "probed", "admitted"} =>
           \A k \in Kind : req[<<c, k>>].state = "none"
    /\ phase[c] = "creating" => req[<<c, "acquire">>].state = "none"
                                /\ req[<<c, "sign">>].state = "none"
    /\ req[<<c, "create">>].state \in {"posted", "live"} => phase[c] = "creating"
    /\ req[<<c, "acquire">>].state \in {"posted", "live"} => phase[c] = "acquiring"
    /\ req[<<c, "sign">>].state \in {"posted", "live"} => phase[c] = "signing"
    /\ phase[c] \in {"acquiring", "held", "signing"} => Succeeded(c, "create")
    /\ \A k \in {"acquire", "sign"} : req[<<c, k>>].state # "none" => Succeeded(c, "create")
    /\ gen[c] \in 0..view

CallerInv == \A c \in Caller : CallerOK(c)

\* The client is freed when every caller has returned.
StopInv ==
    /\ finalizer = "freeing" => \A c \in Caller : phase[c] \in {"idle", "failed", "released"}
    /\ loop # "running" => finalizer = "freeing"
    /\ loop \in {"stopping", "stopped"} => calls = {}

\* Where a request is exported, and what the client knows of it.
PathOK(r) ==
    /\ portal[r] \in {"none", "sent"} => at[r] = "none"
    /\ portal[r] = "open" \/ reply[r] = "path" => at[r] # "none"
    /\ req[r].returned # "none" => req[r].returned = at[r]
    /\ req[r].closed \in {"none", "predicted", at[r]}
    /\ reply[r] \in {"refused", "lost"} => portal[r] = "ended"
    /\ req[r].state = "live" /\ req[r].returned = "none" =>
           r \in calls /\ (portal[r] = "open" => reply[r] = "path")

PathInv == \A r \in Request : PathOK(r)

\* A request given up on is closed where it should be or, once known, where it is.
CloseOK(r) ==
    req[r].state = "done" /\ ~Responded(r) =>
        /\ portal[r] = "sent" => "predicted" \in closes[r]
        /\ portal[r] = "open" =>
               /\ at[r] \in {"predicted", req[r].closed} => at[r] \in closes[r]
               /\ \/ at[r] \in closes[r] \/ reply[r] = "missed"
                  \/ r \in calls /\ reply[r] = "path"

CloseInv == \A r \in Request : CloseOK(r)

\* The portal's session, and the owner that keeps it.
SessionOK(c) ==
    /\ session[c] \in {"open", "granted"} => gen[c] = epoch
    /\ \A k \in Kind : portal[<<c, k>>] \in {"sent", "open"} => gen[c] = epoch
    /\ session[c] # "none" \/ c \in sessionClose => req[<<c, "create">>].sentTo # 0
    /\ Succeeded(c, "create") \/ response[<<c, "create">>] = "ok" => session[c] # "none"
    /\ c \in invalidated \cup notice => session[c] = "closed"
    /\ portal[<<c, "acquire">>] # "none" /\ phase[c] \notin {"acquiring", "held", "signing"}
           => c \in sessionClose \/ session[c] = "closed"
    /\ session[c] = "granted" /\ phase[c] \notin {"acquiring", "held", "signing"}
           => c \in sessionClose

SessionInv == \A c \in Caller : SessionOK(c)

ClientInv == RequestInv /\ CallerInv /\ StopInv /\ PathInv /\ CloseInv /\ SessionInv

-----------------------------------------------------------------------------
\* Requests are pairs of a caller and a kind.
LEMMA Pairs ==
    /\ \A c \in Caller, k \in Kind :
           <<c, k>> \in Request /\ <<c, k>>[1] = c /\ <<c, k>>[2] = k
    /\ \A r \in Request : r[1] \in Caller /\ r[2] \in Kind /\ r = <<r[1], r[2]>>
BY DEF Request

\* The bus name has no owner before the first.
LEMMA NoOwnerAtFirst == ~HasOwner(0)
BY DEF HasOwner

\* The actions one by one.
LEMMA NextActions ==
    ASSUME [Next]_vars
    PROVE
    \/ UNCHANGED vars
    \/ Finalize \/ Free \/ OwnerChanged \/ CancelRequests
    \/ BeginDrain \/ DrainExpired \/ StopLoop \/ OwnerChange
    \/ \E c \in Caller :
           \/ ProbeStart(c) \/ ProbeSkip(c) \/ ProbeDone(c) \/ Admit(c)
           \/ CreateSession(c) \/ Created(c) \/ Acquired(c) \/ Operation(c)
           \/ Signed(c) \/ Release(c) \/ OnGrantInvalidated(c) \/ SessionCloseArrives(c)
           \/ PortalEndsSession(c)
    \/ \E r \in Request :
           \/ RequestStart(r) \/ OnResponse(r) \/ OnRequestTimeout(r)
           \/ OnMethodReturned(r) \/ OnMethodFailed(r) \/ PortalRefuses(r)
           \/ PortalExports(r) \/ PortalResponds(r) \/ ResponseDropped(r)
           \/ \E p \in Path : CloseArrives(r, p)
BY DEF Next, CallerStep, ClientStep, PortalStep

-----------------------------------------------------------------------------
\* What the end of a request changes, and what it leaves alone.
Ends(r, result, methodFailed) ==
    /\ req'[r].state = "done" /\ req'[r].result = result
    /\ req'[r].sentTo = req[r].sentTo /\ req'[r].returned = req[r].returned
    /\ IF req[r].sentTo # 0 /\ result \notin Answer /\ ~methodFailed
       THEN /\ req'[r].closed = IF req[r].returned # "none" THEN req[r].returned ELSE "predicted"
            /\ closes'[r] = closes[r] \cup {req'[r].closed}
       ELSE req'[r].closed = req[r].closed /\ closes'[r] = closes[r]

Stays(r) == req'[r] = req[r] /\ closes'[r] = closes[r]

\* Completing the requests R ends these and leaves the others.
LEMMA CompleteEffect ==
    ASSUME TypeOK, NEW R, NEW result, NEW failed, Complete(R, result, failed)
    PROVE  \A q \in Request : IF q \in R THEN Ends(q, result, failed) ELSE Stays(q)
<1> SUFFICES ASSUME NEW q \in Request
             PROVE  IF q \in R THEN Ends(q, result, failed) ELSE Stays(q)
  OBVIOUS
<1>1. req[q] \in RequestRecord
  BY DEF TypeOK
<1> QED
  BY <1>1 DEF Complete, Ends, Stays, RequestRecord

\* Completing requests keeps their types and the owners they were sent to.
LEMMA CompleteTypes ==
    ASSUME TypeOK, NEW R, NEW failed,
           NEW result \in Answer \cup {"timeout", "failed", "cancelled", "invalidated"},
           Complete(R, result, failed)
    PROVE  /\ req' \in [Request -> RequestRecord] /\ closes' \in [Request -> SUBSET Path]
           /\ \A q \in Request : req'[q].sentTo = req[q].sentTo
<1>1. \A q \in Request : IF q \in R THEN Ends(q, result, failed) ELSE Stays(q)
  BY CompleteEffect
<1>2. \A q \in Request : req[q] \in RequestRecord /\ closes[q] \in SUBSET Path
  BY DEF TypeOK
<1>3. \A q \in Request : req'[q].sentTo = req[q].sentTo
  BY <1>1 DEF Ends, Stays
<1>4. ASSUME NEW q \in Request, NEW path \in Path \cup {"none"}
      PROVE  [req[q] EXCEPT !.state = "done", !.result = result, !.closed = path]
                 \in RequestRecord
  <2>1. req[q] \in RequestRecord
    BY <1>2
  <2> QED
    BY <2>1 DEF RequestRecord
<1>5. ASSUME NEW q \in Request PROVE closes'[q] \in SUBSET Path
  <2>1. req[q] \in RequestRecord /\ closes[q] \in SUBSET Path
    BY <1>2
  <2> QED
    BY <1>1, <2>1 DEF Ends, Stays, RequestRecord, Path
<1>6. closes' \in [Request -> SUBSET Path]
  <2>1. closes' = [q \in Request |-> closes'[q]]
    BY DEF Complete
  <2> QED
    BY <1>5, <2>1
<1>7. req' \in [Request -> RequestRecord]
  <2> DEFINE Where(q) == IF req[q].returned # "none" THEN req[q].returned ELSE "predicted"
             closed(q) == IF req[q].sentTo # 0 /\ result \notin Answer /\ ~failed
                          THEN Where(q) ELSE req[q].closed
  <2>1. req' = [q \in Request |->
                   IF q \in R
                   THEN [req[q] EXCEPT !.state = "done", !.result = result, !.closed = closed(q)]
                   ELSE req[q]]
    BY DEF Complete
  <2>2. \A q \in Request : closed(q) \in Path \cup {"none"}
    BY <1>2 DEF RequestRecord, Path
  <2> HIDE DEF closed
  <2> QED
    BY <1>2, <1>4, <2>1, <2>2
<1> QED
  BY <1>3, <1>6, <1>7


-----------------------------------------------------------------------------
\* The type invariant in parts.
CallerTypes ==
    /\ phase \in [Caller -> {"idle", "probing", "probed", "admitted", "creating", "acquiring",
                             "held", "signing", "released", "failed"}]
    /\ gen \in [Caller -> 0..MaxEpoch]

OwnerTypes ==
    /\ view \in 0..epoch /\ epoch \in 0..MaxEpoch
    /\ available \in 0..MaxEpoch /\ dirty \in BOOLEAN /\ retry \in BOOLEAN
    /\ probed \in 0..MaxEpoch /\ invalidated \in SUBSET Caller

RequestTypes ==
    /\ req \in [Request -> RequestRecord]
    /\ calls \in SUBSET {r \in Request : req[r].sentTo # 0}

StopTypes ==
    /\ loop \in {"running", "draining", "aborting", "stopping", "forced", "stopped", "killed"}
    /\ finalizer \in {"none", "waiting", "freeing"} /\ cancelling \in {"no", "queued", "ran"}

BusTypes ==
    /\ portal \in [Request -> {"none", "sent", "open", "ended"}]
    /\ at \in [Request -> Path \cup {"none"}]
    /\ reply \in [Request -> {"none", "path", "refused", "lost", "missed"}]
    /\ response \in [Request -> Answer \cup {"none"}]
    /\ closes \in [Request -> SUBSET Path]

SessionTypes ==
    /\ session \in [Caller -> {"none", "open", "granted", "closed"}]
    /\ sessionClose \in SUBSET Caller /\ notice \in SUBSET Caller

\* The parts are the whole.
LEMMA TypeParts ==
    TypeOK <=> CallerTypes /\ OwnerTypes /\ RequestTypes /\ StopTypes /\ BusTypes /\ SessionTypes
BY DEF TypeOK, CallerTypes, OwnerTypes, RequestTypes, StopTypes, BusTypes, SessionTypes

\* What handing a request to the client's thread changes.
LEMMA PostEffect ==
    ASSUME TypeOK, NEW c \in Caller, NEW k \in Kind, Post(c, k)
    PROVE  /\ req' \in [Request -> RequestRecord]
           /\ \A q \in Request :
                  /\ q # <<c, k>> => req'[q] = req[q]
                  /\ q = <<c, k>> => /\ req'[q].state = "posted"
                                     /\ req'[q].result = req[q].result
                                     /\ req'[q].sentTo = req[q].sentTo
                                     /\ req'[q].returned = req[q].returned
                                     /\ req'[q].closed = req[q].closed
<1> DEFINE r == <<c, k>>
<1>1. r \in Request /\ req' = [req EXCEPT ![r] = [req[r] EXCEPT !.state = "posted"]]
  BY Pairs DEF Post, TypeOK
<1>2. req \in [Request -> RequestRecord]
  BY DEF TypeOK
<1> HIDE DEF r
<1>3. [req[r] EXCEPT !.state = "posted"] \in RequestRecord
  BY <1>1, <1>2 DEF RequestRecord
<1>4. \A q \in Request : req[q] \in RequestRecord
  BY <1>2
<1>5. \A q \in Request :
          /\ q # r => req'[q] = req[q]
          /\ q = r => req'[q] = [req[q] EXCEPT !.state = "posted"]
  BY <1>1, <1>2
<1>6. req' \in [Request -> RequestRecord]
  BY <1>1, <1>2, <1>3
<1> QED
  BY <1>4, <1>5, <1>6 DEF RequestRecord, r

\* Each part of the types is kept by every step.
LEMMA CallerTypeStep ==
    ASSUME PortalRequestAssumption, TypeOK, [Next]_vars PROVE CallerTypes'
<1> USE DEF callerVars, ownerVars, stopVars, busVars, sessionVars
<1>0. CallerTypes /\ view \in 0..MaxEpoch
  BY PortalRequestAssumption, TypeParts DEF CallerTypes, OwnerTypes, PortalRequestAssumption
<1>1. ASSUME NEW c \in Caller, ProbeStart(c) PROVE CallerTypes'
  BY <1>1, <1>0 DEF ProbeStart, CallerTypes
<1>2. ASSUME NEW c \in Caller, ProbeSkip(c) PROVE CallerTypes'
  BY <1>2, <1>0 DEF ProbeSkip, CallerTypes
<1>3. ASSUME NEW c \in Caller, ProbeDone(c) PROVE CallerTypes'
  BY <1>3, <1>0 DEF ProbeDone, AcceptCapabilities, CallerTypes
<1>4. ASSUME NEW c \in Caller, Admit(c) PROVE CallerTypes'
  BY <1>4, <1>0 DEF Admit, CallerTypes
<1>5. ASSUME NEW c \in Caller, CreateSession(c) PROVE CallerTypes'
  BY <1>5, <1>0 DEF CreateSession, Post, CallerTypes
<1>6. ASSUME NEW c \in Caller, Created(c) PROVE CallerTypes'
  BY <1>6, <1>0 DEF Created, Post, Returned, Succeeded, CallerTypes
<1>7. ASSUME NEW c \in Caller, Acquired(c) PROVE CallerTypes'
  BY <1>7, <1>0 DEF Acquired, CloseSession, Returned, Succeeded, GrantGone, CallerTypes
<1>8. ASSUME NEW c \in Caller, Operation(c) PROVE CallerTypes'
  BY <1>8, <1>0 DEF Operation, Post, CallerTypes
<1>9. ASSUME NEW c \in Caller, Signed(c) PROVE CallerTypes'
  BY <1>9, <1>0 DEF Signed, Returned, CallerTypes
<1>10. ASSUME NEW c \in Caller, Release(c) PROVE CallerTypes'
  BY <1>10, <1>0 DEF Release, CloseSession, GrantGone, CallerTypes
<1>11. CASE Finalize
  BY <1>11, <1>0 DEF Finalize, CallerTypes
<1>12. CASE Free
  BY <1>12, <1>0 DEF Free, CallerTypes
<1>13. ASSUME NEW r \in Request, RequestStart(r) PROVE CallerTypes'
  BY <1>13, <1>0 DEF RequestStart, CallerTypes
<1>14. ASSUME NEW r \in Request, OnResponse(r) PROVE CallerTypes'
  BY <1>14, <1>0 DEF OnResponse, CallerTypes
<1>15. ASSUME NEW r \in Request, OnRequestTimeout(r) PROVE CallerTypes'
  BY <1>15, <1>0 DEF OnRequestTimeout, CallerTypes
<1>16. ASSUME NEW r \in Request, OnMethodReturned(r) PROVE CallerTypes'
  BY <1>16, <1>0 DEF OnMethodReturned, CallerTypes
<1>17. ASSUME NEW r \in Request, OnMethodFailed(r) PROVE CallerTypes'
  BY <1>17, <1>0 DEF OnMethodFailed, CallerTypes
<1>18. ASSUME NEW c \in Caller, OnGrantInvalidated(c) PROVE CallerTypes'
  BY <1>18, <1>0 DEF OnGrantInvalidated, CallerTypes
<1>19. CASE OwnerChanged
  BY <1>19, <1>0 DEF OwnerChanged, CallerTypes
<1>20. CASE CancelRequests
  BY <1>20, <1>0 DEF CancelRequests, CallerTypes
<1>21. CASE BeginDrain
  BY <1>21, <1>0 DEF BeginDrain, CallerTypes
<1>22. CASE DrainExpired
  BY <1>22, <1>0 DEF DrainExpired, CallerTypes
<1>23. CASE StopLoop
  BY <1>23, <1>0 DEF StopLoop, CallerTypes
<1>24. CASE OwnerChange
  BY <1>24, <1>0 DEF OwnerChange, CallerTypes
<1>25. ASSUME NEW r \in Request, PortalRefuses(r) PROVE CallerTypes'
  BY <1>25, <1>0 DEF PortalRefuses, CallerTypes
<1>26. ASSUME NEW r \in Request, PortalExports(r) PROVE CallerTypes'
  BY <1>26, <1>0 DEF PortalExports, CallerTypes
<1>27. ASSUME NEW r \in Request, PortalResponds(r) PROVE CallerTypes'
  BY <1>27, <1>0 DEF PortalResponds, CallerTypes
<1>28. ASSUME NEW r \in Request, ResponseDropped(r) PROVE CallerTypes'
  BY <1>28, <1>0 DEF ResponseDropped, CallerTypes
<1>29. ASSUME NEW r \in Request, NEW p \in Path, CloseArrives(r, p) PROVE CallerTypes'
  BY <1>29, <1>0 DEF CloseArrives, CallerTypes
<1>30. ASSUME NEW c \in Caller, SessionCloseArrives(c) PROVE CallerTypes'
  BY <1>30, <1>0 DEF SessionCloseArrives, CallerTypes
<1>31. ASSUME NEW c \in Caller, PortalEndsSession(c) PROVE CallerTypes'
  BY <1>31, <1>0 DEF PortalEndsSession, CallerTypes
<1>32. CASE UNCHANGED vars
  BY <1>32, <1>0 DEF vars, CallerTypes
<1> QED
  BY <1>1, <1>2, <1>3, <1>4, <1>5, <1>6, <1>7, <1>8, <1>9, <1>10, <1>11, <1>12, <1>13, <1>14,
     <1>15, <1>16, <1>17, <1>18, <1>19, <1>20, <1>21, <1>22, <1>23, <1>24, <1>25, <1>26, <1>27,
     <1>28, <1>29, <1>30, <1>31, <1>32, NextActions

LEMMA OwnerTypeStep ==
    ASSUME PortalRequestAssumption, TypeOK, [Next]_vars PROVE OwnerTypes'
<1> USE DEF callerVars, ownerVars, stopVars, busVars, sessionVars
<1>0. OwnerTypes /\ MaxEpoch \in Nat /\ notice \in SUBSET Caller
  BY PortalRequestAssumption, TypeParts DEF OwnerTypes, PortalRequestAssumption, SessionTypes
<1>1. ASSUME NEW c \in Caller, ProbeStart(c) PROVE OwnerTypes'
  BY <1>1, <1>0 DEF ProbeStart, OwnerTypes
<1>2. ASSUME NEW c \in Caller, ProbeSkip(c) PROVE OwnerTypes'
  BY <1>2, <1>0 DEF ProbeSkip, OwnerTypes
<1>3. ASSUME NEW c \in Caller, ProbeDone(c) PROVE OwnerTypes'
  <2>1. PICK answered \in BOOLEAN, mechanisms \in BOOLEAN :
        AcceptCapabilities(answered, mechanisms)
    BY <1>3 DEF ProbeDone
  <2>2. available' \in {available, probed, 0} /\ dirty' \in BOOLEAN /\ retry' \in BOOLEAN
    BY <1>0, <2>1 DEF AcceptCapabilities, OwnerTypes
  <2> QED
    BY <1>0, <1>3, <2>2 DEF ProbeDone, OwnerTypes
<1>4. ASSUME NEW c \in Caller, Admit(c) PROVE OwnerTypes'
  BY <1>4, <1>0 DEF Admit, OwnerTypes
<1>5. ASSUME NEW c \in Caller, CreateSession(c) PROVE OwnerTypes'
  BY <1>5, <1>0 DEF CreateSession, OwnerTypes
<1>6. ASSUME NEW c \in Caller, Created(c) PROVE OwnerTypes'
  BY <1>6, <1>0 DEF Created, OwnerTypes
<1>7. ASSUME NEW c \in Caller, Acquired(c) PROVE OwnerTypes'
  BY <1>7, <1>0 DEF Acquired, OwnerTypes
<1>8. ASSUME NEW c \in Caller, Operation(c) PROVE OwnerTypes'
  BY <1>8, <1>0 DEF Operation, OwnerTypes
<1>9. ASSUME NEW c \in Caller, Signed(c) PROVE OwnerTypes'
  BY <1>9, <1>0 DEF Signed, OwnerTypes
<1>10. ASSUME NEW c \in Caller, Release(c) PROVE OwnerTypes'
  BY <1>10, <1>0 DEF Release, OwnerTypes
<1>11. CASE Finalize
  BY <1>11, <1>0 DEF Finalize, OwnerTypes
<1>12. CASE Free
  BY <1>12, <1>0 DEF Free, OwnerTypes
<1>13. ASSUME NEW r \in Request, RequestStart(r) PROVE OwnerTypes'
  BY <1>13, <1>0 DEF RequestStart, OwnerTypes
<1>14. ASSUME NEW r \in Request, OnResponse(r) PROVE OwnerTypes'
  BY <1>14, <1>0 DEF OnResponse, OwnerTypes
<1>15. ASSUME NEW r \in Request, OnRequestTimeout(r) PROVE OwnerTypes'
  BY <1>15, <1>0 DEF OnRequestTimeout, OwnerTypes
<1>16. ASSUME NEW r \in Request, OnMethodReturned(r) PROVE OwnerTypes'
  BY <1>16, <1>0 DEF OnMethodReturned, OwnerTypes
<1>17. ASSUME NEW r \in Request, OnMethodFailed(r) PROVE OwnerTypes'
  BY <1>17, <1>0 DEF OnMethodFailed, OwnerTypes
<1>18. ASSUME NEW c \in Caller, OnGrantInvalidated(c) PROVE OwnerTypes'
  BY <1>18, <1>0 DEF OnGrantInvalidated, OwnerTypes
<1>19. CASE OwnerChanged
  <2>1. view < epoch /\ view' = view + 1 /\ available' = 0 /\ dirty' = TRUE /\ retry' = FALSE
    BY <1>19 DEF OwnerChanged
  <2>2. UNCHANGED <<epoch, probed, invalidated>>
    BY <1>19 DEF OwnerChanged
  <2>3. view' \in 0..epoch /\ 0 \in 0..MaxEpoch
    BY <1>0, <2>1 DEF OwnerTypes
  <2> QED
    BY <1>0, <2>1, <2>2, <2>3 DEF OwnerTypes
<1>20. CASE CancelRequests
  BY <1>20, <1>0 DEF CancelRequests, OwnerTypes
<1>21. CASE BeginDrain
  BY <1>21, <1>0 DEF BeginDrain, OwnerTypes
<1>22. CASE DrainExpired
  BY <1>22, <1>0 DEF DrainExpired, OwnerTypes
<1>23. CASE StopLoop
  BY <1>23, <1>0 DEF StopLoop, OwnerTypes
<1>24. CASE OwnerChange
  BY <1>24, <1>0 DEF OwnerChange, OwnerTypes
<1>25. ASSUME NEW r \in Request, PortalRefuses(r) PROVE OwnerTypes'
  BY <1>25, <1>0 DEF PortalRefuses, OwnerTypes
<1>26. ASSUME NEW r \in Request, PortalExports(r) PROVE OwnerTypes'
  BY <1>26, <1>0 DEF PortalExports, OwnerTypes
<1>27. ASSUME NEW r \in Request, PortalResponds(r) PROVE OwnerTypes'
  BY <1>27, <1>0 DEF PortalResponds, OwnerTypes
<1>28. ASSUME NEW r \in Request, ResponseDropped(r) PROVE OwnerTypes'
  BY <1>28, <1>0 DEF ResponseDropped, OwnerTypes
<1>29. ASSUME NEW r \in Request, NEW p \in Path, CloseArrives(r, p) PROVE OwnerTypes'
  BY <1>29, <1>0 DEF CloseArrives, OwnerTypes
<1>30. ASSUME NEW c \in Caller, SessionCloseArrives(c) PROVE OwnerTypes'
  BY <1>30, <1>0 DEF SessionCloseArrives, OwnerTypes
<1>31. ASSUME NEW c \in Caller, PortalEndsSession(c) PROVE OwnerTypes'
  BY <1>31, <1>0 DEF PortalEndsSession, OwnerTypes
<1>32. CASE UNCHANGED vars
  BY <1>32, <1>0 DEF vars, OwnerTypes
<1> QED
  BY <1>1, <1>2, <1>3, <1>4, <1>5, <1>6, <1>7, <1>8, <1>9, <1>10, <1>11, <1>12, <1>13, <1>14,
     <1>15, <1>16, <1>17, <1>18, <1>19, <1>20, <1>21, <1>22, <1>23, <1>24, <1>25, <1>26, <1>27,
     <1>28, <1>29, <1>30, <1>31, <1>32, NextActions

\* A reply that is late for its request names a path: PathInv says so.
LEMMA RequestTypeStep ==
    ASSUME PortalRequestAssumption, TypeOK, ClientInv, [Next]_vars PROVE RequestTypes'
<1> USE DEF callerVars, ownerVars, stopVars, busVars, sessionVars
<1>0. RequestTypes /\ BusTypes /\ StopTypes /\ OwnerTypes /\ MaxEpoch \in Nat
  BY PortalRequestAssumption, TypeParts DEF PortalRequestAssumption
<1>1. ASSUME NEW c \in Caller, ProbeStart(c) PROVE RequestTypes'
  BY <1>1, <1>0, Pairs DEF ProbeStart, RequestTypes
<1>2. ASSUME NEW c \in Caller, ProbeSkip(c) PROVE RequestTypes'
  BY <1>2, <1>0, Pairs DEF ProbeSkip, RequestTypes
<1>3. ASSUME NEW c \in Caller, ProbeDone(c) PROVE RequestTypes'
  BY <1>3, <1>0, Pairs DEF ProbeDone, RequestTypes
<1>4. ASSUME NEW c \in Caller, Admit(c) PROVE RequestTypes'
  BY <1>4, <1>0, Pairs DEF Admit, RequestTypes
<1>5. ASSUME NEW c \in Caller, CreateSession(c) PROVE RequestTypes'
  <2>1. Post(c, "create") /\ "create" \in Kind /\ calls' = calls
    BY <1>5 DEF CreateSession, Kind
  <2> QED
    BY <1>0, <2>1, PostEffect DEF RequestTypes
<1>6. ASSUME NEW c \in Caller, Created(c) PROVE RequestTypes'
  <2>1. UNCHANGED req \/ req' = [req EXCEPT ![<<c, "acquire">>].state = "posted"]
    BY <1>6 DEF Created, Post
  <2> QED
    BY <1>0, <1>6, <2>1 DEF Created, RequestTypes, RequestRecord
<1>7. ASSUME NEW c \in Caller, Acquired(c) PROVE RequestTypes'
  BY <1>7, <1>0, Pairs DEF Acquired, RequestTypes
<1>8. ASSUME NEW c \in Caller, Operation(c) PROVE RequestTypes'
  <2>1. Post(c, "sign") /\ "sign" \in Kind /\ calls' = calls
    BY <1>8 DEF Operation, Kind
  <2> QED
    BY <1>0, <2>1, PostEffect DEF RequestTypes
<1>9. ASSUME NEW c \in Caller, Signed(c) PROVE RequestTypes'
  BY <1>9, <1>0, Pairs DEF Signed, RequestTypes
<1>10. ASSUME NEW c \in Caller, Release(c) PROVE RequestTypes'
  BY <1>10, <1>0, Pairs DEF Release, RequestTypes
<1>11. CASE Finalize
  BY <1>11, <1>0, Pairs DEF Finalize, RequestTypes
<1>12. CASE Free
  BY <1>12, <1>0, Pairs DEF Free, RequestTypes
<1>13. ASSUME NEW r \in Request, RequestStart(r) PROVE RequestTypes'
  <2>1. CASE Cancelled \/ ~Current(r)
    <3>1. PICK result \in {"cancelled", "invalidated"} : Complete({r}, result, FALSE)
      BY <1>13, <2>1 DEF RequestStart
    <3>2. req' \in [Request -> RequestRecord] /\ \A q \in Request :
          req'[q].sentTo = req[q].sentTo
      BY <3>1, CompleteTypes
    <3> QED
      BY <1>0, <1>13, <2>1, <3>2 DEF RequestStart, RequestTypes
  <2>2. CASE ~(Cancelled \/ ~Current(r))
    <3>1. view # 0 /\ view \in 0..MaxEpoch
      BY <1>0, <2>2, NoOwnerAtFirst DEF Current, OwnerTypes
    <3>2. req' = [req EXCEPT ![r].state = "live", ![r].sentTo = view] /\ calls' = calls \cup {r}
      BY <1>13, <2>2 DEF RequestStart
    <3>3. req' = [req EXCEPT ![r] = [req[r] EXCEPT !.state = "live", !.sentTo = view]]
      BY <1>0, <3>2 DEF RequestTypes
    <3>4. /\ [req[r] EXCEPT !.state = "live", !.sentTo = view] \in RequestRecord
          /\ [req[r] EXCEPT !.state = "live", !.sentTo = view].sentTo = view
      BY <1>0, <3>1 DEF RequestTypes, RequestRecord
    <3> QED
      BY <1>0, <3>1, <3>2, <3>3, <3>4 DEF RequestTypes
  <2> QED
    BY <2>1, <2>2
<1>14. ASSUME NEW r \in Request, OnResponse(r) PROVE RequestTypes'
  <2>1. response[r] \in Answer /\ Complete({r}, response[r], FALSE)
    BY <1>0, <1>14 DEF OnResponse, BusTypes
  <2>2. req' \in [Request -> RequestRecord] /\ \A q \in Request : req'[q].sentTo = req[q].sentTo
    BY <2>1, CompleteTypes
  <2> QED
    BY <1>0, <1>14, <2>2 DEF OnResponse, RequestTypes
<1>15. ASSUME NEW r \in Request, OnRequestTimeout(r) PROVE RequestTypes'
  <2>1. req' \in [Request -> RequestRecord] /\ \A q \in Request : req'[q].sentTo = req[q].sentTo
    BY <1>15, CompleteTypes DEF OnRequestTimeout
  <2> QED
    BY <1>0, <1>15, <2>1 DEF OnRequestTimeout, RequestTypes
<1>16. ASSUME NEW r \in Request, OnMethodReturned(r) PROVE RequestTypes'
  <2>1. at[r] \in Path
    BY <1>0, <1>16 DEF OnMethodReturned, ClientInv, PathInv, PathOK, BusTypes
  <2>2. /\ calls' = calls \ {r}
        /\ req' \in {req, [req EXCEPT ![r].closed = at[r]], [req EXCEPT ![r].returned = at[r]]}
    BY <1>16 DEF OnMethodReturned, LateReply, CallFinished
  <2> QED
    BY <1>0, <2>1, <2>2 DEF RequestTypes, RequestRecord
<1>17. ASSUME NEW r \in Request, OnMethodFailed(r) PROVE RequestTypes'
  <2>1. calls' = calls \ {r} /\ (UNCHANGED req \/ \E refused : Complete({r}, "failed", refused))
    BY <1>17 DEF OnMethodFailed, CallFinished
  <2>2. req' \in [Request -> RequestRecord] /\ \A q \in Request : req'[q].sentTo = req[q].sentTo
    BY <1>0, <2>1, CompleteTypes DEF RequestTypes
  <2> QED
    BY <1>0, <2>1, <2>2 DEF RequestTypes
<1>18. ASSUME NEW c \in Caller, OnGrantInvalidated(c) PROVE RequestTypes'
  BY <1>18, <1>0, Pairs DEF OnGrantInvalidated, RequestTypes
<1>19. CASE OwnerChanged
  <2>1. req' \in [Request -> RequestRecord] /\ \A q \in Request : req'[q].sentTo = req[q].sentTo
    BY <1>19, CompleteTypes DEF OwnerChanged
  <2> QED
    BY <1>0, <1>19, <2>1 DEF OwnerChanged, RequestTypes
<1>20. CASE CancelRequests
  <2>1. req' \in [Request -> RequestRecord] /\ \A q \in Request : req'[q].sentTo = req[q].sentTo
    BY <1>20, CompleteTypes DEF CancelRequests
  <2> QED
    BY <1>0, <1>20, <2>1 DEF CancelRequests, RequestTypes
<1>21. CASE BeginDrain
  BY <1>21, <1>0, Pairs DEF BeginDrain, RequestTypes
<1>22. CASE DrainExpired
  BY <1>22, <1>0, Pairs DEF DrainExpired, RequestTypes
<1>23. CASE StopLoop
  BY <1>23, <1>0, Pairs DEF StopLoop, RequestTypes
<1>24. CASE OwnerChange
  BY <1>24, <1>0, Pairs DEF OwnerChange, RequestTypes
<1>25. ASSUME NEW r \in Request, PortalRefuses(r) PROVE RequestTypes'
  BY <1>25, <1>0, Pairs DEF PortalRefuses, RequestTypes
<1>26. ASSUME NEW r \in Request, PortalExports(r) PROVE RequestTypes'
  BY <1>26, <1>0, Pairs DEF PortalExports, RequestTypes
<1>27. ASSUME NEW r \in Request, PortalResponds(r) PROVE RequestTypes'
  BY <1>27, <1>0, Pairs DEF PortalResponds, RequestTypes
<1>28. ASSUME NEW r \in Request, ResponseDropped(r) PROVE RequestTypes'
  BY <1>28, <1>0, Pairs DEF ResponseDropped, RequestTypes
<1>29. ASSUME NEW r \in Request, NEW p \in Path, CloseArrives(r, p) PROVE RequestTypes'
  BY <1>29, <1>0, Pairs DEF CloseArrives, RequestTypes
<1>30. ASSUME NEW c \in Caller, SessionCloseArrives(c) PROVE RequestTypes'
  BY <1>30, <1>0, Pairs DEF SessionCloseArrives, RequestTypes
<1>31. ASSUME NEW c \in Caller, PortalEndsSession(c) PROVE RequestTypes'
  BY <1>31, <1>0, Pairs DEF PortalEndsSession, RequestTypes
<1>32. CASE UNCHANGED vars
  BY <1>32, <1>0, Pairs DEF vars, RequestTypes
<1> QED
  BY <1>1, <1>2, <1>3, <1>4, <1>5, <1>6, <1>7, <1>8, <1>9, <1>10, <1>11, <1>12, <1>13, <1>14,
     <1>15, <1>16, <1>17, <1>18, <1>19, <1>20, <1>21, <1>22, <1>23, <1>24, <1>25, <1>26, <1>27,
     <1>28, <1>29, <1>30, <1>31, <1>32, NextActions

LEMMA StopTypeStep ==
    ASSUME TypeOK, [Next]_vars PROVE StopTypes'
<1> USE DEF callerVars, ownerVars, stopVars, busVars, sessionVars
<1>0. StopTypes
  BY TypeParts
<1>1. ASSUME NEW c \in Caller, ProbeStart(c) PROVE StopTypes'
  BY <1>1, <1>0 DEF ProbeStart, StopTypes
<1>2. ASSUME NEW c \in Caller, ProbeSkip(c) PROVE StopTypes'
  BY <1>2, <1>0 DEF ProbeSkip, StopTypes
<1>3. ASSUME NEW c \in Caller, ProbeDone(c) PROVE StopTypes'
  BY <1>3, <1>0 DEF ProbeDone, StopTypes
<1>4. ASSUME NEW c \in Caller, Admit(c) PROVE StopTypes'
  BY <1>4, <1>0 DEF Admit, StopTypes
<1>5. ASSUME NEW c \in Caller, CreateSession(c) PROVE StopTypes'
  BY <1>5, <1>0 DEF CreateSession, StopTypes
<1>6. ASSUME NEW c \in Caller, Created(c) PROVE StopTypes'
  BY <1>6, <1>0 DEF Created, StopTypes
<1>7. ASSUME NEW c \in Caller, Acquired(c) PROVE StopTypes'
  BY <1>7, <1>0 DEF Acquired, StopTypes
<1>8. ASSUME NEW c \in Caller, Operation(c) PROVE StopTypes'
  BY <1>8, <1>0 DEF Operation, StopTypes
<1>9. ASSUME NEW c \in Caller, Signed(c) PROVE StopTypes'
  BY <1>9, <1>0 DEF Signed, StopTypes
<1>10. ASSUME NEW c \in Caller, Release(c) PROVE StopTypes'
  BY <1>10, <1>0 DEF Release, StopTypes
<1>11. CASE Finalize
  BY <1>11, <1>0 DEF Finalize, StopTypes
<1>12. CASE Free
  BY <1>12, <1>0 DEF Free, StopTypes
<1>13. ASSUME NEW r \in Request, RequestStart(r) PROVE StopTypes'
  BY <1>13, <1>0 DEF RequestStart, StopTypes
<1>14. ASSUME NEW r \in Request, OnResponse(r) PROVE StopTypes'
  BY <1>14, <1>0 DEF OnResponse, StopTypes
<1>15. ASSUME NEW r \in Request, OnRequestTimeout(r) PROVE StopTypes'
  BY <1>15, <1>0 DEF OnRequestTimeout, StopTypes
<1>16. ASSUME NEW r \in Request, OnMethodReturned(r) PROVE StopTypes'
  BY <1>16, <1>0 DEF OnMethodReturned, LateReply, CallFinished, Responded, StopTypes
<1>17. ASSUME NEW r \in Request, OnMethodFailed(r) PROVE StopTypes'
  BY <1>17, <1>0 DEF OnMethodFailed, CallFinished, StopTypes
<1>18. ASSUME NEW c \in Caller, OnGrantInvalidated(c) PROVE StopTypes'
  BY <1>18, <1>0 DEF OnGrantInvalidated, StopTypes
<1>19. CASE OwnerChanged
  BY <1>19, <1>0 DEF OwnerChanged, StopTypes
<1>20. CASE CancelRequests
  BY <1>20, <1>0 DEF CancelRequests, Live, StopTypes
<1>21. CASE BeginDrain
  BY <1>21, <1>0 DEF BeginDrain, StopTypes
<1>22. CASE DrainExpired
  BY <1>22, <1>0 DEF DrainExpired, StopTypes
<1>23. CASE StopLoop
  BY <1>23, <1>0 DEF StopLoop, StopTypes
<1>24. CASE OwnerChange
  BY <1>24, <1>0 DEF OwnerChange, StopTypes
<1>25. ASSUME NEW r \in Request, PortalRefuses(r) PROVE StopTypes'
  BY <1>25, <1>0 DEF PortalRefuses, StopTypes
<1>26. ASSUME NEW r \in Request, PortalExports(r) PROVE StopTypes'
  BY <1>26, <1>0 DEF PortalExports, StopTypes
<1>27. ASSUME NEW r \in Request, PortalResponds(r) PROVE StopTypes'
  BY <1>27, <1>0 DEF PortalResponds, StopTypes
<1>28. ASSUME NEW r \in Request, ResponseDropped(r) PROVE StopTypes'
  BY <1>28, <1>0 DEF ResponseDropped, StopTypes
<1>29. ASSUME NEW r \in Request, NEW p \in Path, CloseArrives(r, p) PROVE StopTypes'
  BY <1>29, <1>0 DEF CloseArrives, StopTypes
<1>30. ASSUME NEW c \in Caller, SessionCloseArrives(c) PROVE StopTypes'
  BY <1>30, <1>0 DEF SessionCloseArrives, StopTypes
<1>31. ASSUME NEW c \in Caller, PortalEndsSession(c) PROVE StopTypes'
  BY <1>31, <1>0 DEF PortalEndsSession, StopTypes
<1>32. CASE UNCHANGED vars
  BY <1>32, <1>0 DEF vars, StopTypes
<1> QED
  BY <1>1, <1>2, <1>3, <1>4, <1>5, <1>6, <1>7, <1>8, <1>9, <1>10, <1>11, <1>12, <1>13, <1>14,
     <1>15, <1>16, <1>17, <1>18, <1>19, <1>20, <1>21, <1>22, <1>23, <1>24, <1>25, <1>26, <1>27,
     <1>28, <1>29, <1>30, <1>31, <1>32, NextActions

LEMMA BusTypeStep ==
    ASSUME PortalRequestAssumption, TypeOK, ClientInv, [Next]_vars PROVE BusTypes'
<1> USE DEF callerVars, ownerVars, stopVars, busVars, sessionVars
<1>0. BusTypes /\ Exports \subseteq Path
  BY PortalRequestAssumption, TypeParts DEF PortalRequestAssumption, Path
<1>1. ASSUME NEW c \in Caller, ProbeStart(c) PROVE BusTypes'
  BY <1>1, <1>0 DEF ProbeStart, BusTypes
<1>2. ASSUME NEW c \in Caller, ProbeSkip(c) PROVE BusTypes'
  BY <1>2, <1>0 DEF ProbeSkip, BusTypes
<1>3. ASSUME NEW c \in Caller, ProbeDone(c) PROVE BusTypes'
  BY <1>3, <1>0 DEF ProbeDone, BusTypes
<1>4. ASSUME NEW c \in Caller, Admit(c) PROVE BusTypes'
  BY <1>4, <1>0 DEF Admit, BusTypes
<1>5. ASSUME NEW c \in Caller, CreateSession(c) PROVE BusTypes'
  BY <1>5, <1>0 DEF CreateSession, BusTypes
<1>6. ASSUME NEW c \in Caller, Created(c) PROVE BusTypes'
  BY <1>6, <1>0 DEF Created, BusTypes
<1>7. ASSUME NEW c \in Caller, Acquired(c) PROVE BusTypes'
  BY <1>7, <1>0 DEF Acquired, BusTypes
<1>8. ASSUME NEW c \in Caller, Operation(c) PROVE BusTypes'
  BY <1>8, <1>0 DEF Operation, BusTypes
<1>9. ASSUME NEW c \in Caller, Signed(c) PROVE BusTypes'
  BY <1>9, <1>0 DEF Signed, BusTypes
<1>10. ASSUME NEW c \in Caller, Release(c) PROVE BusTypes'
  BY <1>10, <1>0 DEF Release, BusTypes
<1>11. CASE Finalize
  BY <1>11, <1>0 DEF Finalize, BusTypes
<1>12. CASE Free
  BY <1>12, <1>0 DEF Free, BusTypes
<1>13. ASSUME NEW r \in Request, RequestStart(r) PROVE BusTypes'
  <2>1. CASE Cancelled \/ ~Current(r)
    <3>1. PICK result \in {"cancelled", "invalidated"} : Complete({r}, result, FALSE)
      BY <1>13, <2>1 DEF RequestStart
    <3>2. closes' \in [Request -> SUBSET Path]
      BY <3>1, CompleteTypes
    <3> QED
      BY <1>0, <1>13, <2>1, <3>2 DEF RequestStart, BusTypes
  <2>2. CASE ~(Cancelled \/ ~Current(r))
    BY <1>0, <1>13, <2>2 DEF RequestStart, BusTypes
  <2> QED
    BY <2>1, <2>2
<1>14. ASSUME NEW r \in Request, OnResponse(r) PROVE BusTypes'
  <2>1. response[r] \in Answer /\ Complete({r}, response[r], FALSE)
    BY <1>0, <1>14 DEF OnResponse, BusTypes
  <2>2. closes' \in [Request -> SUBSET Path]
    BY <2>1, CompleteTypes
  <2> QED
    BY <1>0, <1>14, <2>2 DEF OnResponse, BusTypes
<1>15. ASSUME NEW r \in Request, OnRequestTimeout(r) PROVE BusTypes'
  <2>1. closes' \in [Request -> SUBSET Path]
    BY <1>15, CompleteTypes DEF OnRequestTimeout
  <2> QED
    BY <1>0, <1>15, <2>1 DEF OnRequestTimeout, BusTypes
<1>16. ASSUME NEW r \in Request, OnMethodReturned(r) PROVE BusTypes'
  <2>1. at[r] \in Path
    BY <1>0, <1>16 DEF OnMethodReturned, ClientInv, PathInv, PathOK, BusTypes
  <2>2. closes' \in {closes, [closes EXCEPT ![r] = @ \cup {at[r]}]}
    BY <1>16 DEF OnMethodReturned, LateReply
  <2> QED
    BY <1>0, <1>16, <2>1, <2>2 DEF OnMethodReturned, BusTypes
<1>17. ASSUME NEW r \in Request, OnMethodFailed(r) PROVE BusTypes'
  <2>1. UNCHANGED closes \/ \E refused : Complete({r}, "failed", refused)
    BY <1>17 DEF OnMethodFailed
  <2>2. closes' \in [Request -> SUBSET Path]
    BY <1>0, <2>1, CompleteTypes DEF BusTypes
  <2> QED
    BY <1>0, <1>17, <2>2 DEF OnMethodFailed, BusTypes
<1>18. ASSUME NEW c \in Caller, OnGrantInvalidated(c) PROVE BusTypes'
  BY <1>18, <1>0 DEF OnGrantInvalidated, BusTypes
<1>19. CASE OwnerChanged
  <2>1. closes' \in [Request -> SUBSET Path]
    BY <1>19, CompleteTypes DEF OwnerChanged
  <2> QED
    BY <1>0, <1>19, <2>1 DEF OwnerChanged, BusTypes
<1>20. CASE CancelRequests
  <2>1. closes' \in [Request -> SUBSET Path]
    BY <1>20, CompleteTypes DEF CancelRequests
  <2> QED
    BY <1>0, <1>20, <2>1 DEF CancelRequests, BusTypes
<1>21. CASE BeginDrain
  BY <1>21, <1>0 DEF BeginDrain, BusTypes
<1>22. CASE DrainExpired
  BY <1>22, <1>0 DEF DrainExpired, BusTypes
<1>23. CASE StopLoop
  BY <1>23, <1>0 DEF StopLoop, BusTypes
<1>24. CASE OwnerChange
  BY <1>24, <1>0 DEF OwnerChange, BusTypes
<1>25. ASSUME NEW r \in Request, PortalRefuses(r) PROVE BusTypes'
  BY <1>25, <1>0 DEF PortalRefuses, BusTypes
<1>26. ASSUME NEW r \in Request, PortalExports(r) PROVE BusTypes'
  BY <1>26, <1>0 DEF PortalExports, BusTypes
<1>27. ASSUME NEW r \in Request, PortalResponds(r) PROVE BusTypes'
  <2>1. PICK answer \in Answer : response' = [response EXCEPT ![r] = answer]
    BY <1>27 DEF PortalResponds, Answer
  <2>2. portal' = [portal EXCEPT ![r] = "ended"] /\ UNCHANGED <<at, reply, closes>>
    BY <1>27 DEF PortalResponds
  <2> QED
    BY <1>0, <2>1, <2>2 DEF BusTypes
<1>28. ASSUME NEW r \in Request, ResponseDropped(r) PROVE BusTypes'
  BY <1>28, <1>0 DEF ResponseDropped, BusTypes
<1>29. ASSUME NEW r \in Request, NEW p \in Path, CloseArrives(r, p) PROVE BusTypes'
  <2>1. closes' = [closes EXCEPT ![r] = closes[r] \ {p}] /\ UNCHANGED <<at, reply, response>>
    BY <1>29 DEF CloseArrives
  <2>2. portal' \in {portal, [portal EXCEPT ![r] = "ended"]}
    BY <1>0, <1>29 DEF CloseArrives, BusTypes
  <2> QED
    BY <1>0, <2>1, <2>2 DEF BusTypes
<1>30. ASSUME NEW c \in Caller, SessionCloseArrives(c) PROVE BusTypes'
  BY <1>30, <1>0 DEF SessionCloseArrives, BusTypes
<1>31. ASSUME NEW c \in Caller, PortalEndsSession(c) PROVE BusTypes'
  BY <1>31, <1>0 DEF PortalEndsSession, BusTypes
<1>32. CASE UNCHANGED vars
  BY <1>32, <1>0 DEF vars, BusTypes
<1> QED
  BY <1>1, <1>2, <1>3, <1>4, <1>5, <1>6, <1>7, <1>8, <1>9, <1>10, <1>11, <1>12, <1>13, <1>14,
     <1>15, <1>16, <1>17, <1>18, <1>19, <1>20, <1>21, <1>22, <1>23, <1>24, <1>25, <1>26, <1>27,
     <1>28, <1>29, <1>30, <1>31, <1>32, NextActions

LEMMA SessionTypeStep ==
    ASSUME TypeOK, [Next]_vars PROVE SessionTypes'
<1> USE DEF callerVars, ownerVars, stopVars, busVars, sessionVars
<1>0. SessionTypes
  BY TypeParts
<1>1. ASSUME NEW c \in Caller, ProbeStart(c) PROVE SessionTypes'
  BY <1>1, <1>0, Pairs DEF ProbeStart, SessionTypes
<1>2. ASSUME NEW c \in Caller, ProbeSkip(c) PROVE SessionTypes'
  BY <1>2, <1>0, Pairs DEF ProbeSkip, SessionTypes
<1>3. ASSUME NEW c \in Caller, ProbeDone(c) PROVE SessionTypes'
  BY <1>3, <1>0, Pairs DEF ProbeDone, SessionTypes
<1>4. ASSUME NEW c \in Caller, Admit(c) PROVE SessionTypes'
  BY <1>4, <1>0, Pairs DEF Admit, SessionTypes
<1>5. ASSUME NEW c \in Caller, CreateSession(c) PROVE SessionTypes'
  BY <1>5, <1>0, Pairs DEF CreateSession, SessionTypes
<1>6. ASSUME NEW c \in Caller, Created(c) PROVE SessionTypes'
  BY <1>6, <1>0, Pairs DEF Created, SessionTypes
<1>7. ASSUME NEW c \in Caller, Acquired(c) PROVE SessionTypes'
  BY <1>7, <1>0, Pairs DEF Acquired, CloseSession, Returned, Succeeded, GrantGone, SessionTypes
<1>8. ASSUME NEW c \in Caller, Operation(c) PROVE SessionTypes'
  BY <1>8, <1>0, Pairs DEF Operation, SessionTypes
<1>9. ASSUME NEW c \in Caller, Signed(c) PROVE SessionTypes'
  BY <1>9, <1>0, Pairs DEF Signed, SessionTypes
<1>10. ASSUME NEW c \in Caller, Release(c) PROVE SessionTypes'
  BY <1>10, <1>0, Pairs DEF Release, CloseSession, GrantGone, SessionTypes
<1>11. CASE Finalize
  BY <1>11, <1>0, Pairs DEF Finalize, SessionTypes
<1>12. CASE Free
  BY <1>12, <1>0, Pairs DEF Free, SessionTypes
<1>13. ASSUME NEW r \in Request, RequestStart(r) PROVE SessionTypes'
  BY <1>13, <1>0, Pairs DEF RequestStart, SessionTypes
<1>14. ASSUME NEW r \in Request, OnResponse(r) PROVE SessionTypes'
  BY <1>14, <1>0, Pairs DEF OnResponse, SessionTypes
<1>15. ASSUME NEW r \in Request, OnRequestTimeout(r) PROVE SessionTypes'
  BY <1>15, <1>0, Pairs DEF OnRequestTimeout, SessionTypes
<1>16. ASSUME NEW r \in Request, OnMethodReturned(r) PROVE SessionTypes'
  BY <1>16, <1>0, Pairs DEF OnMethodReturned, SessionTypes
<1>17. ASSUME NEW r \in Request, OnMethodFailed(r) PROVE SessionTypes'
  BY <1>17, <1>0, Pairs DEF OnMethodFailed, SessionTypes
<1>18. ASSUME NEW c \in Caller, OnGrantInvalidated(c) PROVE SessionTypes'
  BY <1>18, <1>0, Pairs DEF OnGrantInvalidated, SessionTypes
<1>19. CASE OwnerChanged
  BY <1>19, <1>0, Pairs DEF OwnerChanged, SessionTypes
<1>20. CASE CancelRequests
  BY <1>20, <1>0, Pairs DEF CancelRequests, SessionTypes
<1>21. CASE BeginDrain
  BY <1>21, <1>0, Pairs DEF BeginDrain, SessionTypes
<1>22. CASE DrainExpired
  BY <1>22, <1>0, Pairs DEF DrainExpired, SessionTypes
<1>23. CASE StopLoop
  BY <1>23, <1>0, Pairs DEF StopLoop, SessionTypes
<1>24. CASE OwnerChange
  BY <1>24, <1>0, Pairs DEF OwnerChange, SessionTypes
<1>25. ASSUME NEW r \in Request, PortalRefuses(r) PROVE SessionTypes'
  BY <1>25, <1>0, Pairs DEF PortalRefuses, SessionTypes
<1>26. ASSUME NEW r \in Request, PortalExports(r) PROVE SessionTypes'
  BY <1>26, <1>0, Pairs DEF PortalExports, SessionTypes
<1>27. ASSUME NEW r \in Request, PortalResponds(r) PROVE SessionTypes'
  BY <1>27, <1>0, Pairs DEF PortalResponds, SessionTypes
<1>28. ASSUME NEW r \in Request, ResponseDropped(r) PROVE SessionTypes'
  BY <1>28, <1>0, Pairs DEF ResponseDropped, SessionTypes
<1>29. ASSUME NEW r \in Request, NEW p \in Path, CloseArrives(r, p) PROVE SessionTypes'
  BY <1>29, <1>0, Pairs DEF CloseArrives, SessionTypes
<1>30. ASSUME NEW c \in Caller, SessionCloseArrives(c) PROVE SessionTypes'
  BY <1>30, <1>0, Pairs DEF SessionCloseArrives, SessionTypes
<1>31. ASSUME NEW c \in Caller, PortalEndsSession(c) PROVE SessionTypes'
  BY <1>31, <1>0, Pairs DEF PortalEndsSession, SessionTypes
<1>32. CASE UNCHANGED vars
  BY <1>32, <1>0, Pairs DEF vars, SessionTypes
<1> QED
  BY <1>1, <1>2, <1>3, <1>4, <1>5, <1>6, <1>7, <1>8, <1>9, <1>10, <1>11, <1>12, <1>13, <1>14,
     <1>15, <1>16, <1>17, <1>18, <1>19, <1>20, <1>21, <1>22, <1>23, <1>24, <1>25, <1>26, <1>27,
     <1>28, <1>29, <1>30, <1>31, <1>32, NextActions

\* The types are kept by every step.
LEMMA TypeStep ==
    ASSUME PortalRequestAssumption, TypeOK, ClientInv, [Next]_vars PROVE TypeOK'
<1>1. /\ CallerTypes' /\ OwnerTypes' /\ RequestTypes' /\ StopTypes' /\ BusTypes' /\ SessionTypes'
  BY CallerTypeStep, OwnerTypeStep, RequestTypeStep, StopTypeStep, BusTypeStep, SessionTypeStep
<1> QED
  BY <1>1 DEF TypeOK, CallerTypes, OwnerTypes, RequestTypes, StopTypes, BusTypes, SessionTypes


-----------------------------------------------------------------------------
\* What the callbacks of the client's thread do to the requests.
Same(r) == /\ req'[r].state = req[r].state /\ req'[r].result = req[r].result
           /\ req'[r].sentTo = req[r].sentTo

\* request_start ends the request or sends it.
LEMMA RequestStartEffect ==
    ASSUME TypeOK, NEW r \in Request, RequestStart(r)
    PROVE  /\ req[r].state = "posted" /\ Looping
           /\ \A q \in Request : q # r => Stays(q)
           /\ \/ /\ \E result \in {"cancelled", "invalidated"} : Ends(r, result, FALSE)
                 /\ UNCHANGED <<calls, portal, reply>>
              \/ /\ ~Cancelled /\ Current(r)
                 /\ req'[r].state = "live" /\ req'[r].result = req[r].result
                 /\ req'[r].sentTo = view /\ req'[r].returned = req[r].returned
                 /\ req'[r].closed = req[r].closed
                 /\ closes' = closes /\ calls' = calls \cup {r}
                 /\ \/ view = epoch /\ portal' = [portal EXCEPT ![r] = "sent"] /\ UNCHANGED reply
                    \/ /\ portal' = [portal EXCEPT ![r] = "ended"]
                       /\ \E how \in {"refused", "lost"} : reply' = [reply EXCEPT ![r] = how]
<1>1. CASE Cancelled \/ ~Current(r)
  <2>1. PICK result \in {"cancelled", "invalidated"} : Complete({r}, result, FALSE)
    BY <1>1 DEF RequestStart
  <2>2. Ends(r, result, FALSE) /\ \A q \in Request : q # r => Stays(q)
    BY <2>1, CompleteEffect
  <2> QED
    BY <1>1, <2>2 DEF RequestStart
<1>2. CASE ~(Cancelled \/ ~Current(r))
  <2>1. /\ req' = [req EXCEPT ![r].state = "live", ![r].sentTo = view] /\ closes' = closes
        /\ req \in [Request -> RequestRecord]
    BY <1>2 DEF RequestStart, TypeOK
  <2>2. \A q \in Request : q # r => req'[q] = req[q]
    BY <2>1
  <2>3. req'[r] = [req[r] EXCEPT !.state = "live", !.sentTo = view] /\ req[r] \in RequestRecord
    BY <2>1
  <2>4. /\ req'[r].state = "live" /\ req'[r].result = req[r].result
        /\ req'[r].sentTo = view /\ req'[r].returned = req[r].returned
        /\ req'[r].closed = req[r].closed
    BY <2>3 DEF RequestRecord
  <2> QED
    BY <1>2, <2>1, <2>2, <2>4 DEF RequestStart, Stays
<1> QED
  BY <1>1, <1>2

LEMMA ResponseEffect ==
    ASSUME TypeOK, NEW r \in Request, OnResponse(r)
    PROVE  /\ req[r].state = "live" /\ response[r] \in Answer /\ Ends(r, response[r], FALSE)
           /\ \A q \in Request : q # r => Stays(q)
<1>1. /\ req[r].state = "live" /\ response[r] \in Answer /\ Complete({r}, response[r], FALSE)
  BY DEF OnResponse, TypeOK
<1> QED
  BY <1>1, CompleteEffect

LEMMA TimeoutEffect ==
    ASSUME TypeOK, NEW r \in Request, OnRequestTimeout(r)
    PROVE  /\ req[r].state = "live" /\ Ends(r, "timeout", FALSE)
           /\ \A q \in Request : q # r => Stays(q)
BY CompleteEffect DEF OnRequestTimeout

\* A method's reply tells the path, to a completed request too.
LEMMA MethodReturnedEffect ==
    ASSUME TypeOK, NEW r \in Request, OnMethodReturned(r)
    PROVE  /\ r \in calls /\ reply[r] = "path" /\ Looping
           /\ \A q \in Request : Same(q) /\ (q # r => Stays(q))
           /\ \/ /\ req[r].state = "done" /\ ~Responded(r) /\ at[r] # req[r].closed
                 /\ req'[r].closed = at[r] /\ req'[r].returned = req[r].returned
                 /\ closes'[r] = closes[r] \cup {at[r]}
              \/ req[r].state = "done" /\ (Responded(r) \/ at[r] = req[r].closed) /\ Stays(r)
              \/ /\ req[r].state # "done" /\ req'[r].returned = at[r]
                 /\ req'[r].closed = req[r].closed /\ closes'[r] = closes[r]
<1>1. req \in [Request -> RequestRecord] /\ closes \in [Request -> SUBSET Path]
  BY DEF TypeOK
<1>2. CASE req[r].state = "done" /\ ~Responded(r) /\ at[r] # req[r].closed
  <2>1. /\ req' = [req EXCEPT ![r].closed = at[r]]
        /\ closes' = [closes EXCEPT ![r] = closes[r] \cup {at[r]}]
    BY <1>2 DEF OnMethodReturned, LateReply
  <2>2. \A q \in Request : q # r => req'[q] = req[q] /\ closes'[q] = closes[q]
    BY <1>1, <2>1
  <2>3. /\ req'[r] = [req[r] EXCEPT !.closed = at[r]] /\ req[r] \in RequestRecord
        /\ closes'[r] = closes[r] \cup {at[r]}
    BY <1>1, <2>1
  <2>4. Same(r) /\ req'[r].closed = at[r] /\ req'[r].returned = req[r].returned
    BY <2>3 DEF Same, RequestRecord
  <2> QED
    BY <1>2, <2>2, <2>3, <2>4 DEF OnMethodReturned, Stays, Same
<1>3. CASE req[r].state = "done" /\ ~(~Responded(r) /\ at[r] # req[r].closed)
  BY <1>3 DEF OnMethodReturned, LateReply, Stays, Same
<1>4. CASE req[r].state # "done"
  <2>1. req' = [req EXCEPT ![r].returned = at[r]] /\ closes' = closes
    BY <1>4 DEF OnMethodReturned
  <2>2. \A q \in Request : q # r => req'[q] = req[q]
    BY <1>1, <2>1
  <2>3. req'[r] = [req[r] EXCEPT !.returned = at[r]] /\ req[r] \in RequestRecord
    BY <1>1, <2>1
  <2>4. Same(r) /\ req'[r].returned = at[r] /\ req'[r].closed = req[r].closed
    BY <2>3 DEF Same, RequestRecord
  <2> QED
    BY <1>4, <2>1, <2>2, <2>4 DEF OnMethodReturned, Stays, Same
<1> QED
  BY <1>2, <1>3, <1>4

LEMMA MethodFailedEffect ==
    ASSUME TypeOK, NEW r \in Request, OnMethodFailed(r)
    PROVE  /\ r \in calls /\ Looping
           /\ \A q \in Request : q # r => Stays(q)
           /\ \E how \in {"refused", "lost", "missed"} :
                 /\ how = "missed" \/ how = reply[r]
                 /\ reply' = [reply EXCEPT ![r] = IF how = "missed" THEN "missed" ELSE "none"]
                 /\ IF req[r].state = "done" THEN Stays(r) ELSE Ends(r, "failed",
                       how = "refused")
<1>1. PICK how \in {"refused", "lost", "missed"} :
          /\ (how = "missed" \/ how = reply[r])
          /\ IF req[r].state = "done" THEN UNCHANGED <<req, closes>>
             ELSE Complete({r}, "failed", how = "refused")
          /\ reply' = [reply EXCEPT ![r] = IF how = "missed" THEN "missed" ELSE "none"]
  BY DEF OnMethodFailed
<1>2. CASE req[r].state = "done"
  BY <1>1, <1>2 DEF OnMethodFailed, Stays
<1>3. CASE req[r].state # "done"
  <2>1. Ends(r, "failed", how = "refused") /\ \A q \in Request : q # r => Stays(q)
    BY <1>1, <1>3, CompleteEffect
  <2> QED
    BY <1>1, <1>3, <2>1 DEF OnMethodFailed
<1> QED
  BY <1>2, <1>3

LEMMA OwnerChangedEffect ==
    ASSUME TypeOK, OwnerChanged
    PROVE  \A q \in Request : IF req[q].state = "live" THEN Ends(q, "invalidated", FALSE)
                              ELSE Stays(q)
BY CompleteEffect DEF OwnerChanged, Live

LEMMA CancelRequestsEffect ==
    ASSUME TypeOK, CancelRequests
    PROVE  \A q \in Request : IF req[q].state = "live" THEN Ends(q, "cancelled", FALSE)
                              ELSE Stays(q)
BY CompleteEffect DEF CancelRequests, Live

\* A request keeps to its owner: only request_start sends it, at the owner its
\* caller saw, and a caller's next acquisition starts with no request.
LEMMA RequestStep ==
    ASSUME PortalRequestAssumption, TypeOK, ClientInv, [Next]_vars PROVE RequestInv'
<1> SUFFICES ASSUME NEW q \in Request PROVE RequestOK(q)'
  BY DEF RequestInv
<1>0. /\ RequestOK(q) /\ q[1] \in Caller /\ req[q] \in RequestRecord /\ gen[q[1]] \in Nat
      /\ portal \in [Request -> {"none", "sent", "open", "ended"}]
      /\ response \in [Request -> Answer \cup {"none"}]
      /\ gen \in [Caller -> 0..MaxEpoch] /\ view # 0 => view \in Nat
  BY Pairs, PortalRequestAssumption DEF TypeOK, ClientInv, RequestInv, PortalRequestAssumption
<1> USE DEF callerVars, ownerVars, stopVars, busVars, sessionVars
<1>1. ASSUME NEW c \in Caller, ProbeStart(c) PROVE RequestOK(q)'
  BY <1>1, <1>0 DEF ProbeStart, RequestOK, Responded
<1>2. ASSUME NEW c \in Caller, ProbeSkip(c) PROVE RequestOK(q)'
  BY <1>2, <1>0 DEF ProbeSkip, RequestOK, Responded
<1>3. ASSUME NEW c \in Caller, ProbeDone(c) PROVE RequestOK(q)'
  BY <1>3, <1>0 DEF ProbeDone, RequestOK, Responded
<1>4. ASSUME NEW c \in Caller, Admit(c) PROVE RequestOK(q)'
  BY <1>4, <1>0 DEF Admit, RequestOK, Responded
<1>5. ASSUME NEW c \in Caller, CreateSession(c) PROVE RequestOK(q)'
  <2>1. Post(c, "create") /\ "create" \in Kind /\ gen' = [gen EXCEPT ![c] = view]
    BY <1>5 DEF CreateSession, Kind
  <2>2. q[1] = c => req[q].state = "none"
    <3>1. \A k \in Kind : req[<<c, k>>].state = "none"
      BY <1>5 DEF CreateSession, ClientInv, CallerInv, CallerOK
    <3> QED
      BY <3>1, Pairs
  <2>3. /\ q # <<c, "create">> => req'[q] = req[q]
        /\ q = <<c, "create">> => /\ req'[q].state = "posted" /\ req'[q].result = req[q].result
                                  /\ req'[q].sentTo = req[q].sentTo
    BY <2>1, PostEffect
  <2>4. <<c, "create">>[1] = c /\ UNCHANGED <<portal, response>>
    BY <1>5 DEF CreateSession
  <2> QED
    BY <1>0, <2>1, <2>2, <2>3, <2>4 DEF RequestOK, Responded, Answer
<1>6. ASSUME NEW c \in Caller, Created(c) PROVE RequestOK(q)'
  <2>1. CASE Succeeded(c, "create")
    <3>1. Post(c, "acquire") /\ "acquire" \in Kind /\ UNCHANGED <<gen, portal, response>>
      BY <1>6, <2>1 DEF Created, Kind
    <3>2. q = <<c, "acquire">> => req[q].state = "none"
      BY <1>6 DEF Created, ClientInv, CallerInv, CallerOK
    <3>3. /\ q # <<c, "acquire">> => req'[q] = req[q]
          /\ q = <<c, "acquire">> => /\ req'[q].state = "posted"
          /\ req'[q].result = req[q].result
                                     /\ req'[q].sentTo = req[q].sentTo
      BY <3>1, PostEffect
    <3> QED
      BY <1>0, <3>1, <3>2, <3>3 DEF RequestOK, Responded, Answer
  <2>2. CASE ~Succeeded(c, "create")
    BY <1>0, <1>6, <2>2 DEF Created, RequestOK, Responded
  <2> QED
    BY <2>1, <2>2
<1>7. ASSUME NEW c \in Caller, Acquired(c) PROVE RequestOK(q)'
  BY <1>7, <1>0 DEF Acquired, RequestOK, Responded
<1>8. ASSUME NEW c \in Caller, Operation(c) PROVE RequestOK(q)'
  <2>1. Post(c, "sign") /\ "sign" \in Kind /\ UNCHANGED <<gen, portal, response>>
    BY <1>8 DEF Operation, Kind
  <2>2. q = <<c, "sign">> => req[q].state = "none"
    BY <1>8 DEF Operation
  <2>3. /\ q # <<c, "sign">> => req'[q] = req[q]
        /\ q = <<c, "sign">> => /\ req'[q].state = "posted" /\ req'[q].result = req[q].result
                                /\ req'[q].sentTo = req[q].sentTo
    BY <2>1, PostEffect
  <2> QED
    BY <1>0, <2>1, <2>2, <2>3 DEF RequestOK, Responded, Answer
<1>9. ASSUME NEW c \in Caller, Signed(c) PROVE RequestOK(q)'
  BY <1>9, <1>0 DEF Signed, RequestOK, Responded
<1>10. ASSUME NEW c \in Caller, Release(c) PROVE RequestOK(q)'
  BY <1>10, <1>0 DEF Release, RequestOK, Responded
<1>11. CASE Finalize
  BY <1>11, <1>0 DEF Finalize, RequestOK, Responded
<1>12. CASE Free
  BY <1>12, <1>0 DEF Free, RequestOK, Responded
<1>13. ASSUME NEW r \in Request, RequestStart(r) PROVE RequestOK(q)'
  <2>1. UNCHANGED <<gen, response>>
    BY <1>13 DEF RequestStart
  <2>2. CASE q # r
    <3>1. Stays(q)
      BY <2>2, <1>13, RequestStartEffect
    <3>2. portal'[q] = portal[q]
      BY <1>0, <2>2, <1>13 DEF RequestStart
    <3> QED
      BY <1>0, <2>1, <3>1, <3>2 DEF RequestOK, Responded, Stays
  <2>3. ASSUME q = r, NEW result \in {"cancelled", "invalidated"}, Ends(r, result, FALSE),
               portal' = portal
        PROVE  RequestOK(q)'
    BY <1>0, <2>1, <2>3 DEF RequestOK, Responded, Answer, Ends
  <2>4. ASSUME q = r, req'[r].state = "live", req'[r].sentTo = view, Current(r),
               req'[r].result = req[r].result
        PROVE  RequestOK(q)'
    <3>1. view # 0
      BY <2>4, NoOwnerAtFirst DEF Current
    <3>2. req[r].state = "posted"
      BY <1>13, RequestStartEffect
    <3> QED
      BY <1>0, <2>1, <2>4, <3>1, <3>2 DEF RequestOK, Responded, Answer, Current
  <2> QED
    BY <2>2, <2>3, <2>4, <1>13, RequestStartEffect
<1>14. ASSUME NEW r \in Request, OnResponse(r) PROVE RequestOK(q)'
  <2>1. /\ q # r => Stays(q)
        /\ q = r => req[r].state = "live" /\ response[r] \in Answer
        /\ Ends(r, response[r], FALSE)
        /\ UNCHANGED <<gen, portal>> /\ response' = [response EXCEPT ![r] = "none"]
    BY <1>14, ResponseEffect DEF OnResponse
  <2> QED
    BY <1>0, <2>1 DEF RequestOK, Responded, Answer, Ends, Stays
<1>15. ASSUME NEW r \in Request, OnRequestTimeout(r) PROVE RequestOK(q)'
  <2>1. /\ (q # r => Stays(q)) /\ (q = r => req[r].state = "live" /\ Ends(r, "timeout", FALSE))
        /\ UNCHANGED <<gen, portal, response>>
    BY <1>15, TimeoutEffect DEF OnRequestTimeout
  <2> QED
    BY <1>0, <2>1 DEF RequestOK, Responded, Answer, Ends, Stays
<1>16. ASSUME NEW r \in Request, OnMethodReturned(r) PROVE RequestOK(q)'
  <2>1. Same(q) /\ UNCHANGED <<gen, portal, response>>
    BY <1>16, MethodReturnedEffect DEF OnMethodReturned
  <2> QED
    BY <1>0, <2>1 DEF RequestOK, Responded, Same
<1>17. ASSUME NEW r \in Request, OnMethodFailed(r) PROVE RequestOK(q)'
  <2>1. UNCHANGED <<gen, portal, response>> /\ req[r].sentTo # 0
    BY <1>17 DEF OnMethodFailed, TypeOK
  <2>2. \/ Stays(q)
        \/ q = r /\ req[r].state # "done" /\ \E refused : Ends(r, "failed", refused)
    BY <1>17, MethodFailedEffect
  <2> QED
    BY <1>0, <2>1, <2>2 DEF RequestOK, Responded, Answer, Ends, Stays
<1>18. ASSUME NEW c \in Caller, OnGrantInvalidated(c) PROVE RequestOK(q)'
  BY <1>18, <1>0 DEF OnGrantInvalidated, RequestOK, Responded
<1>19. CASE OwnerChanged
  <2>1. /\ IF req[q].state = "live" THEN Ends(q, "invalidated", FALSE) ELSE Stays(q)
        /\ UNCHANGED <<gen, portal, response>>
    BY <1>19, OwnerChangedEffect DEF OwnerChanged
  <2> QED
    BY <1>0, <2>1 DEF RequestOK, Responded, Answer, Ends, Stays
<1>20. CASE CancelRequests
  <2>1. /\ IF req[q].state = "live" THEN Ends(q, "cancelled", FALSE) ELSE Stays(q)
        /\ UNCHANGED <<gen, portal, response>>
    BY <1>20, CancelRequestsEffect DEF CancelRequests
  <2> QED
    BY <1>0, <2>1 DEF RequestOK, Responded, Answer, Ends, Stays
<1>21. CASE BeginDrain
  BY <1>21, <1>0 DEF BeginDrain, RequestOK, Responded
<1>22. CASE DrainExpired
  BY <1>22, <1>0 DEF DrainExpired, RequestOK, Responded
<1>23. CASE StopLoop
  BY <1>23, <1>0 DEF StopLoop, RequestOK, Responded
<1>24. CASE OwnerChange
  BY <1>24, <1>0 DEF OwnerChange, RequestOK, Responded
<1>25. ASSUME NEW r \in Request, PortalRefuses(r) PROVE RequestOK(q)'
  BY <1>25, <1>0 DEF PortalRefuses, RequestOK, Responded
<1>26. ASSUME NEW r \in Request, PortalExports(r) PROVE RequestOK(q)'
  BY <1>26, <1>0 DEF PortalExports, RequestOK, Responded
<1>27. ASSUME NEW r \in Request, PortalResponds(r) PROVE RequestOK(q)'
  <2>1. PICK answer \in Answer : response' = [response EXCEPT ![r] = answer]
    BY <1>27 DEF PortalResponds, Answer
  <2>2. portal' = [portal EXCEPT ![r] = "ended"] /\ portal[r] = "open" /\ UNCHANGED <<req, gen>>
    BY <1>27 DEF PortalResponds
  <2> QED
    BY <1>0, <2>1, <2>2 DEF RequestOK, Responded
<1>28. ASSUME NEW r \in Request, ResponseDropped(r) PROVE RequestOK(q)'
  BY <1>28, <1>0 DEF ResponseDropped, RequestOK, Responded
<1>29. ASSUME NEW r \in Request, NEW p \in Path, CloseArrives(r, p) PROVE RequestOK(q)'
  BY <1>29, <1>0 DEF CloseArrives, RequestOK, Responded
<1>30. ASSUME NEW c \in Caller, SessionCloseArrives(c) PROVE RequestOK(q)'
  BY <1>30, <1>0 DEF SessionCloseArrives, RequestOK, Responded
<1>31. ASSUME NEW c \in Caller, PortalEndsSession(c) PROVE RequestOK(q)'
  BY <1>31, <1>0 DEF PortalEndsSession, RequestOK, Responded
<1>32. CASE UNCHANGED vars
  BY <1>32, <1>0 DEF vars, RequestOK, Responded
<1> QED
  BY <1>1, <1>2, <1>3, <1>4, <1>5, <1>6, <1>7, <1>8, <1>9, <1>10, <1>11, <1>12, <1>13, <1>14,
     <1>15, <1>16, <1>17, <1>18, <1>19, <1>20, <1>21, <1>22, <1>23, <1>24, <1>25, <1>26, <1>27,
     <1>28, <1>29, <1>30, <1>31, <1>32, NextActions


\* A callback starts or ends requests that somebody waits for, and no others.
Callback ==
    \/ \E r \in Request : \/ RequestStart(r) \/ OnResponse(r) \/ OnRequestTimeout(r)
                          \/ OnMethodReturned(r) \/ OnMethodFailed(r)
    \/ OwnerChanged \/ CancelRequests

Progress(r) ==
    \/ Same(r)
    \/ /\ req[r].state \in {"posted", "live"} /\ req'[r].state \in {"live", "done"}
       /\ req'[r].sentTo \in {req[r].sentTo, view}

\* Callbacks carry requests on, in order.
LEMMA CallbackEffect ==
    ASSUME TypeOK, ClientInv, Callback
    PROVE  /\ UNCHANGED <<phase, gen, finalizer>> /\ view' \in {view, view + 1}
           /\ \A q \in Request : Progress(q)
<1> USE DEF callerVars, ownerVars, stopVars
<1>1. ASSUME NEW r \in Request, RequestStart(r) PROVE \A q \in Request : Progress(q)
  BY <1>1, RequestStartEffect DEF Ends, Stays, Progress, Same
<1>2. ASSUME NEW r \in Request, OnResponse(r) PROVE \A q \in Request : Progress(q)
  BY <1>2, ResponseEffect DEF Ends, Stays, Progress, Same
<1>3. ASSUME NEW r \in Request, OnRequestTimeout(r) PROVE \A q \in Request : Progress(q)
  BY <1>3, TimeoutEffect DEF Ends, Stays, Progress, Same
<1>4. ASSUME NEW r \in Request, OnMethodReturned(r) PROVE \A q \in Request : Progress(q)
  BY <1>4, MethodReturnedEffect DEF Progress
<1>5. ASSUME NEW r \in Request, OnMethodFailed(r) PROVE \A q \in Request : Progress(q)
  <2>1. req[r].sentTo # 0 /\ req[r] \in RequestRecord
    BY <1>5 DEF OnMethodFailed, TypeOK
  <2>2. req[r].state \in {"live", "done"}
    BY <2>1 DEF ClientInv, RequestInv, RequestOK, RequestRecord
  <2> QED
    BY <1>5, <2>2, MethodFailedEffect DEF Ends, Stays, Progress, Same
<1>6. CASE OwnerChanged
  BY <1>6, OwnerChangedEffect DEF Ends, Stays, Progress, Same, OwnerChanged
<1>7. CASE CancelRequests
  BY <1>7, CancelRequestsEffect DEF Ends, Stays, Progress, Same, CancelRequests
<1>8. UNCHANGED <<phase, gen, finalizer>> /\ view' \in {view, view + 1}
  BY DEF Callback, RequestStart, OnResponse, OnRequestTimeout, OnMethodReturned, OnMethodFailed,
         OwnerChanged, CancelRequests
<1> QED
  BY <1>1, <1>2, <1>3, <1>4, <1>5, <1>6, <1>7, <1>8 DEF Callback

\* A caller has one request at a time: callbacks only carry on the one it waits for.
LEMMA CallersStep ==
    ASSUME PortalRequestAssumption, TypeOK, ClientInv, [Next]_vars PROVE CallerInv'
<1> SUFFICES ASSUME NEW q \in Caller PROVE CallerOK(q)'
  BY DEF CallerInv
<1>0. /\ CallerOK(q) /\ gen \in [Caller -> 0..MaxEpoch] /\ view \in Nat
      /\ phase \in [Caller -> {"idle", "probing", "probed", "admitted", "creating", "acquiring",
                               "held", "signing", "released", "failed"}]
  BY DEF TypeOK, ClientInv, CallerInv
<1>a. ASSUME Callback PROVE CallerOK(q)'
  <2>1. /\ UNCHANGED <<phase, gen>> /\ view' \in {view, view + 1}
        /\ \A k \in Kind : Progress(<<q, k>>)
    BY <1>a, CallbackEffect, Pairs DEF Kind
  <2>2. req[<<q, "create">>].state # "done" => ~Succeeded(q, "create")
    <3>1. <<q, "create">> \in Request
      BY Pairs DEF Kind
    <3> QED
      BY <3>1 DEF Succeeded, ClientInv, RequestInv, RequestOK, TypeOK, RequestRecord
  <2> QED
    BY <1>0, <2>1, <2>2 DEF CallerOK, Progress, Same, Succeeded, Kind
<1> USE DEF callerVars, ownerVars, stopVars, busVars, sessionVars
<1>1. ASSUME NEW c \in Caller, ProbeStart(c) PROVE CallerOK(q)'
  BY <1>1, <1>0 DEF ProbeStart, CallerOK, Succeeded
<1>2. ASSUME NEW c \in Caller, ProbeSkip(c) PROVE CallerOK(q)'
  BY <1>2, <1>0 DEF ProbeSkip, CallerOK, Succeeded
<1>3. ASSUME NEW c \in Caller, ProbeDone(c) PROVE CallerOK(q)'
  BY <1>3, <1>0 DEF ProbeDone, AcceptCapabilities, CallerOK, Succeeded
<1>4. ASSUME NEW c \in Caller, Admit(c) PROVE CallerOK(q)'
  BY <1>4, <1>0 DEF Admit, CallerOK, Succeeded
<1>5. ASSUME NEW c \in Caller, CreateSession(c) PROVE CallerOK(q)'
  <2>1. Post(c, "create") /\ "create" \in Kind
    BY <1>5 DEF CreateSession, Kind
  <2>2. /\ q # c => \A k \in Kind : req'[<<q, k>>] = req[<<q, k>>]
        /\ \A k \in Kind : k # "create" => req'[<<q, k>>] = req[<<q, k>>]
        /\ q = c => req'[<<q, "create">>].state = "posted"
                   /\ req'[<<q, "create">>].result = req[<<q, "create">>].result
    BY <2>1, Pairs, PostEffect
  <2> QED
    BY <1>0, <1>5, <2>2 DEF CreateSession, CallerOK, Succeeded, Kind
<1>6. ASSUME NEW c \in Caller, Created(c) PROVE CallerOK(q)'
  <2>1. CASE Succeeded(c, "create")
    <3>1. Post(c, "acquire") /\ "acquire" \in Kind
      BY <1>6, <2>1 DEF Created, Kind
    <3>2. /\ q # c => \A k \in Kind : req'[<<q, k>>] = req[<<q, k>>]
          /\ \A k \in Kind : k # "acquire" => req'[<<q, k>>] = req[<<q, k>>]
          /\ q = c => req'[<<q, "acquire">>].state = "posted"
      BY <3>1, Pairs, PostEffect
    <3> QED
      BY <1>0, <1>6, <2>1, <3>2 DEF Created, CallerOK, Succeeded, Kind, Returned
  <2>2. CASE ~Succeeded(c, "create")
    BY <1>0, <1>6, <2>2 DEF Created, CallerOK, Succeeded, Returned
  <2> QED
    BY <2>1, <2>2
<1>7. ASSUME NEW c \in Caller, Acquired(c) PROVE CallerOK(q)'
  BY <1>7, <1>0 DEF Acquired, CloseSession, Returned, Succeeded, GrantGone, CallerOK
<1>8. ASSUME NEW c \in Caller, Operation(c) PROVE CallerOK(q)'
  <2>1. Post(c, "sign") /\ "sign" \in Kind
    BY <1>8 DEF Operation, Kind
  <2>2. /\ q # c => \A k \in Kind : req'[<<q, k>>] = req[<<q, k>>]
        /\ \A k \in Kind : k # "sign" => req'[<<q, k>>] = req[<<q, k>>]
        /\ q = c => req'[<<q, "sign">>].state = "posted"
                   /\ req'[<<q, "sign">>].result = req[<<q, "sign">>].result
    BY <2>1, Pairs, PostEffect
  <2> QED
    BY <1>0, <1>8, <2>2 DEF Operation, CallerOK, Succeeded, Kind
<1>9. ASSUME NEW c \in Caller, Signed(c) PROVE CallerOK(q)'
  BY <1>9, <1>0 DEF Signed, Returned, CallerOK, Succeeded
<1>10. ASSUME NEW c \in Caller, Release(c) PROVE CallerOK(q)'
  BY <1>10, <1>0 DEF Release, CloseSession, GrantGone, CallerOK, Succeeded
<1>11. CASE Finalize
  BY <1>11, <1>0 DEF Finalize, CallerOK, Succeeded
<1>12. CASE Free
  BY <1>12, <1>0 DEF Free, CallerOK, Succeeded
<1>13. ASSUME NEW r \in Request, RequestStart(r) PROVE CallerOK(q)'
  BY <1>13, <1>a DEF Callback
<1>14. ASSUME NEW r \in Request, OnResponse(r) PROVE CallerOK(q)'
  BY <1>14, <1>a DEF Callback
<1>15. ASSUME NEW r \in Request, OnRequestTimeout(r) PROVE CallerOK(q)'
  BY <1>15, <1>a DEF Callback
<1>16. ASSUME NEW r \in Request, OnMethodReturned(r) PROVE CallerOK(q)'
  BY <1>16, <1>a DEF Callback
<1>17. ASSUME NEW r \in Request, OnMethodFailed(r) PROVE CallerOK(q)'
  BY <1>17, <1>a DEF Callback
<1>18. ASSUME NEW c \in Caller, OnGrantInvalidated(c) PROVE CallerOK(q)'
  BY <1>18, <1>0 DEF OnGrantInvalidated, CallerOK, Succeeded
<1>19. CASE OwnerChanged
  BY <1>19, <1>a DEF Callback
<1>20. CASE CancelRequests
  BY <1>20, <1>a DEF Callback
<1>21. CASE BeginDrain
  BY <1>21, <1>0 DEF BeginDrain, CallerOK, Succeeded
<1>22. CASE DrainExpired
  BY <1>22, <1>0 DEF DrainExpired, CallerOK, Succeeded
<1>23. CASE StopLoop
  BY <1>23, <1>0 DEF StopLoop, CallerOK, Succeeded
<1>24. CASE OwnerChange
  BY <1>24, <1>0 DEF OwnerChange, CallerOK, Succeeded
<1>25. ASSUME NEW r \in Request, PortalRefuses(r) PROVE CallerOK(q)'
  BY <1>25, <1>0 DEF PortalRefuses, CallerOK, Succeeded
<1>26. ASSUME NEW r \in Request, PortalExports(r) PROVE CallerOK(q)'
  BY <1>26, <1>0 DEF PortalExports, CallerOK, Succeeded
<1>27. ASSUME NEW r \in Request, PortalResponds(r) PROVE CallerOK(q)'
  BY <1>27, <1>0 DEF PortalResponds, CallerOK, Succeeded
<1>28. ASSUME NEW r \in Request, ResponseDropped(r) PROVE CallerOK(q)'
  BY <1>28, <1>0 DEF ResponseDropped, CallerOK, Succeeded
<1>29. ASSUME NEW r \in Request, NEW p \in Path, CloseArrives(r, p) PROVE CallerOK(q)'
  BY <1>29, <1>0 DEF CloseArrives, CallerOK, Succeeded
<1>30. ASSUME NEW c \in Caller, SessionCloseArrives(c) PROVE CallerOK(q)'
  BY <1>30, <1>0 DEF SessionCloseArrives, CallerOK, Succeeded
<1>31. ASSUME NEW c \in Caller, PortalEndsSession(c) PROVE CallerOK(q)'
  BY <1>31, <1>0 DEF PortalEndsSession, CallerOK, Succeeded
<1>32. CASE UNCHANGED vars
  BY <1>32, <1>0 DEF vars, CallerOK, Succeeded
<1> QED
  BY <1>1, <1>2, <1>3, <1>4, <1>5, <1>6, <1>7, <1>8, <1>9, <1>10, <1>11, <1>12, <1>13, <1>14,
     <1>15, <1>16, <1>17, <1>18, <1>19, <1>20, <1>21, <1>22, <1>23, <1>24, <1>25, <1>26, <1>27,
     <1>28, <1>29, <1>30, <1>31, <1>32, NextActions

\* The client is stopped only when no caller is left in it.
LEMMA StopStep ==
    ASSUME PortalRequestAssumption, TypeOK, ClientInv, [Next]_vars PROVE StopInv'
<1>0. /\ StopInv
      /\ phase \in [Caller -> {"idle", "probing", "probed", "admitted", "creating", "acquiring",
                               "held", "signing", "released", "failed"}]
  BY DEF TypeOK, ClientInv
<1> USE DEF callerVars, ownerVars, stopVars, busVars, sessionVars
<1>1. ASSUME NEW c \in Caller, ProbeStart(c) PROVE StopInv'
  BY <1>1, <1>0 DEF ProbeStart, StopInv
<1>2. ASSUME NEW c \in Caller, ProbeSkip(c) PROVE StopInv'
  BY <1>2, <1>0 DEF ProbeSkip, StopInv
<1>3. ASSUME NEW c \in Caller, ProbeDone(c) PROVE StopInv'
  BY <1>3, <1>0 DEF ProbeDone, AcceptCapabilities, StopInv
<1>4. ASSUME NEW c \in Caller, Admit(c) PROVE StopInv'
  BY <1>4, <1>0 DEF Admit, StopInv
<1>5. ASSUME NEW c \in Caller, CreateSession(c) PROVE StopInv'
  BY <1>5, <1>0 DEF CreateSession, Post, StopInv
<1>6. ASSUME NEW c \in Caller, Created(c) PROVE StopInv'
  BY <1>6, <1>0 DEF Created, Post, Returned, Succeeded, StopInv
<1>7. ASSUME NEW c \in Caller, Acquired(c) PROVE StopInv'
  BY <1>7, <1>0 DEF Acquired, CloseSession, Returned, Succeeded, GrantGone, StopInv
<1>8. ASSUME NEW c \in Caller, Operation(c) PROVE StopInv'
  BY <1>8, <1>0 DEF Operation, Post, StopInv
<1>9. ASSUME NEW c \in Caller, Signed(c) PROVE StopInv'
  BY <1>9, <1>0 DEF Signed, Returned, StopInv
<1>10. ASSUME NEW c \in Caller, Release(c) PROVE StopInv'
  BY <1>10, <1>0 DEF Release, CloseSession, GrantGone, StopInv
<1>11. CASE Finalize
  BY <1>11, <1>0 DEF Finalize, StopInv
<1>12. CASE Free
  BY <1>12, <1>0 DEF Free, StopInv
<1>13. ASSUME NEW r \in Request, RequestStart(r) PROVE StopInv'
  <2>1. UNCHANGED calls \/ loop = "running"
    BY <1>13, RequestStartEffect DEF Cancelled
  <2> QED
    BY <1>0, <1>13, <2>1 DEF RequestStart, StopInv
<1>14. ASSUME NEW r \in Request, OnResponse(r) PROVE StopInv'
  BY <1>14, <1>0 DEF OnResponse, StopInv
<1>15. ASSUME NEW r \in Request, OnRequestTimeout(r) PROVE StopInv'
  BY <1>15, <1>0 DEF OnRequestTimeout, StopInv
<1>16. ASSUME NEW r \in Request, OnMethodReturned(r) PROVE StopInv'
  BY <1>16, <1>0 DEF OnMethodReturned, LateReply, CallFinished, Responded, StopInv
<1>17. ASSUME NEW r \in Request, OnMethodFailed(r) PROVE StopInv'
  BY <1>17, <1>0 DEF OnMethodFailed, CallFinished, StopInv
<1>18. ASSUME NEW c \in Caller, OnGrantInvalidated(c) PROVE StopInv'
  BY <1>18, <1>0 DEF OnGrantInvalidated, StopInv
<1>19. CASE OwnerChanged
  BY <1>19, <1>0 DEF OwnerChanged, StopInv
<1>20. CASE CancelRequests
  BY <1>20, <1>0 DEF CancelRequests, StopInv
<1>21. CASE BeginDrain
  BY <1>21, <1>0 DEF BeginDrain, StopInv
<1>22. CASE DrainExpired
  BY <1>22, <1>0 DEF DrainExpired, StopInv
<1>23. CASE StopLoop
  BY <1>23, <1>0 DEF StopLoop, StopInv
<1>24. CASE OwnerChange
  BY <1>24, <1>0 DEF OwnerChange, StopInv
<1>25. ASSUME NEW r \in Request, PortalRefuses(r) PROVE StopInv'
  BY <1>25, <1>0 DEF PortalRefuses, StopInv
<1>26. ASSUME NEW r \in Request, PortalExports(r) PROVE StopInv'
  BY <1>26, <1>0 DEF PortalExports, StopInv
<1>27. ASSUME NEW r \in Request, PortalResponds(r) PROVE StopInv'
  BY <1>27, <1>0 DEF PortalResponds, StopInv
<1>28. ASSUME NEW r \in Request, ResponseDropped(r) PROVE StopInv'
  BY <1>28, <1>0 DEF ResponseDropped, StopInv
<1>29. ASSUME NEW r \in Request, NEW p \in Path, CloseArrives(r, p) PROVE StopInv'
  BY <1>29, <1>0 DEF CloseArrives, StopInv
<1>30. ASSUME NEW c \in Caller, SessionCloseArrives(c) PROVE StopInv'
  BY <1>30, <1>0 DEF SessionCloseArrives, StopInv
<1>31. ASSUME NEW c \in Caller, PortalEndsSession(c) PROVE StopInv'
  BY <1>31, <1>0 DEF PortalEndsSession, StopInv
<1>32. CASE UNCHANGED vars
  BY <1>32, <1>0 DEF vars, StopInv
<1> QED
  BY <1>1, <1>2, <1>3, <1>4, <1>5, <1>6, <1>7, <1>8, <1>9, <1>10, <1>11, <1>12, <1>13, <1>14,
     <1>15, <1>16, <1>17, <1>18, <1>19, <1>20, <1>21, <1>22, <1>23, <1>24, <1>25, <1>26, <1>27,
     <1>28, <1>29, <1>30, <1>31, <1>32, NextActions

\* What the client knows of a request's path is where the portal has it.
LEMMA PathStep ==
    ASSUME PortalRequestAssumption, TypeOK, ClientInv, [Next]_vars PROVE PathInv'
<1> SUFFICES ASSUME NEW q \in Request PROVE PathOK(q)'
  BY DEF PathInv
<1>0. /\ PathOK(q) /\ RequestOK(q) /\ req[q] \in RequestRecord
      /\ portal \in [Request -> {"none", "sent", "open", "ended"}]
      /\ at \in [Request -> Path \cup {"none"}]
      /\ reply \in [Request -> {"none", "path", "refused", "lost", "missed"}]
      /\ calls \in SUBSET Request
  BY DEF TypeOK, ClientInv, PathInv, RequestInv
<1> USE DEF callerVars, ownerVars, stopVars, busVars, sessionVars
<1>1. ASSUME NEW c \in Caller, ProbeStart(c) PROVE PathOK(q)'
  BY <1>1, <1>0 DEF ProbeStart, PathOK
<1>2. ASSUME NEW c \in Caller, ProbeSkip(c) PROVE PathOK(q)'
  BY <1>2, <1>0 DEF ProbeSkip, PathOK
<1>3. ASSUME NEW c \in Caller, ProbeDone(c) PROVE PathOK(q)'
  BY <1>3, <1>0 DEF ProbeDone, PathOK
<1>4. ASSUME NEW c \in Caller, Admit(c) PROVE PathOK(q)'
  BY <1>4, <1>0 DEF Admit, PathOK
<1>5. ASSUME NEW c \in Caller, CreateSession(c) PROVE PathOK(q)'
  <2>1. Post(c, "create") /\ "create" \in Kind /\ UNCHANGED <<portal, at, reply, calls>>
    BY <1>5 DEF CreateSession, Kind
  <2>2. q = <<c, "create">> => req'[q].state = "posted"
    BY <2>1, PostEffect
  <2>3. q # <<c, "create">> => req'[q] = req[q]
    BY <2>1, PostEffect
  <2>4. q = <<c, "create">> => req'[q].returned = req[q].returned /\ req'[q].closed = req[q].closed
    BY <2>1, PostEffect
  <2> QED
    BY <1>0, <2>1, <2>2, <2>3, <2>4 DEF PathOK, Responded
<1>6. ASSUME NEW c \in Caller, Created(c) PROVE PathOK(q)'
  <2>1. CASE Succeeded(c, "create")
    <3>1. Post(c, "acquire") /\ "acquire" \in Kind /\ UNCHANGED <<portal, at, reply, calls>>
      BY <1>6, <2>1 DEF Created, Kind
    <3>2. \/ req'[q] = req[q]
          \/ /\ req'[q].state = "posted" /\ req'[q].returned = req[q].returned
             /\ req'[q].closed = req[q].closed
      BY <3>1, PostEffect
    <3> QED
      BY <1>0, <3>1, <3>2 DEF PathOK
  <2>2. CASE ~Succeeded(c, "create")
    BY <1>0, <1>6, <2>2 DEF Created, PathOK
  <2> QED
    BY <2>1, <2>2
<1>7. ASSUME NEW c \in Caller, Acquired(c) PROVE PathOK(q)'
  BY <1>7, <1>0 DEF Acquired, PathOK
<1>8. ASSUME NEW c \in Caller, Operation(c) PROVE PathOK(q)'
  <2>1. Post(c, "sign") /\ "sign" \in Kind /\ UNCHANGED <<portal, at, reply, calls>>
    BY <1>8 DEF Operation, Kind
  <2>2. q = <<c, "sign">> => req'[q].state = "posted"
    BY <2>1, PostEffect
  <2>3. q # <<c, "sign">> => req'[q] = req[q]
    BY <2>1, PostEffect
  <2>4. q = <<c, "sign">> => req'[q].returned = req[q].returned /\ req'[q].closed = req[q].closed
    BY <2>1, PostEffect
  <2> QED
    BY <1>0, <2>1, <2>2, <2>3, <2>4 DEF PathOK, Responded
<1>9. ASSUME NEW c \in Caller, Signed(c) PROVE PathOK(q)'
  BY <1>9, <1>0 DEF Signed, PathOK
<1>10. ASSUME NEW c \in Caller, Release(c) PROVE PathOK(q)'
  BY <1>10, <1>0 DEF Release, PathOK
<1>11. CASE Finalize
  BY <1>11, <1>0 DEF Finalize, PathOK
<1>12. CASE Free
  BY <1>12, <1>0 DEF Free, PathOK
<1>13. ASSUME NEW r \in Request, RequestStart(r) PROVE PathOK(q)'
  <2>1. UNCHANGED at
    BY <1>13 DEF RequestStart
  <2>2. CASE q # r
    <3>1. Stays(q)
      BY <2>2, <1>13, RequestStartEffect
    <3>2. portal'[q] = portal[q] /\ reply'[q] = reply[q] /\ (q \in calls' <=> q \in calls)
      BY <1>0, <2>2, <1>13 DEF RequestStart
    <3> QED
      BY <1>0, <2>1, <3>1, <3>2 DEF PathOK, Stays
  <2>3. ASSUME q = r, NEW result \in {"cancelled", "invalidated"}, Ends(r, result, FALSE),
               UNCHANGED <<calls, portal, reply>>
        PROVE  PathOK(q)'
    BY <1>0, <2>1, <2>3 DEF PathOK, Answer, Ends
  <2>4. ASSUME q = r, req'[r].state = "live", req'[r].returned = req[r].returned,
               req'[r].closed = req[r].closed, calls' = calls \cup {r},
               \/ portal' = [portal EXCEPT ![r] = "sent"] /\ UNCHANGED reply
               \/ /\ portal' = [portal EXCEPT ![r] = "ended"]
                  /\ \E how \in {"refused", "lost"} : reply' = [reply EXCEPT ![r] = how]
        PROVE  PathOK(q)'
    <3>1. req[r].state = "posted"
      BY <1>13, RequestStartEffect
    <3>2. req[q].sentTo = 0 /\ portal[q] = "none" /\ at[q] = "none"
      BY <1>0, <2>4, <3>1 DEF RequestOK, PathOK
    <3>3. reply[q] \notin {"path", "refused", "lost"} /\ req[q].returned = "none"
      BY <1>0, <3>2 DEF PathOK
    <3>4. \/ portal'[q] = "sent" /\ reply'[q] = reply[q]
          \/ portal'[q] = "ended" /\ reply'[q] \in {"refused", "lost"}
      BY <1>0, <2>4
    <3> QED
      BY <1>0, <2>1, <2>4, <3>2, <3>3, <3>4 DEF PathOK
  <2> QED
    BY <2>2, <2>3, <2>4, <1>13, RequestStartEffect
<1>14. ASSUME NEW r \in Request, OnResponse(r) PROVE PathOK(q)'
  <2>1. /\ q # r => Stays(q)
        /\ q = r => response[r] \in Answer /\ Ends(r, response[r], FALSE)
        /\ UNCHANGED <<portal, at, reply, calls>>
    BY <1>14, ResponseEffect DEF OnResponse
  <2> QED
    BY <1>0, <2>1 DEF PathOK, Ends, Stays
<1>15. ASSUME NEW r \in Request, OnRequestTimeout(r) PROVE PathOK(q)'
  <2>1. /\ (q # r => Stays(q)) /\ (q = r => Ends(r, "timeout", FALSE))
        /\ UNCHANGED <<portal, at, reply, calls>>
    BY <1>15, TimeoutEffect DEF OnRequestTimeout
  <2> QED
    BY <1>0, <2>1 DEF PathOK, Ends, Stays
<1>16. ASSUME NEW r \in Request, OnMethodReturned(r) PROVE PathOK(q)'
  <2>1. UNCHANGED <<portal, at>> /\ reply' = [reply EXCEPT ![r] = "none"] /\ calls' = calls \ {r}
    BY <1>16 DEF OnMethodReturned, CallFinished
  <2>2. CASE q # r
    <3>1. Stays(q)
      BY <2>2, <1>16, MethodReturnedEffect
    <3> QED
      BY <1>0, <2>1, <2>2, <3>1 DEF PathOK, Stays
  <2>3. CASE q = r
    <3>1. /\ reply[r] = "path" /\ req'[r].state = req[r].state
          /\ \/ /\ req[r].state = "done" /\ req'[r].returned = req[r].returned
                /\ req'[r].closed \in {req[r].closed, at[r]}
             \/ req'[r].returned = at[r] /\ req'[r].closed = req[r].closed
      BY <1>16, MethodReturnedEffect DEF Same, Stays
    <3>2. at[r] # "none"
      BY <1>0, <2>3, <3>1 DEF PathOK
    <3> QED
      BY <1>0, <2>1, <2>3, <3>1, <3>2 DEF PathOK
  <2> QED
    BY <2>2, <2>3
<1>17. ASSUME NEW r \in Request, OnMethodFailed(r) PROVE PathOK(q)'
  <2>1. UNCHANGED <<portal, at>> /\ calls' = calls \ {r}
    BY <1>17 DEF OnMethodFailed, CallFinished
  <2>2. CASE q # r
    <3>1. Stays(q) /\ \E v : reply' = [reply EXCEPT ![r] = v]
      BY <2>2, <1>17, MethodFailedEffect
    <3> QED
      BY <1>0, <2>1, <2>2, <3>1 DEF PathOK, Stays
  <2>3. CASE q = r
    <3>1. /\ \E v \in {"missed", "none"} : reply' = [reply EXCEPT ![r] = v]
          /\ \/ req[r].state = "done" /\ Stays(r)
             \/ \E refused : Ends(r, "failed", refused)
      BY <1>17, MethodFailedEffect
    <3>2. reply'[q] \in {"missed", "none"}
      BY <1>0, <2>3, <3>1
    <3> QED
      BY <1>0, <2>1, <2>3, <3>1, <3>2 DEF PathOK, Ends, Stays
  <2> QED
    BY <2>2, <2>3
<1>18. ASSUME NEW c \in Caller, OnGrantInvalidated(c) PROVE PathOK(q)'
  BY <1>18, <1>0 DEF OnGrantInvalidated, PathOK
<1>19. CASE OwnerChanged
  <2>1. /\ IF req[q].state = "live" THEN Ends(q, "invalidated", FALSE) ELSE Stays(q)
        /\ UNCHANGED <<portal, at, reply, calls>>
    BY <1>19, OwnerChangedEffect DEF OwnerChanged
  <2> QED
    BY <1>0, <2>1 DEF PathOK, Ends, Stays
<1>20. CASE CancelRequests
  <2>1. /\ IF req[q].state = "live" THEN Ends(q, "cancelled", FALSE) ELSE Stays(q)
        /\ UNCHANGED <<portal, at, reply, calls>>
    BY <1>20, CancelRequestsEffect DEF CancelRequests
  <2> QED
    BY <1>0, <2>1 DEF PathOK, Ends, Stays
<1>21. CASE BeginDrain
  BY <1>21, <1>0 DEF BeginDrain, PathOK
<1>22. CASE DrainExpired
  BY <1>22, <1>0 DEF DrainExpired, PathOK
<1>23. CASE StopLoop
  BY <1>23, <1>0 DEF StopLoop, PathOK
<1>24. CASE OwnerChange
  BY <1>24, <1>0 DEF OwnerChange, PathOK
<1>25. ASSUME NEW r \in Request, PortalRefuses(r) PROVE PathOK(q)'
  BY <1>25, <1>0 DEF PortalRefuses, PathOK
<1>26. ASSUME NEW r \in Request, PortalExports(r) PROVE PathOK(q)'
  <2>1. CASE q # r
    BY <1>0, <1>26, <2>1 DEF PortalExports, PathOK
  <2>2. CASE q = r
    <3>1. /\ portal[q] = "sent" /\ portal'[q] = "open" /\ at'[q] \in Path
          /\ reply'[q] = (IF q \in calls THEN "path" ELSE "missed") /\ UNCHANGED <<req, calls>>
      BY <1>0, <1>26, <2>2, PortalRequestAssumption
            DEF PortalExports, PortalRequestAssumption, Path
    <3>2. at[q] = "none" /\ req[q].returned = "none" /\ req[q].closed \in {"none", "predicted"}
      BY <1>0, <3>1 DEF PathOK
    <3> QED
      BY <1>0, <3>1, <3>2 DEF PathOK, Path
  <2> QED
    BY <2>1, <2>2
<1>27. ASSUME NEW r \in Request, PortalResponds(r) PROVE PathOK(q)'
  BY <1>27, <1>0 DEF PortalResponds, PathOK
<1>28. ASSUME NEW r \in Request, ResponseDropped(r) PROVE PathOK(q)'
  BY <1>28, <1>0 DEF ResponseDropped, PathOK
<1>29. ASSUME NEW r \in Request, NEW p \in Path, CloseArrives(r, p) PROVE PathOK(q)'
  <2>1. portal'[q] \in {portal[q], "ended"} /\ UNCHANGED <<req, at, reply, calls>>
    BY <1>0, <1>29 DEF CloseArrives
  <2> QED
    BY <1>0, <2>1 DEF PathOK
<1>30. ASSUME NEW c \in Caller, SessionCloseArrives(c) PROVE PathOK(q)'
  BY <1>30, <1>0 DEF SessionCloseArrives, PathOK
<1>31. ASSUME NEW c \in Caller, PortalEndsSession(c) PROVE PathOK(q)'
  BY <1>31, <1>0 DEF PortalEndsSession, PathOK
<1>32. CASE UNCHANGED vars
  BY <1>32, <1>0 DEF vars, PathOK
<1> QED
  BY <1>1, <1>2, <1>3, <1>4, <1>5, <1>6, <1>7, <1>8, <1>9, <1>10, <1>11, <1>12, <1>13, <1>14,
     <1>15, <1>16, <1>17, <1>18, <1>19, <1>20, <1>21, <1>22, <1>23, <1>24, <1>25, <1>26, <1>27,
     <1>28, <1>29, <1>30, <1>31, <1>32, NextActions

\* A request given up on is closed: <1>a is the moment it ends, the other steps are
\* the reply, the export and the Close that come later.
LEMMA CloseStep ==
    ASSUME PortalRequestAssumption, TypeOK, ClientInv, [Next]_vars PROVE CloseInv'
<1> SUFFICES ASSUME NEW q \in Request PROVE CloseOK(q)'
  BY DEF CloseInv
<1>0. /\ CloseOK(q) /\ PathOK(q) /\ RequestOK(q) /\ req[q] \in RequestRecord
      /\ portal \in [Request -> {"none", "sent", "open", "ended"}]
      /\ at \in [Request -> Path \cup {"none"}]
      /\ reply \in [Request -> {"none", "path", "refused", "lost", "missed"}]
      /\ closes \in [Request -> SUBSET Path] /\ calls \in SUBSET Request
  BY DEF TypeOK, ClientInv, PathInv, RequestInv, CloseInv
<1>a. ASSUME NEW result \in {"timeout", "failed", "cancelled", "invalidated"},
             Ends(q, result, FALSE), UNCHANGED <<portal, at>>, req[q].state = "live",
             \/ UNCHANGED <<reply, calls>>
             \/ reply'[q] = "missed"
             \/ portal[q] = "ended"
      PROVE  CloseOK(q)'
  <2>1. req[q].sentTo # 0 /\ result \notin Answer
    BY <1>0, <1>a DEF RequestOK, Answer
  <2>2. /\ req'[q].closed = IF req[q].returned # "none" THEN req[q].returned ELSE "predicted"
        /\ closes'[q] = closes[q] \cup {req'[q].closed}
    BY <1>a, <2>1 DEF Ends
  <2>3. CASE portal[q] = "sent"
    <3>1. req[q].returned = "none"
      BY <1>0, <2>3 DEF PathOK
    <3> QED
      BY <1>a, <2>2, <2>3, <3>1 DEF CloseOK
  <2>4. CASE portal[q] = "open"
    <3>1. CASE req[q].returned # "none"
      <4>1. at[q] = req'[q].closed
        BY <1>0, <2>2, <3>1 DEF PathOK
      <4> QED
        BY <1>a, <2>2, <2>4, <4>1 DEF CloseOK
    <3>2. CASE req[q].returned = "none"
      <4>1. q \in calls /\ reply[q] = "path" /\ req'[q].closed = "predicted"
        BY <1>0, <1>a, <2>2, <2>4, <3>2 DEF PathOK
      <4> QED
        BY <1>a, <2>2, <2>4, <4>1 DEF CloseOK
    <3> QED
      BY <3>1, <3>2
  <2> QED
    BY <1>a, <2>3, <2>4 DEF CloseOK
<1> USE DEF callerVars, ownerVars, stopVars, busVars, sessionVars
<1>1. ASSUME NEW c \in Caller, ProbeStart(c) PROVE CloseOK(q)'
  BY <1>1, <1>0 DEF ProbeStart, CloseOK, Responded
<1>2. ASSUME NEW c \in Caller, ProbeSkip(c) PROVE CloseOK(q)'
  BY <1>2, <1>0 DEF ProbeSkip, CloseOK, Responded
<1>3. ASSUME NEW c \in Caller, ProbeDone(c) PROVE CloseOK(q)'
  BY <1>3, <1>0 DEF ProbeDone, CloseOK, Responded
<1>4. ASSUME NEW c \in Caller, Admit(c) PROVE CloseOK(q)'
  BY <1>4, <1>0 DEF Admit, CloseOK, Responded
<1>5. ASSUME NEW c \in Caller, CreateSession(c) PROVE CloseOK(q)'
  <2>1. Post(c, "create") /\ "create" \in Kind /\ UNCHANGED <<portal, at, reply, calls, closes>>
    BY <1>5 DEF CreateSession, Kind
  <2>2. req'[q] = req[q] \/ req'[q].state = "posted"
    BY <2>1, PostEffect
  <2> QED
    BY <1>0, <2>1, <2>2 DEF CloseOK, Responded
<1>6. ASSUME NEW c \in Caller, Created(c) PROVE CloseOK(q)'
  <2>1. CASE Succeeded(c, "create")
    <3>1. /\ Post(c, "acquire") /\ "acquire" \in Kind
          /\ UNCHANGED <<portal, at, reply, calls, closes>>
      BY <1>6, <2>1 DEF Created, Kind
    <3>2. req'[q] = req[q] \/ req'[q].state = "posted"
      BY <3>1, PostEffect
    <3> QED
      BY <1>0, <3>1, <3>2 DEF CloseOK, Responded
  <2>2. CASE ~Succeeded(c, "create")
    BY <1>0, <1>6, <2>2 DEF Created, CloseOK, Responded
  <2> QED
    BY <2>1, <2>2
<1>7. ASSUME NEW c \in Caller, Acquired(c) PROVE CloseOK(q)'
  BY <1>7, <1>0 DEF Acquired, CloseOK, Responded
<1>8. ASSUME NEW c \in Caller, Operation(c) PROVE CloseOK(q)'
  <2>1. Post(c, "sign") /\ "sign" \in Kind /\ UNCHANGED <<portal, at, reply, calls, closes>>
    BY <1>8 DEF Operation, Kind
  <2>2. req'[q] = req[q] \/ req'[q].state = "posted"
    BY <2>1, PostEffect
  <2> QED
    BY <1>0, <2>1, <2>2 DEF CloseOK, Responded
<1>9. ASSUME NEW c \in Caller, Signed(c) PROVE CloseOK(q)'
  BY <1>9, <1>0 DEF Signed, CloseOK, Responded
<1>10. ASSUME NEW c \in Caller, Release(c) PROVE CloseOK(q)'
  BY <1>10, <1>0 DEF Release, CloseOK, Responded
<1>11. CASE Finalize
  BY <1>11, <1>0 DEF Finalize, CloseOK, Responded
<1>12. CASE Free
  BY <1>12, <1>0 DEF Free, CloseOK, Responded
<1>13. ASSUME NEW r \in Request, RequestStart(r) PROVE CloseOK(q)'
  <2>1. UNCHANGED at
    BY <1>13 DEF RequestStart
  <2>2. CASE q # r
    <3>1. Stays(q)
      BY <2>2, <1>13, RequestStartEffect
    <3>2. portal'[q] = portal[q] /\ reply'[q] = reply[q] /\ (q \in calls' <=> q \in calls)
      BY <1>0, <2>2, <1>13 DEF RequestStart
    <3> QED
      BY <1>0, <2>1, <3>1, <3>2 DEF CloseOK, Responded, Stays
  <2>3. CASE q = r
    <3>1. req[q].state = "posted"
      BY <2>3, <1>13, RequestStartEffect
    <3>2. portal[q] = "none"
      BY <1>0, <3>1 DEF RequestOK
    <3>3. UNCHANGED portal \/ req'[q].state = "live"
      BY <2>3, <1>13, RequestStartEffect
    <3> QED
      BY <3>2, <3>3 DEF CloseOK
  <2> QED
    BY <2>2, <2>3
<1>14. ASSUME NEW r \in Request, OnResponse(r) PROVE CloseOK(q)'
  <2>1. /\ q # r => Stays(q)
        /\ q = r => response[r] \in Answer /\ Ends(r, response[r], FALSE)
        /\ UNCHANGED <<portal, at, reply, calls>>
    BY <1>14, ResponseEffect DEF OnResponse
  <2> QED
    BY <1>0, <2>1 DEF CloseOK, Ends, Stays, Responded
<1>15. ASSUME NEW r \in Request, OnRequestTimeout(r) PROVE CloseOK(q)'
  <2>1. /\ UNCHANGED <<portal, at, reply, calls>>
        /\ Stays(q) \/ (req[q].state = "live" /\ Ends(q, "timeout", FALSE))
    BY <1>15, TimeoutEffect DEF OnRequestTimeout
  <2> QED
    BY <1>0, <1>a, <2>1 DEF CloseOK, Responded, Stays
<1>16. ASSUME NEW r \in Request, OnMethodReturned(r) PROVE CloseOK(q)'
  <2>1. UNCHANGED <<portal, at>> /\ reply' = [reply EXCEPT ![r] = "none"] /\ calls' = calls \ {r}
    BY <1>16 DEF OnMethodReturned, CallFinished
  <2>2. CASE q # r
    <3>1. Stays(q)
      BY <2>2, <1>16, MethodReturnedEffect
    <3> QED
      BY <1>0, <2>1, <2>2, <3>1 DEF CloseOK, Stays, Responded
  <2>3. CASE q = r
    <3>1. reply[q] = "path" /\ portal[q] # "sent"
      BY <1>0, <2>3, <1>16, MethodReturnedEffect DEF PathOK
    <3>2. /\ req'[q].state = req[q].state /\ req'[q].result = req[q].result
          /\ \/ /\ req'[q].closed = at[q] /\ closes'[q] = closes[q] \cup {at[q]}
             \/ /\ Responded(q) \/ at[q] = req[q].closed
                /\ req'[q].closed = req[q].closed /\ closes'[q] = closes[q]
             \/ req[q].state # "done"
      BY <2>3, <1>16, MethodReturnedEffect DEF Same, Stays
    <3> QED
      BY <1>0, <2>1, <3>1, <3>2 DEF CloseOK, Responded
  <2> QED
    BY <2>2, <2>3
<1>17. ASSUME NEW r \in Request, OnMethodFailed(r) PROVE CloseOK(q)'
  <2>1. UNCHANGED <<portal, at>> /\ calls' = calls \ {r}
    BY <1>17 DEF OnMethodFailed, CallFinished
  <2>2. CASE q # r
    <3>1. Stays(q) /\ \E v : reply' = [reply EXCEPT ![r] = v]
      BY <2>2, <1>17, MethodFailedEffect
    <3> QED
      BY <1>0, <2>1, <2>2, <3>1 DEF CloseOK, Stays, Responded
  <2>3. CASE q = r
    <3>1. PICK how \in {"refused", "lost", "missed"} :
              /\ how = "missed" \/ how = reply[q]
              /\ reply' = [reply EXCEPT ![q] = IF how = "missed" THEN "missed" ELSE "none"]
              /\ IF req[q].state = "done" THEN Stays(q) ELSE Ends(q, "failed", how = "refused")
      BY <2>3, <1>17, MethodFailedEffect
    <3>2. how # "missed" => portal[q] = "ended"
      BY <1>0, <3>1 DEF PathOK
    <3>3. how = "missed" => reply'[q] = "missed"
      BY <1>0, <3>1
    <3>4. CASE req[q].state = "done"
      BY <1>0, <2>1, <3>1, <3>2, <3>3, <3>4 DEF CloseOK, Stays, Responded
    <3>5. CASE req[q].state # "done" /\ how = "missed"
      <4>1. Ends(q, "failed", FALSE)
        BY <3>1, <3>5
      <4>2. req[q].state = "live"
        BY <1>0, <2>3, <1>17, <3>5 DEF OnMethodFailed, TypeOK, RequestOK, RequestRecord
      <4> QED
        BY <1>a, <2>1, <3>3, <3>5, <4>1, <4>2
    <3>6. CASE how # "missed"
      BY <2>1, <3>2, <3>6 DEF CloseOK
    <3> QED
      BY <3>4, <3>5, <3>6
  <2> QED
    BY <2>2, <2>3
<1>18. ASSUME NEW c \in Caller, OnGrantInvalidated(c) PROVE CloseOK(q)'
  BY <1>18, <1>0 DEF OnGrantInvalidated, CloseOK, Responded
<1>19. CASE OwnerChanged
  <2>1. /\ UNCHANGED <<portal, at, reply, calls>>
        /\ Stays(q) \/ (req[q].state = "live" /\ Ends(q, "invalidated", FALSE))
    BY <1>19, OwnerChangedEffect DEF OwnerChanged
  <2> QED
    BY <1>0, <1>a, <2>1 DEF CloseOK, Responded, Stays
<1>20. CASE CancelRequests
  <2>1. /\ UNCHANGED <<portal, at, reply, calls>>
        /\ Stays(q) \/ (req[q].state = "live" /\ Ends(q, "cancelled", FALSE))
    BY <1>20, CancelRequestsEffect DEF CancelRequests
  <2> QED
    BY <1>0, <1>a, <2>1 DEF CloseOK, Responded, Stays
<1>21. CASE BeginDrain
  BY <1>21, <1>0 DEF BeginDrain, CloseOK, Responded
<1>22. CASE DrainExpired
  BY <1>22, <1>0 DEF DrainExpired, CloseOK, Responded
<1>23. CASE StopLoop
  BY <1>23, <1>0 DEF StopLoop, CloseOK, Responded
<1>24. CASE OwnerChange
  BY <1>24, <1>0 DEF OwnerChange, CloseOK, Responded
<1>25. ASSUME NEW r \in Request, PortalRefuses(r) PROVE CloseOK(q)'
  BY <1>25, <1>0 DEF PortalRefuses, CloseOK, Responded
<1>26. ASSUME NEW r \in Request, PortalExports(r) PROVE CloseOK(q)'
  <2>1. CASE q # r
    BY <1>0, <1>26, <2>1 DEF PortalExports, CloseOK, Responded
  <2>2. CASE q = r
    <3>1. /\ portal[q] = "sent" /\ portal'[q] = "open" /\ at'[q] \in Path
          /\ reply'[q] = (IF q \in calls THEN "path" ELSE "missed")
          /\ UNCHANGED <<req, calls, closes>>
      BY <1>0, <1>26, <2>2, PortalRequestAssumption
            DEF PortalExports, PortalRequestAssumption, Path
    <3>2. req[q].closed \in {"none", "predicted"}
      BY <1>0, <3>1 DEF PathOK
    <3> QED
      BY <1>0, <3>1, <3>2 DEF CloseOK, Path, Responded
  <2> QED
    BY <2>1, <2>2
<1>27. ASSUME NEW r \in Request, PortalResponds(r) PROVE CloseOK(q)'
  BY <1>27, <1>0 DEF PortalResponds, CloseOK, Responded
<1>28. ASSUME NEW r \in Request, ResponseDropped(r) PROVE CloseOK(q)'
  BY <1>28, <1>0 DEF ResponseDropped, CloseOK, Responded
<1>29. ASSUME NEW r \in Request, NEW p \in Path, CloseArrives(r, p) PROVE CloseOK(q)'
  <2>1. UNCHANGED <<req, at, reply, calls>>
    BY <1>29 DEF CloseArrives
  <2>2. CASE q # r
    <3>1. portal'[q] = portal[q] /\ closes'[q] = closes[q]
      BY <1>0, <2>2, <1>29 DEF CloseArrives
    <3> QED
      BY <1>0, <2>1, <3>1 DEF CloseOK, Responded
  <2>3. CASE q = r
    <3>1. /\ portal[q] # "sent" /\ closes'[q] = closes[q] \ {p}
          /\ portal'[q] = (IF portal[q] = "open" /\ at[q] = p THEN "ended" ELSE portal[q])
      BY <1>0, <2>3, <1>29 DEF CloseArrives
    <3> QED
      BY <1>0, <2>1, <3>1 DEF CloseOK, Responded
  <2> QED
    BY <2>2, <2>3
<1>30. ASSUME NEW c \in Caller, SessionCloseArrives(c) PROVE CloseOK(q)'
  BY <1>30, <1>0 DEF SessionCloseArrives, CloseOK, Responded
<1>31. ASSUME NEW c \in Caller, PortalEndsSession(c) PROVE CloseOK(q)'
  BY <1>31, <1>0 DEF PortalEndsSession, CloseOK, Responded
<1>32. CASE UNCHANGED vars
  BY <1>32, <1>0 DEF vars, CloseOK, Responded
<1> QED
  BY <1>1, <1>2, <1>3, <1>4, <1>5, <1>6, <1>7, <1>8, <1>9, <1>10, <1>11, <1>12, <1>13, <1>14,
     <1>15, <1>16, <1>17, <1>18, <1>19, <1>20, <1>21, <1>22, <1>23, <1>24, <1>25, <1>26, <1>27,
     <1>28, <1>29, <1>30, <1>31, <1>32, NextActions

\* A session lives with its owner, and whoever leaves it closes it.  Release is the
\* hard case: a grant that is gone has a closed session.
LEMMA SessionStep ==
    ASSUME PortalRequestAssumption, TypeOK, ClientInv, [Next]_vars PROVE SessionInv'
<1> SUFFICES ASSUME NEW q \in Caller PROVE SessionOK(q)'
  BY DEF SessionInv
<1>a. /\ SessionOK(q) /\ CallerOK(q) /\ view \in 0..epoch /\ epoch \in Nat
      /\ gen \in [Caller -> 0..MaxEpoch] /\ sessionClose \in SUBSET Caller
      /\ phase \in [Caller -> {"idle", "probing", "probed", "admitted", "creating", "acquiring",
                               "held", "signing", "released", "failed"}]
      /\ session \in [Caller -> {"none", "open", "granted", "closed"}]
      /\ portal \in [Request -> {"none", "sent", "open", "ended"}]
      /\ response \in [Request -> Answer \cup {"none"}]
  BY DEF TypeOK, ClientInv, CallerInv, SessionInv
<1>b. /\ "create" \in Kind /\ "acquire" \in Kind /\ "sign" \in Kind
      /\ \A k \in Kind : <<q, k>> \in Request /\ <<q, k>>[1] = q /\ <<q, k>>[2] = k
  BY Pairs DEF Kind
<1>c. \A k \in Kind : RequestOK(<<q, k>>)
  BY <1>b DEF ClientInv, RequestInv
<1>d. ASSUME NEW k \in Kind
      PROVE  /\ req[<<q, k>>].sentTo # 0 => HasOwner(gen[q])
             /\ req[<<q, k>>].state \in {"none", "posted"} => req[<<q, k>>].sentTo = 0
             /\ Responded(<<q, k>>) => req[<<q, k>>].sentTo # 0
             /\ portal[<<q, k>>] # "none" => req[<<q, k>>].sentTo # 0
             /\ response[<<q, k>>] # "none" => portal[<<q, k>>] = "ended"
  BY <1>b, <1>c DEF RequestOK
<1>e. Succeeded(q, "create") => req[<<q, "create">>].sentTo # 0
  BY <1>b, <1>d DEF Succeeded, Responded, Answer
<1>f. ASSUME UNCHANGED <<phase, gen, epoch, portal, response, session, sessionClose, invalidated,
                         notice>>,
             req'[<<q, "create">>].sentTo = req[<<q, "create">>].sentTo,
             Succeeded(q, "create")' => Succeeded(q, "create")
      PROVE  SessionOK(q)'
  BY <1>a, <1>f DEF SessionOK
<1> USE DEF callerVars, ownerVars, stopVars, busVars, sessionVars
<1>1. ASSUME NEW c \in Caller, ProbeStart(c) PROVE SessionOK(q)'
  BY <1>1, <1>a DEF ProbeStart, SessionOK, Succeeded
<1>2. ASSUME NEW c \in Caller, ProbeSkip(c) PROVE SessionOK(q)'
  BY <1>2, <1>a DEF ProbeSkip, SessionOK, Succeeded
<1>3. ASSUME NEW c \in Caller, ProbeDone(c) PROVE SessionOK(q)'
  <2>1. /\ UNCHANGED <<gen, epoch, portal, response, session, sessionClose, invalidated, notice,
                       req>>
        /\ phase[c] = "probing" /\ phase' = [phase EXCEPT ![c] = "probed"]
    BY <1>3 DEF ProbeDone
  <2> QED
    BY <1>a, <2>1 DEF SessionOK, Succeeded
<1>4. ASSUME NEW c \in Caller, Admit(c) PROVE SessionOK(q)'
  BY <1>4, <1>a DEF Admit, SessionOK, Succeeded
<1>5. ASSUME NEW c \in Caller, CreateSession(c) PROVE SessionOK(q)'
  <2>1. /\ phase[c] = "admitted" /\ phase' = [phase EXCEPT ![c] = "creating"]
        /\ gen' = [gen EXCEPT ![c] = view] /\ Post(c, "create")
        /\ UNCHANGED <<epoch, portal, response, session, sessionClose, invalidated, notice>>
    BY <1>5 DEF CreateSession
  <2>2. /\ req'[<<q, "create">>].sentTo = req[<<q, "create">>].sentTo
        /\ req'[<<q, "create">>].result = req[<<q, "create">>].result
    BY <1>b, <2>1, PostEffect
  <2>3. CASE q # c
    BY <1>a, <2>1, <2>2, <2>3 DEF SessionOK, Succeeded
  <2>4. CASE q = c
    <3>1. \A k \in Kind : req[<<q, k>>].state = "none"
      BY <1>a, <2>1, <2>4 DEF CallerOK
    <3>2. req[<<q, "create">>].sentTo = 0 /\ \A k \in Kind : portal[<<q, k>>] = "none"
      BY <1>b, <1>d, <3>1
    <3>3. session[q] = "none" /\ q \notin sessionClose
      BY <1>a, <3>2 DEF SessionOK
    <3> QED
      BY <1>a, <1>b, <2>1, <2>2, <3>2, <3>3 DEF SessionOK, Succeeded
  <2> QED
    BY <2>3, <2>4
<1>6. ASSUME NEW c \in Caller, Created(c) PROVE SessionOK(q)'
  <2>1. /\ phase[c] = "creating"
        /\ UNCHANGED <<gen, epoch, portal, response, session, sessionClose, invalidated, notice>>
        /\ \/ phase' = [phase EXCEPT ![c] = "acquiring"]
           \/ phase' = [phase EXCEPT ![c] = "failed"]
        /\ UNCHANGED req \/ Post(c, "acquire")
    BY <1>6 DEF Created
  <2>2. /\ req'[<<q, "create">>].sentTo = req[<<q, "create">>].sentTo
        /\ req'[<<q, "create">>].result = req[<<q, "create">>].result
    BY <1>b, <2>1, PostEffect
  <2>3. q = c => portal[<<q, "acquire">>] = "none"
    BY <1>a, <1>b, <1>d, <2>1 DEF CallerOK
  <2> QED
    BY <1>a, <2>1, <2>2, <2>3 DEF SessionOK, Succeeded
<1>7. ASSUME NEW c \in Caller, Acquired(c) PROVE SessionOK(q)'
  <2>1. /\ phase[c] = "acquiring"
        /\ UNCHANGED <<gen, epoch, portal, response, session, invalidated, notice, req>>
        /\ \/ phase' = [phase EXCEPT ![c] = "held"] /\ UNCHANGED sessionClose
           \/ /\ phase' = [phase EXCEPT ![c] = "failed"]
              /\ sessionClose' = sessionClose \cup {c}
    BY <1>7 DEF Acquired, CloseSession
  <2>2. q = c => req[<<q, "create">>].sentTo # 0
    BY <1>a, <1>e, <2>1 DEF CallerOK
  <2> QED
    BY <1>a, <2>1, <2>2 DEF SessionOK, Succeeded
<1>8. ASSUME NEW c \in Caller, Operation(c) PROVE SessionOK(q)'
  <2>1. /\ phase[c] = "held" /\ phase' = [phase EXCEPT ![c] = "signing"] /\ Post(c, "sign")
        /\ UNCHANGED <<gen, epoch, portal, response, session, sessionClose, invalidated, notice>>
    BY <1>8 DEF Operation
  <2>2. /\ req'[<<q, "create">>].sentTo = req[<<q, "create">>].sentTo
        /\ req'[<<q, "create">>].result = req[<<q, "create">>].result
    BY <1>b, <2>1, PostEffect
  <2> QED
    BY <1>a, <2>1, <2>2 DEF SessionOK, Succeeded
<1>9. ASSUME NEW c \in Caller, Signed(c) PROVE SessionOK(q)'
  BY <1>9, <1>a DEF Signed, Returned, SessionOK, Succeeded
<1>10. ASSUME NEW c \in Caller, Release(c) PROVE SessionOK(q)'
  <2>1. /\ phase[c] = "held" /\ phase' = [phase EXCEPT ![c] = "released"]
        /\ IF GrantGone(c) THEN UNCHANGED sessionClose ELSE sessionClose' = sessionClose \cup {c}
        /\ UNCHANGED <<gen, epoch, portal, response, session, invalidated, notice, req>>
    BY <1>10 DEF Release, CloseSession
  <2>2. CASE q # c
    BY <1>a, <2>1, <2>2 DEF SessionOK, Succeeded
  <2>3. CASE q = c
    <3>1. /\ Succeeded(q, "create") /\ req[<<q, "create">>].sentTo # 0 /\ HasOwner(gen[q])
          /\ gen[q] \in 0..view
      BY <1>a, <1>b, <1>d, <1>e, <2>1, <2>3 DEF CallerOK
    <3>2. CASE GrantGone(q)
      <4>1. session[q] # "none"
        BY <1>a, <3>1 DEF SessionOK
      <4>2. session[q] \in {"open", "granted"} => view = gen[q]
        BY <1>a, <3>1 DEF SessionOK
      <4>3. session[q] \in {"open", "granted"} => q \in invalidated
        BY <3>1, <3>2, <4>2 DEF GrantGone
      <4>4. session[q] = "closed"
        BY <1>a, <4>1, <4>3 DEF SessionOK
      <4> QED
        BY <1>a, <2>1, <2>3, <3>1, <3>2, <4>4 DEF SessionOK, Succeeded
    <3>3. CASE ~GrantGone(q)
      BY <1>a, <2>1, <2>3, <3>1, <3>3 DEF SessionOK, Succeeded
    <3> QED
      BY <3>2, <3>3
  <2> QED
    BY <2>2, <2>3
<1>11. CASE Finalize
  BY <1>11, <1>a DEF Finalize, SessionOK, Succeeded
<1>12. CASE Free
  BY <1>12, <1>a DEF Free, SessionOK, Succeeded
<1>13. ASSUME NEW r \in Request, RequestStart(r) PROVE SessionOK(q)'
  <2>1. UNCHANGED <<phase, gen, epoch, response, session, sessionClose, invalidated, notice>>
    BY <1>13 DEF RequestStart
  <2>2. CASE UNCHANGED portal
    <3>1. /\ \/ req'[<<q, "create">>].sentTo = req[<<q, "create">>].sentTo
             \/ req'[<<q, "create">>].sentTo = view /\ view # 0
          /\ Succeeded(q, "create")' => Succeeded(q, "create")
      BY <1>b, <1>13, RequestStartEffect, NoOwnerAtFirst DEF Ends, Stays, Succeeded, Current
    <3> QED
      BY <1>a, <2>1, <2>2, <3>1 DEF SessionOK
  <2>3. CASE portal' # portal
    <3>1. /\ req[r].state = "posted" /\ (r[1] = q => gen[q] = view)
          /\ \A p \in Request : p # r => Stays(p)
          /\ req'[r].result = req[r].result /\ req'[r].sentTo = view /\ view # 0
          /\ \/ view = epoch /\ portal' = [portal EXCEPT ![r] = "sent"]
             \/ portal' = [portal EXCEPT ![r] = "ended"]
      BY <2>3, <1>13, RequestStartEffect, NoOwnerAtFirst DEF Current, Ends
    <3>2. /\ req[<<q, "create">>].sentTo # 0 => req'[<<q, "create">>].sentTo # 0
          /\ Succeeded(q, "create")' => Succeeded(q, "create")
      BY <1>b, <3>1 DEF Stays, Succeeded
    <3>3. \A k \in Kind : portal'[<<q, k>>] \in {"sent", "open"} => gen[q] = epoch
      BY <1>a, <1>b, <3>1 DEF SessionOK
    <3>4. portal'[<<q, "acquire">>] # "none" =>
              portal[<<q, "acquire">>] # "none" \/ phase[q] = "acquiring"
      BY <1>a, <1>b, <3>1 DEF CallerOK
    <3> QED
      BY <1>a, <2>1, <3>2, <3>3, <3>4 DEF SessionOK
  <2> QED
    BY <2>2, <2>3
<1>14. ASSUME NEW r \in Request, OnResponse(r) PROVE SessionOK(q)'
  <2>1. /\ UNCHANGED <<phase, gen, epoch, portal, session, sessionClose, invalidated, notice>>
        /\ response' = [response EXCEPT ![r] = "none"]
    BY <1>14 DEF OnResponse
  <2>2. \/ Stays(<<q, "create">>)
        \/ r = <<q, "create">> /\ Ends(r, response[r], FALSE)
    BY <1>b, <1>14, ResponseEffect
  <2>3. response'[<<q, "create">>] = "ok" => response[<<q, "create">>] = "ok"
    BY <1>a, <1>b, <2>1
  <2>4. /\ req'[<<q, "create">>].sentTo = req[<<q, "create">>].sentTo
        /\ Succeeded(q, "create")' => Succeeded(q, "create") \/ response[<<q, "create">>] = "ok"
    BY <2>2 DEF Ends, Stays, Succeeded
  <2> QED
    BY <1>a, <2>1, <2>3, <2>4 DEF SessionOK
<1>15. ASSUME NEW r \in Request, OnRequestTimeout(r) PROVE SessionOK(q)'
  <2>1. /\ UNCHANGED <<phase, gen, epoch, portal, response, session, sessionClose, invalidated,
                  notice>>
        /\ \/ Stays(<<q, "create">>)
           \/ Ends(<<q, "create">>, "timeout", FALSE)
    BY <1>b, <1>15, TimeoutEffect DEF OnRequestTimeout
  <2> QED
    BY <1>f, <2>1 DEF Ends, Stays, Succeeded
<1>16. ASSUME NEW r \in Request, OnMethodReturned(r) PROVE SessionOK(q)'
  <2>1. /\ Same(<<q, "create">>)
        /\ UNCHANGED <<phase, gen, epoch, portal, response, session, sessionClose, invalidated,
                  notice>>
    BY <1>b, <1>16, MethodReturnedEffect DEF OnMethodReturned
  <2> QED
    BY <1>f, <2>1 DEF Same, Succeeded
<1>17. ASSUME NEW r \in Request, OnMethodFailed(r) PROVE SessionOK(q)'
  <2>1. UNCHANGED <<phase, gen, epoch, portal, response, session, sessionClose, invalidated,
                  notice>>
    BY <1>17 DEF OnMethodFailed
  <2>2. Stays(<<q, "create">>) \/ \E refused : Ends(<<q, "create">>, "failed", refused)
    BY <1>b, <1>17, MethodFailedEffect
  <2> QED
    BY <1>f, <2>1, <2>2 DEF Ends, Stays, Succeeded
<1>18. ASSUME NEW c \in Caller, OnGrantInvalidated(c) PROVE SessionOK(q)'
  BY <1>18, <1>a DEF OnGrantInvalidated, SessionOK, Succeeded
<1>19. CASE OwnerChanged
  <2>1. /\ UNCHANGED <<phase, gen, epoch, portal, response, session, sessionClose, invalidated,
                  notice>>
        /\ \/ Stays(<<q, "create">>)
           \/ Ends(<<q, "create">>, "invalidated", FALSE)
    BY <1>b, <1>19, OwnerChangedEffect DEF OwnerChanged
  <2> QED
    BY <1>f, <2>1 DEF Ends, Stays, Succeeded
<1>20. CASE CancelRequests
  <2>1. /\ UNCHANGED <<phase, gen, epoch, portal, response, session, sessionClose, invalidated,
                  notice>>
        /\ \/ Stays(<<q, "create">>)
           \/ Ends(<<q, "create">>, "cancelled", FALSE)
    BY <1>b, <1>20, CancelRequestsEffect DEF CancelRequests
  <2> QED
    BY <1>f, <2>1 DEF Ends, Stays, Succeeded
<1>21. CASE BeginDrain
  BY <1>21, <1>a DEF BeginDrain, SessionOK, Succeeded
<1>22. CASE DrainExpired
  BY <1>22, <1>a DEF DrainExpired, SessionOK, Succeeded
<1>23. CASE StopLoop
  BY <1>23, <1>a DEF StopLoop, SessionOK, Succeeded
<1>24. CASE OwnerChange
  <2>1. /\ UNCHANGED <<phase, gen, response, sessionClose, invalidated, notice, req>>
        /\ session'[q] = (IF session[q] = "none" THEN "none" ELSE "closed")
        /\ \A r \in Request : portal'[r] = IF portal[r] = "none" THEN "none" ELSE "ended"
    BY <1>24 DEF OwnerChange
  <2>2. \A k \in Kind : portal'[<<q, k>>] = IF portal[<<q, k>>] = "none" THEN "none" ELSE "ended"
    BY <1>b, <2>1
  <2> QED
    BY <1>a, <1>b, <2>1, <2>2 DEF SessionOK, Succeeded
<1>25. ASSUME NEW r \in Request, PortalRefuses(r) PROVE SessionOK(q)'
  <2>1. /\ UNCHANGED <<phase, gen, epoch, response, session, sessionClose, invalidated, notice,
                       req>>
        /\ portal[r] = "sent" /\ portal' = [portal EXCEPT ![r] = "ended"]
    BY <1>25 DEF PortalRefuses
  <2>2. \A k \in Kind : \/ portal'[<<q, k>>] = portal[<<q, k>>]
                        \/ portal'[<<q, k>>] = "ended" /\ portal[<<q, k>>] = "sent"
    BY <1>a, <1>b, <2>1
  <2> QED
    BY <1>a, <1>b, <2>1, <2>2 DEF SessionOK, Succeeded
<1>26. ASSUME NEW r \in Request, PortalExports(r) PROVE SessionOK(q)'
  <2>1. /\ UNCHANGED <<phase, gen, epoch, response, session, sessionClose, invalidated, notice,
                       req>>
        /\ portal[r] = "sent" /\ portal' = [portal EXCEPT ![r] = "open"]
    BY <1>26 DEF PortalExports
  <2>2. \A k \in Kind : \/ portal'[<<q, k>>] = portal[<<q, k>>]
                        \/ portal'[<<q, k>>] = "open" /\ portal[<<q, k>>] = "sent"
    BY <1>a, <1>b, <2>1
  <2> QED
    BY <1>a, <1>b, <2>1, <2>2 DEF SessionOK, Succeeded
<1>27. ASSUME NEW r \in Request, PortalResponds(r) PROVE SessionOK(q)'
  <2>1. /\ UNCHANGED <<phase, gen, epoch, sessionClose, invalidated, notice, req>>
        /\ portal[r] = "open" /\ portal' = [portal EXCEPT ![r] = "ended"]
    BY <1>27 DEF PortalResponds
  <2>2. \A k \in Kind : \/ portal'[<<q, k>>] = portal[<<q, k>>]
                        \/ portal'[<<q, k>>] = "ended" /\ portal[<<q, k>>] = "open"
    BY <1>a, <1>b, <2>1
  <2>3. CASE session'[q] = session[q]
    <3>1. response'[<<q, "create">>] = "ok" =>
              response[<<q, "create">>] = "ok" \/ session[q] # "none"
      BY <1>a, <1>b, <1>27, <2>3 DEF PortalResponds
    <3> QED
      BY <1>a, <1>b, <2>1, <2>2, <2>3, <3>1 DEF SessionOK, Succeeded
  <2>4. CASE session'[q] # session[q]
    <3>1. /\ r[1] = q /\ r \in Request
          /\ \/ r[2] = "create" /\ session[q] = "none" /\ session'[q] = "open"
             \/ r[2] = "acquire" /\ session[q] = "open" /\ session'[q] = "granted"
      BY <1>a, <1>27, <2>4, Pairs DEF PortalResponds
    <3>2. gen[q] = epoch /\ req[<<q, "create">>].sentTo # 0
      <4>1. r = <<q, r[2]>> /\ r[2] \in Kind
        BY <3>1, Pairs
      <4>2. gen[q] = epoch
        BY <1>a, <2>1, <4>1 DEF SessionOK
      <4>3. r[2] = "create" => req[<<q, "create">>].sentTo # 0
        BY <1>d, <2>1, <4>1
      <4> QED
        BY <1>a, <3>1, <4>2, <4>3 DEF SessionOK
    <3>3. session'[q] = "granted" => portal[<<q, "acquire">>] # "none"
      BY <2>1, <3>1, Pairs
    <3> QED
      BY <1>a, <1>b, <2>1, <2>2, <3>1, <3>2, <3>3 DEF SessionOK, Succeeded
  <2> QED
    BY <2>3, <2>4
<1>28. ASSUME NEW r \in Request, ResponseDropped(r) PROVE SessionOK(q)'
  <2>1. /\ UNCHANGED <<phase, gen, epoch, portal, session, sessionClose, invalidated, notice,
                       req>>
        /\ response' = [response EXCEPT ![r] = "none"]
    BY <1>28 DEF ResponseDropped
  <2>2. response'[<<q, "create">>] = "ok" => response[<<q, "create">>] = "ok"
    BY <1>a, <1>b, <2>1
  <2> QED
    BY <1>a, <2>1, <2>2 DEF SessionOK, Succeeded
<1>29. ASSUME NEW r \in Request, NEW p \in Path, CloseArrives(r, p) PROVE SessionOK(q)'
  <2>1. UNCHANGED <<phase, gen, epoch, response, session, sessionClose, invalidated, notice,
                    req>>
    BY <1>29 DEF CloseArrives
  <2>2. \A k \in Kind : \/ portal'[<<q, k>>] = portal[<<q, k>>]
                        \/ portal'[<<q, k>>] = "ended" /\ portal[<<q, k>>] = "open"
    BY <1>a, <1>b, <1>29 DEF CloseArrives
  <2> QED
    BY <1>a, <1>b, <2>1, <2>2 DEF SessionOK, Succeeded
<1>30. ASSUME NEW c \in Caller, SessionCloseArrives(c) PROVE SessionOK(q)'
  BY <1>30, <1>a DEF SessionCloseArrives, SessionOK, Succeeded
<1>31. ASSUME NEW c \in Caller, PortalEndsSession(c) PROVE SessionOK(q)'
  BY <1>31, <1>a DEF PortalEndsSession, SessionOK, Succeeded
<1>32. CASE UNCHANGED vars
  BY <1>32, <1>a DEF vars, SessionOK, Succeeded
<1> QED
  BY <1>1, <1>2, <1>3, <1>4, <1>5, <1>6, <1>7, <1>8, <1>9, <1>10, <1>11, <1>12, <1>13, <1>14,
     <1>15, <1>16, <1>17, <1>18, <1>19, <1>20, <1>21, <1>22, <1>23, <1>24, <1>25, <1>26, <1>27,
     <1>28, <1>29, <1>30, <1>31, <1>32, NextActions


-----------------------------------------------------------------------------
\* The initial states satisfy the invariant.
LEMMA ClientStart == ASSUME PortalRequestAssumption, Init PROVE TypeOK /\ ClientInv
<1>1. MaxEpoch \in Nat \ {0} /\ epoch \in {0, 1}
  BY DEF PortalRequestAssumption, Init
<1>2. CallerTypes /\ OwnerTypes /\ StopTypes /\ SessionTypes
  <2>1. CallerTypes /\ StopTypes /\ SessionTypes
    BY <1>1 DEF Init, CallerTypes, StopTypes, SessionTypes
  <2>2. dirty \in BOOLEAN
    BY DEF Init
  <2>3. view = epoch /\ available = 0 /\ retry = FALSE /\ probed = 0 /\ invalidated = {}
    BY DEF Init
  <2>4. epoch \in 0..MaxEpoch /\ epoch \in 0..epoch /\ 0 \in 0..MaxEpoch
    BY <1>1
  <2>5. view \in 0..epoch /\ available \in 0..MaxEpoch /\ probed \in 0..MaxEpoch
    BY <2>3, <2>4
  <2> QED
    BY <2>1, <2>2, <2>3, <2>4, <2>5 DEF OwnerTypes
<1>3. RequestTypes /\ BusTypes
  BY <1>1 DEF Init, RequestTypes, BusTypes, RequestRecord
<1>4. RequestInv /\ PathInv /\ CloseInv
  BY DEF Init, RequestInv, PathInv, CloseInv, RequestOK, PathOK, CloseOK, Responded, Answer
<1>5. CallerInv /\ SessionInv
  <2> SUFFICES ASSUME NEW c \in Caller PROVE CallerOK(c) /\ SessionOK(c)
    BY DEF CallerInv, SessionInv
  <2>1. \A k \in Kind : /\ <<c, k>> \in Request /\ req[<<c, k>>].state = "none"
                        /\ req[<<c, k>>].result = "none" /\ portal[<<c, k>>] = "none"
                        /\ response[<<c, k>>] = "none"
    BY Pairs DEF Init
  <2>2. CallerOK(c)
    BY <1>1, <2>1 DEF Init, CallerOK, Kind
  <2>3. SessionOK(c)
    BY <2>1 DEF Init, SessionOK, Kind, Succeeded
  <2> QED
    BY <2>2, <2>3
<1>6. StopInv
  BY DEF Init, StopInv
<1> QED
  BY <1>2, <1>3, <1>4, <1>5, <1>6, TypeParts DEF ClientInv

\* Every variable keeps its type, and the client's requests, callers, paths and
\* sessions keep the invariant that the theorems below rest on (portal.c).
THEOREM ClientInvariant == Spec => [](TypeOK /\ ClientInv)
<1>1. Init => TypeOK /\ ClientInv
  BY ClientStart, PortalRequestAssumption
<1>2. TypeOK /\ ClientInv /\ [Next]_vars => (TypeOK /\ ClientInv)'
  <2> SUFFICES ASSUME TypeOK, ClientInv, [Next]_vars PROVE TypeOK' /\ ClientInv'
    OBVIOUS
  <2>1. TypeOK'
    BY TypeStep, PortalRequestAssumption
  <2>2. RequestInv' /\ CallerInv' /\ StopInv'
    BY RequestStep, CallersStep, StopStep, PortalRequestAssumption
  <2>3. PathInv' /\ CloseInv' /\ SessionInv'
    BY PathStep, CloseStep, SessionStep, PortalRequestAssumption
  <2> QED
    BY <2>1, <2>2, <2>3 DEF ClientInv
<1> QED
  BY <1>1, <1>2, PTL DEF Spec

\* Every variable keeps its type: the state the module's portal client can be in.
THEOREM TypeCorrect == Spec => []TypeOK
BY ClientInvariant, PTL

\* The requests of one acquisition and the operations under its grant go to one
\* owner of the bus name, the one its caller saw (request_start).
THEOREM RequestsStayWithOneOwner == Spec => []SessionStaysWithItsOwner
<1>1. TypeOK /\ ClientInv => SessionStaysWithItsOwner
  <2> SUFFICES ASSUME ClientInv, NEW c \in Caller, NEW k \in {"acquire", "sign"},
                      req[<<c, k>>].sentTo # 0, TypeOK
               PROVE  req[<<c, k>>].sentTo = req[<<c, "create">>].sentTo
    BY DEF SessionStaysWithItsOwner
  <2>1. /\ <<c, k>> \in Request /\ <<c, k>>[1] = c
        /\ <<c, "create">> \in Request /\ <<c, "create">>[1] = c
    BY Pairs DEF Kind
  <2>2. req[<<c, k>>].sentTo = gen[c] /\ req[<<c, k>>].state # "none"
    BY <2>1 DEF ClientInv, RequestInv, RequestOK
  <2>3. Succeeded(c, "create")
    BY <2>2 DEF ClientInv, CallerInv, CallerOK
  <2>4. req[<<c, "create">>].sentTo # 0
    BY <2>1, <2>3 DEF ClientInv, RequestInv, RequestOK, Succeeded, Responded, Answer
  <2>5. req[<<c, "create">>].sentTo = gen[c]
    BY <2>1, <2>4 DEF ClientInv, RequestInv, RequestOK
  <2> QED
    BY <2>2, <2>5
<1> QED
  BY <1>1, ClientInvariant, PTL

\* The client's thread stops with no caller waiting for it, and with no method
\* callback outstanding unless the grace periods have passed (begin_drain).
THEOREM ThreadStopsWithoutDebts == Spec => []StoppedLoopOwesNothing
<1>1. TypeOK /\ ClientInv => StoppedLoopOwesNothing
  <2> SUFFICES ASSUME ClientInv, loop \in {"stopping", "forced", "stopped", "killed"}
               PROVE  /\ \A r \in Request : req[r].state \notin {"posted", "live"}
                      /\ loop \in {"stopping", "stopped"} => calls = {}
    BY DEF StoppedLoopOwesNothing
  <2>1. StopInv
    BY DEF ClientInv
  <2>2. \A c \in Caller : phase[c] \in {"idle", "failed", "released"}
    BY <2>1 DEF StopInv
  <2>3. \A c \in Caller, k \in Kind : req[<<c, k>>].state \notin {"posted", "live"}
    BY <2>2 DEF ClientInv, CallerInv, CallerOK, Kind
  <2>4. \A r \in Request : req[r].state \notin {"posted", "live"}
    BY <2>3, Pairs
  <2> QED
    BY <2>1, <2>4 DEF StopInv
<1> QED
  BY <1>1, ClientInvariant, PTL

\* A grant at the portal has a holder or its Session.Close is on the way
\* (portal_client_acquire, release_grant).
THEOREM GrantsHaveHolders == Spec => []NoOrphanGrant
<1>1. TypeOK /\ ClientInv => NoOrphanGrant
  BY DEF ClientInv, SessionInv, SessionOK, NoOrphanGrant
<1> QED
  BY <1>1, ClientInvariant, PTL

\* A request that was given up on is closed where it was exported, or the reply
\* that says where is on its way; one at another path than predicted whose reply
\* was missed is all that can stay (request_complete, on_method_returned).
THEOREM AbandonedRequestsAreClosed == Spec => []AbandonedRequestIsClosed
<1>1. TypeOK /\ ClientInv => AbandonedRequestIsClosed
  <2> SUFFICES ASSUME TypeOK, ClientInv, NEW r \in Request, req[r].state = "done",
                      ~Responded(r), portal[r] = "open"
               PROVE  \/ at[r] \in closes[r]
                      \/ r \in calls /\ reply[r] = "path" /\ Looping
                      \/ at[r] = "other" /\ (reply[r] = "missed" \/ loop = "killed")
    BY DEF AbandonedRequestIsClosed
  <2>1. PathOK(r) /\ CloseOK(r) /\ StopInv
    BY DEF ClientInv, PathInv, CloseInv
  <2>2. at[r] \in {"predicted", "other"}
    BY <2>1 DEF TypeOK, PathOK, Path
  <2>3. /\ at[r] = "predicted" => at[r] \in closes[r]
        /\ \/ at[r] \in closes[r] \/ reply[r] = "missed"
           \/ r \in calls /\ reply[r] = "path"
    BY <2>1 DEF CloseOK
  <2>4. r \in calls => Looping \/ loop = "killed"
    BY <2>1 DEF StopInv, Looping
  <2> QED
    BY <2>2, <2>3, <2>4
<1> QED
  BY <1>1, ClientInvariant, PTL

\* The portal counts as available only on the word of its current owner: an
\* answer of an earlier one is dropped (probe_capabilities, owner_changed).
THEOREM AvailabilityFollowsTheOwner == Spec => []AvailabilityIsCurrent
<1>1. Init => AvailabilityIsCurrent
  BY DEF Init, AvailabilityIsCurrent
<1>2. AvailabilityIsCurrent /\ [Next]_vars => AvailabilityIsCurrent'
  <2> SUFFICES ASSUME AvailabilityIsCurrent, [Next]_vars PROVE AvailabilityIsCurrent'
    OBVIOUS
  <2> USE DEF callerVars, ownerVars, stopVars, busVars, sessionVars
  <2>a. AvailabilityIsCurrent
    OBVIOUS
  <2>1. ASSUME NEW c \in Caller, ProbeStart(c) PROVE AvailabilityIsCurrent'
    BY <2>1, <2>a DEF ProbeStart, AvailabilityIsCurrent
  <2>2. ASSUME NEW c \in Caller, ProbeSkip(c) PROVE AvailabilityIsCurrent'
    BY <2>2, <2>a DEF ProbeSkip, AvailabilityIsCurrent
  <2>3. ASSUME NEW c \in Caller, ProbeDone(c) PROVE AvailabilityIsCurrent'
    <3>1. PICK answered \in BOOLEAN, mechanisms \in BOOLEAN :
          AcceptCapabilities(answered, mechanisms)
      BY <2>3 DEF ProbeDone
    <3>2. view' = view /\ available' \in {available, view, 0}
      BY <2>3, <3>1 DEF ProbeDone, AcceptCapabilities
    <3> QED
      BY <2>a, <3>2 DEF AvailabilityIsCurrent
  <2>4. ASSUME NEW c \in Caller, Admit(c) PROVE AvailabilityIsCurrent'
    BY <2>4, <2>a DEF Admit, AvailabilityIsCurrent
  <2>5. ASSUME NEW c \in Caller, CreateSession(c) PROVE AvailabilityIsCurrent'
    BY <2>5, <2>a DEF CreateSession, AvailabilityIsCurrent
  <2>6. ASSUME NEW c \in Caller, Created(c) PROVE AvailabilityIsCurrent'
    BY <2>6, <2>a DEF Created, AvailabilityIsCurrent
  <2>7. ASSUME NEW c \in Caller, Acquired(c) PROVE AvailabilityIsCurrent'
    BY <2>7, <2>a DEF Acquired, AvailabilityIsCurrent
  <2>8. ASSUME NEW c \in Caller, Operation(c) PROVE AvailabilityIsCurrent'
    BY <2>8, <2>a DEF Operation, AvailabilityIsCurrent
  <2>9. ASSUME NEW c \in Caller, Signed(c) PROVE AvailabilityIsCurrent'
    BY <2>9, <2>a DEF Signed, AvailabilityIsCurrent
  <2>10. ASSUME NEW c \in Caller, Release(c) PROVE AvailabilityIsCurrent'
    BY <2>10, <2>a DEF Release, AvailabilityIsCurrent
  <2>11. CASE Finalize
    BY <2>11, <2>a DEF Finalize, AvailabilityIsCurrent
  <2>12. CASE Free
    BY <2>12, <2>a DEF Free, AvailabilityIsCurrent
  <2>13. ASSUME NEW r \in Request, RequestStart(r) PROVE AvailabilityIsCurrent'
    BY <2>13, <2>a DEF RequestStart, AvailabilityIsCurrent
  <2>14. ASSUME NEW r \in Request, OnResponse(r) PROVE AvailabilityIsCurrent'
    BY <2>14, <2>a DEF OnResponse, AvailabilityIsCurrent
  <2>15. ASSUME NEW r \in Request, OnRequestTimeout(r) PROVE AvailabilityIsCurrent'
    BY <2>15, <2>a DEF OnRequestTimeout, AvailabilityIsCurrent
  <2>16. ASSUME NEW r \in Request, OnMethodReturned(r) PROVE AvailabilityIsCurrent'
    BY <2>16, <2>a DEF OnMethodReturned, AvailabilityIsCurrent
  <2>17. ASSUME NEW r \in Request, OnMethodFailed(r) PROVE AvailabilityIsCurrent'
    BY <2>17, <2>a DEF OnMethodFailed, AvailabilityIsCurrent
  <2>18. ASSUME NEW c \in Caller, OnGrantInvalidated(c) PROVE AvailabilityIsCurrent'
    BY <2>18, <2>a DEF OnGrantInvalidated, AvailabilityIsCurrent
  <2>19. CASE OwnerChanged
    BY <2>19 DEF OwnerChanged, AvailabilityIsCurrent
  <2>20. CASE CancelRequests
    BY <2>20, <2>a DEF CancelRequests, AvailabilityIsCurrent
  <2>21. CASE BeginDrain
    BY <2>21, <2>a DEF BeginDrain, AvailabilityIsCurrent
  <2>22. CASE DrainExpired
    BY <2>22, <2>a DEF DrainExpired, AvailabilityIsCurrent
  <2>23. CASE StopLoop
    BY <2>23, <2>a DEF StopLoop, AvailabilityIsCurrent
  <2>24. CASE OwnerChange
    BY <2>24, <2>a DEF OwnerChange, AvailabilityIsCurrent
  <2>25. ASSUME NEW r \in Request, PortalRefuses(r) PROVE AvailabilityIsCurrent'
    BY <2>25, <2>a DEF PortalRefuses, AvailabilityIsCurrent
  <2>26. ASSUME NEW r \in Request, PortalExports(r) PROVE AvailabilityIsCurrent'
    BY <2>26, <2>a DEF PortalExports, AvailabilityIsCurrent
  <2>27. ASSUME NEW r \in Request, PortalResponds(r) PROVE AvailabilityIsCurrent'
    BY <2>27, <2>a DEF PortalResponds, AvailabilityIsCurrent
  <2>28. ASSUME NEW r \in Request, ResponseDropped(r) PROVE AvailabilityIsCurrent'
    BY <2>28, <2>a DEF ResponseDropped, AvailabilityIsCurrent
  <2>29. ASSUME NEW r \in Request, NEW p \in Path, CloseArrives(r, p)
        PROVE AvailabilityIsCurrent'
    BY <2>29, <2>a DEF CloseArrives, AvailabilityIsCurrent
  <2>30. ASSUME NEW c \in Caller, SessionCloseArrives(c) PROVE AvailabilityIsCurrent'
    BY <2>30, <2>a DEF SessionCloseArrives, AvailabilityIsCurrent
  <2>31. ASSUME NEW c \in Caller, PortalEndsSession(c) PROVE AvailabilityIsCurrent'
    BY <2>31, <2>a DEF PortalEndsSession, AvailabilityIsCurrent
  <2>32. CASE UNCHANGED vars
    BY <2>32, <2>a DEF vars, AvailabilityIsCurrent
  <2> QED
    BY <2>1, <2>2, <2>3, <2>4, <2>5, <2>6, <2>7, <2>8, <2>9, <2>10, <2>11, <2>12, <2>13, <2>14,
       <2>15, <2>16, <2>17, <2>18, <2>19, <2>20, <2>21, <2>22, <2>23, <2>24, <2>25, <2>26, <2>27,
       <2>28, <2>29, <2>30, <2>31, <2>32, NextActions
<1> QED
  BY <1>1, <1>2, PTL DEF Spec
=============================================================================
