--------------------------- MODULE GrantLifecycle ---------------------------
(***************************************************************************)
(* What the core promises its callers, without its threads: every request  *)
(* is answered by one decision; a success is decided only while the        *)
(* session lives; one acquisition at a time holds the session's grant, and *)
(* gives it back unless it succeeds; signatures use only a grant whose     *)
(* acquisition has succeeded.                                              *)
(***************************************************************************)
CONSTANTS Session, Acquire, Sign, SessionOf, NoRequest

Request == Acquire \cup Sign

VARIABLES
    life,    \* of each session: none, alive, ended
    holder,  \* the acquisition that holds the session's grant
    answer   \* of each request: waiting, ok, error

lifecycleVars == <<life, holder, answer>>

Usable(s) == holder[s] # NoRequest /\ answer[holder[s]] = "ok"

GrantInit ==
    /\ life = [s \in Session |-> "none"]
    /\ holder = [s \in Session |-> NoRequest]
    /\ answer = [r \in Request |-> "waiting"]

OpenSession(s) ==
    /\ life[s] = "none"
    /\ life' = [life EXCEPT ![s] = "alive"]
    /\ UNCHANGED <<holder, answer>>

\* Close, invalidation, owner change or shutdown: several sessions may end at once.
EndSome(S) ==
    /\ \A s \in S : life[s] = "alive"
    /\ life' = [s \in Session |-> IF s \in S THEN "ended" ELSE life[s]]
    /\ UNCHANGED <<holder, answer>>

Take(r) ==
    /\ answer[r] = "waiting" /\ life[SessionOf[r]] = "alive" /\ holder[SessionOf[r]] = NoRequest
    /\ holder' = [holder EXCEPT ![SessionOf[r]] = r]
    /\ UNCHANGED <<life, answer>>

GiveBack(r) ==
    /\ answer[r] = "waiting" /\ holder[SessionOf[r]] = r
    /\ holder' = [holder EXCEPT ![SessionOf[r]] = NoRequest]
    /\ UNCHANGED <<life, answer>>

Succeed(r) ==
    /\ answer[r] = "waiting" /\ life[SessionOf[r]] = "alive"
    /\ IF r \in Acquire THEN holder[SessionOf[r]] = r ELSE Usable(SessionOf[r])
    /\ answer' = [answer EXCEPT ![r] = "ok"]
    /\ UNCHANGED <<life, holder>>

Refuse(r) ==
    /\ answer[r] = "waiting" /\ holder[SessionOf[r]] # r
    /\ answer' = [answer EXCEPT ![r] = "error"]
    /\ UNCHANGED <<life, holder>>

GrantNext ==
    \/ \E s \in Session : OpenSession(s)
    \/ \E S \in SUBSET Session : EndSome(S)
    \/ \E r \in Acquire : Take(r) \/ GiveBack(r)
    \/ \E r \in Request : Succeed(r) \/ Refuse(r)

GrantSpec == GrantInit /\ [][GrantNext]_lifecycleVars
=============================================================================
