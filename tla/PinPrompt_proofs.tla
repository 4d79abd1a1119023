-------------------------- MODULE PinPrompt_proofs --------------------------
(***************************************************************************)
(* What TLAPS proves of the PIN prompts, for every set of prompts and      *)
(* every card, with any dialog (Spec) and with the system prompter's       *)
(* (SystemSpec).                                                           *)
(***************************************************************************)
EXTENDS SystemPin, SequenceTheorems, FiniteSetTheorems, TLAPS

AtWork == {"refresh", "open", "login"}

(* The queue holds every waiting prompt at most once, behind an active one. *)
QueueInv ==
  /\ active = None => queue = <<>>
  /\ \A i \in DOMAIN queue : stage[queue[i]] = "queued"
  /\ \A i, j \in DOMAIN queue : queue[i] = queue[j] => i = j

(* Who is at work is active, and a worker runs only where it is awaited. *)
ActiveInv ==
  /\ active # None => stage[active] \in AtWork
  /\ \A p \in Prompt : /\ stage[p] \in AtWork => active = p
                       /\ worker[p] = "running" => InFlight(p)

(* A dialog belongs to a prompt that is at work, and its replies start a   *)
(* login only there.                                                       *)
DialogInv ==
  \A p \in Prompt :
    /\ inter[p] = "shown" => stage[p] = "open"
    /\ inter[p] = "ready" => stage[p] \in {"open", "login"}
    /\ warned[p] # "no" => inter[p] = "ready"

(* A prompt that may log in again has an attempt left. *)
AttemptInv ==
  \A p \in Prompt :
    /\ stage[p] # "login" => attempts[p] < MaxAttempts
    /\ stage[p] = "login" => worker[p] \in {"running", "ok", "incorrect", "locked", "failed"}

PinInv == TypeOK /\ QueueInv /\ ActiveInv /\ DialogInv /\ AttemptInv

-----------------------------------------------------------------------------
(* The end of a prompt. *)

(* The prompt whose turn is next waits, and is not passed over. *)
LEMMA NextWaits ==
  ASSUME PinInv, NEW p \in Prompt
  PROVE  /\ Passed(p) \subseteq Prompt
         /\ \A q \in Passed(p) : stage[q] = "queued"
         /\ Successor(p) \in Prompt \cup {None}
         /\ Successor(p) # None => /\ active = p
                                   /\ stage[Successor(p)] = "queued"
                                   /\ Successor(p) \notin Passed(p)
<1> USE DEF PinInv, TypeOK, QueueInv
<1>1. Passed(p) \subseteq Prompt /\ \A q \in Passed(p) : stage[q] = "queued"
  BY DEF Passed
<1>2. CASE active # p \/ Turn = {}
  BY <1>1, <1>2 DEF Successor
<1>3. CASE active = p /\ Turn # {}
  <2> DEFINE n == CHOOSE i \in Turn : TRUE
  <2>1. n \in Turn
    BY <1>3
  <2>2. n \in DOMAIN queue /\ Successor(p) = queue[n] /\ queue[n] \notin cancelled
    BY <1>3, <2>1 DEF Turn, Successor
  <2>3. queue[n] \notin Passed(p)
    <3> SUFFICES ASSUME NEW k \in DOMAIN queue, \A j \in 1..k : queue[j] \in cancelled,
                        queue[n] = queue[k]
                 PROVE FALSE
      BY <2>2 DEF Passed
    <3>1. k \in 1..k
      OBVIOUS
    <3> QED
      BY <2>2, <3>1
  <2> QED
    BY <1>1, <1>3, <2>2, <2>3, PinAssumption
<1> QED
  BY <1>2, <1>3

(* The queue after one of its places, and without it. *)
LEMMA AfterPlace ==
  ASSUME queue \in Seq(Prompt), NEW n \in 1..Len(queue)
  PROVE  /\ After(n) \in Seq(Prompt) /\ Len(After(n)) = Len(queue) - n
         /\ DOMAIN After(n) = 1..(Len(queue) - n)
         /\ \A i \in 1..(Len(queue) - n) : After(n)[i] = queue[i + n]
<1>1. Len(queue) \in Nat
  OBVIOUS
<1>2. n + 1 \in 1..Len(queue) + 1
  BY <1>1
<1> QED
  BY <1>1, <1>2, SubSeqProperties DEF After

LEMMA WithoutPlace ==
  ASSUME queue \in Seq(Prompt), NEW n \in 1..Len(queue)
  PROVE  /\ Without(n) \in Seq(Prompt) /\ DOMAIN Without(n) = 1..(Len(queue) - 1)
         /\ \A i \in 1..(Len(queue) - 1) : Without(n)[i] = queue[IF i < n THEN i ELSE i + 1]
<1>1. Len(queue) \in Nat
  OBVIOUS
<1> DEFINE head == SubSeq(queue, 1, n - 1)
<1>2. /\ head \in Seq(Prompt) /\ Len(head) = n - 1
      /\ \A i \in 1..(n - 1) : head[i] = queue[i]
  BY <1>1, SubSeqProperties
<1>3. Without(n) = head \o After(n)
  BY DEF Without
<1> HIDE DEF head
<1>4. /\ Without(n) \in Seq(Prompt) /\ Len(Without(n)) = Len(queue) - 1
      /\ \A i \in 1..(Len(queue) - 1) :
           Without(n)[i] = IF i <= n - 1 THEN head[i] ELSE After(n)[i - (n - 1)]
  <2>1. /\ After(n) \in Seq(Prompt) /\ DOMAIN After(n) = 1..(Len(queue) - n)
    BY AfterPlace
  <2>2. Len(After(n)) = Len(queue) - n
    BY <1>1, <2>1
  <2> HIDE DEF Without
  <2>3. /\ Without(n) \in Seq(Prompt) /\ Len(Without(n)) = (n - 1) + Len(After(n))
        /\ \A i \in 1..Len(Without(n)) :
             Without(n)[i] = IF i <= n - 1 THEN head[i] ELSE After(n)[i - (n - 1)]
    <3>1. /\ head \o After(n) \in Seq(Prompt) /\ Len(head \o After(n)) = Len(head) + Len(After(n))
          /\ \A i \in 1..(Len(head) + Len(After(n))) :
               (head \o After(n))[i] = IF i <= Len(head) THEN head[i] ELSE After(n)[i - Len(head)]
      BY <1>2, <2>1, ConcatProperties, Zenon
    <3> QED
      BY <1>2, <1>3, <3>1, Zenon
  <2>4. Len(Without(n)) = Len(queue) - 1
    BY <1>1, <2>2, <2>3
  <2> QED
    BY <2>3, <2>4
<1>5. ASSUME NEW i \in 1..(Len(queue) - 1)
      PROVE  Without(n)[i] = queue[IF i < n THEN i ELSE i + 1]
  <2>1. CASE i <= n - 1
    BY <1>1, <1>2, <1>4, <2>1
  <2>2. CASE ~(i <= n - 1)
    <3>1. i - (n - 1) \in 1..(Len(queue) - n) /\ (i - (n - 1)) + n = i + 1
      BY <1>1, <2>2
    <3> QED
      BY <1>1, <1>4, <2>2, <3>1, AfterPlace
  <2> QED
    BY <2>1, <2>2
<1> QED
  BY <1>4, <1>5

(* What stays in the queue waits on, and is none of those the end concerns. *)
LEMMA RestWaits ==
  ASSUME PinInv, NEW p \in Prompt
  PROVE  /\ Rest(p) \in Seq(Prompt)
         /\ \A i \in DOMAIN Rest(p) : /\ stage[Rest(p)[i]] = "queued"
                                      /\ Rest(p)[i] \notin Passed(p) \cup {p, Successor(p)}
         /\ \A i, j \in DOMAIN Rest(p) : Rest(p)[i] = Rest(p)[j] => i = j
         /\ (active = p /\ Successor(p) = None) \/ active = None => Rest(p) = <<>>
<1> USE DEF PinInv, TypeOK, QueueInv
<1>a. p # None
  BY PinAssumption
<1>1. CASE active = p /\ Turn = {}
  BY <1>1, <1>a DEF Rest
<1>2. CASE active = p /\ Turn # {}
  <2> DEFINE n == CHOOSE i \in Turn : TRUE
  <2>1. n \in Turn
    BY <1>2
  <2>2. /\ n \in 1..Len(queue) /\ queue[n] \notin cancelled
        /\ Successor(p) = queue[n] /\ Rest(p) = After(n)
    <3>1. n \in 1..Len(queue) /\ queue[n] \notin cancelled
      BY <2>1 DEF Turn
    <3>2. Successor(p) = queue[n] /\ Rest(p) = After(n)
      <4> HIDE DEF PinInv, TypeOK, QueueInv
      <4> QED
        BY <1>2, Zenon DEF Successor, Rest
    <3> QED
      BY <3>1, <3>2
  <2> HIDE DEF n
  <2>3. /\ After(n) \in Seq(Prompt) /\ DOMAIN Rest(p) = 1..(Len(queue) - n)
        /\ \A i \in 1..(Len(queue) - n) : Rest(p)[i] = queue[i + n]
    <3>1. queue \in Seq(Prompt) /\ n \in 1..Len(queue)
      BY <2>2
    <3> HIDE DEF PinInv, TypeOK, QueueInv
    <3> QED
      BY <2>2, <3>1, AfterPlace, Zenon
  <2>4. ASSUME NEW i \in 1..(Len(queue) - n)
        PROVE  /\ i + n \in DOMAIN queue /\ n \in DOMAIN queue /\ i + n # n
               /\ n \in 1..(i + n)
    BY <2>2
  <2>5. \A i \in DOMAIN Rest(p) : /\ stage[Rest(p)[i]] = "queued"
                                  /\ Rest(p)[i] \notin Passed(p) \cup {p, Successor(p)}
    <3> SUFFICES ASSUME NEW i \in 1..(Len(queue) - n)
                 PROVE  /\ stage[queue[i + n]] = "queued"
                        /\ queue[i + n] \notin Passed(p) \cup {p, queue[n]}
      <4> HIDE DEF PinInv, TypeOK, QueueInv
      <4> QED
        BY <2>2, <2>3, Zenon
    <3>1. stage[queue[i + n]] = "queued" /\ queue[i + n] # queue[n]
      BY <2>4
    <3>2. queue[i + n] # p
      BY <1>2, <1>a, <3>1 DEF ActiveInv, AtWork
    <3>3. queue[i + n] \notin Passed(p)
      <4> SUFFICES ASSUME NEW k \in DOMAIN queue, \A j \in 1..k : queue[j] \in cancelled,
                          queue[i + n] = queue[k]
                   PROVE FALSE
        BY DEF Passed
      <4>1. k = i + n
        BY <2>4
      <4>2. n \in 1..k
        BY <2>4, <4>1
      <4>3. queue[n] \in cancelled
        BY <4>2
      <4> QED
        BY <2>2, <4>3
    <3> QED
      BY <3>1, <3>2, <3>3
  <2>6. \A i, j \in DOMAIN Rest(p) : Rest(p)[i] = Rest(p)[j] => i = j
    <3> SUFFICES ASSUME NEW i \in 1..(Len(queue) - n), NEW j \in 1..(Len(queue) - n),
                        queue[i + n] = queue[j + n]
                 PROVE i = j
      <4> HIDE DEF PinInv, TypeOK, QueueInv
      <4> QED
        BY <2>2, <2>3, Zenon
    <3>1. i + n = j + n
      BY <2>4
    <3> QED
      BY <2>2, <3>1
  <2>7. Successor(p) # None /\ active # None
    BY <1>2, <1>a, <2>2, PinAssumption
  <2>8. Rest(p) \in Seq(Prompt)
    BY <2>2, <2>3, Zenon
  <2> HIDE DEF PinInv, TypeOK, QueueInv
  <2> QED
    BY <2>5, <2>6, <2>7, <2>8, Zenon
<1>3. CASE active # p
  <2>0. Passed(p) = {} /\ Successor(p) = None
    BY <1>3 DEF Passed, Successor
  <2>1. CASE \E i \in DOMAIN queue : queue[i] = p
    <3> DEFINE n == CHOOSE i \in DOMAIN queue : queue[i] = p
    <3>1. n \in 1..Len(queue) /\ queue[n] = p /\ Rest(p) = Without(n)
      BY <1>3, <2>1 DEF Rest
    <3> HIDE DEF n
    <3> DEFINE at(i) == IF i < n THEN i ELSE i + 1
    <3>2. /\ Without(n) \in Seq(Prompt) /\ DOMAIN Without(n) = 1..(Len(queue) - 1)
          /\ \A i \in 1..(Len(queue) - 1) : Without(n)[i] = queue[at(i)]
      BY <3>1, WithoutPlace
    <3>3. \A i \in 1..(Len(queue) - 1) : at(i) \in DOMAIN queue /\ at(i) # n
      BY <3>1
    <3>4. \A i, j \in 1..(Len(queue) - 1) : at(i) = at(j) => i = j
      BY <3>1
    <3> HIDE DEF at
    <3>5. DOMAIN Rest(p) = 1..(Len(queue) - 1)
      BY <3>1, <3>2
    <3>6. ASSUME NEW i \in DOMAIN Rest(p)
          PROVE  stage[Rest(p)[i]] = "queued" /\ Rest(p)[i] \notin Passed(p) \cup {p, Successor(p)}
      <4>1. Rest(p)[i] = queue[at(i)] /\ at(i) \in DOMAIN queue /\ at(i) # n
        BY <3>1, <3>2, <3>3, <3>5
      <4>2. queue[at(i)] # p /\ queue[at(i)] \in Prompt
        BY <3>1, <4>1
      <4> QED
        BY <2>0, <4>1, <4>2, PinAssumption
    <3>7. ASSUME NEW i \in DOMAIN Rest(p), NEW j \in DOMAIN Rest(p), Rest(p)[i] = Rest(p)[j]
          PROVE  i = j
      <4>1. queue[at(i)] = queue[at(j)] /\ at(i) \in DOMAIN queue /\ at(j) \in DOMAIN queue
        BY <3>1, <3>2, <3>3, <3>5, <3>7
      <4>2. at(i) = at(j)
        BY <4>1
      <4> QED
        BY <3>4, <3>5, <4>2
    <3>8. active # None
      BY <2>1
    <3> HIDE DEF PinInv, TypeOK, QueueInv
    <3> QED
      BY <1>3, <3>1, <3>2, <3>6, <3>7, <3>8, Zenon
  <2>2. CASE ~\E i \in DOMAIN queue : queue[i] = p
    <3>1. Rest(p) = queue
      BY <1>3, <2>2 DEF Rest
    <3> QED
      BY <1>3, <2>0, <2>2, <3>1, PinAssumption
  <2> QED
    BY <2>1, <2>2
<1> QED
  BY <1>1, <1>2, <1>3

LEMMA FinishStep ==
  ASSUME PinInv, NEW p \in Prompt, NEW result \in Outcome,
         NEW mail \in Seq(Message), NEW idles \in SUBSET Prompt,
         worker[p] # "running", Finish(p, result, mail, idles),
         UNCHANGED <<cancelled, cardVars, uiVars>>, replies' \in Seq(Reply)
  PROVE  PinInv'
<1> DEFINE next == Successor(p)
           over == Passed(p) \cup {p}
<1>0. p # None /\ MaxAttempts > 0
  BY PinAssumption
<1>1. /\ over \subseteq Prompt /\ next \in Prompt \cup {None}
      /\ \A q \in over : q = p \/ stage[q] = "queued"
      /\ next # None => active = p /\ stage[next] = "queued" /\ next \notin over
  <2>1. active = p => stage[p] # "queued"
    BY <1>0 DEF PinInv, ActiveInv, AtWork
  <2> QED
    BY <2>1, NextWaits
<1>2. /\ Rest(p) \in Seq(Prompt)
      /\ \A i \in DOMAIN Rest(p) : stage[Rest(p)[i]] = "queued" /\ Rest(p)[i] \notin over \cup {next}
      /\ \A i, j \in DOMAIN Rest(p) : Rest(p)[i] = Rest(p)[j] => i = j
      /\ (active = p /\ next = None) \/ active = None => Rest(p) = <<>>
  BY RestWaits
<1>3. /\ active' = IF active = p THEN next ELSE active
      /\ queue' = Rest(p)
      /\ stage' = [q \in Prompt |-> IF q \in over THEN "done"
                                    ELSE IF q = next THEN "refresh" ELSE stage[q]]
      /\ worker' = [q \in Prompt |-> IF q = next THEN "running"
                                     ELSE IF q = p /\ worker[q] # "running" THEN "none"
                                     ELSE worker[q]]
      /\ outcome' = [q \in Prompt |-> IF q = p THEN result
                                      ELSE IF q \in over THEN "cancelled" ELSE outcome[q]]
      /\ deferred' = [deferred EXCEPT ![p] = None]
      /\ attempts' = [attempts EXCEPT ![p] = 0]
      /\ warned' = [warned EXCEPT ![p] = "no"]
      /\ idle' = idles \ over
      /\ timer' = timer \ {p}
      /\ inter' = [inter EXCEPT ![p] = "none"]
      /\ uiq' = uiq \o mail \o Closing(p)
  BY Zenon DEF Finish
<1>4. /\ UNCHANGED <<cancelled, tries, flags, read, view, asked>> /\ replies' \in Seq(Reply)
  BY DEF cardVars, uiVars
<1> HIDE DEF next, over
<1>5. TypeOK'
  <2> USE DEF PinInv
  <2>1. active' \in Prompt \cup {None} /\ queue' \in Seq(Prompt)
    BY <1>1, <1>2, <1>3 DEF TypeOK
  <2>2. stage' \in [Prompt -> Stage]
    BY <1>1, <1>3 DEF TypeOK, Stage
  <2>3. worker' \in [Prompt -> Result \cup {"none", "running"}]
    BY <1>3 DEF TypeOK
  <2>4. outcome' \in [Prompt -> Outcome \cup {None}]
    BY <1>3 DEF TypeOK, Outcome
  <2>5. deferred' \in [Prompt -> Outcome \cup {None}]
    BY <1>3 DEF TypeOK
  <2>6. /\ attempts' \in [Prompt -> 0..MaxAttempts]
        /\ warned' \in [Prompt -> {"no", "pending", "confirmed"}]
        /\ inter' \in [Prompt -> {"none", "shown", "ready"}]
    BY <1>0, <1>3, PinAssumption DEF TypeOK
  <2>7. idle' \subseteq Prompt /\ timer' \subseteq Prompt
    BY <1>3 DEF TypeOK
  <2>8. uiq' \in Seq(Message)
    <3>1. Closing(p) \in Seq(Message)
      <4>1. Msg("close", p) \in Message
        BY DEF Msg, Message
      <4> QED
        BY <4>1 DEF Closing
    <3>2. uiq \in Seq(Message)
      BY DEF TypeOK
    <3> QED
      BY <1>3, <3>1, <3>2
  <2> QED
    BY <1>4, <2>1, <2>2, <2>3, <2>4, <2>5, <2>6, <2>7, <2>8 DEF TypeOK
<1>6. \A q \in Prompt : /\ stage'[q] = IF q \in over THEN "done" ELSE IF q = next THEN "refresh" ELSE stage[q]
                        /\ worker'[q] = IF q = next THEN "running"
                                        ELSE IF q = p THEN "none" ELSE worker[q]
                        /\ q # p => attempts'[q] = attempts[q] /\ warned'[q] = warned[q] /\ inter'[q] = inter[q]
                        /\ attempts'[p] = 0 /\ warned'[p] = "no" /\ inter'[p] = "none"
  BY <1>3 DEF PinInv, TypeOK
<1>7. /\ p \in over
      /\ next \in Prompt => active = p /\ active' = next /\ stage[next] = "queued" /\ next \notin over
  <2>1. None \notin Prompt
    BY PinAssumption
  <2> QED
    BY <1>1, <1>3, <2>1 DEF over
<1>8. QueueInv'
  <2>1. active' = None => queue' = <<>>
    BY <1>0, <1>2, <1>3
  <2>2. \A i \in DOMAIN queue' : stage'[queue'[i]] = "queued"
    <3> SUFFICES ASSUME NEW i \in DOMAIN Rest(p) PROVE stage'[Rest(p)[i]] = "queued"
      BY <1>3
    <3>1. Rest(p)[i] \in Prompt
      BY <1>2
    <3> QED
      BY <1>2, <1>6, <3>1
  <2> QED
    BY <1>2, <1>3, <2>1, <2>2 DEF QueueInv
<1>9. ActiveInv'
  <2>1. \A q \in Prompt : stage'[q] \in AtWork => active' = q
    <3> SUFFICES ASSUME NEW q \in Prompt, stage'[q] \in AtWork PROVE active' = q
      OBVIOUS
    <3>1. q \notin over
      BY <1>6 DEF AtWork
    <3>2. CASE q = next
      BY <1>7, <3>2
    <3>3. CASE q # next
      <4>1. active = q
        BY <1>6, <3>1, <3>3 DEF PinInv, ActiveInv
      <4> QED
        BY <1>3, <1>7, <3>1, <4>1
    <3> QED
      BY <3>2, <3>3
  <2>2. \A q \in Prompt : worker'[q] = "running" => InFlight(q)'
    <3> SUFFICES ASSUME NEW q \in Prompt, worker'[q] = "running"
                 PROVE stage'[q] \in {"refresh", "login"}
      BY DEF InFlight
    <3>1. CASE q = next
      BY <1>1, <1>6, <1>7, <3>1
    <3>2. CASE q # next
      BY <1>1, <1>6, <3>2 DEF PinInv, ActiveInv, InFlight
    <3> QED
      BY <3>1, <3>2
  <2>3. active' # None => stage'[active'] \in AtWork
    <3>1. CASE active = p
      BY <1>1, <1>3, <1>6, <1>7, <3>1 DEF AtWork
    <3>2. CASE active # p /\ active # None
      <4>1. active \in Prompt /\ stage[active] \in AtWork
        BY <3>2 DEF PinInv, TypeOK, ActiveInv
      <4>2. active \notin over /\ next = None
        BY <1>1, <3>2, <4>1 DEF AtWork
      <4> QED
        BY <1>3, <1>6, <3>2, <4>1, <4>2
    <3> QED
      BY <1>3, <3>1, <3>2
  <2> QED
    BY <2>1, <2>2, <2>3 DEF ActiveInv
<1>10. DialogInv' /\ AttemptInv'
  <2> SUFFICES ASSUME NEW q \in Prompt
               PROVE  /\ inter'[q] = "shown" => stage'[q] = "open"
                      /\ inter'[q] = "ready" => stage'[q] \in {"open", "login"}
                      /\ warned'[q] # "no" => inter'[q] = "ready"
                      /\ stage'[q] # "login" => attempts'[q] < MaxAttempts
                      /\ stage'[q] = "login" => worker'[q] \in {"running", "ok", "incorrect", "locked", "failed"}
    BY DEF DialogInv, AttemptInv
  <2>1. CASE q = p
    BY <1>0, <1>6, <1>7, <2>1
  <2>2. CASE q # p /\ (q \in over \/ q = next)
    <3>1. stage[q] = "queued" /\ stage'[q] \in {"done", "refresh"}
      BY <1>1, <1>6, <1>7, <2>2
    <3> QED
      BY <1>6, <2>2, <3>1 DEF PinInv, DialogInv, AttemptInv
  <2>3. CASE q \notin over /\ q # next /\ q # p
    BY <1>6, <2>3 DEF PinInv, DialogInv, AttemptInv
  <2> QED
    BY <2>1, <2>2, <2>3
<1> QED
  BY <1>5, <1>8, <1>9, <1>10 DEF PinInv

LEMMA DeferStep ==
  ASSUME PinInv, NEW p \in Prompt, NEW result \in Outcome,
         NEW idles \in SUBSET Prompt, NEW timers \in SUBSET Prompt,
         Defer(p, result, idles, timers),
         UNCHANGED <<cancelled, cardVars, uiVars>>, replies' \in Seq(Reply)
  PROVE  PinInv'
<1>1. /\ deferred' = [deferred EXCEPT ![p] = IF @ = None THEN result ELSE @]
      /\ idle' = idles /\ timer' = timers
      /\ UNCHANGED <<active, queue, stage, attempts, warned, worker, outcome, inter>>
      /\ UNCHANGED <<cancelled, tries, flags, read, view, asked>>
  BY DEF Defer, cardVars, uiVars
<1>2. uiq' \in Seq(Message)
  <2>1. Msg("hide", p) \in Message
    BY DEF Msg, Message
  <2> QED
    BY <2>1 DEF Defer, PinInv, TypeOK
<1>3. TypeOK'
  BY <1>1, <1>2 DEF PinInv, TypeOK
<1>4. QueueInv' /\ ActiveInv' /\ DialogInv' /\ AttemptInv'
  BY <1>1 DEF PinInv, QueueInv, ActiveInv, DialogInv, AttemptInv, InFlight
<1> QED
  BY <1>3, <1>4 DEF PinInv

LEMMA AnswerStep ==
  ASSUME PinInv, NEW p \in Prompt, NEW result \in Outcome,
         NEW idles \in SUBSET Prompt, NEW timers \in SUBSET Prompt,
         Answer(p, result, idles, timers),
         UNCHANGED <<cancelled, cardVars, uiVars>>, replies' \in Seq(Reply)
  PROVE  PinInv'
<1>1. CASE InFlight(p) /\ Defer(p, result, idles, timers)
  BY <1>1, DeferStep
<1>2. CASE ~InFlight(p) /\ Finish(p, result, <<>>, idles)
  <2>1. worker[p] # "running"
    BY <1>2 DEF PinInv, ActiveInv
  <2>2. <<>> \in Seq(Message)
    OBVIOUS
  <2> QED
    BY <1>2, <2>1, <2>2, FinishStep
<1> QED
  BY <1>1, <1>2 DEF Answer

-----------------------------------------------------------------------------
(* One lemma for each group of actions. *)

LEMMA InitHolds == Init => PinInv
<1> SUFFICES ASSUME Init PROVE PinInv
  OBVIOUS
<1>1. TypeOK
  <2>1. read \in BOOLEAN
    BY Zenon DEF Init
  <2>2. /\ queue \in Seq(Prompt) /\ uiq \in Seq(Message) /\ replies \in Seq(Reply)
        /\ attempts \in [Prompt -> 0..MaxAttempts] /\ tries \in 0..Tries
    BY PinAssumption DEF Init
  <2> QED
    BY <2>1, <2>2 DEF Init, TypeOK, Stage, Result, Outcome
<1>2. QueueInv /\ ActiveInv /\ DialogInv /\ AttemptInv
  BY PinAssumption DEF Init, QueueInv, ActiveInv, AtWork, DialogInv, AttemptInv, InFlight
<1> QED
  BY <1>1, <1>2 DEF PinInv

(* Requests and cancellations. *)
LEMMA RequestStep ==
  ASSUME PinInv, NEW p \in Prompt, Request(p) \/ RequestWithoutDisplay(p) \/ Cancel(p)
  PROVE  PinInv'
<1> USE DEF PinInv, promptVars, sourceVars, cardVars, uiVars
<1>0. /\ p # None /\ stage[p] = "new" => active # p
      /\ \A i \in DOMAIN queue : queue[i] \in Prompt
  BY PinAssumption DEF TypeOK, ActiveInv, AtWork
<1>1. CASE Request(p)
  <2>1. TypeOK'
    <3>1. UNCHANGED <<deferred, attempts, warned, cancelled, timer, tries, flags, read, inter,
                      uiq, view, asked, replies>>
      BY <1>1 DEF Request
    <3>2. /\ active' \in {active, p}
          /\ queue' \in {queue, Append(queue, p)}
          /\ idle' \in {idle, idle \cup {p}}
          /\ \E now \in {"queued", "refresh", "done"} : stage' = [stage EXCEPT ![p] = now]
      <4> HIDE DEF PinInv
      <4> QED
        BY <1>1 DEF Request
    <3>3. /\ active' \in Prompt \cup {None} /\ queue' \in Seq(Prompt) /\ idle' \subseteq Prompt
          /\ stage' \in [Prompt -> Stage]
      <4>1. active' \in Prompt \cup {None} /\ idle' \subseteq Prompt
        BY <3>2 DEF TypeOK
      <4>2. queue' \in Seq(Prompt)
        <5>1. queue \in Seq(Prompt)
          BY DEF TypeOK
        <5> HIDE DEF PinInv
        <5>2. Append(queue, p) \in Seq(Prompt)
          BY <5>1, AppendProperties
        <5> QED
          BY <3>2, <5>1, <5>2
      <4>3. stage' \in [Prompt -> Stage]
        BY <3>2 DEF TypeOK, Stage
      <4> QED
        BY <4>1, <4>2, <4>3
    <3>4. /\ outcome' \in [Prompt -> Outcome \cup {None}]
          /\ worker' \in [Prompt -> Result \cup {"none", "running"}]
      BY <1>1 DEF Request, TypeOK, Outcome
    <3> QED
      BY <3>1, <3>3, <3>4 DEF TypeOK
  <2>2. CASE active # None
    <3>1. /\ queue' = Append(queue, p) /\ active' = active /\ worker' = worker
          /\ stage[p] = "new" /\ stage' = [stage EXCEPT ![p] = "queued"]
          /\ UNCHANGED <<attempts, warned, inter>>
      BY <1>1, <2>2 DEF Request
    <3>2. /\ Len(queue') = Len(queue) + 1 /\ queue'[Len(queue) + 1] = p
          /\ DOMAIN queue' = 1..(Len(queue) + 1) /\ Len(queue) \in Nat
          /\ \A i \in 1..Len(queue) : queue'[i] = queue[i] /\ queue[i] # p
      BY <3>1 DEF TypeOK, QueueInv
    <3>3. QueueInv'
      <4>1. \A i \in DOMAIN queue' : stage'[queue'[i]] = "queued"
        BY <1>0, <3>1, <3>2 DEF TypeOK, QueueInv
      <4>2. ASSUME NEW i \in DOMAIN queue', NEW j \in DOMAIN queue', queue'[i] = queue'[j]
            PROVE  i = j
        <5>1. /\ i \in 1..Len(queue) \/ i = Len(queue) + 1
              /\ j \in 1..Len(queue) \/ j = Len(queue) + 1
          BY <3>2
        <5>2. CASE i \in 1..Len(queue) /\ j \in 1..Len(queue)
          <6>1. queue[i] = queue[j] /\ i \in DOMAIN queue /\ j \in DOMAIN queue
            BY <3>2, <4>2, <5>2 DEF TypeOK
          <6> QED
            BY <6>1 DEF QueueInv
        <5> QED
          BY <3>2, <4>2, <5>1, <5>2
      <4> QED
        BY <2>2, <3>1, <4>1, <4>2 DEF QueueInv
    <3>4. ActiveInv'
      BY <1>0, <2>2, <3>1 DEF TypeOK, ActiveInv, AtWork, InFlight
    <3>5. DialogInv' /\ AttemptInv'
      BY <3>1 DEF TypeOK, DialogInv, AttemptInv
    <3> QED
      BY <2>1, <3>3, <3>4, <3>5
  <2>3. CASE active = None
    <3>1. /\ queue' = queue /\ queue = <<>> /\ stage[p] = "new"
          /\ \/ active' = p /\ stage' = [stage EXCEPT ![p] = "refresh"]
                /\ worker' = [worker EXCEPT ![p] = "running"]
             \/ active' = active /\ stage' = [stage EXCEPT ![p] = "done"] /\ worker' = worker
          /\ UNCHANGED <<attempts, warned, inter>>
      BY <1>1, <2>3 DEF Request, QueueInv
    <3>2. QueueInv'
      BY <3>1 DEF QueueInv
    <3>3. ActiveInv'
      <4>1. CASE active' = p /\ stage' = [stage EXCEPT ![p] = "refresh"]
                 /\ worker' = [worker EXCEPT ![p] = "running"]
        <5>1. /\ p # None /\ stage \in [Prompt -> Stage]
              /\ worker \in [Prompt -> Result \cup {"none", "running"}]
              /\ \A q \in Prompt : stage[q] \notin AtWork /\ worker[q] # "running"
          BY <1>0, <2>3, PinAssumption DEF TypeOK, ActiveInv, AtWork, InFlight
        <5> HIDE DEF PinInv
        <5> QED
          BY <4>1, <5>1 DEF ActiveInv, AtWork, InFlight
      <4>2. CASE active' = active /\ stage' = [stage EXCEPT ![p] = "done"] /\ worker' = worker
        BY <1>0, <2>3, <3>1, <4>2 DEF TypeOK, ActiveInv, AtWork, InFlight
      <4> QED
        BY <3>1, <4>1, <4>2
    <3>4. DialogInv' /\ AttemptInv'
      BY <3>1 DEF TypeOK, DialogInv, AttemptInv
    <3> QED
      BY <2>1, <3>2, <3>3, <3>4
  <2> QED
    BY <2>2, <2>3
<1>2. CASE RequestWithoutDisplay(p)
  <2>1. TypeOK'
    BY <1>2 DEF RequestWithoutDisplay, TypeOK, Stage, Outcome
  <2>2. /\ stage[p] = "new" /\ stage' = [stage EXCEPT ![p] = "done"]
        /\ UNCHANGED <<active, queue, worker, attempts, warned, inter>>
    BY <1>2 DEF RequestWithoutDisplay
  <2>3. QueueInv' /\ ActiveInv'
    BY <1>0, <2>2 DEF TypeOK, QueueInv, ActiveInv, AtWork, InFlight
  <2>4. DialogInv' /\ AttemptInv'
    BY <2>2 DEF TypeOK, DialogInv, AttemptInv
  <2> QED
    BY <2>1, <2>3, <2>4
<1>3. CASE Cancel(p)
  <2>1. TypeOK'
    BY <1>3 DEF Cancel, TypeOK
  <2>2. QueueInv' /\ ActiveInv' /\ DialogInv' /\ AttemptInv'
    BY <1>3 DEF Cancel, QueueInv, ActiveInv, DialogInv, AttemptInv, InFlight
  <2> QED
    BY <2>1, <2>2
<1> QED
  BY <1>1, <1>2, <1>3

(* The sources of the coordinator. *)
LEMMA SourceStep ==
  ASSUME PinInv, NEW p \in Prompt, OnCancelledIdle(p) \/ OnLoginTimeout(p)
  PROVE  PinInv'
<1>1. /\ idle \subseteq Prompt /\ timer \subseteq Prompt
      /\ replies \in Seq(Reply) /\ {"cancelled", "timeout"} \subseteq Outcome
  BY DEF PinInv, TypeOK, Outcome
<1>2. CASE OnCancelledIdle(p)
  BY <1>1, <1>2, AnswerStep DEF OnCancelledIdle
<1>3. CASE OnLoginTimeout(p)
  BY <1>1, <1>3, AnswerStep DEF OnLoginTimeout
<1> QED
  BY <1>2, <1>3

(* A refresh leaves flags of some card, whether or not it read this one. *)
LEMMA RefreshType ==
  ASSUME TypeOK, NEW n, RefreshFlags(n)
  PROVE  flags' \in {"ok", "final", "locked"} /\ read' \in BOOLEAN
BY DEF RefreshFlags, FlagsOf, TypeOK

(* The workers and their completion. *)
LEMMA ThreadStep ==
  ASSUME PinInv, NEW p \in Prompt, RefreshThread(p) \/ LoginThread(p)
  PROVE  PinInv'
<1> USE DEF PinInv, promptVars, sourceVars, cardVars, uiVars
<1>1. /\ stage[p] \in {"refresh", "login"}
      /\ \E r \in Result : /\ worker' = [worker EXCEPT ![p] = r] /\ r # "running"
                           /\ stage[p] = "login" => r # "refreshed"
      /\ tries' \in 0..Tries /\ flags' \in {"ok", "final", "locked"} /\ read' \in BOOLEAN
      /\ UNCHANGED <<active, queue, stage, deferred, attempts, warned, outcome, cancelled, idle,
                     timer, inter, uiq, view, asked, replies>>
  <2>1. CASE RefreshThread(p)
    <3>1. tries' \in 0..Tries /\ flags' \in {"ok", "final", "locked"} /\ read' \in BOOLEAN
      BY <2>1, RefreshType DEF RefreshThread, TypeOK
    <3>2. worker' = [worker EXCEPT ![p] = "refreshed"]
      BY <2>1 DEF RefreshThread
    <3> QED
      BY <2>1, <3>1, <3>2 DEF RefreshThread, Result
  <2>2. CASE LoginThread(p)
    <3>1. tries' \in 0..Tries
      BY <2>2, PinAssumption DEF LoginThread, TypeOK
    <3>3. flags' \in {"ok", "final", "locked"} /\ read' \in BOOLEAN
      <4>1. (\E n \in {Tries, tries - 1} : RefreshFlags(n)) \/ UNCHANGED <<flags, read>>
        BY <2>2 DEF LoginThread
      <4>2. \A n : RefreshFlags(n) => flags' \in {"ok", "final", "locked"} /\ read' \in BOOLEAN
        BY RefreshType DEF TypeOK
      <4> QED
        BY <4>1, <4>2 DEF TypeOK
    <3>2. \E r \in {"ok", "incorrect", "failed", "locked"} : worker' = [worker EXCEPT ![p] = r]
      BY <2>2 DEF LoginThread
    <3> QED
      BY <2>2, <3>1, <3>2, <3>3 DEF LoginThread, Result
  <2> QED
    BY <2>1, <2>2
<1>2. PICK r \in Result : /\ worker' = [worker EXCEPT ![p] = r] /\ r # "running"
                          /\ stage[p] = "login" => r # "refreshed"
  BY <1>1
<1>3. TypeOK'
  BY <1>1, <1>2 DEF TypeOK
<1>4. QueueInv' /\ ActiveInv' /\ DialogInv'
  BY <1>1, <1>2 DEF TypeOK, QueueInv, ActiveInv, DialogInv, InFlight
<1>5. AttemptInv'
  BY <1>1, <1>2 DEF TypeOK, AttemptInv, Result
<1> QED
  BY <1>3, <1>4, <1>5

(* The dialog is shown, or asks again. *)
LEMMA OpenStep ==
  ASSUME PinInv, NEW p \in Prompt, NEW call \in {"show", "ask"},
         stage[p] \in {"refresh", "login"}, worker[p] # "running",
         stage[p] = "refresh" => inter' = [inter EXCEPT ![p] = "shown"],
         stage[p] = "login" => inter' = inter /\ attempts[p] < MaxAttempts,
         stage' = [stage EXCEPT ![p] = "open"], uiq' = Append(uiq, Msg(call, p)),
         timer' \subseteq timer,
         UNCHANGED <<active, queue, deferred, attempts, warned, outcome, idle, worker,
                     cancelled, cardVars, uiVars, replies>>
  PROVE  PinInv'
<1> USE DEF PinInv, cardVars, uiVars
<1>1. TypeOK'
  <2>1. Msg(call, p) \in Message
    BY DEF Msg, Message
  <2>2. uiq' \in Seq(Message) /\ stage' \in [Prompt -> Stage]
    BY <2>1 DEF TypeOK, Stage
  <2>3. inter' \in [Prompt -> {"none", "shown", "ready"}]
    BY DEF TypeOK
  <2> QED
    BY <2>2, <2>3 DEF TypeOK
<1>2. QueueInv'
  BY DEF TypeOK, QueueInv
<1>3. ActiveInv'
  BY DEF TypeOK, ActiveInv, AtWork, InFlight
<1>4. DialogInv'
  <2>1. CASE stage[p] = "refresh"
    BY <2>1 DEF TypeOK, DialogInv
  <2>2. CASE stage[p] = "login"
    BY <2>2 DEF TypeOK, DialogInv
  <2> QED
    BY <2>1, <2>2
<1>5. AttemptInv'
  BY DEF TypeOK, AttemptInv
<1> QED
  BY <1>1, <1>2, <1>3, <1>4, <1>5

LEMMA DoneStep ==
  ASSUME PinInv, NEW p \in Prompt, OnRefreshDone(p) \/ OnLoginDone(p)
  PROVE  PinInv'
<1>1. /\ worker[p] # "running" /\ idle \in SUBSET Prompt /\ replies \in Seq(Reply)
      /\ deferred[p] # None => deferred[p] \in Outcome
      /\ <<>> \in Seq(Message) /\ <<Msg("rest", p)>> \in Seq(Message)
  <2>1. Msg("rest", p) \in Message
    BY DEF Msg, Message
  <2> QED
    BY <2>1 DEF PinInv, TypeOK, OnRefreshDone, OnLoginDone
<1>2. CASE OnRefreshDone(p)
  <2>1. UNCHANGED <<cancelled, cardVars, uiVars, replies>>
    BY <1>2 DEF OnRefreshDone
  <2>2. CASE \E result \in Outcome : Finish(p, result, <<>>, idle)
    BY <1>1, <2>1, <2>2, FinishStep
  <2>3. CASE ~\E result \in Outcome : Finish(p, result, <<>>, idle)
    <3>1. /\ stage[p] = "refresh" /\ stage' = [stage EXCEPT ![p] = "open"]
          /\ inter' = [inter EXCEPT ![p] = "shown"] /\ uiq' = Append(uiq, Msg("show", p))
          /\ UNCHANGED <<active, queue, deferred, attempts, warned, outcome, idle, timer, worker>>
      BY <1>1, <1>2, <2>3 DEF OnRefreshDone, Outcome
    <3> QED
      BY <1>1, <2>1, <3>1, OpenStep
  <2> QED
    BY <2>2, <2>3
<1>3. CASE OnLoginDone(p)
  <2>1. UNCHANGED <<cancelled, cardVars, uiVars, replies>> /\ stage[p] = "login"
    BY <1>3 DEF OnLoginDone
  <2>2. worker[p] \in {"ok", "incorrect", "locked", "failed"}
    BY <1>1, <2>1 DEF PinInv, AttemptInv
  <2>3. Verdict(p) # None => Verdict(p) \in Outcome
    BY <2>2 DEF Verdict, Outcome
  <2>4. CASE \E result \in Outcome, mail \in Seq(Message) : Finish(p, result, mail, idle)
    BY <1>1, <2>1, <2>4, FinishStep
  <2>5. CASE ~\E result \in Outcome, mail \in Seq(Message) : Finish(p, result, mail, idle)
    <3>1. /\ Verdict(p) = None /\ stage' = [stage EXCEPT ![p] = "open"]
          /\ timer' = timer \ {p} /\ uiq' = Append(uiq, Msg("ask", p))
          /\ UNCHANGED <<active, queue, deferred, attempts, warned, outcome, idle, inter, worker>>
      BY <1>1, <1>3, <2>3, <2>5 DEF OnLoginDone, Outcome
    <3>2. attempts[p] < MaxAttempts
      BY <2>2, <3>1, PinAssumption DEF Verdict, PinInv, TypeOK, Outcome
    <3>3. timer' \subseteq timer
      BY <3>1
    <3> QED
      BY <1>1, <2>1, <3>1, <3>2, <3>3, OpenStep
  <2> QED
    BY <2>4, <2>5
<1> QED
  BY <1>2, <1>3

(* A submission: the dialog is ready, or has just become so. *)
LEMMA SubmitStep ==
  ASSUME PinInv, NEW p \in Prompt, NEW w \in {"no", "pending", "confirmed"},
         Submit(p, w), stage[p] = "open",
         inter[p] # "none", inter' = [inter EXCEPT ![p] = "ready"],
         UNCHANGED <<cancelled, cardVars, uiVars>>, replies' \in Seq(Reply)
  PROVE  PinInv'
<1> USE DEF PinInv, cardVars, uiVars
<1>0. UNCHANGED <<active, queue, deferred, outcome, idle>>
  BY DEF Submit
<1>1. CASE AskConfirmation(p, w)
  <2>1. /\ warned' = [warned EXCEPT ![p] = "pending"]
        /\ UNCHANGED <<stage, attempts, worker, timer>>
    BY <1>1 DEF AskConfirmation
  <2>2. uiq' \in Seq(Message)
    <3>1. Msg("warn", p) \in Message
      BY DEF Msg, Message
    <3> QED
      BY <1>1, <3>1 DEF AskConfirmation, TypeOK
  <2>3. TypeOK'
    BY <1>0, <2>1, <2>2 DEF TypeOK
  <2>4. QueueInv' /\ ActiveInv' /\ AttemptInv'
    BY <1>0, <2>1 DEF QueueInv, ActiveInv, AttemptInv, InFlight
  <2>5. DialogInv'
    BY <2>1 DEF TypeOK, DialogInv
  <2> QED
    BY <2>3, <2>4, <2>5
<1>2. CASE StartLogin(p, w)
  <2>1. /\ warned' = [warned EXCEPT ![p] = w]
        /\ attempts' = [attempts EXCEPT ![p] = @ + 1]
        /\ stage' = [stage EXCEPT ![p] = "login"]
        /\ worker' = [worker EXCEPT ![p] = "running"]
        /\ timer' \in {timer, timer \cup {p}}
        /\ uiq' = Append(uiq, Msg("busy", p))
    BY <1>2 DEF StartLogin
  <2>2. TypeOK'
    <3>1. Msg("busy", p) \in Message
      BY DEF Msg, Message
    <3>2. uiq' \in Seq(Message) /\ timer' \subseteq Prompt
      BY <2>1, <3>1 DEF TypeOK
    <3>3. attempts[p] < MaxAttempts /\ attempts[p] \in Nat /\ MaxAttempts \in Nat
      BY PinAssumption DEF TypeOK, AttemptInv
    <3>4. attempts' \in [Prompt -> 0..MaxAttempts]
      BY <2>1, <3>3 DEF TypeOK
    <3>5. /\ stage' \in [Prompt -> Stage] /\ warned' \in [Prompt -> {"no", "pending", "confirmed"}]
          /\ worker' \in [Prompt -> Result \cup {"none", "running"}]
          /\ inter' \in [Prompt -> {"none", "shown", "ready"}]
      BY <2>1 DEF TypeOK, Stage
    <3> QED
      BY <1>0, <3>2, <3>4, <3>5 DEF TypeOK
  <2>3. QueueInv'
    BY <1>0, <2>1 DEF TypeOK, QueueInv
  <2>4. ActiveInv'
    BY <1>0, <2>1 DEF TypeOK, ActiveInv, AtWork, InFlight
  <2>5. DialogInv'
    BY <2>1 DEF TypeOK, DialogInv
  <2>6. AttemptInv'
    BY <2>1 DEF TypeOK, AttemptInv
  <2> QED
    BY <2>2, <2>3, <2>4, <2>5, <2>6
<1> QED
  BY <1>1, <1>2 DEF Submit

(* Nothing of the coordinator's but its queues changes. *)
LEMMA MailStep ==
  ASSUME PinInv, uiq' \in Seq(Message), replies' \in Seq(Reply),
         view' \in [Prompt -> {"none", "asking", "busy", "hidden", "closed"}],
         asked' \subseteq Prompt,
         UNCHANGED <<active, queue, promptVars, sourceVars, worker, cardVars, inter>>
  PROVE  PinInv'
<1> USE DEF promptVars, sourceVars, cardVars
<1>1. TypeOK'
  BY DEF PinInv, TypeOK
<1>2. QueueInv' /\ ActiveInv' /\ DialogInv' /\ AttemptInv'
  BY DEF PinInv, QueueInv, ActiveInv, DialogInv, AttemptInv, InFlight
<1> QED
  BY <1>1, <1>2 DEF PinInv

(* A reply from the desktop. *)
LEMMA ReplyStep == PinInv /\ HandleReplies => PinInv'
<1> SUFFICES ASSUME PinInv, HandleReplies PROVE PinInv'
  OBVIOUS
<1> DEFINE p == Head(replies).prompt
           kind == Head(replies).kind
<1>1. /\ p \in Prompt /\ kind \in Kind /\ replies' \in Seq(Reply)
  <2>1. replies \in Seq(Reply) /\ replies # <<>> /\ replies' = Tail(replies)
    BY DEF PinInv, TypeOK, HandleReplies
  <2>2. Head(replies) \in Reply /\ Tail(replies) \in Seq(Reply)
    BY <2>1
  <2> QED
    BY <2>1, <2>2 DEF Reply
<1>2. UNCHANGED <<cancelled, cardVars, uiVars>>
  BY DEF HandleReplies
<1>a. IF Hears(p, kind) THEN HandleReply(p, kind) ELSE Ignore
  BY DEF HandleReplies
<1> HIDE DEF p, kind
<1>3. (Hears(p, kind) /\ HandleReply(p, kind)) \/ (~Hears(p, kind) /\ Ignore)
  BY <1>a, Zenon
<1>4. /\ idle \in SUBSET Prompt /\ timer \in SUBSET Prompt /\ uiq \in Seq(Message)
      /\ view \in [Prompt -> {"none", "asking", "busy", "hidden", "closed"}] /\ asked \subseteq Prompt
      /\ {"cancelled", "failed"} \subseteq Outcome
      /\ warned[p] \in {"no", "pending", "confirmed"} /\ inter[p] \in {"none", "shown", "ready"}
      /\ inter \in [Prompt -> {"none", "shown", "ready"}]
  BY <1>1 DEF PinInv, TypeOK, Outcome
<1>5. CASE ~Hears(p, kind) /\ Ignore
  BY <1>1, <1>2, <1>4, <1>5, MailStep DEF Ignore, sourceVars, uiVars
<1>6. CASE Hears(p, kind) /\ HandleReply(p, kind)
  <2>1. CASE kind = "ready"
    <3>1. inter[p] = "shown" /\ stage[p] = "open" /\ inter' = [inter EXCEPT ![p] = "ready"]
      BY <1>1, <1>6, <2>1 DEF Hears, HandleReply, PinInv, DialogInv
    <3>2. CASE p \in Protected
      <4>1. Submit(p, warned[p])
        BY <1>6, <2>1, <3>2 DEF HandleReply
      <4> QED
        BY <1>1, <1>2, <1>4, <3>1, <4>1, SubmitStep
    <3>3. CASE p \notin Protected
      <4>1. UNCHANGED <<active, queue, promptVars, idle, timer, worker, uiq>>
        BY <1>6, <2>1, <3>3 DEF HandleReply
      <4>2. TypeOK'
        BY <1>1, <1>2, <3>1, <4>1 DEF PinInv, TypeOK, promptVars, cardVars, uiVars
      <4>3. QueueInv' /\ ActiveInv' /\ AttemptInv'
        BY <4>1 DEF PinInv, QueueInv, ActiveInv, AttemptInv, InFlight, promptVars
      <4>4. DialogInv'
        BY <1>4, <3>1, <4>1 DEF PinInv, DialogInv, promptVars
      <4> QED
        BY <4>2, <4>3, <4>4 DEF PinInv
    <3> QED
      BY <3>2, <3>3
  <2>2. CASE kind \in {"submit", "empty", "accept"}
    <3>1. CASE AskAgain(p)
      <4>1. uiq' \in Seq(Message)
        <5>1. Msg("ask", p) \in Message
          BY <1>1 DEF Msg, Message
        <5> QED
          BY <1>4, <3>1, <5>1 DEF AskAgain
      <4> QED
        BY <1>1, <1>2, <1>4, <3>1, <4>1, MailStep DEF AskAgain, sourceVars, uiVars
    <3>2. CASE ~AskAgain(p)
      <4>1. /\ \E w \in {"no", "pending", "confirmed"} : Submit(p, w)
            /\ UNCHANGED inter
        BY <1>4, <1>6, <2>2, <3>2 DEF HandleReply
      <4>2. inter[p] = "ready" /\ stage[p] = "open"
        BY <1>1, <1>6, <2>2 DEF Hears, PinInv, DialogInv, InFlight
      <4>3. inter' = [inter EXCEPT ![p] = "ready"] /\ inter[p] # "none"
        BY <1>4, <4>1, <4>2
      <4> QED
        BY <1>1, <1>2, <4>1, <4>2, <4>3, SubmitStep
    <3> QED
      BY <3>1, <3>2
  <2>3. CASE kind \in {"decline", "cancel", "fail"}
    <3>1. \E result \in Outcome : Answer(p, result, idle, timer)
      BY <1>4, <1>6, <2>3 DEF HandleReply
    <3> QED
      BY <1>1, <1>2, <1>4, <3>1, AnswerStep
  <2> QED
    BY <1>1, <2>1, <2>2, <2>3 DEF Kind
<1> QED
  BY <1>3, <1>5, <1>6

LEMMA CoreStep == PinInv /\ CoreNext => PinInv'
<1> SUFFICES ASSUME PinInv, CoreNext PROVE PinInv'
  OBVIOUS
<1>1. CASE HandleReplies
  BY <1>1, ReplyStep
<1>2. CASE \E p \in Prompt : Request(p) \/ RequestWithoutDisplay(p) \/ Cancel(p)
  BY <1>2, RequestStep
<1>3. CASE \E p \in Prompt : OnCancelledIdle(p) \/ OnLoginTimeout(p)
  BY <1>3, SourceStep
<1>4. CASE \E p \in Prompt : Work(p)
  BY <1>4, ThreadStep, DoneStep DEF Work
<1> QED
  BY <1>1, <1>2, <1>3, <1>4 DEF CoreNext

(* What the desktop does with a message. *)
LEMMA HandledTypes ==
  ASSUME PinInv, Handled
  PROVE  /\ uiq' \in Seq(Message) /\ asked' \subseteq Prompt
         /\ view' \in [Prompt -> {"none", "asking", "busy", "hidden", "closed"}]
         /\ Head(uiq) \in Message
         /\ UNCHANGED <<active, queue, promptVars, sourceVars, worker, cardVars, inter>>
<1>1. uiq \in Seq(Message) /\ uiq # <<>> /\ uiq' = Tail(uiq)
  BY DEF PinInv, TypeOK, Handled
<1>2. Head(uiq) \in Message /\ uiq' \in Seq(Message)
  BY <1>1
<1>3. Head(uiq).prompt \in Prompt
  BY <1>2 DEF Message
<1>4. /\ view' = [view EXCEPT ![Head(uiq).prompt] = Shown(@, Head(uiq).call)]
      /\ asked' \in {asked, asked \cup {Head(uiq).prompt}, asked \ {Head(uiq).prompt}}
      /\ UNCHANGED <<active, queue, promptVars, sourceVars, worker, cardVars, inter>>
  BY DEF Handled
<1>5. Shown(view[Head(uiq).prompt], Head(uiq).call)
        \in {"none", "asking", "busy", "hidden", "closed"}
  BY <1>3 DEF Shown, PinInv, TypeOK
<1> QED
  BY <1>2, <1>3, <1>4, <1>5 DEF PinInv, TypeOK

-----------------------------------------------------------------------------
(* With any dialog. *)

LEMMA NextStep == PinInv /\ [Next]_vars => PinInv'
<1> SUFFICES ASSUME PinInv, [Next]_vars PROVE PinInv'
  OBVIOUS
<1>0. /\ uiq \in Seq(Message) /\ replies \in Seq(Reply) /\ asked \subseteq Prompt
      /\ view \in [Prompt -> {"none", "asking", "busy", "hidden", "closed"}]
  BY DEF PinInv, TypeOK
<1>1. CASE UiDeliver
  BY <1>0, <1>1, HandledTypes, MailStep DEF UiDeliver
<1>2. ASSUME NEW p \in Prompt, NEW kind \in Kind, UiReply(p, kind) PROVE PinInv'
  <2>1. [kind |-> kind, prompt |-> p] \in Reply
    BY DEF Reply
  <2>2. replies' \in Seq(Reply)
    BY <1>0, <1>2, <2>1 DEF UiReply
  <2> QED
    BY <1>0, <1>2, <2>2, MailStep DEF UiReply, uiVars
<1>3. CASE UNCHANGED vars
  BY <1>0, <1>3, MailStep DEF vars, uiVars
<1> QED
  BY <1>1, <1>2, <1>3, CoreStep DEF Next

(* The values of the variables, and the range of attempts: every prompt    *)
(* ends before it has more than pin.h's maximum.                           *)
THEOREM TypeCorrect == Spec => []TypeOK
<1>1. PinInv => TypeOK
  BY DEF PinInv
<1> QED
  BY InitHolds, NextStep, <1>1, PTL DEF Spec

LEMMA InvTakesTurns == PinInv => PromptsTakeTurns
BY DEF PinInv, ActiveInv, QueueInv, AtWork, InFlight, PromptsTakeTurns

(* The process talks to the card for one prompt at a time, whatever the    *)
(* dialog sends and whenever its messages arrive, and no prompt waits      *)
(* behind nobody (certificate_pin_prompt_answer, pin_prompt_start).        *)
THEOREM PromptsAlwaysTakeTurns == Spec => []PromptsTakeTurns
BY InitHolds, NextStep, InvTakesTurns, PTL DEF Spec

-----------------------------------------------------------------------------
(* With the system prompter's dialog. *)

LEMMA SystemStep == PinInv /\ [SystemNext]_<<vars, systemVars>> => PinInv'
<1> SUFFICES ASSUME PinInv, [SystemNext]_<<vars, systemVars>> PROVE PinInv'
  OBVIOUS
<1>0. /\ uiq \in Seq(Message) /\ replies \in Seq(Reply) /\ asked \subseteq Prompt
      /\ view \in [Prompt -> {"none", "asking", "busy", "hidden", "closed"}]
  BY DEF PinInv, TypeOK
<1>1. ASSUME NEW p \in Prompt, NEW kinds \in Seq(Kind), Sent(p, kinds)
      PROVE  replies' \in Seq(Reply)
  <2> DEFINE mail == [i \in DOMAIN kinds |-> [kind |-> kinds[i], prompt |-> p]]
  <2>1. replies' = IF Finished(p) THEN replies ELSE replies \o mail
    BY <1>1 DEF Sent
  <2>2. mail = [i \in 1..Len(kinds) |-> [kind |-> kinds[i], prompt |-> p]] /\ Len(kinds) \in Nat
    OBVIOUS
  <2>3. \A i \in 1..Len(kinds) : [kind |-> kinds[i], prompt |-> p] \in Reply
    BY DEF Reply
  <2> HIDE DEF mail
  <2>4. mail \in Seq(Reply)
    BY <2>2, <2>3
  <2> QED
    BY <1>0, <2>1, <2>4
<1>2. <<>> \in Seq(Kind) /\ \A kind \in Kind : <<kind>> \in Seq(Kind)
  OBVIOUS
<1>3. ASSUME CoreUnchanged, replies' \in Seq(Reply) PROVE PinInv'
  BY <1>0, <1>3, MailStep DEF CoreUnchanged, uiVars
<1>4. CASE SystemDeliver
  <2>1. Handled /\ Head(uiq).prompt \in Prompt
    BY <1>4, HandledTypes DEF SystemDeliver, Message
  <2>2. replies' = replies \/ Sent(Head(uiq).prompt, <<"cancel">>)
    BY <1>4 DEF SystemDeliver
  <2>3. replies' \in Seq(Reply)
    BY <1>0, <1>1, <1>2, <2>1, <2>2 DEF Kind
  <2> QED
    BY <2>1, <2>3, HandledTypes, MailStep
<1>5. ASSUME NEW p \in Prompt, Opened(p) \/ RoundDone(p) \/ Dismiss(p) \/ SettleDismissal(p)
      PROVE  PinInv'
  <2>1. CoreUnchanged
    BY <1>5 DEF Opened, RoundDone, Dismiss, SettleDismissal
  <2>2. replies' = replies \/ \E kinds \in {<<>>} \cup {<<kind>> : kind \in Kind} : Sent(p, kinds)
    BY <1>5 DEF Opened, RoundDone, PasswordDone, ConfirmDone, Dismiss, SettleDismissal, Kind
  <2>3. replies' \in Seq(Reply)
    BY <1>0, <1>1, <1>2, <2>2
  <2> QED
    BY <1>3, <2>1, <2>3
<1>6. CASE SystemCore
  BY <1>6, CoreStep DEF SystemCore
<1>7. CASE Next \/ UNCHANGED <<vars, systemVars>>
  BY <1>7, NextStep
<1> QED
  BY <1>4, <1>5, <1>6, <1>7 DEF SystemNext

(* The same where GNOME's prompter draws the dialog: an open or a round    *)
(* that completes late or never starts no second login (pin-system.c).     *)
THEOREM SystemPromptsTakeTurns == SystemSpec => []PromptsTakeTurns
<1>1. SystemInit => PinInv
  BY InitHolds DEF SystemInit
<1> QED
  BY <1>1, SystemStep, InvTakesTurns, PTL DEF SystemSpec

-----------------------------------------------------------------------------
(* What a step of the coordinator does to a prompt and its dialog. *)

Ends(p) ==
  /\ UNCHANGED cardVars
  /\ \E result \in Outcome, mail \in {<<>>, <<Msg("rest", p)>>}, idles \in SUBSET Prompt :
       /\ Finish(p, result, mail, idles)
       /\ worker[p] # "running" /\ (mail # <<>> => stage[p] = "login")

Begins(p) ==
  /\ stage[p] = "new" /\ UNCHANGED <<warned, inter, uiq, cardVars>>
  /\ \/ /\ stage' = [stage EXCEPT ![p] = "refresh"]
        /\ worker' = [worker EXCEPT ![p] = "running"]
     \/ /\ stage' \in {[stage EXCEPT ![p] = "queued"], [stage EXCEPT ![p] = "done"]}
        /\ UNCHANGED worker

Works(p) ==
  /\ RefreshThread(p) \/ LoginThread(p)
  /\ UNCHANGED <<warned, inter, uiq, stage>>

(* It is shown, or asked for another PIN. *)
Opens(p) ==
  /\ \/ /\ stage[p] = "refresh" /\ worker[p] = "refreshed"
        /\ inter' = [inter EXCEPT ![p] = "shown"] /\ uiq' = Append(uiq, Msg("show", p))
     \/ /\ stage[p] = "login" /\ worker[p] = "incorrect" /\ p \notin Protected
        /\ inter' = inter /\ uiq' = Append(uiq, Msg("ask", p))
  /\ stage' = [stage EXCEPT ![p] = "open"]
  /\ UNCHANGED <<warned, worker, cardVars>>

Submits(p) ==
  /\ stage[p] = "open" /\ inter[p] # "none"
  /\ inter' = [inter EXCEPT ![p] = "ready"]
  /\ \E w \in {"no", "pending", "confirmed"} : Submit(p, w)
  /\ UNCHANGED cardVars

Talks(p) ==
  /\ inter' = inter \/ (inter[p] = "shown" /\ inter' = [inter EXCEPT ![p] = "ready"])
  /\ uiq' = uiq \/ (inter[p] # "none" /\ uiq' \in {Append(uiq, Msg("hide", p)), Append(uiq, Msg("ask", p))})
  /\ UNCHANGED <<stage, warned, worker, cardVars>>

(* Talking without a reply of the dialog. *)
Hides(p) ==
  /\ uiq' = uiq \/ (inter[p] # "none" /\ uiq' = Append(uiq, Msg("hide", p)))
  /\ UNCHANGED <<stage, warned, worker, inter, cardVars>>

LEMMA AnswerEffects ==
  ASSUME PinInv, NEW p \in Prompt, NEW result \in Outcome, NEW idles \in SUBSET Prompt, NEW timers,
         Answer(p, result, idles, timers), UNCHANGED cardVars
  PROVE  Ends(p) \/ Hides(p)
<1>0. ~InFlight(p) => worker[p] # "running"
  BY DEF PinInv, ActiveInv
<1>1. CASE ~InFlight(p) /\ Finish(p, result, <<>>, idles)
  BY <1>0, <1>1 DEF Ends
<1>2. CASE Defer(p, result, idles, timers)
  BY <1>2 DEF Defer, Hides
<1> QED
  BY <1>1, <1>2 DEF Answer

(* The steps other than the handling of a reply. *)
SourceNext ==
  \/ \E p \in Prompt : Request(p) \/ RequestWithoutDisplay(p) \/ Cancel(p)
  \/ \E p \in Prompt : OnCancelledIdle(p) \/ OnLoginTimeout(p)
  \/ \E p \in Prompt : Work(p)

LEMMA SourceEffects ==
  ASSUME PinInv, SourceNext
  PROVE  /\ view' = view /\ replies' = replies
         /\ \E p \in Prompt : Ends(p) \/ Begins(p) \/ Works(p) \/ Opens(p) \/ Hides(p)
<1>0. /\ idle \in SUBSET Prompt /\ timer \in SUBSET Prompt
      /\ {"ok", "cancelled", "incorrect", "locked", "timeout", "failed"} \subseteq Outcome
      /\ \A p \in Prompt : /\ deferred[p] # None => deferred[p] \in Outcome
                           /\ warned[p] \in {"no", "pending", "confirmed"}
                           /\ ~InFlight(p) => worker[p] # "running"
  BY DEF PinInv, TypeOK, Outcome, ActiveInv
<1>1. ASSUME NEW p \in Prompt, Request(p) \/ RequestWithoutDisplay(p) \/ Cancel(p)
      PROVE  view' = view /\ replies' = replies /\ (Begins(p) \/ Hides(p))
  <2>1. CASE Request(p)
    BY <2>1 DEF Request, Begins, uiVars
  <2>2. CASE RequestWithoutDisplay(p)
    BY <2>2 DEF RequestWithoutDisplay, Begins, uiVars
  <2>3. CASE Cancel(p)
    BY <2>3 DEF Cancel, Hides, uiVars, promptVars
  <2> QED
    BY <1>1, <2>1, <2>2, <2>3
<1>2. ASSUME NEW p \in Prompt, OnCancelledIdle(p) \/ OnLoginTimeout(p)
      PROVE  view' = view /\ replies' = replies /\ (Ends(p) \/ Hides(p))
  <2>1. CASE OnCancelledIdle(p)
    BY <1>0, AnswerEffects, <2>1 DEF OnCancelledIdle, uiVars
  <2>2. CASE OnLoginTimeout(p)
    BY <1>0, AnswerEffects, <2>2 DEF OnLoginTimeout, uiVars
  <2> QED
    BY <1>2, <2>1, <2>2
<1>3. ASSUME NEW p \in Prompt, Work(p)
      PROVE  view' = view /\ replies' = replies /\ (Ends(p) \/ Works(p) \/ Opens(p))
  <2>1. CASE RefreshThread(p)
    BY <2>1 DEF RefreshThread, Works, uiVars, promptVars
  <2>2. CASE LoginThread(p)
    BY <2>2 DEF LoginThread, Works, uiVars, promptVars
  <2>3. CASE OnRefreshDone(p)
    <3>1. view' = view /\ replies' = replies /\ UNCHANGED cardVars /\ stage[p] = "refresh" /\ worker[p] = "refreshed"
      BY <2>3 DEF OnRefreshDone, uiVars
    <3>2. CASE \E result \in Outcome : Finish(p, result, <<>>, idle)
      BY <1>0, <3>1, <3>2 DEF Ends
    <3>3. CASE ~\E result \in Outcome : Finish(p, result, <<>>, idle)
      <4>1. /\ stage' = [stage EXCEPT ![p] = "open"] /\ inter' = [inter EXCEPT ![p] = "shown"]
            /\ uiq' = Append(uiq, Msg("show", p)) /\ UNCHANGED <<warned, worker>>
        BY <1>0, <2>3, <3>3 DEF OnRefreshDone
      <4> QED
        BY <3>1, <4>1 DEF Opens
    <3> QED
      BY <3>2, <3>3
  <2>4. CASE OnLoginDone(p)
    <3>1. view' = view /\ replies' = replies /\ UNCHANGED cardVars /\ stage[p] = "login" /\ worker[p] # "running"
      BY <2>4 DEF OnLoginDone, uiVars
    <3>2. worker[p] \in {"ok", "incorrect", "locked", "failed"}
      BY <3>1 DEF PinInv, AttemptInv
    <3>3. Verdict(p) # None => Verdict(p) \in Outcome
      BY <3>2 DEF Verdict, Outcome
    <3>4. CASE \E result \in Outcome, mail \in {<<>>, <<Msg("rest", p)>>} : Finish(p, result, mail, idle)
      BY <1>0, <3>1, <3>4 DEF Ends
    <3>5. CASE ~\E result \in Outcome, mail \in {<<>>, <<Msg("rest", p)>>} : Finish(p, result, mail, idle)
      <4>1. /\ Verdict(p) = None /\ stage' = [stage EXCEPT ![p] = "open"]
            /\ uiq' = Append(uiq, Msg("ask", p)) /\ UNCHANGED <<warned, inter, worker>>
        BY <1>0, <2>4, <3>3, <3>5 DEF OnLoginDone
      <4>2. worker[p] = "incorrect" /\ p \notin Protected
        BY <3>2, <4>1, PinAssumption DEF Verdict, Outcome
      <4> QED
        BY <3>1, <4>1, <4>2 DEF Opens
    <3> QED
      BY <3>4, <3>5
  <2> QED
    BY <1>3, <2>1, <2>2, <2>3, <2>4 DEF Work
<1> QED
  BY <1>1, <1>2, <1>3 DEF SourceNext

LEMMA Effects ==
  ASSUME PinInv, CoreNext
  PROVE  /\ view' = view
         /\ \E p \in Prompt : Ends(p) \/ Begins(p) \/ Works(p) \/ Opens(p) \/ Submits(p) \/ Talks(p)
<1>0. /\ idle \in SUBSET Prompt /\ Outcome = {"ok", "cancelled", "incorrect", "locked", "timeout", "failed"}
      /\ \A p \in Prompt : warned[p] \in {"no", "pending", "confirmed"}
  BY DEF PinInv, TypeOK, Outcome
<1>1. CASE SourceNext
  <2>1. \A p \in Prompt : Hides(p) => Talks(p)
    BY DEF Hides, Talks
  <2> QED
    BY <1>1, <2>1, SourceEffects
<1>2. CASE HandleReplies
  <2> DEFINE p == Head(replies).prompt
             kind == Head(replies).kind
  <2>1. p \in Prompt /\ kind \in Kind
    <3>1. Head(replies) \in Reply
      BY <1>2 DEF PinInv, TypeOK, HandleReplies
    <3> QED
      BY <3>1 DEF Reply
  <2>2. view' = view /\ UNCHANGED cardVars
    BY <1>2 DEF HandleReplies, uiVars
  <2>a. IF Hears(p, kind) THEN HandleReply(p, kind) ELSE Ignore
    BY <1>2 DEF HandleReplies
  <2> HIDE DEF p, kind
  <2>3. CASE ~Hears(p, kind)
    BY <2>1, <2>2, <2>3, <2>a DEF Ignore, Talks, promptVars
  <2>4. CASE Hears(p, kind) /\ kind = "ready"
    <3>1. inter[p] = "shown" /\ stage[p] = "open" /\ inter' = [inter EXCEPT ![p] = "ready"]
      BY <2>1, <2>4, <2>a DEF Hears, HandleReply, PinInv, DialogInv
    <3>2. CASE p \in Protected
      <4>1. Submit(p, warned[p])
        BY <2>4, <2>a, <3>2 DEF HandleReply
      <4> QED
        BY <1>0, <2>1, <2>2, <3>1, <4>1 DEF Submits
    <3>3. CASE p \notin Protected
      <4>1. UNCHANGED <<promptVars, worker, uiq>>
        BY <2>4, <2>a, <3>3 DEF HandleReply
      <4> QED
        BY <2>1, <2>2, <3>1, <4>1 DEF Talks, promptVars
    <3> QED
      BY <3>2, <3>3
  <2>5. CASE Hears(p, kind) /\ kind \in {"submit", "empty", "accept"}
    <3>1. inter[p] = "ready" /\ stage[p] = "open"
      BY <2>1, <2>5 DEF Hears, PinInv, DialogInv, InFlight
    <3>2. CASE AskAgain(p)
      BY <2>1, <2>2, <3>1, <3>2 DEF AskAgain, Talks, promptVars
    <3>3. CASE ~AskAgain(p)
      <4>1. /\ \E w \in {"no", "pending", "confirmed"} : Submit(p, w)
            /\ UNCHANGED inter
        BY <1>0, <2>1, <2>5, <2>a, <3>3 DEF HandleReply
      <4>2. inter' = [inter EXCEPT ![p] = "ready"]
        BY <2>1, <3>1, <4>1 DEF PinInv, TypeOK
      <4> QED
        BY <2>1, <2>2, <3>1, <4>1, <4>2 DEF Submits
    <3> QED
      BY <3>2, <3>3
  <2>6. CASE Hears(p, kind) /\ kind \in {"decline", "cancel", "fail"}
    <3>1. \E result \in Outcome : Answer(p, result, idle, timer)
      BY <1>0, <2>6, <2>a DEF HandleReply
    <3> QED
      BY <1>0, <2>1, <2>2, <3>1, AnswerEffects DEF Hides, Talks
  <2> QED
    BY <2>1, <2>2, <2>3, <2>4, <2>5, <2>6 DEF Kind
<1> QED
  BY <1>1, <1>2 DEF CoreNext, SourceNext

(* What the end of p does to every prompt. *)
LEMMA EndsEffect ==
  ASSUME PinInv, NEW p \in Prompt, Ends(p)
  PROVE  /\ stage'[p] = "done" /\ inter' = [inter EXCEPT ![p] = "none"]
         /\ \A q \in Prompt \ {p} :
              /\ warned'[q] = warned[q]
              /\ \/ stage'[q] = stage[q] /\ worker'[q] = worker[q]
                 \/ stage[q] = "queued" /\ stage'[q] = "done"
                 \/ stage[q] = "queued" /\ stage'[q] = "refresh" /\ worker'[q] = "running"
<1>1. PICK result \in Outcome, mail \in {<<>>, <<Msg("rest", p)>>}, idles \in SUBSET Prompt :
        Finish(p, result, mail, idles)
  BY DEF Ends
<1> DEFINE next == Successor(p)
           over == Passed(p) \cup {p}
<1>2. /\ stage' = [q \in Prompt |-> IF q \in over THEN "done"
                                    ELSE IF q = next THEN "refresh" ELSE stage[q]]
      /\ worker' = [q \in Prompt |-> IF q = next THEN "running"
                                     ELSE IF q = p /\ worker[q] # "running" THEN "none"
                                     ELSE worker[q]]
      /\ warned' = [warned EXCEPT ![p] = "no"]
      /\ inter' = [inter EXCEPT ![p] = "none"]
  BY <1>1, Zenon DEF Finish
<1>3. /\ \A q \in Passed(p) : stage[q] = "queued"
      /\ \A q \in Prompt : q = next => stage[q] = "queued" /\ q \notin Passed(p)
  BY NextWaits, PinAssumption
<1> HIDE DEF next
<1> QED
  BY <1>2, <1>3 DEF PinInv, TypeOK
-----------------------------------------------------------------------------
(* The card's flags. *)

(* The prompt relies on the flags read for it. *)
KnowsCard(p) ==
  \/ stage[p] = "refresh" /\ worker[p] = "refreshed"
  \/ stage[p] = "open"
  \/ stage[p] = "login" /\ worker[p] \in {"running", "incorrect"}

(* Flags that were read are those of the card from the refresh of a prompt *)
(* to its last login: a login that spends an attempt without reading them  *)
(* again ends the prompt.  A login that the flags say may lock the card    *)
(* was confirmed, whether they were read or not.                           *)
FlagsInv ==
  \A p \in Prompt :
    /\ KnowsCard(p) /\ read => flags = FlagsOf(tries)
    /\ stage[p] = "login" /\ worker[p] = "running" /\ p \in Protected /\ flags = "final"
         => warned[p] = "confirmed"

LEMMA FlagsStep ==
  ASSUME PinInv, FlagsInv, CoreNext
  PROVE  FlagsInv'
<1>0. PICK p \in Prompt : Ends(p) \/ Begins(p) \/ Works(p) \/ Opens(p) \/ Submits(p) \/ Talks(p)
  BY Effects
<1>1. \A q \in Prompt : stage[q] \in AtWork /\ stage[p] \in AtWork => q = p
  BY DEF PinInv, ActiveInv
<1> SUFFICES ASSUME NEW q \in Prompt
             PROVE  /\ KnowsCard(q)' /\ read' => flags' = FlagsOf(tries')
                    /\ stage'[q] = "login" /\ worker'[q] = "running" /\ q \in Protected /\ flags' = "final"
                         => warned'[q] = "confirmed"
  BY DEF FlagsInv, FlagsOf
<1>2. /\ stage \in [Prompt -> Stage] /\ worker \in [Prompt -> Result \cup {"none", "running"}]
      /\ warned \in [Prompt -> {"no", "pending", "confirmed"}]
  BY DEF PinInv, TypeOK
<1>3. CASE Ends(p)
  <2>1. UNCHANGED <<tries, flags, read>>
    BY <1>3 DEF Ends, cardVars
  <2> QED
    BY <1>3, <2>1, EndsEffect DEF FlagsInv, KnowsCard
<1>4. CASE Begins(p)
  BY <1>2, <1>4 DEF Begins, FlagsInv, KnowsCard, cardVars
<1>5. CASE Works(p)
  <2>1. CASE q # p
    <3>1. stage'[q] = stage[q] /\ stage[q] \notin AtWork
      BY <1>1, <1>5, <2>1 DEF Works, RefreshThread, LoginThread, AtWork
    <3> QED
      BY <3>1 DEF AtWork, KnowsCard
  <2>2. CASE q = p
    <3>1. CASE RefreshThread(p)
      BY <1>2, <1>5, <2>2, <3>1 DEF RefreshThread, RefreshFlags, Works, KnowsCard
    <3>2. CASE LoginThread(p)
      BY <1>2, <1>5, <2>2, <3>2 DEF LoginThread, RefreshFlags, Works, KnowsCard
    <3> QED
      BY <1>5, <3>1, <3>2 DEF Works
  <2> QED
    BY <2>1, <2>2
<1>6. CASE Opens(p)
  BY <1>2, <1>6 DEF Opens, FlagsInv, KnowsCard, cardVars
<1>7. CASE Submits(p)
  <2>1. UNCHANGED <<tries, flags, read>> /\ stage[p] = "open"
    BY <1>7 DEF Submits, cardVars
  <2>2. PICK w \in {"no", "pending", "confirmed"} : Submit(p, w)
    BY <1>7 DEF Submits
  <2>3. CASE AskConfirmation(p, w)
    BY <1>2, <2>1, <2>3 DEF AskConfirmation, FlagsInv, KnowsCard
  <2>4. CASE ~MustConfirm(p, w) /\ StartLogin(p, w)
    <3>1. /\ warned' = [warned EXCEPT ![p] = w] /\ stage' = [stage EXCEPT ![p] = "login"]
          /\ worker' = [worker EXCEPT ![p] = "running"]
          /\ p \in Protected /\ flags = "final" => w = "confirmed"
      BY <2>4 DEF StartLogin, MustConfirm
    <3>2. CASE q = p
      <4>1. read => flags = FlagsOf(tries)
        BY <2>1 DEF FlagsInv, KnowsCard
      <4>2. stage'[p] = "login" /\ warned'[p] = w
        BY <1>2, <3>1
      <4> QED
        BY <2>1, <3>1, <3>2, <4>1, <4>2
    <3>3. CASE q # p
      BY <1>2, <2>1, <3>1, <3>3 DEF FlagsInv, KnowsCard
    <3> QED
      BY <3>2, <3>3
  <2> QED
    BY <2>2, <2>3, <2>4 DEF Submit
<1>8. CASE Talks(p)
  BY <1>8 DEF Talks, FlagsInv, KnowsCard, cardVars
<1> QED
  BY <1>0, <1>3, <1>4, <1>5, <1>6, <1>7, <1>8

LEMMA FlagsInit == Init => FlagsInv
BY DEF Init, FlagsInv, KnowsCard

(* The other steps leave what they depend on alone. *)
LEMMA FlagsKept ==
  ASSUME FlagsInv, UNCHANGED <<stage, worker, warned, cardVars>>
  PROVE  FlagsInv'
BY DEF FlagsInv, KnowsCard, FlagsOf, cardVars

LEMMA FlagsConfirm == PinInv /\ FlagsInv => LastTryIsConfirmed
BY PinAssumption DEF PinInv, TypeOK, FlagsInv, KnowsCard, FlagsOf, LastTryIsConfirmed

-----------------------------------------------------------------------------
(* The dialogs and the messages under way to them. *)

Live == {p \in Prompt : inter[p] # "none"}
Up   == {p \in Prompt : view[p] \in {"asking", "busy"}}

(* A message that has its dialog drawn. *)
Raises(m) == m.call \in {"show", "ask", "rest", "busy"}

(* Between two messages that raise the dialogs of two prompts there is the *)
(* close of the first.                                                     *)
Apart(mail) ==
  \A i, j \in DOMAIN mail :
    i < j /\ Raises(mail[i]) /\ Raises(mail[j]) /\ mail[i].prompt # mail[j].prompt
      => \E k \in DOMAIN mail : i < k /\ k < j /\ mail[k] = Msg("close", mail[i].prompt)

(* A dialog that is up is closed before a message raises another. *)
Yields(mail, up) ==
  \A p \in up : \A j \in DOMAIN mail :
    Raises(mail[j]) /\ mail[j].prompt # p
      => \E k \in DOMAIN mail : k < j /\ mail[k] = Msg("close", p)

(* Nothing follows the close of a dialog. *)
CloseIsLast(mail) ==
  \A i, j \in DOMAIN mail : i < j /\ mail[i].call = "close" => mail[j].prompt # mail[i].prompt

(* The dialog of a prompt that is over is closed, or will be. *)
OverCloses(mail, up, live) ==
  \A p \in Prompt \ live :
    p \in up \/ (\E i \in DOMAIN mail : Raises(mail[i]) /\ mail[i].prompt = p)
      => \E k \in DOMAIN mail : mail[k] = Msg("close", p)

LiveStays(mail, live) ==
  \A p \in live : \A k \in DOMAIN mail : mail[k] # Msg("close", p)

Orderly(mail, up, live) ==
  /\ mail \in Seq(Message)
  /\ Apart(mail) /\ Yields(mail, up) /\ CloseIsLast(mail)
  /\ OverCloses(mail, up, live) /\ LiveStays(mail, live)
  /\ \A p, q \in up : p = q

(* A prompt has no dialog before it is shown, and one as long as it works. *)
ShownInv ==
  \A p \in Prompt :
    /\ stage[p] \in {"new", "queued", "refresh"} =>
         /\ inter[p] = "none" /\ p \notin Up
         /\ \A i \in DOMAIN uiq : uiq[i].prompt # p
    /\ stage[p] \in {"open", "login"} => inter[p] # "none"

MailInv == Orderly(uiq, Up, Live) /\ ShownInv

LEMMA Appended ==
  ASSUME NEW mail \in Seq(Message), NEW m \in Message
  PROVE  /\ Append(mail, m) \in Seq(Message) /\ Len(mail) \in Nat
         /\ DOMAIN mail = 1..Len(mail)
         /\ DOMAIN Append(mail, m) = 1..(Len(mail) + 1)
         /\ \A i \in 1..Len(mail) : Append(mail, m)[i] = mail[i] /\ mail[i] \in Message
         /\ Append(mail, m)[Len(mail) + 1] = m
BY AppendProperties

(* The prompt that has the dialog says something to it. *)
LEMMA PostLive ==
  ASSUME NEW mail, NEW up \in SUBSET Prompt, NEW p \in Prompt,
         Orderly(mail, up, {p}), NEW call \in {"show", "ask", "rest", "busy", "warn", "hide"}
  PROVE  Orderly(Append(mail, Msg(call, p)), up, {p})
<1> DEFINE m == Msg(call, p)
           new == Append(mail, m)
           n == Len(mail)
<1>1. m \in Message /\ m.prompt = p /\ m.call = call /\ call # "close"
  BY DEF Msg, Message
<1>2. mail \in Seq(Message)
  BY DEF Orderly
<1> HIDE DEF m
<1>3. /\ new \in Seq(Message) /\ n \in Nat /\ DOMAIN mail = 1..n /\ DOMAIN new = 1..(n + 1)
      /\ \A i \in 1..n : new[i] = mail[i] /\ mail[i] \in Message
      /\ new[n + 1] = m
  BY <1>1, <1>2, Appended
<1> HIDE DEF new, n
<1>4. \A i \in 1..(n + 1) : i \in 1..n \/ i = n + 1
  BY <1>3
<1>5. Apart(new)
  <2> SUFFICES ASSUME NEW i \in 1..(n + 1), NEW j \in 1..(n + 1), i < j, Raises(new[i]), Raises(new[j]),
                      new[i].prompt # new[j].prompt
               PROVE  \E k \in 1..(n + 1) : i < k /\ k < j /\ new[k] = Msg("close", new[i].prompt)
    BY <1>3 DEF Apart
  <2>1. i \in 1..n /\ new[i] = mail[i] /\ mail[i] \in Message
    BY <1>3
  <2>2. CASE j \in 1..n
    <3>1. \E k \in 1..n : i < k /\ k < j /\ mail[k] = Msg("close", mail[i].prompt)
      BY <1>3, <2>1, <2>2 DEF Orderly, Apart
    <3> QED
      BY <1>3, <2>1, <3>1
  <2>3. CASE j = n + 1
    <3>1. mail[i].prompt \in Prompt \ {p}
      BY <1>1, <1>3, <2>1, <2>3 DEF Message
    <3>2. PICK k \in 1..n : mail[k] = Msg("close", mail[i].prompt)
      BY <1>3, <2>1, <3>1 DEF Orderly, OverCloses
    <3>3. mail[k].call = "close" /\ mail[k].prompt = mail[i].prompt /\ mail[i].call # "close"
      BY <2>1, <3>2 DEF Msg, Raises
    <3>4. k # i /\ ~(k < i)
      BY <1>3, <2>1, <3>3 DEF Orderly, CloseIsLast
    <3> QED
      BY <1>3, <2>1, <2>3, <3>2, <3>4
  <2> QED
    BY <1>4, <2>2, <2>3
<1>6. Yields(new, up)
  <2> SUFFICES ASSUME NEW q \in up, NEW j \in 1..(n + 1), Raises(new[j]), new[j].prompt # q
               PROVE  \E k \in 1..(n + 1) : k < j /\ new[k] = Msg("close", q)
    BY <1>3 DEF Yields
  <2>1. CASE j \in 1..n
    <3>1. \E k \in 1..n : k < j /\ mail[k] = Msg("close", q)
      BY <1>3, <2>1 DEF Orderly, Yields
    <3> QED
      BY <1>3, <3>1
  <2>2. CASE j = n + 1
    <3>1. \E k \in 1..n : mail[k] = Msg("close", q)
      BY <1>1, <1>3, <2>2 DEF Orderly, OverCloses
    <3> QED
      BY <1>3, <2>2, <3>1
  <2> QED
    BY <1>4, <2>1, <2>2
<1>7. CloseIsLast(new)
  <2> SUFFICES ASSUME NEW i \in 1..(n + 1), NEW j \in 1..(n + 1), i < j, new[i].call = "close"
               PROVE  new[j].prompt # new[i].prompt
    BY <1>3 DEF CloseIsLast
  <2>1. i \in 1..n /\ new[i] = mail[i] /\ mail[i] \in Message
    BY <1>3
  <2>2. CASE j \in 1..n
    BY <1>3, <2>1, <2>2 DEF Orderly, CloseIsLast
  <2>3. CASE j = n + 1
    <3>1. mail[i].prompt = p => mail[i] = Msg("close", p)
      BY <2>1 DEF Message, Msg
    <3> QED
      BY <1>1, <1>3, <2>1, <2>3, <3>1 DEF Orderly, LiveStays
  <2> QED
    BY <1>4, <2>2, <2>3
<1>8. OverCloses(new, up, {p})
  <2> SUFFICES ASSUME NEW q \in Prompt \ {p},
                      q \in up \/ (\E i \in 1..(n + 1) : Raises(new[i]) /\ new[i].prompt = q)
               PROVE  \E k \in 1..(n + 1) : new[k] = Msg("close", q)
    BY <1>3 DEF OverCloses
  <2>1. q \in up \/ (\E i \in 1..n : Raises(mail[i]) /\ mail[i].prompt = q)
    BY <1>1, <1>3, <1>4
  <2>2. \E k \in 1..n : mail[k] = Msg("close", q)
    BY <1>3, <2>1 DEF Orderly, OverCloses
  <2> QED
    BY <1>3, <2>2
<1>9. LiveStays(new, {p})
  <2>1. m # Msg("close", p)
    BY <1>1 DEF Msg
  <2> QED
    BY <1>3, <1>4, <2>1 DEF Orderly, LiveStays
<1> HIDE DEF Raises
<1> QED
  BY <1>3, <1>5, <1>6, <1>7, <1>8, <1>9 DEF Orderly, new, m

(* A prompt that nothing was said about gets its dialog. *)
LEMMA ShowsUp ==
  ASSUME NEW mail, NEW up \in SUBSET Prompt, NEW p \in Prompt, Orderly(mail, up, {}),
         p \notin up, \A i \in DOMAIN mail : mail[i].prompt # p
  PROVE  Orderly(mail, up, {p})
<1>1. OverCloses(mail, up, {p}) /\ LiveStays(mail, {p})
  BY DEF Orderly, OverCloses, LiveStays, Msg
<1> QED
  BY <1>1 DEF Orderly

(* The prompt that has the dialog ends. *)
LEMMA PostClose ==
  ASSUME NEW mail, NEW up \in SUBSET Prompt, NEW p \in Prompt, Orderly(mail, up, {p})
  PROVE  Orderly(Append(mail, Msg("close", p)), up, {})
<1> DEFINE m == Msg("close", p)
           new == Append(mail, m)
           n == Len(mail)
<1>1. m \in Message /\ m.prompt = p /\ m.call = "close" /\ ~Raises(m)
  BY DEF Msg, Message, Raises
<1>2. mail \in Seq(Message)
  BY DEF Orderly
<1> HIDE DEF m
<1>3. /\ new \in Seq(Message) /\ n \in Nat /\ DOMAIN mail = 1..n /\ DOMAIN new = 1..(n + 1)
      /\ \A i \in 1..n : new[i] = mail[i] /\ mail[i] \in Message
      /\ new[n + 1] = m
  BY <1>1, <1>2, Appended
<1> HIDE DEF new, n
<1>4. \A i \in 1..(n + 1) : i \in 1..n \/ i = n + 1
  BY <1>3
<1>5. Apart(new)
  <2> SUFFICES ASSUME NEW i \in 1..n, NEW j \in 1..n, i < j, Raises(mail[i]), Raises(mail[j]),
                      mail[i].prompt # mail[j].prompt
               PROVE  \E k \in 1..(n + 1) : i < k /\ k < j /\ new[k] = Msg("close", mail[i].prompt)
    BY <1>1, <1>3, <1>4 DEF Apart
  <2>1. \E k \in 1..n : i < k /\ k < j /\ mail[k] = Msg("close", mail[i].prompt)
    BY <1>3 DEF Orderly, Apart
  <2> QED
    BY <1>3, <2>1
<1>6. Yields(new, up)
  <2> SUFFICES ASSUME NEW q \in up, NEW j \in 1..n, Raises(mail[j]), mail[j].prompt # q
               PROVE  \E k \in 1..(n + 1) : k < j /\ new[k] = Msg("close", q)
    BY <1>1, <1>3, <1>4 DEF Yields
  <2>1. \E k \in 1..n : k < j /\ mail[k] = Msg("close", q)
    BY <1>3 DEF Orderly, Yields
  <2> QED
    BY <1>3, <2>1
<1>7. CloseIsLast(new)
  <2> SUFFICES ASSUME NEW i \in 1..(n + 1), NEW j \in 1..(n + 1), i < j, new[i].call = "close"
               PROVE  new[j].prompt # new[i].prompt
    BY <1>3 DEF CloseIsLast
  <2>1. i \in 1..n /\ new[i] = mail[i] /\ mail[i] \in Message
    BY <1>3
  <2>2. CASE j \in 1..n
    BY <1>3, <2>1, <2>2 DEF Orderly, CloseIsLast
  <2>3. CASE j = n + 1
    <3>1. mail[i].prompt = p => mail[i] = Msg("close", p)
      BY <2>1 DEF Message, Msg
    <3> QED
      BY <1>1, <1>3, <2>1, <2>3, <3>1 DEF Orderly, LiveStays
  <2> QED
    BY <1>4, <2>2, <2>3
<1>8. OverCloses(new, up, {})
  <2> SUFFICES ASSUME NEW q \in Prompt, q # p,
                      q \in up \/ (\E i \in 1..(n + 1) : Raises(new[i]) /\ new[i].prompt = q)
               PROVE  \E k \in 1..(n + 1) : new[k] = Msg("close", q)
    BY <1>3 DEF OverCloses, m
  <2>1. q \in up \/ (\E i \in 1..n : Raises(mail[i]) /\ mail[i].prompt = q)
    BY <1>1, <1>3, <1>4
  <2>2. \E k \in 1..n : mail[k] = Msg("close", q)
    BY <1>3, <2>1 DEF Orderly, OverCloses
  <2> QED
    BY <1>3, <2>2
<1>9. LiveStays(new, {})
  BY DEF LiveStays
<1> QED
  BY <1>3, <1>5, <1>6, <1>7, <1>8, <1>9 DEF Orderly, new, m

(* The UI loop handles the first message. *)
LEMMA Delivered ==
  ASSUME NEW mail, NEW up \in SUBSET Prompt, NEW live \in SUBSET Prompt, Orderly(mail, up, live),
         mail # <<>>, NEW after \in SUBSET Prompt,
         after = IF Raises(Head(mail)) THEN up \cup {Head(mail).prompt}
                 ELSE IF Head(mail).call = "warn" THEN up ELSE up \ {Head(mail).prompt}
  PROVE  Orderly(Tail(mail), after, live)
<1> DEFINE n == Len(mail) - 1
           rest == Tail(mail)
<1>1. /\ mail \in Seq(Message) /\ n \in Nat /\ DOMAIN mail = 1..(n + 1)
      /\ rest \in Seq(Message) /\ DOMAIN rest = 1..n
      /\ \A i \in 1..n : rest[i] = mail[i + 1] /\ i + 1 \in 1..(n + 1) /\ mail[i + 1] \in Message
      /\ Head(mail) = mail[1] /\ 1 \in 1..(n + 1) /\ mail[1] \in Message
  <2>1. mail \in Seq(Message)
    BY DEF Orderly
  <2>2. n \in Nat /\ DOMAIN mail = 1..(n + 1) /\ Head(mail) = mail[1]
    BY <2>1
  <2>3. rest \in Seq(Message) /\ DOMAIN rest = 1..n /\ \A i \in 1..n : rest[i] = mail[i + 1]
    BY <2>1, <2>2, HeadTailProperties
  <2> QED
    BY <2>1, <2>2, <2>3
<1> HIDE DEF n, rest
<1>2. \A k \in 1..(n + 1) : k = 1 \/ (k - 1 \in 1..n /\ mail[k] = rest[k - 1])
  BY <1>1
<1>3. Apart(rest)
  <2> SUFFICES ASSUME NEW i \in 1..n, NEW j \in 1..n, i < j, Raises(rest[i]), Raises(rest[j]),
                      rest[i].prompt # rest[j].prompt
               PROVE  \E k \in 1..n : i < k /\ k < j /\ rest[k] = Msg("close", rest[i].prompt)
    BY <1>1 DEF Apart
  <2>1. PICK k \in 1..(n + 1) : i + 1 < k /\ k < j + 1 /\ mail[k] = Msg("close", rest[i].prompt)
    <3>1. i + 1 < j + 1 /\ Raises(mail[i + 1]) /\ Raises(mail[j + 1])
          /\ mail[i + 1].prompt # mail[j + 1].prompt
      BY <1>1
    <3>2. i + 1 \in 1..(n + 1) /\ j + 1 \in 1..(n + 1) /\ rest[i] = mail[i + 1]
      BY <1>1
    <3>3. \A a, b \in 1..(n + 1) :
            a < b /\ Raises(mail[a]) /\ Raises(mail[b]) /\ mail[a].prompt # mail[b].prompt
              => \E k \in 1..(n + 1) : a < k /\ k < b /\ mail[k] = Msg("close", mail[a].prompt)
      BY <1>1 DEF Orderly, Apart
    <3> QED
      BY <3>1, <3>2, <3>3
  <2>2. k # 1 /\ i < k - 1 /\ k - 1 < j
    BY <1>1, <2>1
  <2> QED
    BY <1>2, <2>1, <2>2
<1>4. \A q \in after : q \in up \/ (Raises(mail[1]) /\ mail[1].prompt = q)
  BY <1>1
<1>5. \A q \in after : mail[1] # Msg("close", q)
  BY <1>1 DEF Msg, Raises
<1>6. Yields(rest, after)
  <2> SUFFICES ASSUME NEW q \in after, NEW j \in 1..n, Raises(rest[j]), rest[j].prompt # q
               PROVE  \E k \in 1..n : k < j /\ rest[k] = Msg("close", q)
    BY <1>1 DEF Yields
  <2>1. PICK k \in 1..(n + 1) : k < j + 1 /\ mail[k] = Msg("close", q)
    <3>1. CASE q \in up
      BY <1>1, <3>1 DEF Orderly, Yields
    <3>2. CASE Raises(mail[1]) /\ mail[1].prompt = q
      <4>1. 1 < j + 1
        BY <1>1
      <4> QED
        BY <1>1, <3>2, <4>1 DEF Orderly, Apart
    <3> QED
      BY <1>4, <3>1, <3>2
  <2>2. k # 1 /\ k - 1 < j
    BY <1>1, <1>5, <2>1
  <2> QED
    BY <1>2, <2>1, <2>2
<1>7. CloseIsLast(rest)
  <2> SUFFICES ASSUME NEW i \in 1..n, NEW j \in 1..n, i < j, rest[i].call = "close"
               PROVE  rest[j].prompt # rest[i].prompt
    BY <1>1 DEF CloseIsLast
  <2>1. /\ i + 1 < j + 1 /\ i + 1 \in 1..(n + 1) /\ j + 1 \in 1..(n + 1)
        /\ rest[i] = mail[i + 1] /\ rest[j] = mail[j + 1]
    BY <1>1
  <2>2. \A a, b \in 1..(n + 1) : a < b /\ mail[a].call = "close" => mail[b].prompt # mail[a].prompt
    BY <1>1 DEF Orderly, CloseIsLast
  <2> QED
    BY <2>1, <2>2
<1>8. OverCloses(rest, after, live)
  <2> SUFFICES ASSUME NEW q \in Prompt \ live,
                      q \in after \/ (\E i \in 1..n : Raises(rest[i]) /\ rest[i].prompt = q)
               PROVE  \E k \in 1..n : rest[k] = Msg("close", q)
    BY <1>1 DEF OverCloses
  <2>1. PICK k \in 1..(n + 1) : mail[k] = Msg("close", q)
    <3>1. q \in up \/ (\E i \in 1..(n + 1) : Raises(mail[i]) /\ mail[i].prompt = q)
      BY <1>1, <1>4
    <3> QED
      BY <1>1, <3>1 DEF Orderly, OverCloses
  <2>2. k # 1
    <3> SUFFICES ASSUME mail[1] = Msg("close", q) PROVE FALSE
      BY <2>1
    <3>1. mail[1].call = "close" /\ mail[1].prompt = q
      BY DEF Msg
    <3>2. \A i \in 1..n : 1 < i + 1 /\ rest[i].prompt # q
      BY <1>1, <3>1 DEF Orderly, CloseIsLast
    <3> QED
      BY <1>5, <3>2
  <2> QED
    BY <1>2, <2>1, <2>2
<1>9. LiveStays(rest, live)
  BY <1>1 DEF Orderly, LiveStays
<1>10. \A p, q \in after : p = q
  <2>1. ASSUME NEW q \in up, Raises(mail[1]) PROVE q = mail[1].prompt
    <3>1. ~\E k \in 1..(n + 1) : k < 1
      BY <1>1
    <3> QED
      BY <1>1, <2>1, <3>1 DEF Orderly, Yields
  <2>2. \A p, q \in up : p = q
    BY DEF Orderly
  <2> QED
    BY <1>4, <2>1, <2>2
<1> QED
  BY <1>1, <1>3, <1>6, <1>7, <1>8, <1>9, <1>10 DEF Orderly, rest

LEMMA Said ==
  ASSUME NEW mail \in Seq(Message), NEW m \in Message, NEW n \in Message
  PROVE  /\ mail \o <<m>> = Append(mail, m) /\ Append(mail, m) \in Seq(Message)
         /\ mail \o <<m>> \o <<n>> = Append(Append(mail, m), n)
         /\ mail \o <<>> = mail /\ mail \o <<m>> \o <<>> = Append(mail, m)
<1>1. \A said \in Seq(Message), a \in Message : /\ said \o <<a>> = Append(said, a)
                                               /\ Append(said, a) \in Seq(Message)
                                               /\ said \o <<>> = said
  OBVIOUS
<1> QED
  BY <1>1

-----------------------------------------------------------------------------
(* Only the prompt at work has a dialog at the coordinator. *)
LEMMA OneLive ==
  ASSUME PinInv, NEW p \in Prompt
  PROVE  /\ stage[p] \in AtWork /\ inter[p] = "none" => Live = {}
         /\ inter[p] # "none" => Live = {p} /\ stage[p] \in AtWork
<1>1. \A q \in Live : stage[q] \in AtWork
  BY DEF PinInv, TypeOK, DialogInv, AtWork, Live
<1>2. \A q \in Prompt : stage[q] \in AtWork /\ stage[p] \in AtWork => q = p
  BY DEF PinInv, ActiveInv
<1> QED
  BY <1>1, <1>2 DEF Live

(* The messages of the coordinator. *)
LEMMA OrderlyStep ==
  ASSUME PinInv, MailInv, CoreNext
  PROVE  Orderly(uiq, Up, Live)'
<1>0. PICK p \in Prompt : Ends(p) \/ Begins(p) \/ Works(p) \/ Opens(p) \/ Submits(p) \/ Talks(p)
  BY Effects
<1>1. Up' = Up /\ Up \in SUBSET Prompt
  BY Effects DEF Up
<1>2. Orderly(uiq, Up, Live) /\ uiq \in Seq(Message) /\ inter \in [Prompt -> {"none", "shown", "ready"}]
  BY DEF MailInv, PinInv, TypeOK
<1>3. ASSUME NEW mail, NEW up, NEW live, Orderly(mail, up, live), uiq' = mail, Up' = up, Live' = live
      PROVE  Orderly(uiq, Up, Live)'
  BY <1>3 DEF Orderly, Apart, Yields, CloseIsLast, OverCloses, LiveStays
<1> HIDE DEF MailInv
<1>4. CASE Ends(p)
  <2>1. PICK result \in Outcome, mail \in {<<>>, <<Msg("rest", p)>>}, idles \in SUBSET Prompt :
          /\ Finish(p, result, mail, idles) /\ (mail # <<>> => stage[p] = "login")
    BY <1>4 DEF Ends
  <2>2. uiq' = uiq \o mail \o Closing(p)
    BY <2>1 DEF Finish
  <2>3. inter' = [inter EXCEPT ![p] = "none"]
    BY <1>4, EndsEffect
  <2>4. CASE inter[p] = "none"
    <3>1. mail = <<>> /\ Closing(p) = <<>>
      BY <2>1, <2>4 DEF MailInv, ShownInv, Closing
    <3>2. uiq' = uiq
      BY <1>2, <2>2, <3>1
    <3>3. Live' = Live
      BY <1>2, <2>3, <2>4 DEF Live
    <3> QED
      BY <1>1, <1>2, <1>3, <3>2, <3>3
  <2>5. CASE inter[p] # "none"
    <3>1. Live = {p} /\ Live' = {}
      <4>1. Live = {p}
        BY <2>5, OneLive
      <4> QED
        BY <1>2, <2>3, <4>1 DEF Live
    <3>2. PICK said : (said = uiq \/ said = Append(uiq, Msg("rest", p))) /\ uiq' = Append(said, Msg("close", p))
      <4>1. Closing(p) = <<Msg("close", p)>>
        BY <2>5 DEF Closing
      <4>2. Msg("close", p) \in Message /\ Msg("rest", p) \in Message
        BY DEF Msg, Message
      <4>3. CASE mail = <<>>
        BY <1>2, <2>2, <4>1, <4>2, <4>3
      <4>4. CASE mail = <<Msg("rest", p)>>
        <5>1. uiq' = uiq \o <<Msg("rest", p)>> \o <<Msg("close", p)>>
          BY <2>2, <4>1, <4>4
        <5>2. uiq' = Append(Append(uiq, Msg("rest", p)), Msg("close", p))
          BY <1>2, <4>2, <5>1, Said
        <5> QED
          BY <5>2
      <4> QED
        BY <4>3, <4>4
    <3>3. Orderly(said, Up, {p})
      BY <1>1, <1>2, <3>1, <3>2, PostLive
    <3>4. Orderly(Append(said, Msg("close", p)), Up, {})
      BY <1>1, <3>3, PostClose
    <3> QED
      BY <1>1, <1>3, <3>1, <3>2, <3>4
  <2> QED
    BY <2>4, <2>5
<1>5. ASSUME uiq' = uiq, \A q \in Prompt : inter'[q] = "none" <=> inter[q] = "none"
      PROVE  Orderly(uiq, Up, Live)'
  <2>1. Live' = Live
    BY <1>5 DEF Live
  <2> QED
    BY <1>1, <1>2, <1>3, <1>5, <2>1
<1>6. ASSUME NEW call \in {"show", "ask", "rest", "busy", "warn", "hide"},
             uiq' = Append(uiq, Msg(call, p)), inter[p] # "none",
             \A q \in Prompt : inter'[q] = "none" <=> inter[q] = "none"
      PROVE  Orderly(uiq, Up, Live)'
  <2>1. Live' = Live /\ Live = {p}
    BY <1>6, OneLive DEF Live
  <2>2. Orderly(Append(uiq, Msg(call, p)), Up, {p})
    BY <1>1, <1>2, <2>1, PostLive
  <2> QED
    BY <1>1, <1>3, <1>6, <2>1, <2>2
<1>7. CASE Begins(p) \/ Works(p)
  BY <1>5, <1>7 DEF Begins, Works
<1>8. CASE Opens(p)
  <2>1. CASE stage[p] = "refresh"
    <3>1. /\ inter' = [inter EXCEPT ![p] = "shown"] /\ uiq' = Append(uiq, Msg("show", p))
          /\ inter[p] = "none" /\ p \notin Up /\ \A i \in DOMAIN uiq : uiq[i].prompt # p
      BY <1>8, <2>1 DEF Opens, MailInv, ShownInv
    <3>2. Live = {} /\ Live' = {p}
      <4>1. Live = {}
        BY <2>1, <3>1, OneLive DEF AtWork
      <4> QED
        BY <1>2, <3>1, <4>1 DEF Live
    <3>3. Orderly(uiq, Up, {p})
      BY <1>1, <1>2, <3>1, <3>2, ShowsUp
    <3>4. Orderly(Append(uiq, Msg("show", p)), Up, {p})
      BY <1>1, <3>3, PostLive
    <3> QED
      BY <1>1, <1>3, <3>1, <3>2, <3>4
  <2>2. CASE stage[p] = "login"
    <3>1. uiq' = Append(uiq, Msg("ask", p)) /\ inter' = inter /\ inter[p] # "none"
      BY <1>8, <2>2 DEF Opens, MailInv, ShownInv
    <3> QED
      BY <1>6, <3>1
  <2> QED
    BY <1>8, <2>1, <2>2 DEF Opens
<1>9. CASE Submits(p)
  <2>1. inter[p] # "none" /\ \A q \in Prompt : inter'[q] = "none" <=> inter[q] = "none"
    BY <1>2, <1>9 DEF Submits
  <2>2. uiq' = uiq \/ uiq' = Append(uiq, Msg("warn", p)) \/ uiq' = Append(uiq, Msg("busy", p))
    BY <1>9 DEF Submits, Submit, AskConfirmation, StartLogin
  <2> QED
    BY <1>5, <1>6, <2>1, <2>2
<1>10. CASE Talks(p)
  <2>1. \A q \in Prompt : inter'[q] = "none" <=> inter[q] = "none"
    BY <1>2, <1>10 DEF Talks
  <2>2. \/ uiq' = uiq
        \/ inter[p] # "none" /\ (uiq' = Append(uiq, Msg("hide", p)) \/ uiq' = Append(uiq, Msg("ask", p)))
    BY <1>10 DEF Talks
  <2> QED
    BY <1>5, <1>6, <2>1, <2>2
<1> QED
  BY <1>0, <1>4, <1>7, <1>8, <1>9, <1>10

(* A message is added for the prompt that has or gets a dialog. *)
LEMMA ShownStep ==
  ASSUME PinInv, MailInv, CoreNext
  PROVE  ShownInv'
<1>0. PICK p \in Prompt : Ends(p) \/ Begins(p) \/ Works(p) \/ Opens(p) \/ Submits(p) \/ Talks(p)
  BY Effects
<1>1. /\ Up' = Up /\ uiq \in Seq(Message)
      /\ stage \in [Prompt -> Stage] /\ inter \in [Prompt -> {"none", "shown", "ready"}]
      /\ ShownInv
  BY Effects DEF Up, PinInv, TypeOK, MailInv
<1>2. \A i \in DOMAIN uiq' : (i \in DOMAIN uiq /\ uiq'[i] = uiq[i]) \/ uiq'[i].prompt = p
  <2>1. ASSUME NEW call \in {"show", "ask", "rest", "busy", "warn", "hide", "close"}, NEW said \in Seq(Message)
        PROVE  /\ Append(said, Msg(call, p)) \in Seq(Message)
               /\ \A i \in DOMAIN Append(said, Msg(call, p)) :
                    \/ i \in DOMAIN said /\ Append(said, Msg(call, p))[i] = said[i]
                    \/ Append(said, Msg(call, p))[i].prompt = p
    <3>1. Msg(call, p) \in Message /\ Msg(call, p).prompt = p
      BY DEF Msg, Message
    <3>2. \A i \in 1..(Len(said) + 1) : i \in 1..Len(said) \/ i = Len(said) + 1
      OBVIOUS
    <3> QED
      BY <3>1, <3>2, Appended
  <2>2. CASE Ends(p)
    <3>1. PICK result \in Outcome, mail \in {<<>>, <<Msg("rest", p)>>}, idles \in SUBSET Prompt :
            Finish(p, result, mail, idles)
      BY <2>2 DEF Ends
    <3>2. uiq' = uiq \o mail \o Closing(p)
      BY <3>1 DEF Finish
    <3>3. PICK said : /\ said = uiq \/ said = Append(uiq, Msg("rest", p))
                      /\ uiq' = said \/ uiq' = Append(said, Msg("close", p))
      <4>1. Closing(p) \in {<<>>, <<Msg("close", p)>>}
        BY DEF Closing
      <4>2. Msg("close", p) \in Message /\ Msg("rest", p) \in Message
        BY DEF Msg, Message
      <4>3. CASE mail = <<>>
        BY <1>1, <3>2, <4>1, <4>2, <4>3
      <4>4. CASE mail = <<Msg("rest", p)>>
        <5>1. \/ uiq' = uiq \o <<Msg("rest", p)>> \o <<Msg("close", p)>>
              \/ uiq' = uiq \o <<Msg("rest", p)>> \o <<>>
          BY <3>2, <4>1, <4>4
        <5>2. \/ uiq' = Append(Append(uiq, Msg("rest", p)), Msg("close", p))
              \/ uiq' = Append(uiq, Msg("rest", p))
          BY <1>1, <4>2, <5>1, Said
        <5> QED
          BY <5>2
      <4> QED
        BY <4>3, <4>4
    <3>4. /\ said \in Seq(Message)
          /\ \A i \in DOMAIN said : (i \in DOMAIN uiq /\ said[i] = uiq[i]) \/ said[i].prompt = p
      <4>1. CASE said = uiq
        BY <1>1, <4>1
      <4>2. CASE said = Append(uiq, Msg("rest", p))
        BY <1>1, <2>1, <4>2
      <4> QED
        BY <3>3, <4>1, <4>2
    <3>5. CASE uiq' = said
      BY <3>4, <3>5
    <3>6. CASE uiq' = Append(said, Msg("close", p))
      <4>1. \A i \in DOMAIN uiq' : (i \in DOMAIN said /\ uiq'[i] = said[i]) \/ uiq'[i].prompt = p
        BY <2>1, <3>4, <3>6
      <4> QED
        BY <3>4, <4>1
    <3> QED
      BY <3>3, <3>5, <3>6
  <2>3. CASE ~Ends(p)
    <3>1. uiq' = uiq \/ \E call \in {"show", "ask", "busy", "warn", "hide"} : uiq' = Append(uiq, Msg(call, p))
      BY <1>0, <2>3 DEF Begins, Works, Opens, Submits, Submit, AskConfirmation, StartLogin, Talks
    <3>2. ASSUME NEW call \in {"show", "ask", "busy", "warn", "hide"}, uiq' = Append(uiq, Msg(call, p))
          PROVE  \A i \in DOMAIN uiq' : (i \in DOMAIN uiq /\ uiq'[i] = uiq[i]) \/ uiq'[i].prompt = p
      BY <1>1, <2>1, <3>2
    <3> QED
      BY <3>1, <3>2
  <2> QED
    BY <2>2, <2>3
<1>3. ASSUME NEW q \in Prompt, stage'[q] \in {"new", "queued", "refresh"},
             stage[q] \in {"new", "queued", "refresh"}, inter'[q] = inter[q],
             q # p \/ uiq' = uiq
      PROVE  /\ inter'[q] = "none" /\ q \notin Up'
             /\ \A i \in DOMAIN uiq' : uiq'[i].prompt # q
  BY <1>1, <1>2, <1>3 DEF ShownInv
<1> SUFFICES ASSUME NEW q \in Prompt
             PROVE  /\ stage'[q] \in {"new", "queued", "refresh"} =>
                         /\ stage[q] \in {"new", "queued", "refresh"} /\ inter'[q] = inter[q]
                         /\ q # p \/ uiq' = uiq
                    /\ stage'[q] \in {"open", "login"} => inter'[q] # "none"
  <2>1. ShownInv' <=> \A q \in Prompt :
          /\ stage'[q] \in {"new", "queued", "refresh"} =>
               /\ inter'[q] = "none" /\ q \notin Up'
               /\ \A i \in DOMAIN uiq' : uiq'[i].prompt # q
          /\ stage'[q] \in {"open", "login"} => inter'[q] # "none"
    BY DEF ShownInv
  <2> QED
    BY <1>3, <2>1
<1>4. CASE Ends(p)
  BY <1>1, <1>4, EndsEffect DEF ShownInv
<1>5. CASE Begins(p) \/ Works(p)
  BY <1>1, <1>5 DEF Begins, Works, ShownInv
<1>6. CASE Opens(p)
  BY <1>1, <1>6 DEF Opens, ShownInv
<1>7. CASE Submits(p)
  <2>1. stage' \in {stage, [stage EXCEPT ![p] = "login"]}
    BY <1>7 DEF Submits, Submit, AskConfirmation, StartLogin
  <2> QED
    BY <1>1, <1>7, <2>1 DEF Submits, ShownInv
<1>8. CASE Talks(p)
  BY <1>1, <1>8 DEF Talks, ShownInv
<1> QED
  BY <1>0, <1>4, <1>5, <1>6, <1>7, <1>8

LEMMA MailInit == Init => MailInv
<1> SUFFICES ASSUME Init PROVE MailInv
  OBVIOUS
<1>1. uiq = <<>> /\ Up = {} /\ Live = {} /\ \A p \in Prompt : stage[p] = "new" /\ inter[p] = "none"
  BY DEF Init, Up, Live
<1> QED
  BY <1>1 DEF MailInv, Orderly, Apart, Yields, CloseIsLast, OverCloses, LiveStays, ShownInv

(* The UI loop handles a message. *)
LEMMA HandledStep ==
  ASSUME PinInv, MailInv, Handled
  PROVE  MailInv'
<1>1. /\ uiq \in Seq(Message) /\ uiq # <<>> /\ uiq' = Tail(uiq)
      /\ Head(uiq) \in Message /\ view \in [Prompt -> {"none", "asking", "busy", "hidden", "closed"}]
      /\ stage' = stage /\ inter' = inter /\ Live' = Live
      /\ Orderly(uiq, Up, Live) /\ Live \in SUBSET Prompt /\ Up \in SUBSET Prompt /\ Up' \in SUBSET Prompt
  BY HandledTypes DEF PinInv, TypeOK, Handled, promptVars, MailInv, Live, Up
<1>2. Up' = IF Raises(Head(uiq)) THEN Up \cup {Head(uiq).prompt}
            ELSE IF Head(uiq).call = "warn" THEN Up ELSE Up \ {Head(uiq).prompt}
  <2> DEFINE p == Head(uiq).prompt
             call == Head(uiq).call
  <2>1. p \in Prompt /\ call \in {"show", "ask", "rest", "busy", "warn", "hide", "close"}
    BY <1>1 DEF Message
  <2>2. view' = [view EXCEPT ![p] = Shown(@, call)]
    BY DEF Handled
  <2>3. Raises(Head(uiq)) <=> call \in {"show", "ask", "rest", "busy"}
    BY DEF Raises
  <2> HIDE DEF p, call
  <2>4. Up' = IF call \in {"show", "ask", "rest", "busy"} THEN Up \cup {p}
              ELSE IF call = "warn" THEN Up ELSE Up \ {p}
    BY <1>1, <2>1, <2>2 DEF Up, Shown
  <2> QED
    BY <2>3, <2>4 DEF p, call
<1>3. Orderly(Tail(uiq), Up', Live)
  BY <1>1, <1>2, Delivered
<1>4. Orderly(uiq, Up, Live)'
  BY <1>1, <1>3 DEF Orderly, Apart, Yields, CloseIsLast, OverCloses, LiveStays
<1>5. ShownInv'
  <2>1. /\ Head(uiq) = uiq[1] /\ 1 \in DOMAIN uiq
        /\ \A i \in DOMAIN uiq' : i + 1 \in DOMAIN uiq /\ uiq'[i] = uiq[i + 1]
    BY <1>1, HeadTailProperties
  <2>2. \A q \in Prompt : stage[q] \in {"new", "queued", "refresh"} => Head(uiq).prompt # q
    BY <2>1 DEF MailInv, ShownInv
  <2>3. \A q \in Up' : q \in Up \/ q = Head(uiq).prompt
    BY <1>2
  <2> QED
    BY <1>1, <2>1, <2>2, <2>3 DEF MailInv, ShownInv
<1> QED
  BY <1>4, <1>5 DEF MailInv

LEMMA MailKept ==
  ASSUME MailInv, UNCHANGED <<uiq, view, inter, stage>>
  PROVE  MailInv'
BY DEF MailInv, Orderly, Apart, Yields, CloseIsLast, OverCloses, LiveStays, ShownInv, Up, Live

LEMMA MailOneDialog == MailInv => OnePinDialog
<1> SUFFICES ASSUME MailInv PROVE Cardinality(Up) <= 1
  BY DEF OnePinDialog, Up
<1>1. \A p, q \in Up : p = q
  BY DEF MailInv, Orderly
<1>2. CASE Up = {}
  BY <1>2, FS_EmptySet
<1>3. CASE Up # {}
  <2>1. PICK p : p \in Up
    BY <1>3
  <2>2. Up = {p}
    BY <1>1, <2>1
  <2> QED
    BY <2>2, FS_Singleton
<1> QED
  BY <1>2, <1>3

-----------------------------------------------------------------------------
(* The theorems about the dialogs, with any dialog and with the system     *)
(* prompter's.                                                             *)

PromptInv == PinInv /\ FlagsInv /\ MailInv

LEMMA PromptInit == Init => PromptInv
BY InitHolds, FlagsInit, MailInit DEF PromptInv

LEMMA PromptCore == PromptInv /\ CoreNext => PromptInv'
BY CoreStep, FlagsStep, OrderlyStep, ShownStep DEF PromptInv, MailInv

LEMMA PromptNext == PromptInv /\ [Next]_vars => PromptInv'
<1> SUFFICES ASSUME PromptInv, [Next]_vars PROVE PromptInv'
  OBVIOUS
<1>1. PinInv'
  BY NextStep DEF PromptInv
<1>2. CASE UiDeliver
  <2>1. Handled /\ UNCHANGED <<stage, worker, warned, cardVars>>
    BY <1>2 DEF UiDeliver, Handled, promptVars
  <2> QED
    BY <1>1, <2>1, FlagsKept, HandledStep DEF PromptInv
<1>3. CASE (\E p \in Prompt, kind \in Kind : UiReply(p, kind)) \/ UNCHANGED vars
  <2>1. UNCHANGED <<uiq, view, inter, stage>> /\ UNCHANGED <<stage, worker, warned, cardVars>>
    BY <1>3 DEF UiReply, vars, uiVars, promptVars
  <2> QED
    BY <1>1, <2>1, FlagsKept, MailKept DEF PromptInv
<1> QED
  BY <1>2, <1>3, PromptCore DEF Next

LEMMA PromptSystem == PromptInv /\ [SystemNext]_<<vars, systemVars>> => PromptInv'
<1> SUFFICES ASSUME PromptInv, [SystemNext]_<<vars, systemVars>> PROVE PromptInv'
  OBVIOUS
<1>1. PinInv'
  BY SystemStep DEF PromptInv
<1>2. CASE SystemDeliver
  <2>1. Handled /\ UNCHANGED <<stage, worker, warned, cardVars>>
    BY <1>2 DEF SystemDeliver, Handled, promptVars
  <2> QED
    BY <1>1, <2>1, FlagsKept, HandledStep DEF PromptInv
<1>3. CASE \E p \in Prompt : Opened(p) \/ RoundDone(p) \/ Dismiss(p) \/ SettleDismissal(p)
  <2>1. CoreUnchanged
    BY <1>3 DEF Opened, RoundDone, Dismiss, SettleDismissal
  <2>2. UNCHANGED <<uiq, view, inter, stage>> /\ UNCHANGED <<stage, worker, warned, cardVars>>
    BY <2>1 DEF CoreUnchanged, uiVars, promptVars
  <2> QED
    BY <1>1, <2>2, FlagsKept, MailKept DEF PromptInv
<1>4. CASE SystemCore
  BY <1>4, PromptCore DEF SystemCore
<1>5. CASE Next \/ UNCHANGED <<vars, systemVars>>
  BY <1>5, PromptNext
<1> QED
  BY <1>2, <1>3, <1>4, <1>5 DEF SystemNext

LEMMA PromptHolds == PromptInv => LastTryIsConfirmed /\ OnePinDialog
BY FlagsConfirm, MailOneDialog DEF PromptInv

(* A login on a protected path that may spend the card's last attempt was  *)
(* confirmed (certificate_pin_prompt_submit), if the refresh before it     *)
(* read the card: whatever other prompts did before, and whether their     *)
(* refreshes read it or not, no prompt of the process spends an attempt    *)
(* between this prompt's refresh and the login that relies on it.          *)
THEOREM LastTryAlwaysConfirmed == Spec => []LastTryIsConfirmed
BY PromptInit, PromptNext, PromptHolds, PTL DEF Spec

THEOREM SystemLastTryConfirmed == SystemSpec => []LastTryIsConfirmed
<1>1. SystemInit => PromptInv
  BY PromptInit DEF SystemInit
<1> QED
  BY <1>1, PromptSystem, PromptHolds, PTL DEF SystemSpec

(* The user never faces two PIN dialogs (close_interaction, ui_deliver):   *)
(* the close of one is under way before the show of the next is posted,    *)
(* and the UI loop handles messages in order.                              *)
THEOREM AlwaysOnePinDialog == Spec => []OnePinDialog
BY PromptInit, PromptNext, PromptHolds, PTL DEF Spec

THEOREM SystemOnePinDialog == SystemSpec => []OnePinDialog
<1>1. SystemInit => PromptInv
  BY PromptInit DEF SystemInit
<1> QED
  BY <1>1, PromptSystem, PromptHolds, PTL DEF SystemSpec

-----------------------------------------------------------------------------
(* The rounds of the system prompter. *)

Holds(mail, m) == \E i \in DOMAIN mail : mail[i] = m
Once(mail, m) == \A i, j \in DOMAIN mail : mail[i] = m /\ mail[j] = m => i = j

From(kind, p) == [kind |-> kind, prompt |-> p]

(* The dialog is not open yet, and no round was asked for. *)
Unopened(p) == gcr[p] \in {"none", "opening"}

(* A prompt is shown once. *)
OpenInv(p) ==
  /\ stage[p] \in {"new", "queued", "refresh"} => gcr[p] = "none" /\ p \notin final
  /\ Holds(uiq, Msg("show", p)) => gcr[p] = "none"
  /\ Once(uiq, Msg("show", p))
  /\ Unopened(p) => round[p] = "none"
  /\ ~Holds(replies, From("empty", p))

(* Who enters a PIN has one thing to wait for: the round, the handling of  *)
(* the PIN, the login, or the message that asks for another.               *)
PasswordInv(p) ==
  /\ round[p] \in {"none", "password"}
  /\ stage[p] = "login" => round[p] = "none" /\ ~Unopened(p)
  /\ Holds(replies, From("submit", p)) => round[p] = "none" /\ ~Unopened(p) /\ stage[p] # "login"
  /\ Holds(uiq, Msg("ask", p)) =>
       round[p] = "none" /\ ~Unopened(p) /\ stage[p] # "login" /\ ~Holds(replies, From("submit", p))
  /\ Once(replies, From("submit", p)) /\ Once(uiq, Msg("ask", p))
  /\ ~Holds(replies, From("accept", p)) /\ ~Holds(uiq, Msg("warn", p))

(* On a protected path the last try is warned of only after ready, and     *)
(* then no notice was shown: the flags are those of the view.              *)
WarningInv(p) ==
  /\ round[p] \in {"none", "notice", "confirm"}
  /\ round[p] = "notice" => p \notin final
  /\ round[p] = "confirm" => inter[p] # "shown"
  /\ stage[p] = "open" /\ inter[p] = "shown" /\ flags = "final" => p \in final
  /\ Holds(replies, From("ready", p)) => ~Unopened(p)
  /\ Holds(uiq, Msg("warn", p)) => round[p] = "none" /\ ~Unopened(p) /\ inter[p] # "shown"
  /\ Once(uiq, Msg("warn", p))
  /\ ~Holds(replies, From("submit", p)) /\ ~Holds(uiq, Msg("ask", p))

PromptRound(p) ==
  /\ OpenInv(p)
  /\ p \notin Protected => PasswordInv(p)
  /\ p \in Protected => WarningInv(p)

RoundInv ==
  /\ SystemTypeOK /\ OneRoundAtATime
  /\ ~system => \A p \in Prompt : gcr[p] = "none" /\ round[p] = "none"
  /\ system => \A p \in Prompt : PromptRound(p)

-----------------------------------------------------------------------------
(* Messages come and go. *)

Fewer(new, old, m) == (Holds(new, m) => Holds(old, m)) /\ (Once(old, m) => Once(new, m))

LEMMA HoldsAppend ==
  ASSUME NEW T, NEW mail \in Seq(T), NEW a \in T, NEW m
  PROVE  /\ Holds(Append(mail, a), m) => Holds(mail, m) \/ a = m
         /\ Once(mail, m) /\ (a = m => ~Holds(mail, m)) => Once(Append(mail, a), m)
<1> DEFINE new == Append(mail, a)
           n == Len(mail)
<1>1. /\ n \in Nat /\ DOMAIN mail = 1..n /\ DOMAIN new = 1..(n + 1)
      /\ \A i \in 1..n : new[i] = mail[i]
      /\ new[n + 1] = a
  BY AppendProperties
<1> HIDE DEF new, n
<1>2. \A i \in 1..(n + 1) : i \in 1..n \/ i = n + 1
  BY <1>1
<1>3. Holds(new, m) => Holds(mail, m) \/ a = m
  BY <1>1, <1>2 DEF Holds
<1>4. ASSUME Once(mail, m), a = m => ~Holds(mail, m),
             NEW i \in 1..(n + 1), NEW j \in 1..(n + 1), new[i] = m, new[j] = m
      PROVE  i = j
  <2>1. CASE i \in 1..n /\ j \in 1..n
    BY <1>1, <1>4, <2>1 DEF Once
  <2>2. ASSUME NEW k \in 1..n, new[k] = m PROVE a # m
    BY <1>1, <1>4, <2>2 DEF Holds
  <2> QED
    BY <1>1, <1>2, <1>4, <2>1, <2>2
<1>5. Once(mail, m) /\ (a = m => ~Holds(mail, m)) => Once(new, m)
  BY <1>1, <1>4 DEF Once
<1> QED
  BY <1>3, <1>5 DEF new

LEMMA HoldsTail ==
  ASSUME NEW T, NEW mail \in Seq(T), mail # <<>>, NEW m
  PROVE  /\ Fewer(Tail(mail), mail, m)
         /\ Head(mail) = m => Holds(mail, m) /\ (Once(mail, m) => ~Holds(Tail(mail), m))
<1> DEFINE rest == Tail(mail)
           n == Len(mail) - 1
<1>1. /\ n \in Nat /\ DOMAIN mail = 1..(n + 1) /\ DOMAIN rest = 1..n /\ Head(mail) = mail[1]
      /\ \A i \in 1..n : rest[i] = mail[i + 1]
  <2>1. n \in Nat /\ DOMAIN mail = 1..(n + 1) /\ Head(mail) = mail[1]
    OBVIOUS
  <2>2. DOMAIN rest = 1..n /\ \A i \in 1..n : rest[i] = mail[i + 1]
    BY <2>1, HeadTailProperties
  <2> QED
    BY <2>1, <2>2
<1> HIDE DEF rest, n
<1>2. \A i \in 1..n : i + 1 \in 1..(n + 1) /\ i + 1 # 1 /\ rest[i] = mail[i + 1]
  BY <1>1
<1>3. 1 \in 1..(n + 1)
  BY <1>1
<1>4. Holds(rest, m) => Holds(mail, m)
  BY <1>1, <1>2 DEF Holds
<1>5. ASSUME Once(mail, m), NEW i \in 1..n, NEW j \in 1..n, rest[i] = m, rest[j] = m
      PROVE  i = j
  <2>1. i + 1 \in 1..(n + 1) /\ j + 1 \in 1..(n + 1) /\ mail[i + 1] = m /\ mail[j + 1] = m
    BY <1>2, <1>5
  <2>2. i + 1 = j + 1
    BY <1>1, <1>5, <2>1 DEF Once
  <2> QED
    BY <2>2
<1>6. ASSUME Once(mail, m), mail[1] = m, NEW i \in 1..n, rest[i] = m
      PROVE  FALSE
  <2>1. i + 1 \in 1..(n + 1) /\ mail[i + 1] = m /\ i + 1 # 1
    BY <1>2, <1>6
  <2> QED
    BY <1>1, <1>3, <1>6, <2>1 DEF Once
<1>7. Once(mail, m) => Once(rest, m)
  BY <1>1, <1>5 DEF Once
<1>8. mail[1] = m => Holds(mail, m) /\ (Once(mail, m) => ~Holds(rest, m))
  BY <1>1, <1>3, <1>6 DEF Holds
<1> QED
  BY <1>1, <1>4, <1>7, <1>8 DEF Fewer, rest

LEMMA FewerAppend ==
  ASSUME NEW T, NEW mail \in Seq(T), NEW a \in T, NEW m, a # m
  PROVE  Fewer(Append(mail, a), mail, m)
BY HoldsAppend DEF Fewer

LEMMA FewerSame == \A mail, m : Fewer(mail, mail, m)
BY DEF Fewer

(* What a prompt says of its dialog that asks for a round. *)
Asking == {"show", "ask", "warn"}

(* What the dialog says that is waited for. *)
Waited == {"ready", "submit", "empty", "accept"}

LEMMA OtherMessage ==
  ASSUME NEW mail \in Seq(Message), NEW p \in Prompt, NEW q \in Prompt,
         NEW call \in {"show", "ask", "rest", "busy", "warn", "hide", "close"}, NEW other \in Asking,
         q # p \/ call # other
  PROVE  Fewer(Append(mail, Msg(call, p)), mail, Msg(other, q))
<1>1. Msg(call, p) \in Message /\ Msg(call, p) # Msg(other, q)
  <2>1. /\ Msg(call, p).call = call /\ Msg(call, p).prompt = p
        /\ Msg(other, q).call = other /\ Msg(other, q).prompt = q
    BY DEF Msg
  <2> QED
    BY <2>1 DEF Msg, Message
<1> QED
  BY <1>1, FewerAppend

-----------------------------------------------------------------------------
(* A step that starts nothing a prompt waits for. *)

UiFewer(q) == \A call \in Asking : Fewer(uiq', uiq, Msg(call, q))
RepliesFewer(q) == \A kind \in Waited : Fewer(replies', replies, From(kind, q))

(* What the core does to it. *)
Calm(q) ==
  /\ stage'[q] \in {"new", "queued", "refresh"} => stage[q] \in {"new", "queued", "refresh"}
  /\ stage'[q] = "login" /\ q \notin Protected => stage[q] = "login"
  /\ inter'[q] = "shown" => inter[q] = "shown"
  /\ stage'[q] = "open" /\ inter'[q] = "shown" => stage[q] = "open" /\ flags' = flags
  /\ UiFewer(q)

(* What the dialog does. *)
Still(q) ==
  /\ gcr'[q] = gcr[q] \/ (gcr[q] = "open" /\ gcr'[q] = "released")
  /\ round'[q] \in {round[q], "none"}
  /\ q \in final' <=> q \in final

(* What the invariant says of a prompt after a step. *)
LEMMA PromptRoundPrime ==
  ASSUME NEW q \in Prompt
  PROVE  PromptRound(q)' <=>
    /\ /\ stage'[q] \in {"new", "queued", "refresh"} => gcr'[q] = "none" /\ q \notin final'
       /\ Holds(uiq', Msg("show", q)) => gcr'[q] = "none"
       /\ Once(uiq', Msg("show", q))
       /\ gcr'[q] \in {"none", "opening"} => round'[q] = "none"
       /\ ~Holds(replies', From("empty", q))
    /\ q \notin Protected =>
       /\ round'[q] \in {"none", "password"}
       /\ stage'[q] = "login" => round'[q] = "none" /\ gcr'[q] \notin {"none", "opening"}
       /\ Holds(replies', From("submit", q)) =>
            round'[q] = "none" /\ gcr'[q] \notin {"none", "opening"} /\ stage'[q] # "login"
       /\ Holds(uiq', Msg("ask", q)) =>
            /\ round'[q] = "none" /\ gcr'[q] \notin {"none", "opening"} /\ stage'[q] # "login"
            /\ ~Holds(replies', From("submit", q))
       /\ Once(replies', From("submit", q)) /\ Once(uiq', Msg("ask", q))
       /\ ~Holds(replies', From("accept", q)) /\ ~Holds(uiq', Msg("warn", q))
    /\ q \in Protected =>
       /\ round'[q] \in {"none", "notice", "confirm"}
       /\ round'[q] = "notice" => q \notin final'
       /\ round'[q] = "confirm" => inter'[q] # "shown"
       /\ stage'[q] = "open" /\ inter'[q] = "shown" /\ flags' = "final" => q \in final'
       /\ Holds(replies', From("ready", q)) => gcr'[q] \notin {"none", "opening"}
       /\ Holds(uiq', Msg("warn", q)) =>
            round'[q] = "none" /\ gcr'[q] \notin {"none", "opening"} /\ inter'[q] # "shown"
       /\ Once(uiq', Msg("warn", q))
       /\ ~Holds(replies', From("submit", q)) /\ ~Holds(uiq', Msg("ask", q))
BY DEF PromptRound, OpenInv, PasswordInv, WarningInv, Unopened, Holds, Once, Msg, From

LEMMA QuietRound ==
  ASSUME NEW q \in Prompt, PromptRound(q), Calm(q), Still(q), RepliesFewer(q)
  PROVE  PromptRound(q)'
<1>1. /\ Fewer(uiq', uiq, Msg("show", q)) /\ Fewer(uiq', uiq, Msg("ask", q)) /\ Fewer(uiq', uiq, Msg("warn", q))
      /\ Fewer(replies', replies, From("ready", q)) /\ Fewer(replies', replies, From("submit", q))
      /\ Fewer(replies', replies, From("empty", q)) /\ Fewer(replies', replies, From("accept", q))
  <2>1. /\ "show" \in Asking /\ "ask" \in Asking /\ "warn" \in Asking
        /\ "ready" \in Waited /\ "submit" \in Waited /\ "empty" \in Waited /\ "accept" \in Waited
    BY DEF Asking, Waited
  <2> QED
    BY <2>1, Zenon DEF Calm, UiFewer, RepliesFewer
<1>2. /\ Holds(uiq', Msg("show", q)) => Holds(uiq, Msg("show", q))
      /\ Once(uiq, Msg("show", q)) => Once(uiq', Msg("show", q))
      /\ Holds(uiq', Msg("ask", q)) => Holds(uiq, Msg("ask", q))
      /\ Once(uiq, Msg("ask", q)) => Once(uiq', Msg("ask", q))
      /\ Holds(uiq', Msg("warn", q)) => Holds(uiq, Msg("warn", q))
      /\ Once(uiq, Msg("warn", q)) => Once(uiq', Msg("warn", q))
  BY <1>1, Zenon DEF Fewer
<1>3. /\ Holds(replies', From("ready", q)) => Holds(replies, From("ready", q))
      /\ Holds(replies', From("empty", q)) => Holds(replies, From("empty", q))
      /\ Holds(replies', From("accept", q)) => Holds(replies, From("accept", q))
      /\ Holds(replies', From("submit", q)) => Holds(replies, From("submit", q))
      /\ Once(replies, From("submit", q)) => Once(replies', From("submit", q))
  BY <1>1, Zenon DEF Fewer
<1>4. /\ Unopened(q) <=> gcr'[q] \in {"none", "opening"}
      /\ gcr[q] = "none" => gcr'[q] = "none"
      /\ round'[q] \in {round[q], "none"}
      /\ q \in final' <=> q \in final
      /\ stage'[q] \in {"new", "queued", "refresh"} => stage[q] \in {"new", "queued", "refresh"}
      /\ stage'[q] = "login" /\ q \notin Protected => stage[q] = "login"
      /\ inter'[q] = "shown" => inter[q] = "shown"
      /\ stage'[q] = "open" /\ inter'[q] = "shown" => stage[q] = "open" /\ flags' = flags
  BY DEF Calm, Still, Unopened
<1>5. OpenInv(q) /\ (q \notin Protected => PasswordInv(q)) /\ (q \in Protected => WarningInv(q))
  BY DEF PromptRound
<1>6. /\ stage'[q] \in {"new", "queued", "refresh"} => gcr'[q] = "none" /\ q \notin final'
      /\ Holds(uiq', Msg("show", q)) => gcr'[q] = "none"
      /\ Once(uiq', Msg("show", q))
      /\ gcr'[q] \in {"none", "opening"} => round'[q] = "none"
      /\ ~Holds(replies', From("empty", q))
  BY <1>2, <1>3, <1>4, <1>5 DEF OpenInv
<1>7. ASSUME q \notin Protected
      PROVE  /\ round'[q] \in {"none", "password"}
             /\ stage'[q] = "login" => round'[q] = "none" /\ gcr'[q] \notin {"none", "opening"}
             /\ Holds(replies', From("submit", q)) =>
                  round'[q] = "none" /\ gcr'[q] \notin {"none", "opening"} /\ stage'[q] # "login"
             /\ Holds(uiq', Msg("ask", q)) =>
                  /\ round'[q] = "none" /\ gcr'[q] \notin {"none", "opening"} /\ stage'[q] # "login"
                  /\ ~Holds(replies', From("submit", q))
             /\ Once(replies', From("submit", q)) /\ Once(uiq', Msg("ask", q))
             /\ ~Holds(replies', From("accept", q)) /\ ~Holds(uiq', Msg("warn", q))
  BY <1>2, <1>3, <1>4, <1>5, <1>7 DEF PasswordInv
<1>8. ASSUME q \in Protected
      PROVE  /\ round'[q] \in {"none", "notice", "confirm"}
             /\ round'[q] = "notice" => q \notin final'
             /\ round'[q] = "confirm" => inter'[q] # "shown"
             /\ stage'[q] = "open" /\ inter'[q] = "shown" /\ flags' = "final" => q \in final'
             /\ Holds(replies', From("ready", q)) => gcr'[q] \notin {"none", "opening"}
             /\ Holds(uiq', Msg("warn", q)) =>
                  round'[q] = "none" /\ gcr'[q] \notin {"none", "opening"} /\ inter'[q] # "shown"
             /\ Once(uiq', Msg("warn", q))
             /\ ~Holds(replies', From("submit", q)) /\ ~Holds(uiq', Msg("ask", q))
  BY <1>2, <1>3, <1>4, <1>5, <1>8 DEF WarningInv
<1> QED
  BY <1>6, <1>7, <1>8, PromptRoundPrime

-----------------------------------------------------------------------------
(* The steps of the coordinator with the system prompter's dialog. *)

Mild(p) ==
  /\ inter' = inter \/ (inter[p] = "shown" /\ inter' = [inter EXCEPT ![p] = "ready"])
  /\ uiq' = uiq \/ uiq' = Append(uiq, Msg("hide", p))
  /\ UNCHANGED <<stage, cardVars>>

Warns(p) ==
  /\ p \in Protected /\ flags = "final" /\ stage[p] = "open" /\ inter[p] = "shown"
  /\ Holds(replies, From("ready", p))
  /\ inter' = [inter EXCEPT ![p] = "ready"] /\ uiq' = Append(uiq, Msg("warn", p))
  /\ UNCHANGED <<stage, cardVars>>

(* A login starts with the one PIN that was submitted. *)
LogsIn(p) ==
  /\ stage[p] = "open" /\ inter[p] # "none"
  /\ p \notin Protected =>
       replies # <<>> /\ Head(replies) = From("submit", p) /\ replies' = Tail(replies)
  /\ inter' = [inter EXCEPT ![p] = "ready"] /\ stage' = [stage EXCEPT ![p] = "login"]
  /\ uiq' = Append(uiq, Msg("busy", p))
  /\ UNCHANGED cardVars

LEMMA ReplyEffects ==
  ASSUME PinInv, \A p \in Prompt : PromptRound(p), HandleReplies
  PROVE  \E p \in Prompt : Ends(p) \/ Mild(p) \/ Warns(p) \/ LogsIn(p)
<1> DEFINE p == Head(replies).prompt
           kind == Head(replies).kind
<1>1. /\ replies \in Seq(Reply) /\ replies # <<>> /\ replies' = Tail(replies)
      /\ UNCHANGED cardVars
      /\ IF Hears(p, kind) THEN HandleReply(p, kind) ELSE Ignore
  BY DEF HandleReplies, PinInv, TypeOK
<1>2. Head(replies) \in Reply /\ Head(replies) = From(kind, p) /\ p \in Prompt /\ kind \in Kind
  <2>1. Head(replies) \in Reply
    BY <1>1
  <2> QED
    BY <2>1 DEF Reply, From
<1> HIDE DEF p, kind
<1>3. Holds(replies, From(kind, p))
  BY <1>1, <1>2, HoldsTail
<1>4. /\ PromptRound(p) /\ idle \in SUBSET Prompt
      /\ warned[p] \in {"no", "pending", "confirmed"}
      /\ inter \in [Prompt -> {"none", "shown", "ready"}] /\ stage \in [Prompt -> Stage]
      /\ Outcome = {"ok", "cancelled", "incorrect", "locked", "timeout", "failed"}
  BY <1>2 DEF PinInv, TypeOK, Outcome
<1>5. CASE ~Hears(p, kind)
  BY <1>1, <1>2, <1>5 DEF Ignore, Mild, promptVars
<1>6. CASE Hears(p, kind) /\ kind = "ready"
  <2>1. inter[p] = "shown" /\ stage[p] = "open" /\ inter' = [inter EXCEPT ![p] = "ready"]
    BY <1>1, <1>2, <1>6 DEF Hears, HandleReply, PinInv, DialogInv
  <2>2. CASE p \in Protected
    <3>1. Submit(p, warned[p])
      BY <1>1, <1>6, <2>2 DEF HandleReply
    <3>2. CASE MustConfirm(p, warned[p]) /\ AskConfirmation(p, warned[p])
      <4>1. flags = "final" /\ stage' = stage
        BY <3>2 DEF MustConfirm, AskConfirmation
      <4>2. uiq' = IF warned[p] = "no" THEN Append(uiq, Msg("warn", p)) ELSE uiq
        BY <3>2 DEF AskConfirmation
      <4> QED
        BY <1>1, <1>2, <1>3, <1>6, <2>1, <2>2, <4>1, <4>2 DEF Warns, Mild
    <3>3. CASE StartLogin(p, warned[p])
      <4>1. stage' = [stage EXCEPT ![p] = "login"] /\ uiq' = Append(uiq, Msg("busy", p))
        BY <3>3 DEF StartLogin
      <4> QED
        BY <1>1, <1>2, <2>1, <2>2, <4>1 DEF LogsIn
    <3> QED
      BY <3>1, <3>2, <3>3 DEF Submit
  <2>3. CASE p \notin Protected
    <3>1. UNCHANGED <<promptVars, uiq>>
      BY <1>1, <1>6, <2>3 DEF HandleReply
    <3> QED
      BY <1>1, <1>2, <2>1, <3>1 DEF Mild, promptVars
  <2> QED
    BY <2>2, <2>3
<1>7. CASE Hears(p, kind) /\ kind \in {"submit", "accept"}
  <2>1. inter[p] = "ready" /\ stage[p] = "open" /\ UNCHANGED inter
    <3>1. inter[p] # "none" /\ ~InFlight(p) /\ (kind = "accept" => warned[p] = "pending")
          /\ (kind = "submit" => inter[p] = "ready")
      BY <1>7 DEF Hears
    <3>2. inter[p] = "ready" /\ stage[p] = "open"
      BY <1>2, <1>4, <1>7, <3>1 DEF PinInv, DialogInv, InFlight
    <3> QED
      BY <1>1, <1>7, <3>2 DEF HandleReply
  <2>2. (kind = "submit" => p \notin Protected) /\ (kind = "accept" => p \in Protected)
    BY <1>3, <1>4 DEF PromptRound, PasswordInv, WarningInv
  <2>3. PICK w : Submit(p, w) /\ ~MustConfirm(p, w)
    BY <1>1, <1>7, <2>2 DEF HandleReply, MustConfirm
  <2>4. stage' = [stage EXCEPT ![p] = "login"] /\ uiq' = Append(uiq, Msg("busy", p))
    BY <2>3 DEF Submit, StartLogin
  <2>5. inter' = [inter EXCEPT ![p] = "ready"]
    BY <1>2, <1>4, <2>1
  <2> QED
    BY <1>1, <1>2, <1>7, <2>1, <2>2, <2>4, <2>5 DEF LogsIn
<1>8. CASE Hears(p, kind) /\ kind = "empty"
  BY <1>3, <1>4, <1>8 DEF PromptRound, OpenInv
<1>9. CASE Hears(p, kind) /\ kind \in {"decline", "cancel", "fail"}
  <2>1. \E result \in Outcome : Answer(p, result, idle, timer)
    BY <1>1, <1>4, <1>9 DEF HandleReply
  <2>2. Ends(p) \/ Hides(p)
    BY <1>1, <1>2, <1>4, <2>1, AnswerEffects
  <2>3. Hides(p) => Mild(p)
    BY DEF Hides, Mild
  <2> QED
    BY <1>2, <2>2, <2>3
<1> QED
  BY <1>2, <1>5, <1>6, <1>7, <1>8, <1>9 DEF Kind

(* The core's step as a prompt of the system prompter sees it. *)
LEMMA RoundEffects ==
  ASSUME PinInv, \A p \in Prompt : PromptRound(p), CoreNext
  PROVE  \E p \in Prompt : Ends(p) \/ Begins(p) \/ Works(p) \/ Opens(p) \/ Mild(p) \/ Warns(p) \/ LogsIn(p)
<1>1. CASE SourceNext
  <2>1. \A p \in Prompt : Hides(p) => Mild(p)
    BY DEF Hides, Mild
  <2> QED
    BY <1>1, <2>1, SourceEffects
<1>2. CASE HandleReplies
  BY <1>2, ReplyEffects
<1> QED
  BY <1>1, <1>2 DEF CoreNext, SourceNext

(* The coordinator only takes replies. *)
LEMMA CoreTakes ==
  ASSUME PinInv, CoreNext, NEW q \in Prompt
  PROVE  RepliesFewer(q)
<1>1. replies \in Seq(Reply)
  BY DEF PinInv, TypeOK
<1>2. CASE replies' = replies
  BY <1>2 DEF RepliesFewer, Fewer
<1>3. CASE HandleReplies
  <2>1. replies # <<>> /\ replies' = Tail(replies)
    BY <1>3 DEF HandleReplies
  <2>2. \A m : Fewer(Tail(replies), replies, m)
    BY <1>1, <2>1, HoldsTail
  <2> QED
    BY <2>1, <2>2 DEF RepliesFewer
<1> QED
  BY <1>2, <1>3, SourceEffects DEF CoreNext, SourceNext

LEMMA Appends ==
  ASSUME PinInv, NEW p \in Prompt, NEW q \in Prompt,
         NEW call \in {"show", "ask", "rest", "busy", "warn", "hide", "close"},
         uiq' = Append(uiq, Msg(call, p)), q # p \/ call \notin Asking
  PROVE  UiFewer(q)
<1>1. uiq \in Seq(Message)
  BY DEF PinInv, TypeOK
<1>2. \A other \in Asking : q # p \/ call # other
  OBVIOUS
<1>3. \A other \in Asking : Fewer(Append(uiq, Msg(call, p)), uiq, Msg(other, q))
  BY <1>1, <1>2, OtherMessage
<1> QED
  BY <1>3 DEF UiFewer

LEMMA EndsCalm ==
  ASSUME PinInv, NEW p \in Prompt, Ends(p), NEW q \in Prompt
  PROVE  Calm(q)
<1>1. PICK result \in Outcome, mail \in {<<>>, <<Msg("rest", p)>>}, idles \in SUBSET Prompt :
        Finish(p, result, mail, idles)
  BY DEF Ends
<1>2. uiq \in Seq(Message) /\ uiq' = uiq \o mail \o Closing(p)
  BY <1>1 DEF Finish, PinInv, TypeOK
<1>3. /\ Msg("close", p) \in Message /\ Msg("rest", p) \in Message
      /\ Closing(p) \in {<<>>, <<Msg("close", p)>>}
  BY DEF Msg, Message, Closing
<1>4. PICK said : /\ said = uiq \/ said = Append(uiq, Msg("rest", p))
                  /\ uiq' = said \/ uiq' = Append(said, Msg("close", p))
  <2>1. CASE mail = <<>>
    BY <1>2, <1>3, <2>1
  <2>2. CASE mail = <<Msg("rest", p)>>
    <3>1. \/ uiq' = uiq \o <<Msg("rest", p)>> \o <<Msg("close", p)>>
          \/ uiq' = uiq \o <<Msg("rest", p)>> \o <<>>
      BY <1>2, <1>3, <2>2
    <3>2. \/ uiq' = Append(Append(uiq, Msg("rest", p)), Msg("close", p))
          \/ uiq' = Append(uiq, Msg("rest", p))
      BY <1>2, <1>3, <3>1, Said
    <3> QED
      BY <3>2
  <2> QED
    BY <2>1, <2>2
<1>5. said \in Seq(Message)
  BY <1>2, <1>3, <1>4, Appended
<1>6. ASSUME NEW other \in Asking PROVE Fewer(uiq', uiq, Msg(other, q))
  <2>1. other # "rest" /\ other # "close"
    BY DEF Asking
  <2>2. Fewer(said, uiq, Msg(other, q))
    <3>1. Fewer(Append(uiq, Msg("rest", p)), uiq, Msg(other, q))
      BY <1>2, <2>1, OtherMessage
    <3> QED
      BY <1>4, <3>1, FewerSame
  <2>3. Fewer(uiq', said, Msg(other, q))
    <3>1. Fewer(Append(said, Msg("close", p)), said, Msg(other, q))
      BY <1>5, <2>1, OtherMessage
    <3> QED
      BY <1>4, <3>1, FewerSame
  <2> QED
    BY <2>2, <2>3 DEF Fewer
<1>7. UNCHANGED flags
  BY DEF Ends, cardVars
<1>8. /\ inter' = [inter EXCEPT ![p] = "none"] /\ stage'[p] = "done"
      /\ inter \in [Prompt -> {"none", "shown", "ready"}]
      /\ q # p => \/ stage'[q] = stage[q]
                  \/ stage[q] = "queued" /\ stage'[q] \in {"done", "refresh"}
  BY EndsEffect DEF PinInv, TypeOK
<1>9. UiFewer(q)
  BY <1>6 DEF UiFewer
<1> QED
  BY <1>7, <1>8, <1>9 DEF Calm

LEMMA SourceCalm ==
  ASSUME PinInv, NEW p \in Prompt, Begins(p) \/ Works(p) \/ Mild(p), NEW q \in Prompt
  PROVE  Calm(q)
<1>1. UiFewer(q)
  <2>1. CASE uiq' = uiq
    BY <2>1, FewerSame DEF UiFewer
  <2>2. CASE uiq' = Append(uiq, Msg("hide", p))
    BY <2>2, Appends DEF Asking
  <2> QED
    BY <2>1, <2>2 DEF Begins, Works, Mild
<1>2. /\ stage \in [Prompt -> Stage] /\ inter \in [Prompt -> {"none", "shown", "ready"}]
      /\ stage[q] \in AtWork /\ stage[p] \in AtWork => q = p
  BY DEF PinInv, TypeOK, ActiveInv
<1>3. CASE Begins(p)
  BY <1>1, <1>2, <1>3 DEF Begins, Calm, cardVars
<1>4. CASE Works(p)
  <2>1. stage[p] \in {"refresh", "login"} /\ UNCHANGED <<stage, inter>>
    BY <1>4 DEF Works, RefreshThread, LoginThread
  <2> QED
    BY <1>1, <1>2, <2>1 DEF Calm, AtWork
<1>5. CASE Mild(p)
  BY <1>1, <1>2, <1>5 DEF Mild, Calm, cardVars
<1> QED
  BY <1>3, <1>4, <1>5

(* Another prompt's dialog, and a login on a protected path. *)
LEMMA OthersCalm ==
  ASSUME PinInv, NEW p \in Prompt, Opens(p) \/ Warns(p) \/ LogsIn(p), NEW q \in Prompt,
         q # p \/ (LogsIn(p) /\ p \in Protected)
  PROVE  Calm(q)
<1>1. PICK call \in {"show", "ask", "warn", "busy"} :
        uiq' = Append(uiq, Msg(call, p)) /\ (q # p \/ call = "busy")
  BY DEF Opens, Warns, LogsIn
<1>2. UiFewer(q)
  BY <1>1, Appends DEF Asking
<1>3. /\ stage \in [Prompt -> Stage] /\ inter \in [Prompt -> {"none", "shown", "ready"}]
  BY DEF PinInv, TypeOK
<1>4. UNCHANGED flags
  BY DEF Opens, Warns, LogsIn, cardVars
<1>5. CASE q # p
  <2>1. stage'[q] = stage[q] /\ inter'[q] = inter[q]
    BY <1>3, <1>5 DEF Opens, Warns, LogsIn
  <2> QED
    BY <1>2, <1>4, <2>1 DEF Calm
<1>6. CASE q = p /\ LogsIn(p) /\ p \in Protected
  <2>1. stage'[q] = "login" /\ inter'[q] = "ready"
    BY <1>3, <1>6 DEF LogsIn
  <2> QED
    BY <1>2, <1>4, <1>6, <2>1 DEF Calm
<1> QED
  BY <1>5, <1>6

(* The prompt that speaks to its dialog. *)
LEMMA SpeaksRound ==
  ASSUME PinInv, ShownInv, NEW p \in Prompt, PromptRound(p), RepliesFewer(p),
         Opens(p) \/ Warns(p) \/ (LogsIn(p) /\ p \notin Protected),
         gcr' = gcr, round' = round,
         p \in final' <=> p \in final \/ (flags = "final" /\ inter[p] = "none" /\ inter'[p] = "shown")
  PROVE  PromptRound(p)'
<1>1. /\ uiq \in Seq(Message) /\ replies \in Seq(Reply)
      /\ stage \in [Prompt -> Stage] /\ inter \in [Prompt -> {"none", "shown", "ready"}]
  BY DEF PinInv, TypeOK
<1>2. /\ OpenInv(p)
      /\ p \notin Protected => PasswordInv(p)
      /\ p \in Protected => WarningInv(p)
      /\ gcr'[p] = gcr[p] /\ round'[p] = round[p]
      /\ Unopened(p) <=> gcr[p] \in {"none", "opening"}
  BY DEF PromptRound, Unopened
<1>3. /\ Holds(replies', From("ready", p)) => Holds(replies, From("ready", p))
      /\ Holds(replies', From("empty", p)) => Holds(replies, From("empty", p))
      /\ Holds(replies', From("accept", p)) => Holds(replies, From("accept", p))
      /\ Holds(replies', From("submit", p)) => Holds(replies, From("submit", p))
      /\ Once(replies, From("submit", p)) => Once(replies', From("submit", p))
  <2>1. /\ Fewer(replies', replies, From("ready", p)) /\ Fewer(replies', replies, From("submit", p))
        /\ Fewer(replies', replies, From("empty", p)) /\ Fewer(replies', replies, From("accept", p))
    <3>1. "ready" \in Waited /\ "submit" \in Waited /\ "empty" \in Waited /\ "accept" \in Waited
      BY DEF Waited
    <3> QED
      BY <3>1, Zenon DEF RepliesFewer
  <2> QED
    BY <2>1, Zenon DEF Fewer
<1>4. ASSUME NEW call \in {"show", "ask", "warn", "busy"}, uiq' = Append(uiq, Msg(call, p)),
             NEW other \in Asking
      PROVE  /\ Holds(uiq', Msg(other, p)) => Holds(uiq, Msg(other, p)) \/ other = call
             /\ Once(uiq, Msg(other, p)) /\ (other = call => ~Holds(uiq, Msg(other, p)))
                  => Once(uiq', Msg(other, p))
  <2>1. Msg(call, p) \in Message /\ (Msg(call, p) = Msg(other, p) => call = other)
    <3>1. Msg(call, p).call = call /\ Msg(other, p).call = other /\ Msg(call, p) \in Message
      BY DEF Msg, Message
    <3> QED
      BY <3>1
  <2>2. /\ Holds(Append(uiq, Msg(call, p)), Msg(other, p)) =>
             Holds(uiq, Msg(other, p)) \/ Msg(call, p) = Msg(other, p)
        /\ Once(uiq, Msg(other, p)) /\ (Msg(call, p) = Msg(other, p) => ~Holds(uiq, Msg(other, p)))
             => Once(Append(uiq, Msg(call, p)), Msg(other, p))
    BY <1>1, <2>1, HoldsAppend
  <2> QED
    BY <1>4, <2>1, <2>2
<1>5. "show" \in Asking /\ "ask" \in Asking /\ "warn" \in Asking
  BY DEF Asking
<1> DEFINE Grows(call, other) ==
             /\ Holds(uiq', Msg(other, p)) => Holds(uiq, Msg(other, p)) \/ other = call
             /\ Once(uiq, Msg(other, p)) /\ (other = call => ~Holds(uiq, Msg(other, p)))
                  => Once(uiq', Msg(other, p))
<1>6. ASSUME NEW call \in {"show", "ask", "warn", "busy"}, uiq' = Append(uiq, Msg(call, p))
      PROVE  Grows(call, "show") /\ Grows(call, "ask") /\ Grows(call, "warn")
  BY <1>4, <1>5, <1>6
<1>7. CASE Opens(p) /\ stage[p] = "refresh"
  <2>1. /\ uiq' = Append(uiq, Msg("show", p)) /\ stage'[p] = "open" /\ inter'[p] = "shown"
        /\ flags' = flags /\ inter[p] = "none"
    BY <1>1, <1>7 DEF Opens, ShownInv, cardVars
  <2>2. Grows("show", "show") /\ Grows("show", "ask") /\ Grows("show", "warn")
    BY <1>6, <2>1
  <2>3. ~Holds(uiq, Msg("show", p)) /\ ~Holds(uiq, Msg("ask", p)) /\ ~Holds(uiq, Msg("warn", p))
    BY <1>7 DEF ShownInv, Holds, Msg
  <2>4. Once(uiq, Msg("ask", p)) /\ Once(uiq, Msg("show", p)) /\ Once(uiq, Msg("warn", p))
    BY <2>3 DEF Holds, Once
  <2>5. gcr[p] = "none" /\ round[p] = "none" /\ p \notin final /\ ~Holds(replies, From("empty", p))
    BY <1>2, <1>7 DEF OpenInv
  <2>6. p \notin Protected => /\ ~Holds(replies, From("submit", p)) /\ ~Holds(replies, From("accept", p))
                              /\ Once(replies, From("submit", p))
    BY <1>2, <2>5 DEF PasswordInv
  <2>7. p \in Protected => ~Holds(replies, From("submit", p)) /\ ~Holds(replies, From("ready", p))
    BY <1>2, <2>5 DEF WarningInv
  <2> QED
    BY <1>2, <1>3, <2>1, <2>2, <2>3, <2>4, <2>5, <2>6, <2>7, PromptRoundPrime
<1>8. CASE Opens(p) /\ stage[p] = "login"
  <2>1. /\ uiq' = Append(uiq, Msg("ask", p)) /\ stage'[p] = "open" /\ inter'[p] = inter[p]
        /\ p \notin Protected
    BY <1>1, <1>8 DEF Opens
  <2>2. Grows("ask", "show") /\ Grows("ask", "ask") /\ Grows("ask", "warn")
    BY <1>6, <2>1
  <2>3. /\ round[p] = "none" /\ ~Unopened(p) /\ ~Holds(uiq, Msg("ask", p)) /\ Once(uiq, Msg("ask", p))
        /\ ~Holds(replies, From("submit", p)) /\ ~Holds(uiq, Msg("warn", p))
        /\ ~Holds(replies, From("accept", p)) /\ Once(replies, From("submit", p))
    BY <1>2, <1>8, <2>1 DEF PasswordInv
  <2>4. /\ ~Holds(replies, From("empty", p)) /\ Once(uiq, Msg("show", p))
        /\ Holds(uiq, Msg("show", p)) => gcr[p] = "none"
    BY <1>2 DEF OpenInv
  <2> QED
    BY <1>2, <1>3, <2>1, <2>2, <2>3, <2>4, PromptRoundPrime
<1>9. CASE Warns(p)
  <2>1. /\ uiq' = Append(uiq, Msg("warn", p)) /\ stage'[p] = "open" /\ inter'[p] = "ready"
        /\ inter[p] = "shown" /\ p \in Protected /\ flags' = flags
        /\ stage[p] = "open" /\ flags = "final" /\ Holds(replies, From("ready", p))
    BY <1>1, <1>9 DEF Warns, cardVars
  <2>2. Grows("warn", "show") /\ Grows("warn", "ask") /\ Grows("warn", "warn")
    BY <1>6, <2>1
  <2>3. /\ round[p] = "none" /\ ~Unopened(p) /\ p \in final
        /\ ~Holds(uiq, Msg("warn", p)) /\ Once(uiq, Msg("warn", p))
        /\ ~Holds(uiq, Msg("ask", p)) /\ ~Holds(replies, From("submit", p))
    BY <1>2, <2>1 DEF WarningInv
  <2>4. /\ ~Holds(replies, From("empty", p)) /\ Once(uiq, Msg("show", p))
        /\ Holds(uiq, Msg("show", p)) => gcr[p] = "none"
    BY <1>2 DEF OpenInv
  <2> QED
    BY <1>2, <1>3, <2>1, <2>2, <2>3, <2>4, PromptRoundPrime
<1>10. CASE LogsIn(p) /\ p \notin Protected
  <2>1. /\ uiq' = Append(uiq, Msg("busy", p)) /\ stage'[p] = "login" /\ inter'[p] = "ready"
        /\ Head(replies) = From("submit", p) /\ replies' = Tail(replies)
    BY <1>1, <1>10 DEF LogsIn
  <2>2. Grows("busy", "show") /\ Grows("busy", "ask") /\ Grows("busy", "warn")
    BY <1>6, <2>1
  <2>3. Holds(replies, From("submit", p)) /\ ~Holds(replies', From("submit", p))
    <3>1. Once(replies, From("submit", p)) /\ replies # <<>>
      BY <1>2, <1>10 DEF PasswordInv, LogsIn
    <3> QED
      BY <1>1, <2>1, <3>1, HoldsTail
  <2>4. /\ round[p] = "none" /\ ~Unopened(p) /\ ~Holds(uiq, Msg("ask", p)) /\ Once(uiq, Msg("ask", p))
        /\ ~Holds(replies, From("accept", p)) /\ ~Holds(uiq, Msg("warn", p))
        /\ Once(replies, From("submit", p))
    BY <1>2, <1>10, <2>3 DEF PasswordInv
  <2>5. /\ ~Holds(replies, From("empty", p)) /\ Once(uiq, Msg("show", p))
        /\ Holds(uiq, Msg("show", p)) => gcr[p] = "none"
    BY <1>2 DEF OpenInv
  <2> QED
    BY <1>2, <1>3, <1>10, <2>1, <2>2, <2>3, <2>4, <2>5, PromptRoundPrime
<1> QED
  BY <1>7, <1>8, <1>9, <1>10 DEF Opens

LEMMA RoundCore ==
  ASSUME PinInv, ShownInv, \A p \in Prompt : PromptRound(p), SystemCore
  PROVE  \A p \in Prompt : PromptRound(p)'
<1>1. /\ CoreNext /\ gcr' = gcr /\ round' = round
      /\ final' = IF flags = "final" THEN final \cup {p \in Prompt : inter[p] = "none" /\ inter'[p] = "shown"}
                  ELSE final
  BY DEF SystemCore
<1>2. PICK p \in Prompt : Ends(p) \/ Begins(p) \/ Works(p) \/ Opens(p) \/ Mild(p) \/ Warns(p) \/ LogsIn(p)
  BY <1>1, RoundEffects
<1>3. ASSUME NEW q \in Prompt, Calm(q) PROVE PromptRound(q)'
  <2>1. inter'[q] = "shown" => inter[q] = "shown"
    BY <1>3 DEF Calm
  <2>2. Still(q)
    BY <1>1, <2>1 DEF Still
  <2>3. RepliesFewer(q)
    BY <1>1, CoreTakes
  <2>4. PromptRound(q)
    OBVIOUS
  <2> QED
    BY <1>3, <2>2, <2>3, <2>4, QuietRound
<1>4. CASE Ends(p) \/ Begins(p) \/ Works(p) \/ Mild(p)
  BY <1>3, <1>4, EndsCalm, SourceCalm
<1>5. CASE Opens(p) \/ Warns(p) \/ LogsIn(p)
  <2>1. ASSUME NEW q \in Prompt, q # p PROVE PromptRound(q)'
    BY <1>3, <1>5, <2>1, OthersCalm
  <2>2. PromptRound(p)'
    <3>1. CASE LogsIn(p) /\ p \in Protected
      BY <1>3, <3>1, OthersCalm
    <3>2. CASE ~(LogsIn(p) /\ p \in Protected)
      <4>1. RepliesFewer(p) /\ PromptRound(p)
        BY <1>1, CoreTakes
      <4>2. p \in final' <=> p \in final \/ (flags = "final" /\ inter[p] = "none" /\ inter'[p] = "shown")
        BY <1>1
      <4> QED
        BY <1>1, <1>5, <3>2, <4>1, <4>2, SpeaksRound
    <3> QED
      BY <3>1, <3>2
  <2> QED
    BY <2>1, <2>2
<1> QED
  BY <1>2, <1>4, <1>5

-----------------------------------------------------------------------------
(* The steps of the dialog and of the prompter. *)

(* A message is taken at most. *)
LEMMA DialogCalm ==
  ASSUME PinInv, NEW q \in Prompt, uiq' = uiq \/ (uiq # <<>> /\ uiq' = Tail(uiq)),
         UNCHANGED <<stage, inter, flags>>
  PROVE  Calm(q)
<1>1. UiFewer(q)
  <2>1. CASE uiq' = uiq
    BY <2>1, FewerSame DEF UiFewer
  <2>2. CASE uiq # <<>> /\ uiq' = Tail(uiq)
    <3>1. uiq \in Seq(Message)
      BY DEF PinInv, TypeOK
    <3>2. \A m : Fewer(Tail(uiq), uiq, m)
      BY <2>2, <3>1, HoldsTail
    <3> QED
      BY <2>2, <3>2 DEF UiFewer
  <2> QED
    BY <2>1, <2>2
<1> QED
  BY <1>1 DEF Calm

LEMMA SaysNothing ==
  ASSUME replies' = replies, NEW q \in Prompt
  PROVE  RepliesFewer(q)
BY FewerSame DEF RepliesFewer

(* What the dialog says. *)
LEMMA Says ==
  ASSUME PinInv, NEW p \in Prompt, NEW kind \in Kind, Sent(p, <<kind>>)
  PROVE  /\ \A q \in Prompt : q # p \/ kind \notin Waited => RepliesFewer(q)
         /\ \A other \in Waited :
              /\ Holds(replies', From(other, p)) => Holds(replies, From(other, p)) \/ other = kind
              /\ Once(replies, From(other, p)) /\ (other = kind => ~Holds(replies, From(other, p)))
                   => Once(replies', From(other, p))
<1>1. replies \in Seq(Reply) /\ From(kind, p) \in Reply
  BY DEF PinInv, TypeOK, From, Reply
<1>2. replies' = replies \/ replies' = Append(replies, From(kind, p))
  <2>1. replies' = replies \/ replies' = replies \o [i \in DOMAIN <<kind>> |-> [kind |-> <<kind>>[i], prompt |-> p]]
    BY DEF Sent
  <2>2. [i \in DOMAIN <<kind>> |-> [kind |-> <<kind>>[i], prompt |-> p]] = <<From(kind, p)>>
    BY DEF From
  <2>3. replies \o <<From(kind, p)>> = Append(replies, From(kind, p))
    BY <1>1
  <2> QED
    BY <2>1, <2>2, <2>3
<1>3. ASSUME NEW q \in Prompt, NEW other \in Waited
      PROVE  From(kind, p) = From(other, q) => kind = other /\ p = q
  <2>1. /\ From(kind, p).kind = kind /\ From(kind, p).prompt = p
        /\ From(other, q).kind = other /\ From(other, q).prompt = q
    BY DEF From
  <2> QED
    BY <2>1
<1>4. ASSUME NEW q \in Prompt, q # p \/ kind \notin Waited PROVE RepliesFewer(q)
  <2>1. ASSUME NEW other \in Waited PROVE Fewer(replies', replies, From(other, q))
    <3>1. From(kind, p) # From(other, q)
      BY <1>3, <1>4, <2>1
    <3>2. Fewer(Append(replies, From(kind, p)), replies, From(other, q))
      BY <1>1, <3>1, FewerAppend
    <3> QED
      BY <1>2, <3>2, FewerSame
  <2> QED
    BY <2>1 DEF RepliesFewer
<1>5. ASSUME NEW other \in Waited
      PROVE  /\ Holds(replies', From(other, p)) => Holds(replies, From(other, p)) \/ other = kind
             /\ Once(replies, From(other, p)) /\ (other = kind => ~Holds(replies, From(other, p)))
                  => Once(replies', From(other, p))
  <2>1. /\ Holds(Append(replies, From(kind, p)), From(other, p)) =>
             Holds(replies, From(other, p)) \/ From(kind, p) = From(other, p)
        /\ Once(replies, From(other, p)) /\ (From(kind, p) = From(other, p) => ~Holds(replies, From(other, p)))
             => Once(Append(replies, From(kind, p)), From(other, p))
    BY <1>1, HoldsAppend
  <2>2. From(kind, p) = From(other, p) => kind = other
    BY <1>3
  <2> QED
    BY <1>2, <2>1, <2>2
<1> QED
  BY <1>4, <1>5

(* The message that has the dialog opened or a round asked for. *)
LEMMA DeliverRound ==
  ASSUME PinInv, ShownInv, NEW p \in Prompt, PromptRound(p), NEW call \in Asking,
         uiq # <<>>, Head(uiq) = Msg(call, p), uiq' = Tail(uiq),
         UNCHANGED <<stage, inter, flags, replies, final>>,
         \/ call = "show" /\ gcr'[p] = "opening" /\ round'[p] = round[p]
         \/ call = "ask" /\ gcr'[p] = gcr[p] /\ round'[p] = "password"
         \/ call = "warn" /\ gcr'[p] = gcr[p] /\ round'[p] = "confirm"
  PROVE  PromptRound(p)' /\ (call \in {"ask", "warn"} => round[p] = "none")
<1>1. /\ uiq \in Seq(Message)
      /\ \A other \in Asking : Fewer(uiq', uiq, Msg(other, p))
      /\ Holds(uiq, Msg(call, p)) /\ (Once(uiq, Msg(call, p)) => ~Holds(uiq', Msg(call, p)))
  <2>1. uiq \in Seq(Message)
    BY DEF PinInv, TypeOK
  <2>2. \A m : /\ Fewer(Tail(uiq), uiq, m)
               /\ Head(uiq) = m => Holds(uiq, m) /\ (Once(uiq, m) => ~Holds(Tail(uiq), m))
    BY <2>1, HoldsTail
  <2> QED
    BY <2>1, <2>2
<1>2. /\ Holds(uiq', Msg("show", p)) => Holds(uiq, Msg("show", p))
      /\ Once(uiq, Msg("show", p)) => Once(uiq', Msg("show", p))
      /\ Holds(uiq', Msg("ask", p)) => Holds(uiq, Msg("ask", p))
      /\ Once(uiq, Msg("ask", p)) => Once(uiq', Msg("ask", p))
      /\ Holds(uiq', Msg("warn", p)) => Holds(uiq, Msg("warn", p))
      /\ Once(uiq, Msg("warn", p)) => Once(uiq', Msg("warn", p))
  <2>1. "show" \in Asking /\ "ask" \in Asking /\ "warn" \in Asking
    BY DEF Asking
  <2>2. /\ Fewer(uiq', uiq, Msg("show", p)) /\ Fewer(uiq', uiq, Msg("ask", p))
        /\ Fewer(uiq', uiq, Msg("warn", p))
    BY <1>1, <2>1, Zenon
  <2> QED
    BY <2>2, Zenon DEF Fewer
<1>3. stage[p] \notin {"new", "queued", "refresh"}
  <2>1. PICK i \in DOMAIN uiq : uiq[i] = Msg(call, p)
    BY <1>1 DEF Holds
  <2>2. uiq[i].prompt = p
    BY <2>1 DEF Msg
  <2> QED
    BY <2>2 DEF ShownInv
<1>4. /\ OpenInv(p)
      /\ p \notin Protected => PasswordInv(p)
      /\ p \in Protected => WarningInv(p)
      /\ Unopened(p) <=> gcr[p] \in {"none", "opening"}
  BY DEF PromptRound, Unopened
<1>5. CASE call = "show" /\ gcr'[p] = "opening" /\ round'[p] = round[p]
  <2>1. /\ gcr[p] = "none" /\ ~Holds(uiq', Msg("show", p)) /\ Once(uiq', Msg("show", p))
        /\ ~Holds(replies, From("empty", p)) /\ round[p] = "none" /\ Unopened(p)
    BY <1>1, <1>2, <1>4, <1>5 DEF OpenInv
  <2>2. p \notin Protected =>
          /\ ~Holds(uiq', Msg("ask", p)) /\ ~Holds(uiq', Msg("warn", p)) /\ Once(uiq', Msg("ask", p))
          /\ ~Holds(replies, From("submit", p)) /\ Once(replies, From("submit", p))
          /\ ~Holds(replies, From("accept", p)) /\ stage[p] # "login"
    BY <1>2, <1>4, <2>1 DEF PasswordInv
  <2>3. p \in Protected =>
          /\ ~Holds(uiq', Msg("ask", p)) /\ ~Holds(uiq', Msg("warn", p)) /\ Once(uiq', Msg("warn", p))
          /\ ~Holds(replies, From("submit", p)) /\ ~Holds(replies, From("ready", p))
          /\ stage[p] = "open" /\ inter[p] = "shown" /\ flags = "final" => p \in final
    BY <1>2, <1>4, <2>1 DEF WarningInv
  <2> QED
    BY <1>3, <1>5, <2>1, <2>2, <2>3, PromptRoundPrime
<1>6. CASE call = "ask" /\ gcr'[p] = gcr[p] /\ round'[p] = "password"
  <2>1. p \notin Protected
    BY <1>1, <1>4, <1>6 DEF WarningInv
  <2>2. /\ round[p] = "none" /\ ~Unopened(p) /\ stage[p] # "login"
        /\ ~Holds(uiq', Msg("ask", p)) /\ ~Holds(uiq', Msg("warn", p)) /\ Once(uiq', Msg("ask", p))
        /\ ~Holds(replies, From("submit", p)) /\ Once(replies, From("submit", p))
        /\ ~Holds(replies, From("accept", p))
    BY <1>1, <1>2, <1>4, <1>6, <2>1 DEF PasswordInv
  <2>3. /\ ~Holds(replies, From("empty", p)) /\ Once(uiq', Msg("show", p))
        /\ Holds(uiq', Msg("show", p)) => gcr[p] = "none"
    BY <1>2, <1>4 DEF OpenInv
  <2> QED
    BY <1>3, <1>4, <1>6, <2>1, <2>2, <2>3, PromptRoundPrime
<1>7. CASE call = "warn" /\ gcr'[p] = gcr[p] /\ round'[p] = "confirm"
  <2>1. p \in Protected
    BY <1>1, <1>4, <1>7 DEF PasswordInv
  <2>2. /\ round[p] = "none" /\ ~Unopened(p) /\ inter[p] # "shown"
        /\ ~Holds(uiq', Msg("warn", p)) /\ ~Holds(uiq', Msg("ask", p)) /\ Once(uiq', Msg("warn", p))
        /\ ~Holds(replies, From("submit", p))
    BY <1>1, <1>2, <1>4, <1>7, <2>1 DEF WarningInv
  <2>3. /\ ~Holds(replies, From("empty", p)) /\ Once(uiq', Msg("show", p))
        /\ Holds(uiq', Msg("show", p)) => gcr[p] = "none"
    BY <1>2, <1>4 DEF OpenInv
  <2> QED
    BY <1>3, <1>4, <1>7, <2>1, <2>2, <2>3, PromptRoundPrime
<1> QED
  BY <1>5, <1>6, <1>7

LEMMA SystemTypes == PinInv /\ SystemTypeOK /\ [SystemNext]_<<vars, systemVars>> => SystemTypeOK'
<1> SUFFICES ASSUME PinInv, SystemTypeOK, [SystemNext]_<<vars, systemVars>> PROVE SystemTypeOK'
  OBVIOUS
<1> DEFINE Types == /\ system' \in BOOLEAN
                    /\ gcr' \in [Prompt -> {"none", "opening", "open", "released"}]
                    /\ round' \in [Prompt -> {"none", "password", "confirm", "notice"}]
                    /\ refused' \subseteq Prompt /\ final' \subseteq Prompt
                    /\ closed' \subseteq Prompt /\ dismissing' \subseteq Prompt
<1>1. TypeOK'
  BY SystemStep DEF PinInv
<1>2. /\ system \in BOOLEAN
      /\ gcr \in [Prompt -> {"none", "opening", "open", "released"}]
      /\ round \in [Prompt -> {"none", "password", "confirm", "notice"}]
      /\ refused \subseteq Prompt /\ final \subseteq Prompt
      /\ closed \subseteq Prompt /\ dismissing \subseteq Prompt
  BY DEF SystemTypeOK
<1> SUFFICES Types
  BY <1>1 DEF SystemTypeOK
<1>3. CASE UNCHANGED <<system, gcr, round, refused, final, closed, dismissing>>
  BY <1>2, <1>3
<1>4. CASE SystemCore
  BY <1>2, <1>4 DEF SystemCore
<1>5. CASE SystemDeliver
  <2>1. Head(uiq).prompt \in Prompt
    BY <1>5, HandledTypes DEF SystemDeliver, Message
  <2> QED
    BY <1>2, <1>5, <2>1 DEF SystemDeliver, Ask, AskNothing
<1>6. ASSUME NEW p \in Prompt, Opened(p) \/ RoundDone(p) \/ Dismiss(p) \/ SettleDismissal(p) PROVE Types
  <2>1. CASE Opened(p)
    BY <1>2, <2>1 DEF Opened, Ask, AskNothing
  <2>2. CASE RoundDone(p)
    <3>1. UNCHANGED <<system, gcr, refused, final, closed, dismissing>>
      BY <2>2 DEF RoundDone
    <3>2. round' \in {[round EXCEPT ![p] = "none"], [round EXCEPT ![p] = "password"]}
      BY <2>2 DEF RoundDone, PasswordDone, ConfirmDone
    <3> QED
      BY <1>2, <3>1, <3>2
  <2>3. CASE Dismiss(p)
    BY <1>2, <2>3 DEF Dismiss
  <2>4. CASE SettleDismissal(p)
    BY <1>2, <2>4 DEF SettleDismissal
  <2> QED
    BY <1>6, <2>1, <2>2, <2>3, <2>4
<1> QED
  BY <1>3, <1>4, <1>5, <1>6 DEF SystemNext, systemVars

LEMMA RoundDeliver ==
  ASSUME PinInv, ShownInv, RoundInv, system, SystemDeliver
  PROVE  refused' = {} /\ \A q \in Prompt : PromptRound(q)'
<1>1. /\ uiq # <<>> /\ uiq' = Tail(uiq) /\ UNCHANGED <<stage, inter, flags, final>>
      /\ \A q \in Prompt : PromptRound(q)
      /\ gcr \in [Prompt -> {"none", "opening", "open", "released"}]
      /\ round \in [Prompt -> {"none", "password", "confirm", "notice"}]
      /\ refused = {}
  BY DEF SystemDeliver, Handled, promptVars, cardVars, RoundInv, SystemTypeOK, OneRoundAtATime
<1>2. PICK p \in Prompt, call \in {"show", "ask", "rest", "busy", "warn", "hide", "close"} :
        Head(uiq) = Msg(call, p) /\ Head(uiq).prompt = p /\ Head(uiq).call = call
  <2>1. Head(uiq) \in Message
    BY HandledTypes DEF SystemDeliver
  <2> QED
    BY <2>1 DEF Message, Msg
<1>3. \/ /\ call = "show"
         /\ gcr' = [gcr EXCEPT ![p] = "opening"]
         /\ AskNothing /\ UNCHANGED replies
      \/ /\ call \in {"busy", "rest"}
         /\ AskNothing /\ UNCHANGED <<gcr, replies>>
      \/ /\ call = "ask"
         /\ IF Usable(p) THEN Ask(p, "password") ELSE AskNothing
         /\ UNCHANGED <<gcr, replies>>
      \/ /\ call = "warn"
         /\ \/ Ask(p, "confirm") /\ UNCHANGED replies
            \/ AskNothing /\ Sent(p, <<"cancel">>)
         /\ UNCHANGED gcr
      \/ /\ call \in {"hide", "close"}
         /\ gcr' = [gcr EXCEPT ![p] = IF @ = "open" THEN "released" ELSE @]
         /\ AskNothing /\ UNCHANGED replies
  BY <1>2 DEF SystemDeliver
<1>4. ASSUME NEW q \in Prompt, Still(q), RepliesFewer(q) PROVE PromptRound(q)'
  BY <1>1, <1>4, DialogCalm, QuietRound
<1>5. CASE /\ call = "show" /\ gcr' = [gcr EXCEPT ![p] = "opening"]
           /\ AskNothing /\ UNCHANGED replies
  <2>1. PromptRound(p)'
    <3>1. gcr'[p] = "opening" /\ round'[p] = round[p] /\ "show" \in Asking
      BY <1>1, <1>2, <1>5 DEF AskNothing, Asking
    <3> QED
      BY <1>1, <1>2, <1>5, <3>1, DeliverRound
  <2>2. ASSUME NEW q \in Prompt, q # p PROVE PromptRound(q)'
    <3>1. Still(q)
      BY <1>1, <1>5, <2>2 DEF Still, AskNothing
    <3> QED
      BY <1>4, <1>5, <3>1, SaysNothing
  <2> QED
    BY <1>1, <1>5, <2>1, <2>2 DEF AskNothing
<1>6. CASE /\ call \in {"ask", "warn"} /\ UNCHANGED <<gcr, replies>>
           /\ Ask(p, IF call = "ask" THEN "password" ELSE "confirm")
  <2>1. round[p] = "none"
    <3>1. /\ call = "ask" => Holds(uiq, Msg("ask", p))
          /\ call = "warn" => Holds(uiq, Msg("warn", p))
      <4>1. uiq \in Seq(Message)
        BY DEF PinInv, TypeOK
      <4> QED
        BY <1>1, <1>2, <4>1, HoldsTail
    <3> QED
      BY <1>1, <1>2, <1>6, <3>1 DEF PromptRound, PasswordInv, WarningInv
  <2>2. /\ round' = [round EXCEPT ![p] = IF call = "ask" THEN "password" ELSE "confirm"]
        /\ refused' = {}
    BY <1>1, <1>6, <2>1 DEF Ask
  <2>3. PromptRound(p)'
    <3>1. call \in Asking /\ gcr'[p] = gcr[p] /\ PromptRound(p)
      BY <1>1, <1>2, <1>6 DEF Asking
    <3>2. \/ call = "ask" /\ round'[p] = "password"
          \/ call = "warn" /\ round'[p] = "confirm"
      BY <1>1, <1>2, <1>6, <2>2
    <3> QED
      BY <1>1, <1>2, <1>6, <3>1, <3>2, DeliverRound
  <2>4. ASSUME NEW q \in Prompt, q # p PROVE PromptRound(q)'
    <3>1. Still(q)
      BY <1>1, <1>6, <2>2, <2>4 DEF Still
    <3> QED
      BY <1>4, <1>6, <3>1, SaysNothing
  <2> QED
    BY <2>2, <2>3, <2>4
<1>7. CASE /\ AskNothing /\ (replies' = replies \/ Sent(p, <<"cancel">>))
           /\ gcr' = gcr \/ gcr' = [gcr EXCEPT ![p] = IF @ = "open" THEN "released" ELSE @]
  <2>1. ASSUME NEW q \in Prompt PROVE PromptRound(q)'
    <3>1. Still(q)
      BY <1>1, <1>2, <1>7 DEF Still, AskNothing
    <3>2. RepliesFewer(q)
      <4>1. "cancel" \in Kind /\ "cancel" \notin Waited
        BY DEF Kind, Waited
      <4> QED
        BY <1>2, <1>7, <4>1, Says, SaysNothing
    <3> QED
      BY <1>4, <3>1, <3>2
  <2> QED
    BY <1>1, <1>7, <2>1 DEF AskNothing
<1> QED
  BY <1>3, <1>5, <1>6, <1>7

(* The prompter opens the dialog, and the first round starts. *)
LEMMA RoundOpened ==
  ASSUME PinInv, RoundInv, system, NEW p \in Prompt, Opened(p)
  PROVE  refused' = {} /\ \A q \in Prompt : PromptRound(q)'
<1>1. /\ gcr[p] = "opening" /\ UNCHANGED <<stage, inter, flags, final, uiq>>
      /\ \A q \in Prompt : PromptRound(q)
      /\ gcr \in [Prompt -> {"none", "opening", "open", "released"}]
      /\ round \in [Prompt -> {"none", "password", "confirm", "notice"}]
      /\ refused = {} /\ stage \in [Prompt -> Stage]
  BY DEF Opened, CoreUnchanged, promptVars, cardVars, RoundInv, PinInv, TypeOK, SystemTypeOK, OneRoundAtATime
<1>2. /\ OpenInv(p)
      /\ p \notin Protected => PasswordInv(p)
      /\ p \in Protected => WarningInv(p)
      /\ Unopened(p) /\ round[p] = "none"
  BY <1>1 DEF PromptRound, OpenInv, Unopened
<1>3. /\ refused' = {}
      /\ gcr' \in {[gcr EXCEPT ![p] = "released"], [gcr EXCEPT ![p] = "open"]}
      /\ round' \in {round, [round EXCEPT ![p] = IF p \in Protected THEN "notice" ELSE "password"]}
      /\ p \in Protected /\ p \in final => round' = round
  BY <1>1, <1>2 DEF Opened, Ask, AskNothing
<1>4. PICK kind \in {"ready", "fail"} : Sent(p, <<kind>>)
  BY DEF Opened
<1>5. kind \in Kind
  BY DEF Kind
<1>6. ASSUME NEW q \in Prompt, q # p PROVE PromptRound(q)'
  <2>1. Still(q)
    BY <1>1, <1>3, <1>6 DEF Still
  <2>2. RepliesFewer(q)
    BY <1>4, <1>5, <1>6, Says
  <2> QED
    BY <1>1, <2>1, <2>2, DialogCalm, QuietRound
<1>7. PromptRound(p)'
  <2>1. /\ Holds(replies', From("empty", p)) => Holds(replies, From("empty", p))
        /\ Holds(replies', From("accept", p)) => Holds(replies, From("accept", p))
        /\ Holds(replies', From("submit", p)) => Holds(replies, From("submit", p))
        /\ Once(replies, From("submit", p)) => Once(replies', From("submit", p))
    <3>1. "submit" \in Waited /\ "empty" \in Waited /\ "accept" \in Waited
      BY DEF Waited
    <3>2. kind # "submit" /\ kind # "empty" /\ kind # "accept"
      OBVIOUS
    <3> QED
      BY <1>4, <1>5, <3>1, <3>2, Says
  <2>2. /\ gcr'[p] \notin {"none", "opening"}
        /\ round'[p] \in {"none", IF p \in Protected THEN "notice" ELSE "password"}
        /\ p \in Protected /\ p \in final => round'[p] = "none"
    BY <1>1, <1>2, <1>3
  <2>3. /\ stage[p] \notin {"new", "queued", "refresh"} /\ ~Holds(uiq, Msg("show", p))
        /\ Once(uiq, Msg("show", p)) /\ ~Holds(replies, From("empty", p))
    BY <1>1, <1>2 DEF OpenInv
  <2>4. p \notin Protected =>
          /\ ~Holds(uiq, Msg("ask", p)) /\ ~Holds(uiq, Msg("warn", p)) /\ Once(uiq, Msg("ask", p))
          /\ ~Holds(replies, From("submit", p)) /\ Once(replies, From("submit", p))
          /\ ~Holds(replies, From("accept", p)) /\ stage[p] # "login"
    BY <1>2 DEF PasswordInv
  <2>5. p \in Protected =>
          /\ ~Holds(uiq, Msg("ask", p)) /\ ~Holds(uiq, Msg("warn", p)) /\ Once(uiq, Msg("warn", p))
          /\ ~Holds(replies, From("submit", p))
          /\ stage[p] = "open" /\ inter[p] = "shown" /\ flags = "final" => p \in final
    BY <1>2 DEF WarningInv
  <2> QED
    BY <1>1, <2>1, <2>2, <2>3, <2>4, <2>5, PromptRoundPrime
<1> QED
  BY <1>3, <1>6, <1>7

(* The end of a round. *)
LEMMA RoundEnds ==
  ASSUME PinInv, RoundInv, system, NEW p \in Prompt, RoundDone(p)
  PROVE  refused' = {} /\ \A q \in Prompt : PromptRound(q)'
<1>1. /\ UNCHANGED <<stage, inter, flags, final, uiq, gcr>>
      /\ \A q \in Prompt : PromptRound(q)
      /\ round \in [Prompt -> {"none", "password", "confirm", "notice"}]
      /\ refused' = {} /\ round[p] # "none"
  BY DEF RoundDone, PasswordDone, ConfirmDone, CoreUnchanged, promptVars, cardVars,
         RoundInv, SystemTypeOK, OneRoundAtATime
<1>2. \/ replies' = replies
      \/ \E kind \in {"cancel", "fail"} : Sent(p, <<kind>>)
      \/ round[p] = "password" /\ Sent(p, <<"submit">>) /\ round' = [round EXCEPT ![p] = "none"]
      \/ round[p] = "confirm" /\ Sent(p, <<"accept">>)
  <2>1. Sent(p, <<>>) => replies' = replies
    <3>1. replies \in Seq(Reply)
      BY DEF PinInv, TypeOK
    <3>2. [i \in DOMAIN <<>> |-> [kind |-> <<>>[i], prompt |-> p]] = <<>>
      OBVIOUS
    <3> QED
      BY <3>1, <3>2 DEF Sent
  <2>2. CASE PasswordDone(p)
    BY <2>1, <2>2 DEF PasswordDone
  <2>3. CASE ConfirmDone(p)
    BY <2>1, <2>3 DEF ConfirmDone
  <2> QED
    BY <2>2, <2>3 DEF RoundDone
<1>3. /\ round'[p] \in {round[p], "none"}
      /\ \A q \in Prompt \ {p} : round'[q] = round[q]
  BY <1>1 DEF RoundDone, PasswordDone, ConfirmDone
<1>4. ASSUME NEW q \in Prompt PROVE Still(q) /\ Calm(q)
  BY <1>1, <1>3, DialogCalm DEF Still
<1>5. ASSUME NEW q \in Prompt, RepliesFewer(q) PROVE PromptRound(q)'
  BY <1>1, <1>4, <1>5, QuietRound
<1>6. \A q \in Prompt \ {p} : RepliesFewer(q)
  BY <1>2, Says, SaysNothing DEF Kind
<1>7. PromptRound(p)'
  <2>1. CASE replies' = replies \/ \E kind \in {"cancel", "fail"} : Sent(p, <<kind>>)
    <3>1. "cancel" \in Kind /\ "fail" \in Kind /\ "cancel" \notin Waited /\ "fail" \notin Waited
      BY DEF Kind, Waited
    <3>2. RepliesFewer(p)
      BY <2>1, <3>1, Says, SaysNothing
    <3> QED
      BY <1>5, <3>2
  <2>2. ASSUME NEW kind \in {"submit", "accept"}, Sent(p, <<kind>>),
               round[p] = IF kind = "submit" THEN "password" ELSE "confirm",
               kind = "submit" => round'[p] = "none"
        PROVE  PromptRound(p)'
    <3>1. /\ OpenInv(p)
          /\ p \notin Protected => PasswordInv(p)
          /\ p \in Protected => WarningInv(p)
          /\ Unopened(p) <=> gcr[p] \in {"none", "opening"}
      BY <1>1 DEF PromptRound, Unopened
    <3>2. (p \notin Protected <=> kind = "submit") /\ ~Unopened(p)
      BY <2>2, <3>1 DEF OpenInv, PasswordInv, WarningInv
    <3>3. /\ Holds(replies', From("ready", p)) => Holds(replies, From("ready", p))
          /\ Holds(replies', From("empty", p)) => Holds(replies, From("empty", p))
          /\ Holds(replies', From("accept", p)) => Holds(replies, From("accept", p)) \/ kind = "accept"
          /\ Holds(replies', From("submit", p)) => Holds(replies, From("submit", p)) \/ kind = "submit"
          /\ Once(replies, From("submit", p)) /\ (kind = "submit" => ~Holds(replies, From("submit", p)))
               => Once(replies', From("submit", p))
      <4>1. "submit" \in Waited /\ "empty" \in Waited /\ "accept" \in Waited /\ "ready" \in Waited /\ kind \in Kind
        BY DEF Waited, Kind
      <4>2. kind # "empty" /\ kind # "ready"
        OBVIOUS
      <4> QED
        BY <2>2, <4>1, <4>2, Says
    <3>4. /\ ~Holds(replies, From("empty", p)) /\ Once(uiq, Msg("show", p))
          /\ Holds(uiq, Msg("show", p)) => gcr[p] = "none"
          /\ stage[p] \notin {"new", "queued", "refresh"}
      BY <3>1, <3>2 DEF OpenInv, Unopened
    <3>5. p \notin Protected =>
            /\ stage[p] # "login" /\ ~Holds(replies, From("submit", p)) /\ Once(replies, From("submit", p))
            /\ ~Holds(uiq, Msg("ask", p)) /\ Once(uiq, Msg("ask", p))
            /\ ~Holds(replies, From("accept", p)) /\ ~Holds(uiq, Msg("warn", p))
      BY <2>2, <3>1, <3>2 DEF PasswordInv
    <3>6. p \in Protected =>
            /\ inter[p] # "shown" /\ ~Holds(uiq, Msg("warn", p)) /\ Once(uiq, Msg("warn", p))
            /\ ~Holds(replies, From("submit", p)) /\ ~Holds(uiq, Msg("ask", p))
      BY <2>2, <3>1, <3>2 DEF WarningInv
    <3> QED
      BY <1>1, <1>3, <2>2, <3>1, <3>2, <3>3, <3>4, <3>5, <3>6, PromptRoundPrime
  <2>3. CASE round[p] = "password" /\ Sent(p, <<"submit">>) /\ round' = [round EXCEPT ![p] = "none"]
    <3>1. round'[p] = "none"
      BY <1>1, <2>3
    <3> QED
      BY <2>2, <2>3, <3>1
  <2>4. CASE round[p] = "confirm" /\ Sent(p, <<"accept">>)
    BY <2>2, <2>4
  <2> QED
    BY <1>2, <2>1, <2>3, <2>4
<1> QED
  BY <1>1, <1>5, <1>6, <1>7

(* The shell dismisses the dialog, and the prompt is told. *)
LEMMA RoundDismissed ==
  ASSUME PinInv, RoundInv, system, NEW p \in Prompt, Dismiss(p) \/ SettleDismissal(p)
  PROVE  refused' = {} /\ \A q \in Prompt : PromptRound(q)'
<1>1. /\ UNCHANGED <<stage, inter, flags, final, uiq, gcr, round>>
      /\ \A q \in Prompt : PromptRound(q)
      /\ refused' = {}
  BY DEF Dismiss, SettleDismissal, CoreUnchanged, promptVars, cardVars, RoundInv, OneRoundAtATime
<1>2. replies' = replies \/ Sent(p, <<"cancel">>)
  BY DEF Dismiss, SettleDismissal
<1> SUFFICES ASSUME NEW q \in Prompt PROVE PromptRound(q)'
  BY <1>1
<1>3. Still(q) /\ Calm(q)
  BY <1>1, DialogCalm DEF Still
<1>4. RepliesFewer(q)
  BY <1>2, Says, SaysNothing DEF Kind, Waited
<1> QED
  BY <1>1, <1>3, <1>4, QuietRound

LEMMA RoundInit == SystemInit => RoundInv
<1> SUFFICES ASSUME SystemInit PROVE RoundInv
  OBVIOUS
<1>1. SystemTypeOK
  BY InitHolds DEF SystemInit, SystemTypeOK, PinInv
<1>2. /\ \A p \in Prompt : gcr[p] = "none" /\ round[p] = "none" /\ stage[p] = "new" /\ inter[p] = "none"
      /\ uiq = <<>> /\ replies = <<>> /\ refused = {} /\ final = {}
  BY DEF SystemInit, Init
<1>3. \A m : /\ ~Holds(uiq, m) /\ Once(uiq, m)
             /\ ~Holds(replies, m) /\ Once(replies, m)
  BY <1>2 DEF Holds, Once
<1>4. ASSUME NEW p \in Prompt PROVE PromptRound(p)
  BY <1>2, <1>3 DEF PromptRound, OpenInv, PasswordInv, WarningInv, Unopened
<1> QED
  BY <1>1, <1>2, <1>4 DEF RoundInv, OneRoundAtATime

LEMMA RoundStep == PromptInv /\ RoundInv /\ [SystemNext]_<<vars, systemVars>> => RoundInv'
<1> SUFFICES ASSUME PromptInv, RoundInv, [SystemNext]_<<vars, systemVars>> PROVE RoundInv'
  OBVIOUS
<1>1. PinInv /\ ShownInv /\ SystemTypeOK /\ refused = {}
  BY DEF PromptInv, MailInv, RoundInv, OneRoundAtATime
<1>2. SystemTypeOK'
  BY <1>1, SystemTypes
<1>3. system' = system
  BY DEF SystemNext, SystemCore, SystemDeliver, Opened, RoundDone, Dismiss, SettleDismissal, systemVars
<1>4. CASE ~system
  <2>1. \A p \in Prompt : gcr[p] = "none" /\ round[p] = "none"
    BY <1>4 DEF RoundInv
  <2>2. gcr' = gcr /\ round' = round /\ refused' = refused
    <3>1. ASSUME NEW p \in Prompt, Opened(p) \/ RoundDone(p) \/ Dismiss(p) \/ SettleDismissal(p)
          PROVE  gcr' = gcr /\ round' = round /\ refused' = refused
      BY <2>1, <3>1 DEF Opened, RoundDone, PasswordDone, ConfirmDone, Dismiss, Usable, SettleDismissal
    <3> QED
      BY <1>4, <3>1 DEF SystemNext, systemVars
  <2> QED
    BY <1>1, <1>2, <1>3, <1>4, <2>1, <2>2 DEF RoundInv, OneRoundAtATime
<1>5. CASE system
  <2>1. refused' = {} /\ \A q \in Prompt : PromptRound(q)'
    <3>1. CASE SystemCore
      <4>1. refused' = {} /\ \A q \in Prompt : PromptRound(q)
        BY <1>1, <1>5, <3>1 DEF SystemCore, RoundInv
      <4> QED
        BY <1>1, <3>1, <4>1, RoundCore
    <3>2. CASE SystemDeliver
      BY <1>1, <1>5, <3>2, RoundDeliver
    <3>3. ASSUME NEW p \in Prompt, Opened(p) \/ RoundDone(p) \/ Dismiss(p) \/ SettleDismissal(p)
          PROVE  refused' = {} /\ \A q \in Prompt : PromptRound(q)'
      BY <1>1, <1>5, <3>3, RoundOpened, RoundEnds, RoundDismissed
    <3>4. CASE UNCHANGED <<vars, systemVars>>
      <4>1. /\ UNCHANGED <<stage, inter, flags, final, uiq, gcr, round>>
            /\ refused' = {} /\ replies' = replies
            /\ \A q \in Prompt : PromptRound(q)
        BY <1>1, <1>5, <3>4 DEF vars, systemVars, promptVars, cardVars, RoundInv
      <4>2. ASSUME NEW q \in Prompt PROVE PromptRound(q)'
        <5>1. Still(q) /\ Calm(q) /\ RepliesFewer(q) /\ PromptRound(q)
          BY <1>1, <4>1, DialogCalm, SaysNothing DEF Still
        <5> QED
          BY <5>1, QuietRound
      <4> QED
        BY <4>1, <4>2
    <3> QED
      BY <1>5, <3>1, <3>2, <3>3, <3>4 DEF SystemNext
  <2> QED
    BY <1>2, <1>3, <1>5, <2>1 DEF RoundInv, OneRoundAtATime
<1> QED
  BY <1>4, <1>5

(* The system prompter is never asked for a round while another is pending *)
(* (pin-system.c): an ask follows the end of the round before it, and the  *)
(* last try is warned of only where no notice was shown.                   *)
THEOREM AlwaysOneRound == SystemSpec => []OneRoundAtATime
<1>1. SystemInit => PromptInv /\ RoundInv
  BY PromptInit, RoundInit DEF SystemInit
<1>2. PromptInv /\ RoundInv /\ [SystemNext]_<<vars, systemVars>> => PromptInv' /\ RoundInv'
  BY PromptSystem, RoundStep
<1>3. RoundInv => OneRoundAtATime
  BY DEF RoundInv
<1> QED
  BY <1>1, <1>2, <1>3, PTL DEF SystemSpec
=============================================================================
