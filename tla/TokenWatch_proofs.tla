-------------------------- MODULE TokenWatch_proofs --------------------------
(***************************************************************************)
(* What TLAPS proves of the presence watcher, for every set of readers and *)
(* cards and every debounce threshold.                                     *)
(***************************************************************************)
EXTENDS TokenWatch, TLAPS

-----------------------------------------------------------------------------
(* Types. *)

LEMMA ListIsTokens ==
  ASSUME TypeOK PROVE ListTokens \subseteq Token
BY DEF ListTokens, SamePresence, Token, TypeOK

(* A count that would pass the threshold settles its entry and restarts at *)
(* zero.                                                                   *)
LEMMA CountIsBounded ==
  ASSUME TypeOK, NEW now, NEW t \in Token
  PROVE  /\ Counted(now, t) \in 0..(Debounce + 1)
         /\ Counted(now, t) > 0 => t \in watched \cup now /\ (t \in now) # present[t]
BY WatchAssumption DEF Counted, TypeOK

LEMMA TypeInit == Init => TypeOK
<1> SUFFICES ASSUME Init PROVE TypeOK
  OBVIOUS
<1>1. present \in [Token -> BOOLEAN]
  BY Zenon DEF Init
<1>2. stable \in [Token -> 0..Debounce]
  BY WatchAssumption DEF Init
<1>3. events \in Seq(Event) /\ pending \in Seq(Event)
  BY DEF Init
<1>4. reader \in [Reader -> Card \cup {Empty}] /\ swaps \in 0..MaxSwaps
  BY WatchAssumption DEF Init
<1>5. /\ thread = "none" /\ loop = "idle" /\ ~stop /\ ~source /\ ~receiver
      /\ watched = {} /\ gone = {} /\ came = {} /\ view = {} /\ together = {}
      /\ stop \in BOOLEAN /\ source \in BOOLEAN /\ receiver \in BOOLEAN
  BY Zenon DEF Init
<1> QED
  BY <1>1, <1>2, <1>3, <1>4, <1>5 DEF TypeOK

LEMMA TypeStep == TypeOK /\ [Next]_vars => TypeOK'
<1> SUFFICES ASSUME TypeOK, [Next]_vars PROVE TypeOK'
  OBVIOUS
<1> USE WatchAssumption DEF TypeOK
<1>1. CASE Watch
  <2>1. present' \in [Token -> BOOLEAN]
    <3>1. present' = [t \in Token |-> t \in ListTokens]
      BY <1>1, Zenon DEF Watch
    <3>2. \A t \in Token : (t \in ListTokens) \in BOOLEAN
      OBVIOUS
    <3> HIDE DEF TypeOK
    <3> QED
      BY <3>1, <3>2
  <2>2. view' \subseteq Token /\ watched' \subseteq Token /\ together' \subseteq Token \X Token
    BY <1>1, ListIsTokens DEF Watch
  <2> QED
    BY <1>1, <2>1, <2>2 DEF Watch, readerVars
<1>2. CASE Poll
  <2> DEFINE now == ListTokens
             count == [t \in Token |-> Counted(now, t)]
             out == Settled(count, TRUE)
             in == Settled(count, FALSE)
             held == [t \in Token |-> (present[t] /\ t \notin out) \/ t \in in]
  <2>1. /\ gone' = out /\ came' = in /\ present' = held /\ watched' = Kept(held, now)
        /\ stable' = [t \in Token |-> IF t \in out \cup in \/ t \notin watched' THEN 0 ELSE count[t]]
        /\ together' = together \cup (now \X now)
    BY <1>2 DEF Poll
  <2>2. now \subseteq Token
    BY ListIsTokens
  <2>3. ASSUME NEW t \in Token PROVE stable'[t] \in 0..Debounce
    <3>1. count[t] \in 0..(Debounce + 1)
      BY CountIsBounded
    <3>2. CASE t \in out \cup in
      <4>1. stable'[t] = 0
        BY <2>1, <3>2, Zenon
      <4> QED
        BY <4>1
    <3>3. CASE t \notin out \cup in
      <4>1. ~(count[t] >= Debounce)
        BY <3>3 DEF Settled
      <4>2. stable'[t] \in {0, count[t]}
        BY <2>1, <3>3, Zenon
      <4> QED
        BY <3>1, <4>1, <4>2
    <3> QED
      BY <3>2, <3>3
  <2>4. stable' \in [Token -> 0..Debounce]
    BY <2>1, <2>3
  <2>5. present' \in [Token -> BOOLEAN]
    BY <2>1
  <2>6. watched' \subseteq Token /\ gone' \subseteq Token /\ came' \subseteq Token
    BY <2>1, <2>2 DEF Kept, Settled
  <2>7. together' \subseteq Token \X Token
    BY <2>1, <2>2
  <2> QED
    BY <1>2, <2>4, <2>5, <2>6, <2>7 DEF Poll, readerVars, queueVars, loopVars
<1>3. CASE EmitRemoval
  BY <1>3 DEF EmitRemoval, WatchEmit, Event, readerVars, loopVars
<1>4. CASE EmitAddition
  BY <1>4 DEF EmitAddition, WatchEmit, Event, readerVars, loopVars
<1>5. CASE Deliver
  <2>1. pending' \in Seq(Event) /\ Head(pending) \in Event
    BY <1>5 DEF Deliver
  <2>2. view' \subseteq Token
    BY <1>5, <2>1 DEF Deliver, Event
  <2> QED
    BY <1>5, <2>1, <2>2 DEF Deliver, readerVars, pollVars, queueVars
<1>6. CASE PollDone \/ StopWatch \/ ThreadEnds
  BY <1>6 DEF PollDone, StopWatch, ThreadEnds, readerVars, pollVars, queueVars, loopVars
<1>7. CASE WatchDispatch \/ Dispatched
  BY <1>7 DEF WatchDispatch, Dispatched, readerVars, pollVars, queueVars, loopVars
<1>10. CASE DispatchPending
  BY <1>10 DEF DispatchPending, readerVars, pollVars
<1>11. CASE ClearWatch
  <2>1. events' = <<>> /\ source' = FALSE /\ receiver' = FALSE
    BY <1>11 DEF ClearWatch
  <2>2. UNCHANGED <<reader, swaps, thread, stop, watched, present, stable, gone, came,
                    loop, pending, view, together>>
    BY <1>11 DEF ClearWatch, readerVars, pollVars, loopVars
  <2>3. source' \in BOOLEAN /\ receiver' \in BOOLEAN
    BY <2>1, Zenon
  <2>4. events' \in Seq(Event)
    BY <2>1
  <2> QED
    BY <2>2, <2>3, <2>4
<1>8. CASE \E r \in Reader, c \in Card \cup {Empty} : Swap(r, c)
  BY <1>8 DEF Swap, pollVars, queueVars, loopVars
<1>9. CASE UNCHANGED vars
  BY <1>9 DEF vars, readerVars, pollVars, queueVars, loopVars
<1> QED
  BY <1>1, <1>2, <1>3, <1>4, <1>5, <1>6, <1>7, <1>8, <1>9, <1>10, <1>11 DEF Next

(* Every variable keeps to its type; in particular no entry's stability    *)
(* count of watch_thread ever passes CERTIFICATE_WATCH_DEBOUNCE.           *)
THEOREM TypeCorrect == Spec => []TypeOK
<1>1. Init => TypeOK
  BY TypeInit
<1>2. TypeOK /\ [Next]_vars => TypeOK'
  BY TypeStep
<1> QED
  BY <1>1, <1>2, PTL DEF Spec

-----------------------------------------------------------------------------
(* Wakeups. *)

(* No wakeup is lost: watch_emit attaches a source with every event it     *)
(* finds none for, and watch_dispatch forgets its source before it         *)
(* detaches the queue.                                                     *)
THEOREM NoWakeupLost == Spec => []QueuedEventHasSource
<1>1. Init => QueuedEventHasSource
  BY DEF Init, QueuedEventHasSource
<1>2. QueuedEventHasSource /\ [Next]_vars => QueuedEventHasSource'
  BY DEF QueuedEventHasSource, Next, vars, readerVars, pollVars, queueVars, loopVars,
         Swap, Watch, Poll, EmitRemoval, EmitAddition, WatchEmit, PollDone, StopWatch,
         ThreadEnds, WatchDispatch, DispatchPending, Deliver, Dispatched, ClearWatch
<1> QED
  BY <1>1, <1>2, PTL DEF Spec

-----------------------------------------------------------------------------
(* What is shown.  ShownTogetherWereSeenTogether speaks of the events that *)
(* were delivered; the ones that wait decide whether it stays true.  The   *)
(* invariant says of the whole queue, pending and events, that it brings   *)
(* in no card before it has taken out every card never seen with it, and   *)
(* that it takes out, after its last addition, every card that the thread  *)
(* holds no longer.                                                        *)

Seen(t, u) == <<t, u>> \in together /\ <<u, t>> \in together

Queue == pending \o events

Drops(q, k, t) == q[k].token = t /\ ~q[k].added

(* t is there from place i of the queue on; place 0 is the view. *)
Enters(q, v, i, t) == IF i = 0 THEN t \in v ELSE q[i].token = t /\ q[i].added

InTurn(q, v) ==
  \A t, u \in Token : \A i, j \in 0..Len(q) :
    Enters(q, v, i, t) /\ Enters(q, v, j, u) /\ j <= i /\ t # u /\ ~Seen(t, u)
      => \E k \in (j + 1)..(i - 1) : Drops(q, k, u)

(* The thread has reported t, and does not know it gone or has still to    *)
(* say so.                                                                 *)
Reported(t) == (present[t] /\ t \notin came) \/ t \in gone

TakenOut(q, v) ==
  \A u \in Token : \A j \in 0..Len(q) :
    Enters(q, v, j, u) /\ ~Reported(u) => \E k \in (j + 1)..Len(q) : Drops(q, k, u)

(* What a listing showed: present entries, pairwise, and an entry on its   *)
(* way in with a present one that is not as far on its way out.            *)
EntriesSeen ==
  /\ \A t, u \in Token : present[t] /\ present[u] => Seen(t, u)
  /\ \A t, u \in Token : ~present[t] /\ present[u] /\ stable[t] > stable[u] => Seen(t, u)

ThreadState ==
  /\ thread # "emitting" => gone = {} /\ came = {}
  /\ thread \in {"sleeping", "emitting"} => receiver
  /\ thread = "none" => ~receiver /\ view = {} /\ watched = {}
  /\ \A t \in gone : ~present[t]
  /\ \A t \in came : present[t]
  /\ \A t \in Token \ watched : ~present[t] /\ stable[t] = 0

QueueState ==
  /\ loop # "dispatching" => pending = <<>>
  /\ ~receiver => events = <<>> /\ pending = <<>> /\ ~source /\ loop = "idle"

WatchInv ==
  /\ TypeOK /\ ThreadState /\ QueueState /\ EntriesSeen
  /\ InTurn(Queue, view)
  /\ receiver => TakenOut(Queue, view)

(* An event at the end of the queue. *)
LEMMA AppendKeeps ==
  ASSUME NEW q \in Seq(Event), NEW e \in Event, NEW v
  PROVE  /\ Append(q, e) \in Seq(Event)
         /\ Len(Append(q, e)) = Len(q) + 1
         /\ \A u \in Token : \A i \in 0..Len(q) :
              Enters(Append(q, e), v, i, u) <=> Enters(q, v, i, u)
         /\ \A u \in Token : \A k \in 1..Len(q) : Drops(Append(q, e), k, u) <=> Drops(q, k, u)
         /\ Append(q, e)[Len(q) + 1] = e
BY DEF Enters, Drops

LEMMA AppendInTurn ==
  ASSUME NEW q \in Seq(Event), NEW t \in Token, NEW b \in BOOLEAN, NEW v, InTurn(q, v),
         b => \A u \in Token : \A j \in 0..Len(q) :
                Enters(q, v, j, u) /\ t # u /\ ~Seen(t, u)
                  => \E k \in (j + 1)..Len(q) : Drops(q, k, u)
  PROVE  InTurn(Append(q, [token |-> t, added |-> b]), v)
<1> DEFINE e == [token |-> t, added |-> b]
           r == Append(q, e)
<1>1. e \in Event
  BY DEF Event
<1>2. /\ Len(r) = Len(q) + 1 /\ r[Len(q) + 1] = e
      /\ \A u \in Token : \A i \in 0..Len(q) : Enters(r, v, i, u) <=> Enters(q, v, i, u)
      /\ \A u \in Token : \A k \in 1..Len(q) : Drops(r, k, u) <=> Drops(q, k, u)
  BY <1>1, AppendKeeps
<1>3. Len(q) \in Nat
  OBVIOUS
<1>4. \A u \in Token : Enters(r, v, Len(q) + 1, u) => u = t /\ b
  BY <1>2, <1>3 DEF Enters
<1> HIDE DEF r
<1> SUFFICES ASSUME NEW x \in Token, NEW u \in Token, NEW i \in 0..Len(r), NEW j \in 0..Len(r),
                    Enters(r, v, i, x), Enters(r, v, j, u), j <= i, x # u, ~Seen(x, u)
             PROVE  \E k \in (j + 1)..(i - 1) : Drops(r, k, u)
  BY DEF InTurn, r
<1>5. j \in 0..Len(q)
  BY <1>2, <1>3, <1>4
<1>6. CASE i \in 0..Len(q)
  <2>1. PICK k \in (j + 1)..(i - 1) : Drops(q, k, u)
    BY <1>2, <1>5, <1>6 DEF InTurn
  <2> QED
    BY <1>2, <1>3, <1>5, <1>6, <2>1
<1>7. CASE i = Len(q) + 1
  <2>1. x = t /\ b
    BY <1>4, <1>7
  <2>2. PICK k \in (j + 1)..Len(q) : Drops(q, k, u)
    BY <1>2, <1>5, <2>1
  <2> QED
    BY <1>2, <1>3, <1>5, <1>7, <2>2
<1> QED
  BY <1>2, <1>3, <1>6, <1>7

-----------------------------------------------------------------------------
(* The event at the head of the queue is delivered. *)
Delivered(v, e) == IF e.added THEN v \cup {e.token} ELSE v \ {e.token}

(* A card of the shortened queue entered the longer one, and the removals  *)
(* behind that place are still in the queue.                               *)
LEMMA TailEnters ==
  ASSUME NEW q \in Seq(Event), q # <<>>, NEW v, NEW u \in Token,
         NEW j \in 0..Len(Tail(q)), Enters(Tail(q), Delivered(v, Head(q)), j, u)
  PROVE  \E m \in 0..Len(q) :
           /\ Enters(q, v, m, u)
           /\ m <= j + 1 /\ (j > 0 => m = j + 1)
           /\ \A k \in (m + 1)..Len(q) :
                Drops(q, k, u) => k - 1 \in (j + 1)..Len(Tail(q)) /\ Drops(Tail(q), k - 1, u)
<1> DEFINE r == Tail(q)
<1>1. /\ Len(q) \in Nat \ {0} /\ Len(r) = Len(q) - 1 /\ Head(q) = q[1]
      /\ \A k \in 1..Len(r) : r[k] = q[k + 1]
  OBVIOUS
<1>2. \A k \in 2..Len(q) : Drops(q, k, u) => Drops(r, k - 1, u)
  <2> TAKE k \in 2..Len(q)
  <2>1. k - 1 \in 1..Len(r) /\ (k - 1) + 1 = k
    BY <1>1
  <2> QED
    BY <1>1, <2>1 DEF Drops
<1> HIDE DEF r
<1>3. CASE j > 0
  <2>1. j + 1 \in 0..Len(q) /\ Enters(q, v, j + 1, u)
    BY <1>1, <1>3 DEF Enters, r
  <2>2. \A k \in (j + 2)..Len(q) : k \in 2..Len(q) /\ k - 1 \in (j + 1)..Len(r)
    BY <1>1, <1>3 DEF r
  <2> QED
    BY <1>2, <2>1, <2>2, <1>3 DEF r
<1>4. CASE j = 0
  <2>1. u \in Delivered(v, Head(q))
    BY <1>4 DEF Enters
  <2>2. CASE Head(q).added /\ u = Head(q).token
    <3>1. Enters(q, v, 1, u)
      BY <1>1, <2>2 DEF Enters
    <3>2. \A k \in 2..Len(q) : k - 1 \in 1..Len(r)
      BY <1>1
    <3> QED
      BY <1>1, <1>2, <1>4, <3>1, <3>2 DEF r
  <2>3. CASE ~(Head(q).added /\ u = Head(q).token)
    <3>1. Enters(q, v, 0, u) /\ ~Drops(q, 1, u)
      BY <1>1, <2>1, <2>3 DEF Enters, Delivered, Drops
    <3>2. \A k \in 1..Len(q) : Drops(q, k, u) => k \in 2..Len(q) /\ k - 1 \in 1..Len(r)
      BY <1>1, <3>1
    <3> QED
      BY <1>1, <1>2, <1>4, <3>1, <3>2 DEF r
  <2> QED
    BY <2>2, <2>3
<1> QED
  BY <1>3, <1>4

LEMMA TailInTurn ==
  ASSUME NEW q \in Seq(Event), q # <<>>, NEW v, InTurn(q, v)
  PROVE  InTurn(Tail(q), Delivered(v, Head(q)))
<1> DEFINE r == Tail(q)
           w == Delivered(v, Head(q))
<1>1. Len(q) \in Nat \ {0} /\ Len(r) = Len(q) - 1
  OBVIOUS
<1> SUFFICES ASSUME NEW t \in Token, NEW u \in Token, NEW i \in 0..Len(r), NEW j \in 0..Len(r),
                    Enters(r, w, i, t), Enters(r, w, j, u), j <= i, t # u, ~Seen(t, u)
             PROVE  \E k \in (j + 1)..(i - 1) : Drops(r, k, u)
  BY DEF InTurn
<1>2. PICK m \in 0..Len(q) :
        Enters(q, v, m, t) /\ m <= i + 1 /\ (i > 0 => m = i + 1)
  BY TailEnters
<1>3. PICK n \in 0..Len(q) :
        /\ Enters(q, v, n, u) /\ n <= j + 1 /\ (j > 0 => n = j + 1)
        /\ \A k \in (n + 1)..Len(q) :
             Drops(q, k, u) => k - 1 \in (j + 1)..Len(r) /\ Drops(r, k - 1, u)
  BY TailEnters
<1> HIDE DEF r, w
<1>4. ~Seen(u, t)
  BY DEF Seen
<1>5. CASE n <= m
  <2>1. PICK k \in (n + 1)..(m - 1) : Drops(q, k, u)
    BY <1>2, <1>3, <1>5 DEF InTurn
  <2>2. k \in (n + 1)..Len(q) /\ k - 1 <= i - 1
    BY <1>1, <1>2, <1>3, <2>1
  <2>3. k - 1 \in (j + 1)..Len(r) /\ Drops(r, k - 1, u)
    BY <1>3, <2>1, <2>2
  <2>4. k - 1 \in (j + 1)..(i - 1)
    BY <1>1, <2>2, <2>3
  <2> QED
    BY <2>3, <2>4
<1>6. CASE m < n
  <2>1. i = 0 /\ j = 0 /\ m = 0 /\ n = 1
    BY <1>1, <1>2, <1>3, <1>6
  <2>2. PICK k \in (m + 1)..(n - 1) : Drops(q, k, t)
    BY <1>2, <1>3, <1>4, <1>6 DEF InTurn
  <2> QED
    BY <2>1, <2>2
<1> QED
  BY <1>5, <1>6

-----------------------------------------------------------------------------
(* The steps of the invariant. *)

LEMMA ThreadStep ==
  ASSUME TypeOK, ThreadState, QueueState, [Next]_vars
  PROVE  ThreadState' /\ QueueState'
<1> USE DEF ThreadState, QueueState
<1>1. CASE Watch
  BY <1>1, ListIsTokens, WatchAssumption DEF Watch, readerVars, TypeOK
<1>2. CASE Poll
  <2> DEFINE now == ListTokens
             count == [t \in Token |-> Counted(now, t)]
             out == Settled(count, TRUE)
             in == Settled(count, FALSE)
             held == [t \in Token |-> (present[t] /\ t \notin out) \/ t \in in]
  <2>1. /\ gone' = out /\ came' = in /\ present' = held /\ watched' = Kept(held, now)
        /\ stable' = [t \in Token |-> IF t \in out \cup in \/ t \notin watched' THEN 0 ELSE count[t]]
    BY <1>2 DEF Poll
  <2>2. now \subseteq Token
    BY ListIsTokens
  <2>3. \A t \in Token \ watched' : ~held[t]
    <3> SUFFICES ASSUME NEW t \in Token, held[t] PROVE t \in watched'
      OBVIOUS
    <3>1. t \in watched \cup now
      <4>1. CASE present[t]
        BY <4>1
      <4>2. CASE t \in in
        <5>1. count[t] > 0
          BY <4>2, WatchAssumption, CountIsBounded DEF Settled
        <5> QED
          BY <5>1, CountIsBounded
      <4> QED
        BY <4>1, <4>2
    <3> QED
      BY <2>1, <3>1 DEF Kept
  <2>4. \A t \in Token \ watched' : stable'[t] = 0
    BY <2>1, Zenon
  <2>5. \A t \in gone' : ~present'[t]
    BY <2>1 DEF Settled
  <2>6. \A t \in came' : present'[t]
    BY <2>1 DEF Settled
  <2> QED
    BY <1>2, <2>1, <2>3, <2>4, <2>5, <2>6 DEF Poll, queueVars, loopVars
<1>3. CASE EmitRemoval \/ EmitAddition
  BY <1>3 DEF EmitRemoval, EmitAddition, WatchEmit, loopVars, TypeOK
<1>4. CASE PollDone \/ StopWatch \/ ThreadEnds
  BY <1>4 DEF PollDone, StopWatch, ThreadEnds, pollVars, queueVars, loopVars
<1>5. CASE WatchDispatch \/ DispatchPending \/ Deliver \/ Dispatched
  BY <1>5 DEF WatchDispatch, DispatchPending, Deliver, Dispatched, pollVars, queueVars
<1>6. CASE ClearWatch
  BY <1>6 DEF ClearWatch, pollVars, loopVars
<1>7. CASE UNCHANGED vars
  BY <1>7 DEF vars, pollVars, queueVars, loopVars
<1>8. CASE \E r \in Reader, c \in Card \cup {Empty} : Swap(r, c)
  BY <1>8 DEF Swap, pollVars, queueVars, loopVars
<1> QED
  BY <1>1, <1>2, <1>3, <1>4, <1>5, <1>6, <1>7, <1>8 DEF Next

(* A poll: two cards shown by one listing were seen together, and a count  *)
(* that is ahead stays ahead unless the other card was shown again.        *)
LEMMA EntriesStep ==
  ASSUME TypeOK, ThreadState, EntriesSeen, [Next]_vars
  PROVE  EntriesSeen'
<1> USE DEF EntriesSeen
<1>1. CASE Watch
  <2>1. \A t \in Token : present'[t] <=> t \in ListTokens
    BY <1>1 DEF Watch
  <2>2. \A t \in Token : stable'[t] = 0
    BY <1>1 DEF Watch, ThreadState
  <2>3. \A t, u \in ListTokens : Seen(t, u)'
    BY <1>1 DEF Watch, Seen
  <2> QED
    BY <2>1, <2>2, <2>3
<1>2. CASE Poll
  <2> DEFINE now == ListTokens
             count == [t \in Token |-> Counted(now, t)]
             out == Settled(count, TRUE)
             in == Settled(count, FALSE)
             held == [t \in Token |-> (present[t] /\ t \notin out) \/ t \in in]
  <2>1. /\ gone' = out /\ came' = in /\ present' = held /\ watched' = Kept(held, now)
        /\ stable' = [t \in Token |-> IF t \in out \cup in \/ t \notin watched' THEN 0 ELSE count[t]]
        /\ together' = together \cup (now \X now)
    BY <1>2 DEF Poll
  <2>2. now \subseteq Token
    BY ListIsTokens
  <2>3. \A t, u \in Token : Seen(t, u) => Seen(t, u)'
    BY <2>1 DEF Seen
  <2>4. \A t, u \in now : Seen(t, u)'
    BY <2>1 DEF Seen
  <2>5. \A t \in Token : count[t] = Counted(now, t) /\ count[t] \in Nat
    BY CountIsBounded
  <2>6. \A t \in Token : ~present[t] /\ count[t] > 0 => t \in now /\ count[t] = stable[t] + 1
    BY <2>5, CountIsBounded DEF Counted, TypeOK
  <2>7. \A u \in Token : present[u] => u \in now \/ count[u] = stable[u] + 1
    BY <2>5 DEF Counted, TypeOK, ThreadState
  <2>8. \A t \in Token : t \in in <=> ~present[t] /\ count[t] >= Debounce
    BY DEF Settled, TypeOK
  <2>9. \A t \in Token : t \in out <=> present[t] /\ count[t] >= Debounce
    BY DEF Settled, TypeOK
  <2>10. \A t \in in : t \in Token /\ t \in now /\ count[t] > 0
    BY <2>5, <2>6, <2>8, WatchAssumption DEF Settled
  <2>11. \A t \in Token : present'[t] <=> (present[t] /\ t \notin out) \/ t \in in
    BY <2>1, Zenon
  \* The comparison of the two counts, before entries change.
  <2>12. \A t, u \in Token : ~present[t] /\ present[u] /\ count[t] > count[u] => Seen(t, u)'
    <3> TAKE t, u \in Token
    <3> HAVE ~present[t] /\ present[u] /\ count[t] > count[u]
    <3>1. t \in now /\ count[t] = stable[t] + 1
      BY <2>5, <2>6
    <3>2. CASE u \in now
      BY <2>4, <3>1, <3>2
    <3>3. CASE count[u] = stable[u] + 1
      <4>1. stable[t] > stable[u]
        BY <3>1, <3>3 DEF TypeOK
      <4> QED
        BY <2>3, <4>1
    <3> QED
      BY <2>7, <3>2, <3>3
  <2>13. \A t, u \in Token : t \in in /\ present[u] /\ u \notin out => Seen(t, u)'
    <3> TAKE t, u \in Token
    <3> HAVE t \in in /\ present[u] /\ u \notin out
    <3>1. ~present[t] /\ count[t] >= Debounce /\ ~(count[u] >= Debounce)
      BY <2>8, <2>9
    <3>2. count[t] \in Nat /\ count[u] \in Nat
      BY <2>5
    <3> HIDE DEF count
    <3>3. count[t] > count[u]
      BY <3>1, <3>2, WatchAssumption
    <3> QED
      BY <2>12, <3>1, <3>3
  <2>14. \A t, u \in Token : Seen(t, u)' => Seen(u, t)'
    BY DEF Seen
  <2>15. \A t, u \in Token : present'[t] /\ present'[u] => Seen(t, u)'
    <3> HIDE DEF out, in, held, count
    <3> QED
      BY <2>3, <2>4, <2>10, <2>11, <2>13, <2>14
  <2>16. \A t \in Token : stable'[t] > 0 => t \notin out \cup in /\ stable'[t] = count[t]
    <3> TAKE t \in Token
    <3>1. stable'[t] = IF t \in out \cup in \/ t \notin watched' THEN 0 ELSE count[t]
      BY <2>1, Zenon
    <3> HIDE DEF count, out, in
    <3> QED
      BY <3>1
  <2>17. \A u \in Token : u \notin out \cup in /\ present[u] => stable'[u] = count[u]
    <3> TAKE u \in Token
    <3> HAVE u \notin out \cup in /\ present[u]
    <3>1. u \in watched'
      BY <2>1 DEF Kept, ThreadState
    <3> QED
      BY <2>1, <3>1
  <2>18. ASSUME NEW t \in Token, NEW u \in Token, ~present'[t], present'[u], stable'[t] > stable'[u]
         PROVE  Seen(t, u)'
    <3>1. stable'[u] \in Nat /\ stable'[t] \in Nat
      BY TypeStep DEF TypeOK
    <3>2. stable'[t] > 0
      BY <3>1, <2>18
    <3>3. t \notin out \cup in /\ stable'[t] = count[t] /\ count[t] > 0 /\ ~present[t]
      BY <3>2, <2>11, <2>16, <2>18
    <3>4. t \in now
      BY <2>6, <3>3
    <3>5. CASE u \in in
      BY <2>4, <2>10, <3>4, <3>5
    <3>6. CASE u \notin in
      <4>1. present[u] /\ u \notin out
        BY <2>11, <2>18, <3>6
      <4>2. count[t] > count[u]
        BY <2>17, <2>18, <3>3, <3>6, <4>1
      <4> QED
        BY <2>12, <3>3, <4>1, <4>2
    <3> QED
      BY <3>5, <3>6
  <2> QED
    BY <2>15, <2>18
<1>3. CASE UNCHANGED <<present, stable, together>>
  BY <1>3 DEF Seen
<1> QED
  BY <1>1, <1>2, <1>3 DEF Next, vars, pollVars, Swap, EmitRemoval, EmitAddition, PollDone, StopWatch,
     ThreadEnds, WatchDispatch, DispatchPending, Deliver, Dispatched, ClearWatch

-----------------------------------------------------------------------------
(* The queue under the steps that neither emit nor deliver. *)
LEMMA SameQueue ==
  ASSUME InTurn(Queue, view), Queue' = Queue, view' = view, together \subseteq together'
  PROVE  InTurn(Queue, view)'
BY DEF InTurn, Enters, Drops, Seen

LEMMA SameTakenOut ==
  ASSUME TakenOut(Queue, view), Queue' = Queue, view' = view,
         \A t \in Token : Reported(t) => Reported(t)'
  PROVE  TakenOut(Queue, view)'
BY DEF TakenOut, Enters, Drops

(* watch_emit puts its event at the end of the whole queue. *)
LEMMA EmitsLast ==
  ASSUME TypeOK, NEW t \in Token, NEW b \in BOOLEAN, WatchEmit(t, b), pending' = pending
  PROVE  Queue \in Seq(Event) /\ Queue' = Append(Queue, [token |-> t, added |-> b])
<1>1. events \in Seq(Event) /\ pending \in Seq(Event) /\ [token |-> t, added |-> b] \in Event
  BY DEF TypeOK, Event
<1>2. events' = Append(events, [token |-> t, added |-> b])
  BY DEF WatchEmit
<1>3. Queue' = pending \o Append(events, [token |-> t, added |-> b])
  BY <1>2 DEF Queue
<1> HIDE DEF Event
<1> QED
  BY <1>1, <1>3 DEF Queue

LEMMA RemovalStep ==
  ASSUME WatchInv, EmitRemoval
  PROVE  InTurn(Queue, view)' /\ TakenOut(Queue, view)'
<1>1. PICK t \in gone : WatchEmit(t, FALSE) /\ gone' = gone \ {t}
  BY DEF EmitRemoval
<1>2. /\ t \in Token /\ TypeOK /\ ~present[t] /\ present' = present /\ came' = came
      /\ pending' = pending /\ view' = view /\ together' = together
  BY <1>1 DEF EmitRemoval, WatchInv, ThreadState, TypeOK, loopVars
<1> DEFINE e == [token |-> t, added |-> FALSE]
<1>3. Queue \in Seq(Event) /\ Queue' = Append(Queue, e) /\ e \in Event
  BY <1>1, <1>2, EmitsLast DEF Event
<1>4. InTurn(Append(Queue, e), view)
  BY <1>2, <1>3, AppendInTurn DEF WatchInv
<1>5. InTurn(Queue, view)'
  BY <1>2, <1>3, <1>4 DEF InTurn, Enters, Drops, Seen
<1>6. TakenOut(Queue, view)
  BY DEF WatchInv, ThreadState, EmitRemoval
<1>7. /\ Len(Queue') = Len(Queue) + 1 /\ Len(Queue) \in Nat /\ Queue'[Len(Queue) + 1] = e
      /\ \A u \in Token : \A i \in 0..Len(Queue) :
           Enters(Queue', view, i, u) <=> Enters(Queue, view, i, u)
      /\ \A u \in Token : \A k \in 1..Len(Queue) : Drops(Queue', k, u) <=> Drops(Queue, k, u)
  <2> HIDE DEF e
  <2>1. Len(Queue) \in Nat
    BY <1>3
  <2> QED
    BY <1>3, <2>1, AppendKeeps
<1>8. Drops(Queue', Len(Queue) + 1, t)
  BY <1>7 DEF Drops
<1>9. \A u \in Token : ~Enters(Queue', view, Len(Queue) + 1, u)
  BY <1>7 DEF Enters
<1>10. ASSUME NEW u \in Token, NEW j \in 0..Len(Queue'), Enters(Queue', view, j, u), ~Reported(u)'
       PROVE  \E k \in (j + 1)..Len(Queue') : Drops(Queue', k, u)
  <2>1. j \in 0..Len(Queue) /\ Enters(Queue, view, j, u)
    BY <1>7, <1>9, <1>10
  <2>2. CASE u = t
    BY <1>7, <1>8, <2>1, <2>2
  <2>3. CASE u # t
    <3>1. ~Reported(u)
      BY <1>1, <1>2, <1>10, <2>3 DEF Reported
    <3>2. PICK k \in (j + 1)..Len(Queue) : Drops(Queue, k, u)
      BY <1>6, <2>1, <3>1 DEF TakenOut
    <3> QED
      BY <1>7, <2>1, <3>2
  <2> QED
    BY <2>2, <2>3
<1>11. TakenOut(Queue, view)'
  BY <1>2, <1>10 DEF TakenOut, Enters, Drops
<1> QED
  BY <1>5, <1>11

LEMMA AdditionStep ==
  ASSUME WatchInv, EmitAddition
  PROVE  InTurn(Queue, view)' /\ TakenOut(Queue, view)'
<1>1. PICK t \in came : WatchEmit(t, TRUE) /\ came' = came \ {t}
  BY DEF EmitAddition
<1>2. /\ t \in Token /\ TypeOK /\ present[t] /\ present' = present /\ gone = {} /\ gone' = gone
      /\ pending' = pending /\ view' = view /\ together' = together
  BY <1>1 DEF EmitAddition, WatchInv, ThreadState, TypeOK, loopVars
<1> DEFINE e == [token |-> t, added |-> TRUE]
<1>3. Queue \in Seq(Event) /\ Queue' = Append(Queue, e) /\ e \in Event
  BY <1>1, <1>2, EmitsLast DEF Event
<1>4. TakenOut(Queue, view)
  BY DEF WatchInv, ThreadState, EmitAddition
<1>5. \A u \in Token : ~Seen(t, u) => ~Reported(u)
  BY <1>2 DEF WatchInv, EntriesSeen, Reported
<1>6. InTurn(Append(Queue, e), view)
  <2>1. \A u \in Token : \A j \in 0..Len(Queue) :
           Enters(Queue, view, j, u) /\ t # u /\ ~Seen(t, u)
             => \E k \in (j + 1)..Len(Queue) : Drops(Queue, k, u)
    BY <1>4, <1>5 DEF TakenOut
  <2> QED
    BY <1>2, <1>3, <2>1, AppendInTurn DEF WatchInv
<1>7. InTurn(Queue, view)'
  BY <1>2, <1>3, <1>6 DEF InTurn, Enters, Drops, Seen
<1>8. /\ Len(Queue') = Len(Queue) + 1 /\ Len(Queue) \in Nat /\ Queue'[Len(Queue) + 1] = e
      /\ \A u \in Token : \A i \in 0..Len(Queue) :
           Enters(Queue', view, i, u) <=> Enters(Queue, view, i, u)
      /\ \A u \in Token : \A k \in 1..Len(Queue) : Drops(Queue', k, u) <=> Drops(Queue, k, u)
  <2> HIDE DEF e
  <2>1. Len(Queue) \in Nat
    BY <1>3
  <2> QED
    BY <1>3, <2>1, AppendKeeps
<1>9. ASSUME NEW u \in Token, NEW j \in 0..Len(Queue'), Enters(Queue', view, j, u), ~Reported(u)'
      PROVE  \E k \in (j + 1)..Len(Queue') : Drops(Queue', k, u)
  <2>1. u # t /\ ~Reported(u)
    BY <1>1, <1>2, <1>9 DEF Reported
  <2>2. j \in 0..Len(Queue) /\ Enters(Queue, view, j, u)
    <3>1. j # Len(Queue) + 1
      BY <1>8, <1>9, <2>1 DEF Enters
    <3>2. j \in 0..Len(Queue)
      BY <1>8, <3>1
    <3> QED
      BY <1>8, <1>9, <3>2
  <2>3. PICK k \in (j + 1)..Len(Queue) : Drops(Queue, k, u)
    BY <1>4, <2>1, <2>2 DEF TakenOut
  <2> QED
    BY <1>8, <2>2, <2>3
<1>10. TakenOut(Queue, view)'
  BY <1>2, <1>9 DEF TakenOut, Enters, Drops
<1> QED
  BY <1>7, <1>10

(* One event of the detached prefix reaches watch_event. *)
LEMMA DeliverStep ==
  ASSUME WatchInv, Deliver
  PROVE  InTurn(Queue, view)' /\ TakenOut(Queue, view)'
<1>1. /\ TypeOK /\ receiver /\ pending # <<>> /\ pending' = Tail(pending) /\ events' = events
      /\ present' = present /\ came' = came /\ gone' = gone /\ together' = together
  BY DEF Deliver, WatchInv, QueueState, queueVars, pollVars
<1>2. view' = Delivered(view, Head(pending))
  BY <1>1 DEF Deliver, Delivered
<1>3. events \in Seq(Event) /\ pending \in Seq(Event)
  BY <1>1 DEF TypeOK
<1>4. /\ Queue \in Seq(Event) /\ Queue # <<>> /\ Head(Queue) = Head(pending)
      /\ Queue' = Tail(Queue)
  BY <1>1, <1>3 DEF Queue
<1>5. view' = Delivered(view, Head(Queue))
  BY <1>2, <1>4
<1>6. InTurn(Tail(Queue), Delivered(view, Head(Queue)))
  BY <1>4, TailInTurn DEF WatchInv
<1>7. InTurn(Queue, view)'
  <2>1. InTurn(Queue', view')
    BY <1>4, <1>5, <1>6
  <2> QED
    BY <1>1, <2>1 DEF InTurn, Enters, Drops, Seen
<1>8. ASSUME NEW u \in Token, NEW j \in 0..Len(Tail(Queue)),
             Enters(Tail(Queue), Delivered(view, Head(Queue)), j, u), ~Reported(u)
      PROVE  \E k \in (j + 1)..Len(Tail(Queue)) : Drops(Tail(Queue), k, u)
  <2>1. PICK m \in 0..Len(Queue) :
          /\ Enters(Queue, view, m, u)
          /\ \A k \in (m + 1)..Len(Queue) :
               Drops(Queue, k, u) => k - 1 \in (j + 1)..Len(Tail(Queue)) /\ Drops(Tail(Queue), k - 1, u)
    BY <1>4, <1>8, TailEnters
  <2>2. PICK k \in (m + 1)..Len(Queue) : Drops(Queue, k, u)
    BY <1>1, <1>8, <2>1 DEF WatchInv, TakenOut
  <2> QED
    BY <2>1, <2>2
<1>9. \A u \in Token : Reported(u)' <=> Reported(u)
  BY <1>1 DEF Reported
<1>10. TakenOut(Queue, view)'
  BY <1>4, <1>5, <1>8, <1>9 DEF TakenOut, Enters, Drops
<1> QED
  BY <1>7, <1>10

LEMMA WatchInit == Init => WatchInv
<1> SUFFICES ASSUME Init PROVE WatchInv
  OBVIOUS
<1>1. TypeOK
  BY TypeInit
<1>2. \A t \in Token : ~present[t] /\ stable[t] = 0
  BY DEF Init
<1>3. ThreadState /\ QueueState /\ ~receiver
  BY <1>2 DEF Init, ThreadState, QueueState
<1>4. EntriesSeen
  BY <1>2 DEF EntriesSeen
<1>5. Queue = <<>> /\ view = {}
  BY DEF Init, Queue
<1>6. InTurn(Queue, view)
  BY <1>5 DEF InTurn, Enters
<1> QED
  BY <1>1, <1>3, <1>4, <1>6 DEF WatchInv

LEMMA WatchStep == WatchInv /\ [Next]_vars => WatchInv'
<1> SUFFICES ASSUME WatchInv, [Next]_vars PROVE WatchInv'
  OBVIOUS
<1>1. TypeOK /\ ThreadState /\ QueueState /\ EntriesSeen /\ InTurn(Queue, view)
  BY DEF WatchInv
<1>2. TypeOK' /\ ThreadState' /\ QueueState' /\ EntriesSeen'
  BY <1>1, TypeStep, ThreadStep, EntriesStep
<1> SUFFICES InTurn(Queue, view)' /\ (receiver' => TakenOut(Queue, view)')
  BY <1>2 DEF WatchInv
<1>3. CASE Watch
  <2>1. Queue' = <<>> /\ came' = {} /\ gone' = {} /\ Queue = <<>>
    BY <1>1, <1>3 DEF Watch, ThreadState, QueueState, Queue
  <2>2. view' = ListTokens /\ \A t, u \in ListTokens : Seen(t, u)'
    BY <1>3 DEF Watch, Seen
  <2>3. \A t \in Token : t \in view' => Reported(t)'
    BY <1>3, <2>1 DEF Watch, Reported
  <2>4. InTurn(Queue, view)'
    BY <2>1, <2>2 DEF InTurn, Enters
  <2>5. TakenOut(Queue, view)'
    BY <2>1, <2>3 DEF TakenOut, Enters
  <2> QED
    BY <2>4, <2>5
<1>4. CASE Poll
  <2> DEFINE out == Settled([t \in Token |-> Counted(ListTokens, t)], TRUE)
             in == Settled([t \in Token |-> Counted(ListTokens, t)], FALSE)
  <2>1. /\ gone' = out /\ came' = in
        /\ present' = [t \in Token |-> (present[t] /\ t \notin out) \/ t \in in]
        /\ together \subseteq together'
    BY <1>4 DEF Poll
  <2>2. Queue' = Queue /\ view' = view /\ receiver' = receiver
    BY <1>4 DEF Poll, Queue, queueVars, loopVars
  <2>3. gone = {}
    BY <1>1, <1>4 DEF Poll, ThreadState
  <2>4. \A t \in Token : present'[t] <=> (present[t] /\ t \notin out) \/ t \in in
    BY <2>1, Zenon
  <2>5. \A t \in in : ~present[t]
    BY DEF Settled
  <2>6. \A t \in Token : Reported(t) => Reported(t)'
    <3> HIDE DEF out, in
    <3> QED
      BY <2>1, <2>3, <2>4, <2>5 DEF Reported
  <2> HIDE DEF out, in
  <2> QED
    BY <1>1, <2>1, <2>2, <2>6, SameQueue, SameTakenOut DEF WatchInv
<1>5. CASE EmitRemoval
  BY <1>5, RemovalStep
<1>6. CASE EmitAddition
  BY <1>6, AdditionStep
<1>7. CASE Deliver
  BY <1>7, DeliverStep
<1>8. CASE DispatchPending
  <2>1. pending = <<>> /\ pending' = events /\ events' = <<>> /\ events \in Seq(Event)
    BY <1>1, <1>8 DEF DispatchPending, QueueState, TypeOK
  <2>2. Queue' = Queue
    BY <2>1 DEF Queue
  <2>3. UNCHANGED <<present, gone, came, view, receiver, together>>
    BY <1>8 DEF DispatchPending, pollVars
  <2> QED
    BY <1>1, <2>2, <2>3, SameQueue, SameTakenOut DEF WatchInv, Reported
<1>9. CASE ClearWatch
  <2>1. Queue' = <<>> /\ ~receiver' /\ view' = view /\ together' = together
    BY <1>1, <1>9 DEF ClearWatch, QueueState, Queue, loopVars
  <2>2. Queue \in Seq(Event)
    BY <1>1 DEF TypeOK, Queue
  <2>3. \A t, u \in Token : t \in view /\ u \in view /\ t # u => Seen(t, u)
    <3> SUFFICES ASSUME NEW t \in Token, NEW u \in Token, t \in view, u \in view, t # u, ~Seen(t, u)
                 PROVE  FALSE
      OBVIOUS
    <3>1. Len(Queue) \in Nat /\ 0 \in 0..Len(Queue)
      BY <2>2
    <3>2. Enters(Queue, view, 0, t) /\ Enters(Queue, view, 0, u)
      BY DEF Enters
    <3>3. \E k \in (0 + 1)..(0 - 1) : Drops(Queue, k, u)
      BY <1>1, <3>1, <3>2 DEF InTurn
    <3> QED
      BY <3>3
  <2>4. InTurn(Queue, view)'
    BY <2>1, <2>3 DEF InTurn, Enters, Seen
  <2> QED
    BY <2>1, <2>4
<1>10. CASE UNCHANGED <<present, gone, came, events, pending, view, receiver, together>>
  BY <1>1, <1>10, SameQueue, SameTakenOut DEF WatchInv, Queue, Reported
<1>11. CASE \/ \E r \in Reader, c \in Card \cup {Empty} : Swap(r, c)
            \/ PollDone \/ StopWatch \/ ThreadEnds \/ WatchDispatch \/ Dispatched
            \/ UNCHANGED vars
  BY <1>10, <1>11 DEF vars, pollVars, queueVars, loopVars, Swap, PollDone, StopWatch, ThreadEnds,
     WatchDispatch, Dispatched
<1> QED
  BY <1>3, <1>4, <1>5, <1>6, <1>7, <1>8, <1>9, <1>11 DEF Next

(* However the coordinator and the polling thread interleave, the events   *)
(* delivered so far never show two cards together that no listing ever     *)
(* showed together: a card exchanged for another is reported gone first.   *)
THEOREM ExchangeIsReportedInTurn == Spec => []ShownTogetherWereSeenTogether
<1>1. Init => WatchInv
  BY WatchInit
<1>2. WatchInv /\ [Next]_vars => WatchInv'
  BY WatchStep
<1>3. WatchInv => ShownTogetherWereSeenTogether
  <2> SUFFICES ASSUME WatchInv, NEW t \in view, NEW u \in view, t # u PROVE <<t, u>> \in together
    BY DEF ShownTogetherWereSeenTogether
  <2>1. Queue \in Seq(Event) /\ t \in Token /\ u \in Token
    BY DEF WatchInv, TypeOK, Queue
  <2>2. 0 \in 0..Len(Queue) /\ Enters(Queue, view, 0, t) /\ Enters(Queue, view, 0, u)
    BY <2>1 DEF Enters
  <2>3. ~Seen(t, u) => \E k \in (0 + 1)..(0 - 1) : Drops(Queue, k, u)
    BY <2>1, <2>2 DEF WatchInv, InTurn
  <2> QED
    BY <2>3 DEF Seen
<1> QED
  BY <1>1, <1>2, <1>3, PTL DEF Spec
=============================================================================
