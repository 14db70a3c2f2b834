------------------------------- MODULE FairSem -------------------------------
(***************************************************************************)
(* The FIFO semaphore that caps the requests in flight to one upstream     *)
(* server (src/internal/health/sem.go), with the part of AcquireSlot that  *)
(* waits outside its lock.                                                 *)
(*                                                                         *)
(* Every method of fairSem holds fairSem.mu from its first to its last     *)
(* line, so each is one action. What happens outside the lock is a step of *)
(* its own: the select of Wait either takes the grant off the channel, or  *)
(* sees the client's context or the queue timeout and then calls abandon,  *)
(* and a grant may be sent in between.                                     *)
(***************************************************************************)
EXTENDS Integers, Sequences, FiniteSets, SequencesExt

CONSTANTS
    Reqs,       \* request handlers; one may come back as a new request
    Caps        \* the values of max_concurrency a configuration may hold

ASSUME ReqsAssumption == IsFiniteSet(Reqs)
ASSUME CapsAssumption == Caps \subseteq Nat

VARIABLES
    capacity,   \* fairSem.capacity; 0 is unlimited
    avail,      \* fairSem.avail
    waiters,    \* fairSem.waiters, each waiter named by its request
    cancelled,  \* requests whose last waiter has semWaiter.cancelled set
    chan,       \* requests whose semWaiter.ch holds the grant
    pc          \* where each request is: see States

vars == <<capacity, avail, waiters, cancelled, chan, pc>>

\* idle: holds no slot and waits for none; parked: in the select of Wait;
\* leaving: past that select, about to call abandon; held: owns a slot.
States == {"idle", "parked", "leaving", "held"}

-----------------------------------------------------------------------------
(* State functions *)

Waiting(r) == pc[r] \in {"parked", "leaving"}

\* The requests that own a slot: they have it, or it was sent to them.
Holders == {r \in Reqs : pc[r] = "held"} \cup chan

\* Slots in circulation.
Slots == avail + Cardinality(Holders)

\* The first n queue entries that popWaiterLocked would return.
Live(n) == {i \in 1 .. n : waiters[i] \notin cancelled}

\* How many entries leave the queue when popWaiterLocked is asked for k waiters.
PopCount(k) ==
    Min({n \in 0 .. Len(waiters) : Cardinality(Live(n)) = k} \cup {Len(waiters)})

Popped(k) == {waiters[i] : i \in Live(PopCount(k))}
Rest(k) == SubSeq(waiters, PopCount(k) + 1, Len(waiters))

\* What drainLocked leaves of a free slots: it sends one to each waiter it pops.
Left(a) == a - Cardinality(Live(PopCount(a)))

\* Slips: the upper bound dropped; the slots in use forgotten.
ClampBelow(x, c) == IF x < 0 THEN 0 ELSE x
ResizedAfresh(c) == c

\* The new value of avail before the drain, for a change between two caps.
Clamp(x, c) == IF x < 0 THEN 0 ELSE IF x > c THEN c ELSE x
Resized(c) == IF capacity = 0 THEN c ELSE Clamp(avail + c - capacity, c)

-----------------------------------------------------------------------------
(* Actions *)

Init ==
    /\ capacity \in Caps
    /\ avail = capacity
    /\ waiters = <<>>
    /\ cancelled = {}
    /\ chan = {}
    /\ pc = [r \in Reqs |-> "idle"]

\* Acquire with no cap: nothing is counted.
AcquireUnlimited(r) ==
    /\ pc[r] = "idle"
    /\ capacity = 0
    /\ pc' = [pc EXCEPT ![r] = "held"]
    /\ UNCHANGED <<capacity, avail, waiters, cancelled, chan>>

\* Acquire with a slot left after the drain.
AcquireFree(r) ==
    /\ pc[r] = "idle"
    /\ capacity > 0
    /\ Left(avail) > 0
    /\ chan' = chan \cup Popped(avail)
    /\ waiters' = Rest(avail)
    /\ avail' = Left(avail) - 1
    /\ pc' = [pc EXCEPT ![r] = "held"]
    /\ UNCHANGED <<capacity, cancelled>>

\* Acquire with none left: a fresh waiter joins the queue.
AcquireQueued(r) ==
    /\ pc[r] = "idle"
    /\ capacity > 0
    /\ Left(avail) = 0
    /\ chan' = chan \cup Popped(avail)
    /\ waiters' = Append(Rest(avail), r)
    /\ avail' = Left(avail)
    /\ cancelled' = cancelled \ {r}
    /\ pc' = [pc EXCEPT ![r] = "parked"]
    /\ UNCHANGED capacity

Acquire(r) == AcquireUnlimited(r) \/ AcquireFree(r) \/ AcquireQueued(r)

\* The select of Wait takes the grant.
Receive(r) ==
    /\ pc[r] = "parked"
    /\ r \in chan
    /\ chan' = chan \ {r}
    /\ pc' = [pc EXCEPT ![r] = "held"]
    /\ UNCHANGED <<capacity, avail, waiters, cancelled>>

\* The select of Wait sees the context or the timer. A Go select with several
\* ready cases picks any of them, so a delivered grant does not prevent this.
WaitEnds(r) ==
    /\ pc[r] = "parked"
    /\ pc' = [pc EXCEPT ![r] = "leaving"]
    /\ UNCHANGED <<capacity, avail, waiters, cancelled, chan>>

\* Slip: the grant is dropped with the wait that gave up.
AbandonDropsGrant(r) ==
    /\ pc[r] = "leaving"
    /\ r \in chan
    /\ chan' = chan \ {r}
    /\ pc' = [pc EXCEPT ![r] = "idle"]
    /\ UNCHANGED <<capacity, avail, waiters, cancelled>>

\* abandon finds the grant delivered and keeps the slot.
AbandonGranted(r) ==
    /\ pc[r] = "leaving"
    /\ r \in chan
    /\ chan' = chan \ {r}
    /\ pc' = [pc EXCEPT ![r] = "held"]
    /\ UNCHANGED <<capacity, avail, waiters, cancelled>>

\* Slip: abandon does not look at the channel under the lock.
AbandonBlind(r) ==
    /\ pc[r] = "leaving"
    /\ cancelled' = cancelled \cup {r}
    /\ waiters' = RemoveFirst(waiters, r)
    /\ pc' = [pc EXCEPT ![r] = "idle"]
    /\ UNCHANGED <<capacity, avail, chan>>

\* abandon leaves the queue for good.
AbandonQueued(r) ==
    /\ pc[r] = "leaving"
    /\ r \notin chan
    /\ cancelled' = cancelled \cup {r}
    /\ waiters' = RemoveFirst(waiters, r)
    /\ pc' = [pc EXCEPT ![r] = "idle"]
    /\ UNCHANGED <<capacity, avail, chan>>

Abandon(r) == AbandonGranted(r) \/ AbandonQueued(r)

\* Release with no cap: the slot was never counted.
ReleaseUnlimited(r) ==
    /\ capacity = 0
    /\ UNCHANGED <<avail, waiters, chan>>

\* Slips: the newest waiter is served; the slot is handed off and freed as well;
\* the slot is freed and the queue left for the next Acquire to drain.
ReleaseToNewest(r) ==
    /\ capacity > 0
    /\ waiters # <<>>
    /\ chan' = chan \cup {Last(waiters)}
    /\ waiters' = Front(waiters)
    /\ UNCHANGED avail

ReleaseTwice(r) ==
    /\ capacity > 0
    /\ Live(Len(waiters)) # {}
    /\ chan' = chan \cup Popped(1)
    /\ waiters' = Rest(1)
    /\ avail' = Clamp(avail + 1, capacity)

ReleaseToPool(r) ==
    /\ capacity > 0
    /\ Live(Len(waiters)) # {}
    /\ avail' = Clamp(avail + 1, capacity)
    /\ UNCHANGED <<chan, waiters>>

\* Release hands the slot to the longest waiter; it never becomes free.
ReleaseHandOff(r) ==
    /\ capacity > 0
    /\ Live(Len(waiters)) # {}
    /\ chan' = chan \cup Popped(1)
    /\ waiters' = Rest(1)
    /\ UNCHANGED avail

\* Release with nobody waiting restores the slot, up to the cap.
ReleaseFree(r) ==
    /\ capacity > 0
    /\ Live(Len(waiters)) = {}
    /\ waiters' = <<>>
    /\ avail' = Clamp(avail + 1, capacity)
    /\ UNCHANGED chan

Release(r) ==
    /\ pc[r] = "held"
    /\ pc' = [pc EXCEPT ![r] = "idle"]
    /\ ReleaseUnlimited(r) \/ ReleaseHandOff(r) \/ ReleaseFree(r)
    /\ UNCHANGED <<capacity, cancelled>>

\* setCapacity(0): everyone queued walks in.
Uncap ==
    /\ 0 \in Caps
    /\ capacity # 0
    /\ capacity' = 0
    /\ chan' = chan \cup {waiters[i] : i \in Live(Len(waiters))}
    /\ waiters' = <<>>
    /\ avail' = 0
    /\ UNCHANGED <<cancelled, pc>>

\* Slip: new slots wait for the next Acquire instead of the queue.
SetCapacityNoDrain(c) ==
    /\ c \notin {0, capacity}
    /\ capacity' = c
    /\ avail' = Resized(c)
    /\ UNCHANGED <<waiters, cancelled, chan, pc>>

\* setCapacity(c), c > 0: the free slots follow the change, then drain.
SetCapacity(c) ==
    /\ c \notin {0, capacity}
    /\ capacity' = c
    /\ LET a == Resized(c) IN
         /\ chan' = chan \cup Popped(a)
         /\ waiters' = Rest(a)
         /\ avail' = Left(a)
    /\ UNCHANGED <<cancelled, pc>>

Resize == Uncap \/ \E c \in Caps : SetCapacity(c)

Next ==
    \/ \E r \in Reqs :
         Acquire(r) \/ Receive(r) \/ WaitEnds(r) \/ Abandon(r) \/ Release(r)
    \/ Resize

\* A request scheduled to run does run: it takes the grant that was sent to it,
\* finishes the abandon it began, and releases its slot (a deferred call on
\* every path out of the handler). Clients need not come, nor timers fire.
Fairness ==
    \A r \in Reqs :
        WF_vars(Receive(r)) /\ WF_vars(Abandon(r)) /\ WF_vars(Release(r))

Spec == Init /\ [][Next]_vars
FairSpec == Spec /\ Fairness

-----------------------------------------------------------------------------
(* Properties *)

\* The shape of every variable.
TypeOK ==
    /\ capacity \in Caps
    /\ avail \in 0 .. capacity
    /\ waiters \in Seq(Reqs)
    /\ cancelled \subseteq Reqs
    /\ chan \subseteq Reqs
    /\ pc \in [Reqs -> States]

\* A request in Wait is either still queued or has its grant in the channel,
\* never both and never neither, and nobody else is queued or sent a grant.
\* Neither: a wake-up was lost and the handler sleeps until its timeout. Both:
\* the second send would block under the lock. Somebody else: a slot goes to a
\* request that gave up, and is lost.
NoLostWakeup ==
    /\ \A r \in Reqs : Waiting(r) <=> (r \in ToSet(waiters) \/ r \in chan)
    /\ \A i \in 1 .. Len(waiters) : waiters[i] \notin chan \cup cancelled
    /\ \A i, j \in 1 .. Len(waiters) : waiters[i] = waiters[j] => i = j

\* A slot is free only when nobody queues for one, and nobody queues at a
\* server without a cap.
WorkConserving == avail > 0 \/ capacity = 0 => waiters = <<>>

\* No interleaving of releases, cancellations that race a grant, and changes of
\* max_concurrency loses a slot: as many as the cap are free or in use.
NoLostSlot == capacity > 0 => Slots >= capacity

\* Requests are admitted in order of arrival: of two queued requests the later
\* never gets its grant while the earlier stays queued, and a newcomer takes a
\* slot at once only when it leaves nobody queued behind its back.
AdmittedInOrder ==
    [][ /\ \A i, j \in 1 .. Len(waiters) :
             i < j /\ waiters[j] \in chan' => waiters[i] \notin ToSet(waiters')
        /\ \A r \in Reqs :
             pc[r] = "idle" /\ pc'[r] = "held" => waiters' = <<>>
      ]_vars

\* Only a change of max_concurrency makes slots: no sequence of acquisitions,
\* grants, cancellations and releases raises the number in circulation. With
\* NoLostSlot this is the cap itself while max_concurrency stays what it is.
SlotsNotMade == [][capacity' = capacity /\ capacity > 0 => Slots' <= Slots]_vars

\* A queued request is admitted or gives up: it is not starved, whatever
\* newcomers do and however often max_concurrency changes, and even if its
\* own timer never fires.
NoStarvation == \A r \in Reqs : Waiting(r) ~> ~Waiting(r)

\* The semaphore implements the abstract line of slots; without a cap it counts
\* none.
InCirculation == IF capacity = 0 THEN 0 ELSE Slots
Line == INSTANCE SlotLine WITH
    limit <- capacity,
    slots <- InCirculation,
    holders <- Holders,
    line <- waiters
ImplementsLine == Line!Spec

\* "max_concurrency caps in-flight requests per server" and "shrinking absorbs
\* over-allocation in flight" (specs/functional.specs.md:384, sem.go:60): no
\* request is admitted beyond the cap in force.
AdmitsWithinCap ==
    [][ capacity' = capacity /\ capacity > 0 /\ ~(Holders' \subseteq Holders)
          => Cardinality(Holders') <= capacity ]_vars
=============================================================================
