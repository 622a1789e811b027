-------------------------- MODULE ThreadSafeQueue --------------------------
(***************************************************************************)
(* primihub::ThreadSafeQueue (util/threadsafe_queue.h): a std::queue under *)
(* one mutex with one condition variable.  Every thread of the node talks  *)
(* to the others through an instance of it.                                *)
(*                                                                         *)
(* A producer's emplace() is a critical section followed, with the mutex   *)
(* released, by notify_one().  A consumer's wait_and_pop() (pop() has the  *)
(* same control) evaluates the predicate with the mutex held, blocks       *)
(* (releasing it), and reads stop_ once more before it pops.  shutdown()   *)
(* stores stop_ without the mutex and then calls notify_one().             *)
(*                                                                         *)
(* pushed and popped are history variables: everything emplaced, and       *)
(* everything handed to a consumer, in order.                              *)
(***************************************************************************)
EXTENDS Naturals, Sequences, FiniteSets

CONSTANTS Producers,   \* threads that push
          Consumers,   \* threads that call wait_and_pop, pop or try_pop
          Items,       \* the values pushed
          Free,        \* the value of m_mutex when no consumer holds it
          MaxPush      \* bound: how many items are ever pushed

ASSUME ThreadsAssumption ==
    /\ IsFiniteSet(Producers) /\ IsFiniteSet(Consumers)
    /\ Free \notin Consumers
    /\ MaxPush \in Nat

VARIABLES m_queue,     \* the std::queue
          m_mutex,     \* its holder, when that is a consumer in wait_and_pop
          stop_,
          prod,        \* program counter of every producer
          cons,        \* program counter of every consumer
          closer,      \* program counter of the thread that calls shutdown()
          pushed, popped

vars == <<m_queue, m_mutex, stop_, prod, cons, closer, pushed, popped>>

InSection == {"check", "block", "take", "pop"}

ConsumerPc == InSection \cup {"idle", "waiting", "woken"}

(* Consumers blocked in m_cv.wait; consumers that are inside a call and    *)
(* will look at the queue again before they can block; producers that have *)
(* pushed and still have to notify.                                        *)
Waiting   == {c \in Consumers : cons[c] = "waiting"}
Awake     == {c \in Consumers : cons[c] \in {"woken", "check", "take", "pop"}}
Notifying == {p \in Producers : prod[p] = "notify"}

Init == /\ m_queue = <<>> /\ m_mutex = Free /\ stop_ = FALSE
        /\ prod = [p \in Producers |-> "run"]
        /\ cons = [c \in Consumers |-> "idle"]
        /\ closer = "open"
        /\ pushed = <<>> /\ popped = <<>>

(* m_cv.notify_one(): one of the blocked consumers, if any, is released.   *)
notify_one == IF Waiting = {}
              THEN UNCHANGED cons
              ELSE \E c \in Waiting : cons' = [cons EXCEPT ![c] = "woken"]

(* Mutant of Emplace: the item was moved from before it is queued.         *)
EmplaceMovedFrom(p) == /\ prod[p] = "run" /\ m_mutex = Free
                       /\ Len(pushed) < MaxPush
                       /\ m_queue' = Append(m_queue, Free)
                       /\ pushed' = Append(pushed, Free)
                       /\ prod' = [prod EXCEPT ![p] = "notify"]
                       /\ UNCHANGED <<m_mutex, stop_, cons, closer, popped>>

(* emplace(), the part under the mutex.                                    *)
Emplace(p) == /\ prod[p] = "run" /\ m_mutex = Free
              /\ Len(pushed) < MaxPush
              /\ \E v \in Items : /\ m_queue' = Append(m_queue, v)
                                  /\ pushed' = Append(pushed, v)
              /\ prod' = [prod EXCEPT ![p] = "notify"]
              /\ UNCHANGED <<m_mutex, stop_, cons, closer, popped>>

(* Mutant of EmplaceNotify: notify only when the queue was empty.          *)
NotifyIfFirst(p) == /\ prod[p] = "notify"
                    /\ prod' = [prod EXCEPT ![p] = "run"]
                    /\ IF Len(m_queue) = 1 THEN notify_one ELSE UNCHANGED cons
                    /\ UNCHANGED <<m_queue, m_mutex, stop_, closer, pushed, popped>>

(* Mutant of EmplaceNotify: the notification is forgotten.                 *)
NotifyForgotten(p) == /\ prod[p] = "notify"
                      /\ prod' = [prod EXCEPT ![p] = "run"]
                      /\ UNCHANGED <<m_queue, m_mutex, stop_, cons, closer, pushed, popped>>

(* emplace(), after lock.unlock().                                         *)
EmplaceNotify(p) == /\ prod[p] = "notify"
                    /\ prod' = [prod EXCEPT ![p] = "run"]
                    /\ notify_one
                    /\ UNCHANGED <<m_queue, m_mutex, stop_, closer, pushed, popped>>

(* Mutants of TakeFront: the item is read and not popped; the newest item  *)
(* is taken.                                                               *)
ReadFront == /\ popped' = Append(popped, Head(m_queue))
             /\ UNCHANGED m_queue

TakeBack == /\ popped' = Append(popped, m_queue[Len(m_queue)])
            /\ m_queue' = SubSeq(m_queue, 1, Len(m_queue) - 1)

(* The item at the front of the queue goes to the consumer.                *)
TakeFront == /\ popped' = Append(popped, Head(m_queue))
             /\ m_queue' = Tail(m_queue)

(* try_pop() on a queue that is not empty; on an empty one it changes      *)
(* nothing.                                                                *)
TryPop(c) == /\ cons[c] = "idle" /\ m_mutex = Free
             /\ m_queue # <<>>
             /\ TakeFront
             /\ UNCHANGED <<m_mutex, stop_, prod, cons, closer, pushed>>

(* Mutant of Lock: a consumer that was woken does not look again.          *)
LockTrustsWakeup(c) ==
    /\ cons[c] \in {"idle", "woken"} /\ m_mutex = Free
    /\ m_mutex' = c
    /\ cons' = [cons EXCEPT ![c] = IF cons[c] = "woken" THEN "take" ELSE "check"]
    /\ UNCHANGED <<m_queue, stop_, prod, closer, pushed, popped>>

(* wait_and_pop() is entered, or wait() returns from a block: either way   *)
(* the consumer gets the mutex and is about to evaluate the predicate.     *)
Lock(c) == /\ cons[c] \in {"idle", "woken"} /\ m_mutex = Free
           /\ m_mutex' = c
           /\ cons' = [cons EXCEPT ![c] = "check"]
           /\ UNCHANGED <<m_queue, stop_, prod, closer, pushed, popped>>

(* stop_.load() || !m_queue.empty()                                        *)
Predicate(c) ==
    /\ cons[c] = "check"
    /\ cons' = [cons EXCEPT ![c] =
                    IF stop_ \/ m_queue # <<>> THEN "take" ELSE "block"]
    /\ UNCHANGED <<m_queue, m_mutex, stop_, prod, closer, pushed, popped>>

(* The predicate was false: wait() releases the mutex and blocks, in one   *)
(* step, and no earlier notification counts.                               *)
Block(c) == /\ cons[c] = "block"
            /\ m_mutex' = Free
            /\ cons' = [cons EXCEPT ![c] = "waiting"]
            /\ UNCHANGED <<m_queue, stop_, prod, closer, pushed, popped>>

(* A condition variable may release a waiter that nobody notified.         *)
SpuriousWakeup(c) ==
    /\ cons[c] = "waiting"
    /\ cons' = [cons EXCEPT ![c] = "woken"]
    /\ UNCHANGED <<m_queue, m_mutex, stop_, prod, closer, pushed, popped>>

(* if (stop_.load()) return; the caller's value is left as it was.         *)
TestStop(c) ==
    /\ cons[c] = "take"
    /\ IF stop_
       THEN /\ m_mutex' = Free
            /\ cons' = [cons EXCEPT ![c] = "idle"]
       ELSE /\ UNCHANGED m_mutex
            /\ cons' = [cons EXCEPT ![c] = "pop"]
    /\ UNCHANGED <<m_queue, stop_, prod, closer, pushed, popped>>

Pop(c) == /\ cons[c] = "pop"
          /\ TakeFront
          /\ m_mutex' = Free
          /\ cons' = [cons EXCEPT ![c] = "idle"]
          /\ UNCHANGED <<stop_, prod, closer, pushed>>

(* shutdown(): the store and the notification are two steps, neither of    *)
(* them under the mutex.                                                   *)
StoreStop == /\ closer = "open"
             /\ stop_' = TRUE
             /\ closer' = "notify"
             /\ UNCHANGED <<m_queue, m_mutex, prod, cons, pushed, popped>>

StopNotify == /\ closer = "notify"
              /\ closer' = "closed"
              /\ notify_one
              /\ UNCHANGED <<m_queue, m_mutex, stop_, prod, pushed, popped>>

Call(c) == Lock(c) \/ Predicate(c) \/ Block(c) \/ TestStop(c) \/ Pop(c)

Next == \/ \E p \in Producers : Emplace(p) \/ EmplaceNotify(p)
        \/ \E c \in Consumers : Call(c) \/ TryPop(c) \/ SpuriousWakeup(c)
        \/ StoreStop \/ StopNotify

Spec == Init /\ [][Next]_vars

(* A thread that can run does run, and a mutex that keeps being released   *)
(* is granted in the end.  Nobody is obliged to push, to call try_pop or   *)
(* to call shutdown, and spurious wakeups cannot be relied upon.           *)
Fairness == /\ \A p \in Producers : WF_vars(EmplaceNotify(p))
            /\ \A c \in Consumers : /\ SF_vars(Lock(c))
                                    /\ WF_vars(Predicate(c) \/ Block(c)
                                               \/ TestStop(c) \/ Pop(c))
            /\ WF_vars(StopNotify)

FairSpec == Spec /\ Fairness

-----------------------------------------------------------------------------
(* Type invariant: the shape of the queue's state.                         *)
TypeOK == /\ m_queue \in Seq(Items)
          /\ m_mutex \in Consumers \cup {Free}
          /\ stop_ \in BOOLEAN
          /\ prod \in [Producers -> {"run", "notify"}]
          /\ cons \in [Consumers -> ConsumerPc]
          /\ closer \in {"open", "notify", "closed"}
          /\ pushed \in Seq(Items) /\ popped \in Seq(Items)

(* The mutex does its work across the wait: the consumer between the       *)
(* evaluation of its predicate and its pop is the only one there, and when *)
(* it reaches m_queue.front() the queue is not empty, so front() is        *)
(* defined although the predicate was evaluated several steps earlier.     *)
FrontDefined ==
    /\ \A c \in Consumers : cons[c] \in InSection <=> m_mutex = c
    /\ \A c \in Consumers : cons[c] = "pop" => m_queue # <<>>

(* No item is lost, duplicated or reordered by any interleaving of pushes, *)
(* pops, wakeups and the shutdown: what is in the queue is exactly what    *)
(* was pushed and not yet popped, in push order.                           *)
NothingLost == popped \o m_queue = pushed

(* No wakeup is lost: although emplace() notifies after it has released    *)
(* the mutex and wakes a single thread, a consumer is never left blocked   *)
(* beside an item that nobody is on the way to take.                       *)
NoLostWakeup ==
    ~stop_ /\ Waiting # {} =>
        Len(m_queue) <= Cardinality(Notifying) + Cardinality(Awake)

(* With consumers that keep calling wait_and_pop, as the node's threads    *)
(* do, every item pushed is handed out in the end, unless the queue is     *)
(* shut down.                                                              *)
Drained == \A n \in 1..MaxPush :
              Len(pushed) >= n ~> (Len(popped) >= n \/ stop_)

(* The queue implements the first-in first-out channel of FifoQueue.       *)
Fifo == INSTANCE FifoQueue WITH sent <- pushed, got <- popped

ImplementsFifo == Fifo!FifoSpec
=============================================================================
