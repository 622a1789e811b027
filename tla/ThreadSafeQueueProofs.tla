----------------------- MODULE ThreadSafeQueueProofs -----------------------
(***************************************************************************)
(* Proofs about ThreadSafeQueue, for every set of producers and consumers. *)
(***************************************************************************)
EXTENDS ThreadSafeQueue, SequenceTheorems, FiniteSetTheorems, TLAPS

(* What a consumer learnt from its predicate stays true while it holds the *)
(* mutex.                                                                  *)
PredicateStable ==
    \A c \in Consumers : /\ cons[c] = "take" => stop_ \/ m_queue # <<>>
                         /\ cons[c] = "block" => m_queue = <<>>

(* The inductive core: the mutex protects what the predicate established.  *)
SectionInv == TypeOK /\ FrontDefined /\ PredicateStable

-----------------------------------------------------------------------------
(* Type correctness.  Popping the front needs a non-empty queue, so the    *)
(* type invariant is proved together with the protection of the section.   *)
LEMMA SectionInvHolds == Spec => []SectionInv
<1>1. Init => SectionInv
  BY ThreadsAssumption, EmptySeq
     DEF Init, SectionInv, TypeOK, FrontDefined, PredicateStable, InSection,
         ConsumerPc
<1>2. SectionInv /\ [Next]_vars => SectionInv'
  <2> SUFFICES ASSUME SectionInv, [Next]_vars PROVE SectionInv'
    OBVIOUS
  <2> USE ThreadsAssumption
      DEF SectionInv, TypeOK, FrontDefined, PredicateStable, InSection,
          ConsumerPc
  <2>1. ASSUME NEW p \in Producers, Emplace(p) PROVE SectionInv'
    <3> PICK v \in Items : /\ m_queue' = Append(m_queue, v)
                           /\ pushed' = Append(pushed, v)
      BY <2>1 DEF Emplace
    <3>1. TypeOK'
      BY <2>1, AppendProperties DEF Emplace
    <3>2. FrontDefined' /\ PredicateStable'
      BY <2>1 DEF Emplace
    <3> QED BY <3>1, <3>2
  <2>2. ASSUME NEW p \in Producers, EmplaceNotify(p) PROVE SectionInv'
    BY <2>2 DEF EmplaceNotify, notify_one, Waiting
  <2>3. ASSUME NEW c \in Consumers, Lock(c) PROVE SectionInv'
    BY <2>3 DEF Lock
  <2>4. ASSUME NEW c \in Consumers, Predicate(c) PROVE SectionInv'
    BY <2>4 DEF Predicate
  <2>5. ASSUME NEW c \in Consumers, Block(c) PROVE SectionInv'
    BY <2>5 DEF Block
  <2>6. ASSUME NEW c \in Consumers, TestStop(c) PROVE SectionInv'
    BY <2>6 DEF TestStop
  <2>7. ASSUME NEW c \in Consumers, Pop(c) PROVE SectionInv'
    <3>1. m_queue # <<>>
      BY <2>7 DEF Pop
    <3>2. TypeOK'
      BY <2>7, <3>1, HeadTailProperties, AppendProperties DEF Pop, TakeFront
    <3>3. FrontDefined' /\ PredicateStable'
      BY <2>7 DEF Pop
    <3> QED BY <3>2, <3>3
  <2>8. ASSUME NEW c \in Consumers, TryPop(c) PROVE SectionInv'
    <3>2. TypeOK'
      BY <2>8, HeadTailProperties, AppendProperties DEF TryPop, TakeFront
    <3>3. FrontDefined' /\ PredicateStable'
      BY <2>8 DEF TryPop
    <3> QED BY <3>2, <3>3
  <2>9. ASSUME NEW c \in Consumers, SpuriousWakeup(c) PROVE SectionInv'
    BY <2>9 DEF SpuriousWakeup
  <2>10. CASE StoreStop
    BY <2>10 DEF StoreStop
  <2>11. CASE StopNotify
    BY <2>11 DEF StopNotify, notify_one, Waiting
  <2>12. CASE UNCHANGED vars
    BY <2>12 DEF vars
  <2> QED
    BY <2>1, <2>2, <2>3, <2>4, <2>5, <2>6, <2>7, <2>8, <2>9, <2>10, <2>11,
       <2>12 DEF Next, Call
<1> QED BY <1>1, <1>2, PTL DEF Spec

(* Type correctness of the queue (threadsafe_queue.h).                     *)
THEOREM TypeCorrect == Spec => []TypeOK
<1>1. SectionInv => TypeOK
  BY DEF SectionInv
<1> QED BY <1>1, SectionInvHolds, PTL

(* Whenever a consumer reaches m_queue.front(), it is alone in the section *)
(* and the queue is not empty, whatever the other threads did between its  *)
(* predicate and its pop.                                                  *)
THEOREM FrontIsDefined == Spec => []FrontDefined
<1>1. SectionInv => FrontDefined
  BY DEF SectionInv
<1> QED BY <1>1, SectionInvHolds, PTL

-----------------------------------------------------------------------------
(* Two facts about sequences: pushing extends the concatenation at its end,  *)
(* and moving the front of the second part to the first leaves it alone.     *)
LEMMA ConcatAppend ==
  ASSUME NEW S, NEW s \in Seq(S), NEW t \in Seq(S), NEW v \in S
  PROVE  s \o Append(t, v) = Append(s \o t, v)
<1>1. <<v>> \in Seq(S)
  OBVIOUS
<1>2. s \o Append(t, v) = s \o (t \o <<v>>)
  BY AppendIsConcat
<1>3. s \o (t \o <<v>>) = (s \o t) \o <<v>>
  BY <1>1, ConcatAssociative
<1>4. s \o t \in Seq(S)
  BY ConcatProperties
<1> QED BY <1>2, <1>3, <1>4, AppendIsConcat

LEMMA ConcatMoveFront ==
  ASSUME NEW S, NEW s \in Seq(S), NEW t \in Seq(S), t # <<>>
  PROVE  Append(s, Head(t)) \o Tail(t) = s \o t
<1>1. Head(t) \in S /\ Tail(t) \in Seq(S) /\ <<Head(t)>> \in Seq(S)
  BY HeadTailProperties
<1>2. Append(s, Head(t)) \o Tail(t) = (s \o <<Head(t)>>) \o Tail(t)
  BY <1>1, AppendIsConcat
<1>3. (s \o <<Head(t)>>) \o Tail(t) = s \o (<<Head(t)>> \o Tail(t))
  BY <1>1, ConcatAssociative
<1>4. <<Head(t)>> \o Tail(t) = t
  <2>1. /\ <<Head(t)>> \o Tail(t) \in Seq(S)
        /\ Len(<<Head(t)>> \o Tail(t)) = Len(t)
        /\ \A i \in 1..Len(t) : (<<Head(t)>> \o Tail(t))[i] = t[i]
    BY <1>1, ConcatProperties, HeadTailProperties
  <2> QED BY <2>1, SeqEqual
<1> QED BY <1>2, <1>3, <1>4

(* No item is lost, duplicated or reordered, whatever the interleaving:    *)
(* emplace() appends under the mutex, and pops happen only where front()   *)
(* is defined.                                                             *)
THEOREM NothingIsLost == Spec => []NothingLost
<1>1. Init => NothingLost
  <2>1. <<>> \o <<>> = <<>>
    BY ConcatEmptySeq
  <2> QED BY <2>1 DEF Init, NothingLost
<1>2. SectionInv /\ NothingLost /\ [Next]_vars => NothingLost'
  <2> SUFFICES ASSUME SectionInv, NothingLost, [Next]_vars PROVE NothingLost'
    OBVIOUS
  <2>1. ASSUME NEW p \in Producers, Emplace(p) PROVE NothingLost'
    <3> PICK v \in Items : /\ m_queue' = Append(m_queue, v)
                           /\ pushed' = Append(pushed, v)
      BY <2>1 DEF Emplace
    <3>1. popped \in Seq(Items) /\ m_queue \in Seq(Items) /\ popped' = popped
      BY <2>1 DEF Emplace, SectionInv, TypeOK
    <3>2. popped \o Append(m_queue, v) = Append(popped \o m_queue, v)
      BY <3>1, ConcatAppend
    <3> QED BY <3>1, <3>2 DEF NothingLost
  <2>2. ASSUME m_queue # <<>>, TakeFront, UNCHANGED pushed
        PROVE  NothingLost'
    <3>1. popped' \o m_queue' = popped \o m_queue
      BY <2>2, ConcatMoveFront DEF TakeFront, SectionInv, TypeOK
    <3> QED BY <2>2, <3>1 DEF NothingLost
  <2>3. ASSUME NEW c \in Consumers, Pop(c) PROVE NothingLost'
    <3>1. m_queue # <<>>
      BY <2>3 DEF SectionInv, FrontDefined, Pop
    <3> QED BY <2>2, <2>3, <3>1 DEF Pop
  <2>4. ASSUME NEW c \in Consumers, TryPop(c) PROVE NothingLost'
    BY <2>2, <2>4 DEF TryPop
  <2>5. CASE UNCHANGED <<m_queue, pushed, popped>>
    BY <2>5 DEF NothingLost
  <2> QED
    BY <2>1, <2>3, <2>4, <2>5
       DEF Next, Call, vars, EmplaceNotify, Lock, Predicate, Block, TestStop,
           SpuriousWakeup, StoreStop, StopNotify
<1> QED BY <1>1, <1>2, SectionInvHolds, PTL DEF Spec

-----------------------------------------------------------------------------
(* Counting threads: the two sets of NoLostWakeup are finite.              *)
LEMMA FiniteThreads ==
  /\ IsFiniteSet(Notifying) /\ Cardinality(Notifying) \in Nat
  /\ IsFiniteSet(Awake) /\ Cardinality(Awake) \in Nat
<1>1. Notifying \in SUBSET Producers /\ Awake \in SUBSET Consumers
  BY DEF Notifying, Awake
<1> QED BY <1>1, ThreadsAssumption, FS_Subset, FS_CardinalityType

(* No more items are queued than there are threads on their way to them.   *)
Balance == Len(m_queue) <= Cardinality(Notifying) + Cardinality(Awake)

(* emplace() never strands an item beside a blocked consumer, although it  *)
(* notifies one thread only, after it has released the mutex.              *)
THEOREM WakeupsAreNotLost == Spec => []NoLostWakeup
<1> USE DEF NoLostWakeup, Balance
<1>1. Init => NoLostWakeup
  BY DEF Init, Waiting
<1>2. SectionInv /\ NoLostWakeup /\ [Next]_vars => NoLostWakeup'
  <2> SUFFICES ASSUME SectionInv, NoLostWakeup, [Next]_vars,
                      ~stop_', Waiting' # {}
               PROVE  Balance'
    OBVIOUS
  <2>type. TypeOK /\ Len(m_queue) \in Nat
    BY LenProperties DEF SectionInv, TypeOK
  <2>fin. /\ IsFiniteSet(Notifying) /\ Cardinality(Notifying) \in Nat
          /\ IsFiniteSet(Awake) /\ Cardinality(Awake) \in Nat
    BY FiniteThreads
  <2>1. ASSUME NEW p \in Producers, Emplace(p) PROVE Balance'
    <3>1. Len(m_queue') = Len(m_queue) + 1
      BY <2>1, <2>type, AppendProperties DEF Emplace, TypeOK
    <3>2. p \notin Notifying /\ Notifying' = Notifying \cup {p}
      BY <2>1, <2>type DEF Emplace, Notifying, TypeOK
    <3>3. Cardinality(Notifying') = Cardinality(Notifying) + 1
      BY <3>2, <2>fin, FS_AddElement
    <3>4. Awake' = Awake /\ Waiting' = Waiting /\ stop_' = stop_
      BY <2>1 DEF Emplace, Awake, Waiting
    <3> QED BY <3>1, <3>3, <3>4, <2>type, <2>fin
  <2>2. ASSUME NEW p \in Producers, EmplaceNotify(p) PROVE Balance'
    <3>1. p \in Notifying /\ Notifying' = Notifying \ {p}
      BY <2>2, <2>type DEF EmplaceNotify, Notifying, TypeOK
    <3>2. Cardinality(Notifying') = Cardinality(Notifying) - 1
      BY <3>1, <2>fin, FS_RemoveElement
    <3>3. Waiting # {}
      BY <2>2 DEF EmplaceNotify, notify_one, Waiting
    <3>4. PICK c \in Waiting : cons' = [cons EXCEPT ![c] = "woken"]
      BY <2>2, <3>3 DEF EmplaceNotify, notify_one
    <3>5. c \notin Awake /\ Awake' = Awake \cup {c}
      BY <3>4, <2>type DEF Awake, Waiting, TypeOK
    <3>6. Cardinality(Awake') = Cardinality(Awake) + 1
      BY <3>5, <2>fin, FS_AddElement
    <3>7. m_queue' = m_queue /\ stop_' = stop_
      BY <2>2 DEF EmplaceNotify
    <3> QED BY <3>2, <3>3, <3>6, <3>7, <2>type, <2>fin
  <2>3. ASSUME NEW c \in Consumers, Lock(c) PROVE Balance'
    <3>1. /\ Awake' = Awake \cup {c} /\ Waiting' = Waiting
          /\ Notifying' = Notifying /\ m_queue' = m_queue /\ stop_' = stop_
      BY <2>3, <2>type DEF Lock, Awake, Waiting, Notifying, TypeOK
    <3>2. Cardinality(Awake') = IF c \in Awake THEN Cardinality(Awake)
                                ELSE Cardinality(Awake) + 1
      BY <3>1, <2>fin, FS_AddElement
    <3> QED BY <3>1, <3>2, <2>type, <2>fin
  <2>4. ASSUME NEW c \in Consumers, Predicate(c) PROVE Balance'
    <3>1. /\ Waiting' = Waiting /\ Notifying' = Notifying
          /\ m_queue' = m_queue /\ stop_' = stop_
      BY <2>4, <2>type DEF Predicate, Waiting, Notifying, TypeOK
    <3>2. CASE m_queue # <<>>
      <4>1. Awake' = Awake
        BY <2>4, <2>type, <3>2 DEF Predicate, Awake, TypeOK
      <4> QED BY <3>1, <4>1
    <3>3. CASE m_queue = <<>>
      <4>1. Cardinality(Awake') \in Nat
        <5>1. Awake' \in SUBSET Consumers
          BY DEF Awake
        <5> QED BY <5>1, ThreadsAssumption, FS_Subset, FS_CardinalityType
      <4>2. Len(m_queue') = 0
        BY <3>1, <3>3
      <4> QED BY <3>1, <4>1, <4>2, <2>fin
    <3> QED BY <3>2, <3>3
  <2>5. ASSUME NEW c \in Consumers, Block(c) PROVE Balance'
    <3>1. Len(m_queue') = 0
      BY <2>5 DEF Block, SectionInv, PredicateStable
    <3>2. Notifying' = Notifying /\ Awake' = Awake
      BY <2>5, <2>type DEF Block, Notifying, Awake, TypeOK
    <3> QED BY <3>1, <3>2, <2>fin
  <2>6. ASSUME NEW c \in Consumers, TestStop(c) PROVE Balance'
    <3>1. /\ Waiting' = Waiting /\ Notifying' = Notifying /\ Awake' = Awake
          /\ m_queue' = m_queue /\ stop_' = stop_
      BY <2>6, <2>type DEF TestStop, Waiting, Notifying, Awake, TypeOK
    <3> QED BY <3>1
  <2>7. ASSUME NEW c \in Consumers, Pop(c) PROVE Balance'
    <3>1. m_queue # <<>>
      BY <2>7 DEF SectionInv, FrontDefined, Pop
    <3>2. Len(m_queue') = Len(m_queue) - 1
      BY <2>7, <3>1, <2>type, HeadTailProperties DEF Pop, TakeFront, TypeOK
    <3>3. /\ c \in Awake /\ Awake' = Awake \ {c} /\ Waiting' = Waiting
          /\ Notifying' = Notifying /\ stop_' = stop_
      BY <2>7, <2>type DEF Pop, Awake, Waiting, Notifying, TypeOK
    <3>4. Cardinality(Awake') = Cardinality(Awake) - 1
      BY <3>3, <2>fin, FS_RemoveElement
    <3> QED BY <3>2, <3>3, <3>4, <2>type, <2>fin
  <2>8. ASSUME NEW c \in Consumers, TryPop(c) PROVE Balance'
    <3>1. Len(m_queue') = Len(m_queue) - 1
      BY <2>8, <2>type, HeadTailProperties DEF TryPop, TakeFront, TypeOK
    <3>2. /\ Awake' = Awake /\ Waiting' = Waiting
          /\ Notifying' = Notifying /\ stop_' = stop_
      BY <2>8 DEF TryPop, Awake, Waiting, Notifying
    <3> QED BY <3>1, <3>2, <2>type, <2>fin
  <2>9. ASSUME NEW c \in Consumers, SpuriousWakeup(c) PROVE Balance'
    <3>1. /\ c \in Waiting /\ c \notin Awake /\ Awake' = Awake \cup {c}
          /\ Notifying' = Notifying /\ m_queue' = m_queue /\ stop_' = stop_
      BY <2>9, <2>type DEF SpuriousWakeup, Awake, Waiting, Notifying, TypeOK
    <3>2. Cardinality(Awake') = Cardinality(Awake) + 1
      BY <3>1, <2>fin, FS_AddElement
    <3> QED BY <3>1, <3>2, <2>type, <2>fin
  <2>10. CASE StoreStop
    BY <2>10 DEF StoreStop
  <2>11. CASE StopNotify
    <3>1. /\ Notifying' = Notifying /\ m_queue' = m_queue /\ stop_' = stop_
      BY <2>11 DEF StopNotify, Notifying
    <3>2. Waiting # {}
      BY <2>11 DEF StopNotify, notify_one, Waiting
    <3>3. PICK c \in Waiting : cons' = [cons EXCEPT ![c] = "woken"]
      BY <2>11, <3>2 DEF StopNotify, notify_one
    <3>4. c \notin Awake /\ Awake' = Awake \cup {c}
      BY <3>3, <2>type DEF Awake, Waiting, TypeOK
    <3>5. Cardinality(Awake') = Cardinality(Awake) + 1
      BY <3>4, <2>fin, FS_AddElement
    <3> QED BY <3>1, <3>2, <3>5, <2>type, <2>fin
  <2>12. CASE UNCHANGED vars
    BY <2>12 DEF vars, Waiting, Awake, Notifying
  <2> QED
    BY <2>1, <2>2, <2>3, <2>4, <2>5, <2>6, <2>7, <2>8, <2>9, <2>10, <2>11,
       <2>12 DEF Next, Call
<1> QED BY <1>1, <1>2, SectionInvHolds, PTL DEF Spec

-----------------------------------------------------------------------------
(* The queue implements the first-in first-out channel: seen through the   *)
(* two histories, every step of every thread is a put, a get or nothing.   *)
THEOREM QueueImplementsFifo == Spec => ImplementsFifo
<1>1. Init => Fifo!FifoInit
  BY DEF Init, Fifo!FifoInit
<1>2. SectionInv /\ NothingLost /\ [Next]_vars => [Fifo!FifoNext]_(Fifo!fifoVars)
  <2> SUFFICES ASSUME SectionInv, NothingLost, [Next]_vars
               PROVE  [Fifo!FifoNext]_(Fifo!fifoVars)
    OBVIOUS
  <2> USE DEF Fifo!FifoNext, Fifo!fifoVars, Fifo!Put, Fifo!Get
  <2>1. ASSUME NEW p \in Producers, Emplace(p) PROVE Fifo!Put
    BY <2>1 DEF Emplace
  <2>2. ASSUME m_queue # <<>>, TakeFront, UNCHANGED pushed PROVE Fifo!Get
    <3>1. m_queue \in Seq(Items) /\ popped \in Seq(Items)
      BY DEF SectionInv, TypeOK
    <3>2. Len(m_queue) \in Nat \ {0} /\ Len(popped) \in Nat
      BY <2>2, <3>1, EmptySeq, LenProperties
    <3>3. /\ Len(popped \o m_queue) = Len(popped) + Len(m_queue)
          /\ (popped \o m_queue)[Len(popped) + 1] = m_queue[1]
      BY <3>1, <3>2, ConcatProperties
    <3>4. Len(popped) < Len(pushed) /\ pushed[Len(popped) + 1] = Head(m_queue)
      BY <3>1, <3>2, <3>3 DEF NothingLost
    <3> QED BY <2>2, <3>4 DEF TakeFront
  <2>3. ASSUME NEW c \in Consumers, Pop(c) PROVE Fifo!Get
    <3>1. m_queue # <<>>
      BY <2>3 DEF SectionInv, FrontDefined, Pop
    <3> QED BY <2>2, <2>3, <3>1 DEF Pop
  <2>4. ASSUME NEW c \in Consumers, TryPop(c) PROVE Fifo!Get
    BY <2>2, <2>4 DEF TryPop
  <2>5. CASE UNCHANGED <<m_queue, pushed, popped>>
    BY <2>5
  <2> QED
    BY <2>1, <2>3, <2>4, <2>5
       DEF Next, Call, vars, EmplaceNotify, Lock, Predicate, Block, TestStop,
           SpuriousWakeup, StoreStop, StopNotify
<1> QED
  BY <1>1, <1>2, SectionInvHolds, NothingIsLost, PTL
     DEF Spec, ImplementsFifo, Fifo!FifoSpec
=============================================================================
