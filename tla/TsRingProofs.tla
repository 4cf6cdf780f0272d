---------------------------- MODULE TsRingProofs ----------------------------
(***************************************************************************)
(* The ring implements the queue, for a ring of any size.                  *)
(***************************************************************************)
EXTENDS TsRing, Integers, TLAPS

(* The mask keeps an index, and takes the one behind the last slot to 0.   *)
LEMMA Mask ==
  ASSUME NEW n \in Nat \ {0}, NEW i \in 0..n-1
  PROVE  /\ i % n = i
         /\ (i + 1) % n = IF i + 1 = n THEN 0 ELSE i + 1
<1>1. i % n = i
  BY SMT
<1>2. n % n = 0
  BY SMT
<1>3. ASSUME i + 1 # n PROVE (i + 1) % n = i + 1
  BY <1>3, SMT
<1>4. QED
  BY <1>1, <1>2, <1>3

(* How many slots lie between two indices, and the slot k steps on.        *)
Distance(from, to) == IF from <= to THEN to - from ELSE to - from + N
Slot(from, k) == IF from + k < N THEN from + k ELSE from + k - N

(* The slots from consumer_index to producer_index hold the events not     *)
(* taken yet, in order ...                                                 *)
Waiting == Stored - taken

IndicesOK ==
  /\ taken <= Stored
  /\ Waiting <= N - 1
  /\ Waiting = Distance(consumerIndex, producerIndex)

ContentsOK ==
  \A k \in 0..N-1 : k < sequenceNum - taken => events[Slot(consumerIndex, k)] = taken + k + 1

(* ... the producer's copy of its index is current, and it found room ...  *)
ProducerOK ==
  /\ producer # "idle" => localProd = producerIndex
  /\ producer = "publish" => sequenceNum > 0
  /\ producer \in {"store", "publish"} => Waiting < N - 1

(* ... and so is the user's, who found an event.                           *)
ConsumerOK ==
  /\ consumer # "idle" => userCons = consumerIndex
  /\ consumer \in {"copy", "publish"} => Waiting > 0
  /\ consumer = "publish" => event = taken + 1
  /\ received = taken

IInv ==
  /\ TypeOK
  /\ IndicesOK
  /\ ContentsOK
  /\ ProducerOK
  /\ ConsumerOK

-----------------------------------------------------------------------------

USE SizeAssumption DEF Index

LEMMA InitIInv == Init => IInv
  BY DEF Init, IInv, TypeOK, IndicesOK, ContentsOK, ProducerOK, ConsumerOK, Waiting, Stored,
         Distance

(* Steps that move no index and no event.                                  *)
LEMMA ReadStep ==
  ASSUME IInv, PostBegin \/ PostReadCons \/ PostDrop \/ TakeBegin \/ TakeReadProd \/ TakeCopy
  PROVE  IInv'
<1> USE DEF header, producerVars, consumerVars, NextProd
<1>1. localProd \in Index /\ userCons \in Index
  BY DEF IInv, TypeOK
<1>2. userCons % N = userCons /\ NextProd = IF localProd + 1 = N THEN 0 ELSE localProd + 1
  BY <1>1, Mask
<1>3. CASE PostBegin
  BY <1>3 DEF PostBegin, IInv, TypeOK, IndicesOK, ContentsOK, ProducerOK, ConsumerOK, Waiting,
     Stored, Distance, Slot
<1>4. CASE PostReadCons
  BY <1>2, <1>4 DEF PostReadCons, IInv, TypeOK, IndicesOK, ContentsOK, ProducerOK, ConsumerOK,
     Waiting, Stored, Distance, Slot
<1>5. CASE PostDrop
  BY <1>5 DEF PostDrop, IInv, TypeOK, IndicesOK, ContentsOK, ProducerOK, ConsumerOK, Waiting,
     Stored, Distance, Slot
<1>6. CASE TakeBegin
  BY <1>6 DEF TakeBegin, IInv, TypeOK, IndicesOK, ContentsOK, ProducerOK, ConsumerOK, Waiting,
     Stored, Distance, Slot
<1>7. CASE TakeReadProd
  BY <1>7 DEF TakeReadProd, IInv, TypeOK, IndicesOK, ContentsOK, ProducerOK, ConsumerOK, Waiting,
     Stored, Distance, Slot
<1>8. CASE TakeCopy
  <2>1. events[Slot(consumerIndex, 0)] = taken + 1
    BY <1>8 DEF TakeCopy, IInv, TypeOK, ContentsOK, ConsumerOK, Waiting, Stored
  <2>2. event' = taken + 1
    BY <1>2, <1>8, <2>1 DEF TakeCopy, IInv, TypeOK, ConsumerOK, Slot
  <2>3. QED
    BY <1>8, <2>2 DEF TakeCopy, IInv, TypeOK, IndicesOK, ContentsOK, ProducerOK, ConsumerOK,
       Waiting, Stored, Distance, Slot
<1>9. QED
  BY <1>3, <1>4, <1>5, <1>6, <1>7, <1>8

(* The event goes to the first slot behind the waiting ones.               *)
LEMMA StoreStep ==
  ASSUME IInv, PostStore
  PROVE  IInv'
<1> USE DEF header, producerVars, consumerVars, PostStore
<1>1. localProd \in Index /\ localProd % N = localProd /\ localProd = producerIndex
  BY Mask DEF IInv, TypeOK, ProducerOK
<1>2. TypeOK'
  BY <1>1 DEF IInv, TypeOK
<1>3. IndicesOK' /\ ProducerOK' /\ ConsumerOK'
  BY DEF IInv, TypeOK, IndicesOK, ProducerOK, ConsumerOK, Waiting, Stored, Distance
<1>4. ContentsOK'
  <2> SUFFICES ASSUME NEW k \in 0..N-1, k < sequenceNum' - taken'
                 PROVE  events'[Slot(consumerIndex, k)] = taken + k + 1
    BY DEF ContentsOK, Slot
  <2>2. Slot(consumerIndex, k) \in Index
    BY DEF Slot, IInv, TypeOK
  <2>3. CASE k < sequenceNum - taken
    <3>1. Slot(consumerIndex, k) # producerIndex
      BY <2>3 DEF Slot, Distance, IInv, TypeOK, IndicesOK, ProducerOK, Waiting, Stored
    <3>2. QED
      BY <1>1, <2>2, <2>3, <3>1 DEF IInv, TypeOK, ContentsOK
  <2>4. CASE k = sequenceNum - taken
    <3>1. Slot(consumerIndex, k) = producerIndex
      BY <2>4 DEF Slot, Distance, IInv, TypeOK, IndicesOK, ProducerOK, Waiting, Stored
    <3>2. events'[producerIndex] = sequenceNum + 1
      BY <1>1 DEF IInv, TypeOK
    <3>3. sequenceNum + 1 = taken + k + 1
      BY <2>4 DEF IInv, TypeOK
    <3>4. QED
      BY <3>1, <3>2, <3>3
  <2>5. QED
    BY <2>3, <2>4 DEF IInv, TypeOK
<1>5. QED
  BY <1>2, <1>3, <1>4 DEF IInv

(* Publishing an index: the slots between the two grow or shrink by one.   *)
LEMMA PublishStep ==
  ASSUME IInv, PostPublish \/ TakePublish
  PROVE  IInv'
<1> USE DEF header, producerVars, consumerVars, NextProd
<1>1. /\ localProd \in Index /\ userCons \in Index
      /\ NextProd = IF localProd + 1 = N THEN 0 ELSE localProd + 1
      /\ (userCons + 1) % N = IF userCons + 1 = N THEN 0 ELSE userCons + 1
  BY Mask DEF IInv, TypeOK
<1>2. CASE PostPublish
  <2>1. TypeOK' /\ ContentsOK'
    BY <1>1, <1>2 DEF PostPublish, IInv, TypeOK, ContentsOK, Slot
  <2>2. Stored' = Stored + 1 /\ Stored \in Nat /\ Waiting' = Waiting + 1
    BY <1>2 DEF PostPublish, IInv, TypeOK, ProducerOK, Waiting, Stored
  <2>3. IndicesOK'
    <3>1. /\ producerIndex' = (IF producerIndex + 1 = N THEN 0 ELSE producerIndex + 1)
          /\ consumerIndex' = consumerIndex /\ taken' = taken
      BY <1>1, <1>2 DEF PostPublish, IInv, ProducerOK
    <3>2. Distance(consumerIndex, producerIndex) < N - 1
      BY <1>2 DEF PostPublish, IInv, IndicesOK, ProducerOK
    <3>3. Distance(consumerIndex', producerIndex') = Distance(consumerIndex, producerIndex) + 1
      BY <3>1, <3>2 DEF IInv, TypeOK, Distance
    <3>4. Waiting < N - 1 /\ Waiting \in Int
      BY <1>2, <2>2 DEF PostPublish, IInv, TypeOK, ProducerOK, Waiting
    <3>5. QED
      BY <2>2, <3>1, <3>3, <3>4 DEF IInv, TypeOK, IndicesOK
  <2>4. ProducerOK' /\ ConsumerOK'
    BY <1>2, <2>2 DEF PostPublish, IInv, TypeOK, IndicesOK, ProducerOK, ConsumerOK, Waiting
  <2>5. QED
    BY <2>1, <2>3, <2>4 DEF IInv
<1>3. CASE TakePublish
  <2>1. /\ consumerIndex' = (IF userCons + 1 = N THEN 0 ELSE userCons + 1)
        /\ userCons = consumerIndex /\ taken' = taken + 1 /\ UNCHANGED <<Stored, producerIndex>>
    BY <1>1, <1>3 DEF TakePublish, IInv, ConsumerOK, Stored
  <2>2. TypeOK'
    BY <1>1, <1>3 DEF TakePublish, IInv, TypeOK
  <2>3. Stored \in Int /\ Waiting' = Waiting - 1 /\ Waiting > 0
    BY <1>3, <2>1 DEF TakePublish, IInv, TypeOK, ConsumerOK, Waiting, Stored
  <2>4. IndicesOK'
    BY <2>1, <2>2, <2>3 DEF IInv, TypeOK, IndicesOK, Waiting, Distance
  <2>5. ProducerOK' /\ ConsumerOK'
    BY <1>3, <2>3 DEF TakePublish, IInv, TypeOK, IndicesOK, ProducerOK, ConsumerOK, Waiting
  <2>6. ContentsOK'
    <3> SUFFICES ASSUME NEW k \in 0..N-1, k < sequenceNum' - taken'
                   PROVE  events'[Slot(consumerIndex', k)] = taken' + k + 1
      BY DEF ContentsOK, Slot
    <3>1. sequenceNum' = sequenceNum /\ events' = events
      BY <1>3 DEF TakePublish
    <3>2. k + 1 \in 0..N-1 /\ k + 1 < sequenceNum - taken
      BY <2>1, <3>1 DEF IInv, TypeOK, IndicesOK, ProducerOK, Waiting, Stored
    <3>3. Slot(consumerIndex', k) = Slot(consumerIndex, k + 1)
      BY <2>1, <3>2 DEF IInv, TypeOK, Slot
    <3>4. events[Slot(consumerIndex, k + 1)] = taken + (k + 1) + 1
      BY <3>2 DEF IInv, ContentsOK
    <3>5. QED
      BY <2>1, <3>1, <3>3, <3>4 DEF IInv, TypeOK
  <2>7. QED
    BY <2>2, <2>4, <2>5, <2>6 DEF IInv
<1>4. QED
  BY <1>2, <1>3

LEMMA NextIInv == IInv /\ [Next]_vars => IInv'
<1>1. IInv /\ UNCHANGED vars => IInv'
  BY DEF vars, IInv, TypeOK, IndicesOK, ContentsOK, ProducerOK, ConsumerOK, Waiting, Stored,
         Distance, Slot
<1>2. QED
  BY <1>1, ReadStep, StoreStep, PublishStep DEF Next, Post, TakeStep

LEMMA Invariance == Spec => []IInv
<1>1. IInv /\ [Next]_vars => IInv'
  BY NextIInv
<1>2. QED
  BY InitIInv, <1>1, PTL DEF Spec

(* Types: both indices stay within the ring.                               *)
THEOREM TypeCorrect == Spec => []TypeOK
  BY Invariance, PTL DEF IInv

(* No event is written while it is copied.                                 *)
THEOREM TornSafety == Spec => []NoTornEvent
<1>1. IInv => NoTornEvent
  BY DEF NoTornEvent, IInv, TypeOK, IndicesOK, ProducerOK, ConsumerOK, Waiting, Stored, Distance
<1>2. QED
  BY <1>1, Invariance, PTL

(* Every step of the ring is a step of the queue or changes nothing there. *)
THEOREM Implementation == Spec => ImplementsQueue
<1> USE DEF header, producerVars, consumerVars, Queue!qvars, Stored, Dropped
<1>1. Init => Queue!QInit
  BY DEF Init, Queue!QInit
<1>2. IInv /\ [Next]_vars => [Queue!QNext]_<<Stored, taken, Dropped, received>>
  <2> SUFFICES ASSUME IInv, [Next]_vars
               PROVE  Queue!QNext \/ UNCHANGED <<Stored, taken, Dropped, received>>
    OBVIOUS
  <2>1. CASE PostReadCons
    <3>1. localProd \in Index /\ NextProd = IF localProd + 1 = N THEN 0 ELSE localProd + 1
      BY Mask DEF IInv, TypeOK, NextProd
    <3>2. NextProd = consumerIndex => Stored - taken = N - 1
      BY <2>1, <3>1 DEF PostReadCons, IInv, TypeOK, IndicesOK, ProducerOK, Waiting, Distance
    <3>3. QED
      BY <2>1, <3>2 DEF PostReadCons, Queue!QNext, Queue!Drop, IInv, TypeOK
  <2>2. CASE PostPublish
    BY <2>2 DEF PostPublish, Queue!QNext, Queue!Store, IInv, TypeOK, IndicesOK, ProducerOK, Waiting
  <2>3. CASE TakePublish
    BY <2>3 DEF TakePublish, Queue!QNext, Queue!Take, IInv, TypeOK, ConsumerOK, Waiting
  <2>4. CASE PostBegin \/ PostDrop \/ PostStore
    <3>1. CASE PostBegin
      BY <3>1 DEF PostBegin
    <3>2. CASE PostDrop
      BY <3>2 DEF PostDrop, IInv, TypeOK
    <3>3. CASE PostStore
      BY <3>3 DEF PostStore, IInv, TypeOK
    <3>4. QED
      BY <2>4, <3>1, <3>2, <3>3
  <2>5. CASE TakeBegin \/ TakeReadProd \/ TakeCopy
    BY <2>5 DEF TakeBegin, TakeReadProd, TakeCopy
  <2>6. CASE UNCHANGED vars
    BY <2>6 DEF vars
  <2>7. QED
    BY <2>1, <2>2, <2>3, <2>4, <2>5, <2>6 DEF Next, Post, TakeStep
<1>3. QED
  BY <1>1, <1>2, Invariance, PTL DEF Spec, ImplementsQueue, Queue!QSpec
=============================================================================
