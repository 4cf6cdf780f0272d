------------------------------- MODULE TsRing -------------------------------
(***************************************************************************)
(* The ring of timestamp events that a subscription shares with its user:  *)
(* AvbPostTimestampEvent stores events under subscription_lock, the user   *)
(* takes them without any lock, and they meet in two indices only.         *)
(*                                                                         *)
(* Abstracted: an event is its sequence number; the barriers are the order *)
(* of the steps.  The user's side is modelled from the protocol in         *)
(* avb_ioctl.h, with its consumer_index++ taken to wrap as the producer's  *)
(* index does.                                                             *)
(***************************************************************************)
EXTENDS Naturals

CONSTANTS
  N,          \* ring_count, a power of two: & mask is % N
  MaxEvents   \* bound on the events posted

ASSUME SizeAssumption == N \in Nat \ {0}
ASSUME BoundAssumption == MaxEvents \in Nat

Index == 0..N-1

VARIABLES
  producerIndex, consumerIndex, overflowCount,   \* of the shared header
  events,        \* the slots, 0 where nothing was stored yet
  sequenceNum,   \* of the subscription, in the driver
  producer,      \* where AvbPostTimestampEvent is in this ring
  localProd, localCons,
  consumer,      \* where the user is
  userCons,      \* the user's local_cons
  event,         \* the user's copy of an event
  received,      \* history: the event the user took last
  taken          \* history: how many it took

header       == <<producerIndex, consumerIndex, overflowCount>>
producerVars == <<sequenceNum, producer, localProd, localCons>>
consumerVars == <<consumer, userCons, event, received, taken>>
vars == <<producerIndex, consumerIndex, overflowCount, events,
          sequenceNum, producer, localProd, localCons,
          consumer, userCons, event, received, taken>>

Init ==
  /\ producerIndex = 0 /\ consumerIndex = 0 /\ overflowCount = 0
  /\ events = [i \in Index |-> 0]
  /\ sequenceNum = 0 /\ producer = "idle" /\ localProd = 0 /\ localCons = 0
  /\ consumer = "idle" /\ userCons = 0 /\ event = 0 /\ received = 0 /\ taken = 0

-----------------------------------------------------------------------------
(* The producer.                                                           *)

PostBegin ==
  /\ producer = "idle" /\ sequenceNum + overflowCount < MaxEvents
  /\ localProd' = producerIndex
  /\ producer' = "readCons"
  /\ UNCHANGED <<header, events, sequenceNum, localCons, consumerVars>>

(* Mutant: the index runs on, as producer_index++ in avb_ioctl.h reads.    *)
NextProdRunsOn == localProd + 1

NextProd == (localProd + 1) % N

(* Mutant: a full ring overwrites its oldest event.                        *)
PostReadConsOverwrites ==
  /\ producer = "readCons"
  /\ localCons' = consumerIndex
  /\ producer' = "store"
  /\ UNCHANGED <<header, events, sequenceNum, localProd, consumerVars>>

PostReadCons ==
  /\ producer = "readCons"
  /\ localCons' = consumerIndex
  /\ producer' = IF NextProd = consumerIndex THEN "drop" ELSE "store"
  /\ UNCHANGED <<header, events, sequenceNum, localProd, consumerVars>>

(* Mutant: the event is dropped without a trace.                           *)
PostDropUncounted ==
  /\ producer = "drop"
  /\ producer' = "idle"
  /\ UNCHANGED <<header, events, sequenceNum, localProd, localCons, consumerVars>>

PostDrop ==
  /\ producer = "drop"
  /\ overflowCount' = overflowCount + 1
  /\ producer' = "idle"
  /\ UNCHANGED <<producerIndex, consumerIndex, events, sequenceNum, localProd, localCons,
                 consumerVars>>

PostStore ==
  /\ producer = "store"
  /\ sequenceNum' = sequenceNum + 1
  /\ events' = [events EXCEPT ![localProd % N] = sequenceNum + 1]
  /\ producer' = "publish"
  /\ UNCHANGED <<header, localProd, localCons, consumerVars>>

PostPublish ==
  /\ producer = "publish"
  /\ producerIndex' = NextProd
  /\ producer' = "idle"
  /\ UNCHANGED <<consumerIndex, overflowCount, events, sequenceNum, localProd, localCons,
                 consumerVars>>

-----------------------------------------------------------------------------
(* The consumer.                                                           *)

TakeBegin ==
  /\ consumer = "idle" /\ taken < MaxEvents
  /\ userCons' = consumerIndex
  /\ consumer' = "readProd"
  /\ UNCHANGED <<header, events, producerVars, event, received, taken>>

TakeReadProd ==
  /\ consumer = "readProd"
  /\ consumer' = IF userCons = producerIndex THEN "idle" ELSE "copy"
  /\ UNCHANGED <<header, events, producerVars, userCons, event, received, taken>>

TakeCopy ==
  /\ consumer = "copy"
  /\ event' = events[userCons % N]
  /\ consumer' = "publish"
  /\ UNCHANGED <<header, events, producerVars, userCons, received, taken>>

TakePublish ==
  /\ consumer = "publish"
  /\ consumerIndex' = (userCons + 1) % N
  /\ received' = event
  /\ taken' = taken + 1
  /\ consumer' = "idle"
  /\ UNCHANGED <<producerIndex, overflowCount, events, producerVars, userCons, event>>

-----------------------------------------------------------------------------

Post == PostBegin \/ PostReadCons \/ PostDrop \/ PostStore \/ PostPublish
TakeStep == TakeBegin \/ TakeReadProd \/ TakeCopy \/ TakePublish
Next == Post \/ TakeStep
Spec == Init /\ [][Next]_vars

-----------------------------------------------------------------------------
(* Properties.                                                             *)

(* Every variable has its type: both indices stay below ring_count.        *)
TypeOK ==
  /\ producerIndex \in Index /\ consumerIndex \in Index /\ overflowCount \in Nat
  /\ events \in [Index -> Nat]
  /\ sequenceNum \in Nat
  /\ producer \in {"idle", "readCons", "drop", "store", "publish"}
  /\ localProd \in Index /\ localCons \in Index
  /\ consumer \in {"idle", "readProd", "copy", "publish"}
  /\ userCons \in Index
  /\ event \in Nat /\ received \in Nat /\ taken \in Nat

(* The driver never writes the slot the user is copying: no event is torn, *)
(* whatever the user's pace (avb_integration_fixed.c 1022-1052).           *)
NoTornEvent ==
  producer = "store" /\ consumer = "copy" => localProd # userCons

(* The abstract queue: an event is stored when its index is published, and *)
(* dropped when the ring was found full.                                   *)
Stored  == IF producer = "publish" THEN sequenceNum - 1 ELSE sequenceNum
Dropped == IF producer = "drop" THEN overflowCount + 1 ELSE overflowCount

Queue == INSTANCE EventQueue
           WITH Capacity <- N - 1, stored <- Stored, dropped <- Dropped

(* The ring implements the queue: an event is taken in the order of the    *)
(* sequence numbers and once, the index it is published with never runs    *)
(* ahead of its contents, and one is dropped only when ring_count - 1 are  *)
(* waiting, and then counted (1022-1059, avb_ioctl.h 433-457).             *)
ImplementsQueue == Queue!QSpec
=============================================================================
