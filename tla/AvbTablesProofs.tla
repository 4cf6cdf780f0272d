--------------------------- MODULE AvbTablesProofs ---------------------------
(* What AvbTables promises, for any number of slots, threads and contents. *)
EXTENDS AvbTables, TLAPS

Tag == Content \cup {NoContent}
Value == Tag \cup BOOLEAN

Entry == [id : Nat, content : Tag]
Request ==
  [pc : {"idle", "id", "content", "registered", "full", "polled", "unknown",
         "tagging", "setting", "read pcp", "set", "refused"},
   table : Table, slot : Slot, own : Nat, content : Tag,
   id : Nat, told : Value, pcp : Value,
   asked : [Setting -> Value \cup {Unasked}], todo : Seq(Setting), overtaken : BOOLEAN]

TypeOK ==
  /\ slots \in [Table -> [Slot -> Entry]]
  /\ next \in [Table -> Nat]
  /\ settings \in [Setting -> Value]
  /\ thread \in [Thread -> Request]
  /\ retired \in [Table -> SUBSET Nat]
  /\ begun \in Nat

(* Every id that has been given out, in use or given up, is no greater     *)
(* than the counter: the next one is new.                                  *)
IdsAreCounted ==
  \A k \in Table :
    /\ \A s \in Slot : slots[k][s].id <= next[k]
    /\ \A id \in retired[k] : 0 < id /\ id <= next[k]

(* A thread that has registered finds its entry where it put it until the  *)
(* id is given up, whoever reads and registers in the meantime.            *)
EntryIsKept ==
  \A t \in Thread : thread[t].pc \in {"id", "content", "registered"} =>
    LET k == thread[t].table IN
    /\ 0 < thread[t].own /\ thread[t].own <= next[k]
    /\ \/ thread[t].own \in retired[k]
       \/ /\ slots[k][thread[t].slot] = [id |-> thread[t].own, content |-> thread[t].content]
          /\ thread[t].pc # "id" => thread[t].id = thread[t].own
          /\ thread[t].pc = "registered" /\ k = "srp" => thread[t].told = thread[t].content
    /\ thread[t].pc = "content" => k = "srp"

(* A poll that found nothing asked for an id given up, or not given out.   *)
PollIsRight ==
  \A t \in Thread : thread[t].pc = "unknown" /\ thread[t].own \in 2..thread[t].id =>
    thread[t].own \in retired["atdecc"]

(* What is asked of a setting is made or still to do, and while nobody     *)
(* else stores to it, what is made stays; the tag is read back from it.    *)
Owed(r) == {r.todo[i] : i \in 1..Len(r.todo)}

AskIsKept(r, now) ==
  /\ r.pc \notin {"tagging", "setting"} => r.todo = <<>>
  /\ \A f \in Owed(r) : r.asked[f] # Unasked
  /\ ~r.overtaken =>
       /\ \A f \in Setting : f \in Owed(r) \/ r.asked[f] = Unasked \/ r.asked[f] = now[f]
       /\ r.asked["vlan_id"] # Unasked =>
            /\ r.pc # "setting"
            /\ r.pc \in {"read pcp", "set"} => r.told = r.asked["vlan_id"]
            /\ r.asked["vlan_pcp"] # Unasked
            /\ r.pc = "set" => r.pcp = r.asked["vlan_pcp"]

SettingIsKept == \A t \in Thread : AskIsKept(thread[t], settings)

IInv == TypeOK /\ IdsAreCounted /\ IdsIdentify /\ EntryIsKept /\ PollIsRight /\ SettingIsKept

-----------------------------------------------------------------------------
(* The parts of the state have the types of their parts.                   *)
LEMMA Types ==
  ASSUME TypeOK
  PROVE  /\ \A k \in Table, s \in Slot : slots[k][s].id \in Nat /\ slots[k][s].content \in Tag
         /\ \A k \in Table : next[k] \in Nat /\ retired[k] \subseteq Nat
         /\ \A t \in Thread :
              /\ thread[t] \in Request /\ thread[t].table \in Table /\ thread[t].slot \in Slot
              /\ thread[t].own \in Nat /\ thread[t].content \in Tag
  <1>1. \A k \in Table, s \in Slot : slots[k][s] \in Entry
    BY DEF TypeOK
  <1>2. \A t \in Thread : thread[t] \in Request
    BY DEF TypeOK
  <1>3. \A k \in Table : next[k] \in Nat /\ retired[k] \subseteq Nat
    BY DEF TypeOK
  <1> QED
    BY <1>1, <1>2, <1>3 DEF Entry, Request

(* So has a thread that has just begun, and it has asked for nothing.      *)
LEMMA IdleIsRequest ==
  /\ Idle \in Request
  /\ Idle.asked = NothingAsked /\ Idle.todo = <<>> /\ ~Idle.overtaken
  /\ \A f \in Setting : NothingAsked[f] = Unasked
  <1>1. 1 \in Slot /\ NoContent \in Tag
    BY SizeAssumption DEF Slot, Tag
  <1>2. NothingAsked \in [Setting -> Value \cup {Unasked}] /\ <<>> \in Seq(Setting)
    BY DEF NothingAsked
  <1>3. \A f \in Setting : NothingAsked[f] = Unasked
    BY DEF NothingAsked
  <1>4. Idle \in Request
    BY <1>1, <1>2 DEF Idle, Request, Table, Value
  <1> QED
    BY <1>3, <1>4 DEF Idle

(* Nothing is owed of no stores, and of some, the first or one of the rest. *)
LEMMA OwedOfTodo ==
  ASSUME NEW r, r.todo \in Seq(Setting)
  PROVE  /\ r.todo = <<>> => Owed(r) = {}
         /\ Owed(r) \subseteq Setting
         /\ r.todo # <<>> => /\ Head(r.todo) \in Owed(r)
                            /\ Owed(r) = {Head(r.todo)} \cup {Tail(r.todo)[i] : i \in 1..Len(Tail(r.todo))}
  <1>1. Owed(r) \subseteq Setting /\ (r.todo = <<>> => Owed(r) = {})
    BY DEF Owed
  <1>2. ASSUME r.todo # <<>>
        PROVE  /\ Head(r.todo) \in Owed(r)
               /\ Owed(r) = {Head(r.todo)} \cup {Tail(r.todo)[i] : i \in 1..Len(Tail(r.todo))}
    <2> DEFINE q == r.todo
               rest == {Tail(q)[i] : i \in 1..Len(Tail(q))}
    <2>1. 1 \in 1..Len(q) /\ Head(q) = q[1]
      BY <1>2
    <2>2. ASSUME NEW i \in 1..Len(q), i # 1
          PROVE  i - 1 \in 1..Len(Tail(q)) /\ Tail(q)[i - 1] = q[i]
      BY <1>2, <2>2
    <2>3. ASSUME NEW i \in 1..Len(Tail(q))
          PROVE  i + 1 \in 1..Len(q) /\ Tail(q)[i] = q[i + 1]
      BY <1>2, <2>3
    <2>4. ASSUME NEW f \in Owed(r) PROVE f = Head(q) \/ f \in rest
      BY <2>1, <2>2, <2>4 DEF Owed
    <2>5. ASSUME NEW f \in rest PROVE f \in Owed(r)
      BY <2>3, <2>5 DEF Owed
    <2>6. Head(q) \in Owed(r)
      BY <2>1 DEF Owed
    <2> QED
      BY <2>4, <2>5, <2>6
  <1> QED
    BY <1>1, <1>2

(* A request that asks nothing of the settings keeps what it asks of them. *)
LEMMA NothingIsKept ==
  ASSUME NEW r, NEW now, r.asked = NothingAsked, r.todo = <<>>
  PROVE  AskIsKept(r, now)
  <1>1. "vlan_id" \in Setting
    BY DEF Setting
  <1>2. Owed(r) = {}
    BY DEF Owed
  <1> QED
    BY <1>1, <1>2, IdleIsRequest DEF AskIsKept

(* The steps, one lemma for those that leave the same part alone.          *)

(* The tables start empty and the counters at one.                         *)
LEMMA InitIInv == Init => IInv
  <1> SUFFICES ASSUME Init PROVE IInv
    OBVIOUS
  <1>1. TypeOK
    <2>1. slots \in [Table -> [Slot -> Entry]]
      BY DEF Init, Entry, FreeSlot, Tag
    <2>2. settings \in [Setting -> Value]
      BY DEF Init, Value, Tag
    <2>3. thread \in [Thread -> Request]
      BY IdleIsRequest DEF Init
    <2> QED
      BY <2>1, <2>2, <2>3 DEF TypeOK, Init
  <1>2. IdsAreCounted /\ IdsIdentify
    BY DEF Init, FreeSlot, IdsAreCounted, IdsIdentify, IsFree, Table, Slot
  <1>3. \A t \in Thread : thread[t] = Idle
    BY DEF Init
  <1>4. EntryIsKept /\ PollIsRight
    BY <1>3 DEF EntryIsKept, PollIsRight, Idle
  <1>5. SettingIsKept
    BY <1>3, IdleIsRequest, NothingIsKept DEF SettingIsKept
  <1> QED
    BY <1>1, <1>2, <1>4, <1>5 DEF IInv

(* A request that does not touch the settings keeps what is asked of them. *)
LEMMA OthersKeepSettings ==
  ASSUME IInv, UNCHANGED settings,
         \A u \in Thread : \/ thread'[u] = thread[u]
                           \/ thread'[u].asked = NothingAsked /\ thread'[u].todo = <<>>
  PROVE  SettingIsKept'
  <1>1. \A u \in Thread : AskIsKept(thread[u], settings)
    BY DEF IInv, SettingIsKept
  <1>2. \A u \in Thread : AskIsKept(thread'[u], settings')
    BY <1>1, NothingIsKept
  <1> QED
    BY <1>2 DEF SettingIsKept

(* Taking a free slot under a new id disturbs no other entry.              *)
LEMMA RegisterKeeps ==
  ASSUME IInv, NEW t \in Thread, NEW k \in Table, NEW s \in Slot, NEW c \in Content,
         Register(t, k, s, c)
  PROVE  IInv'
  <1> DEFINE new == next[k] + 1
  <1>0. TypeOK /\ new \in Nat /\ new > 0 /\ IsFree(slots[k][s])
    BY Types DEF IInv, Register, First, IsFree
  <1>1. /\ slots' = [slots EXCEPT ![k][s] = [id |-> new, content |-> c]]
        /\ next' = [next EXCEPT ![k] = new]
        /\ thread' = [thread EXCEPT ![t] =
             [Idle EXCEPT !.pc = "id", !.table = k, !.slot = s, !.own = new, !.content = c]]
        /\ settings' = settings /\ retired' = retired /\ begun' = begun
    BY DEF Register, TakeSlot
  <1>2. TypeOK'
    <2>1. thread'[t] \in Request
      BY <1>0, <1>1, IdleIsRequest DEF TypeOK, Request, Tag
    <2> QED
      BY <1>0, <1>1, <2>1 DEF TypeOK, Entry, Tag
  <1>3. \A j \in Table, r \in Slot :
          slots'[j][r] = IF j = k /\ r = s THEN [id |-> new, content |-> c] ELSE slots[j][r]
    BY <1>0, <1>1 DEF TypeOK
  <1>4. \A j \in Table : next'[j] = IF j = k THEN new ELSE next[j]
    BY <1>0, <1>1 DEF TypeOK
  <1>5. IdsAreCounted' /\ IdsIdentify'
    <2>1. \A j \in Table, r \in Slot : slots[j][r].id \in Nat /\ next[j] \in Nat
      BY <1>0, Types
    <2>2. \A j \in Table : retired[j] \subseteq Nat
      BY <1>0 DEF TypeOK
    <2>3. IdsAreCounted'
      BY <1>0, <1>1, <1>3, <1>4, <2>1, <2>2 DEF IInv, IdsAreCounted
    <2>4. new \notin retired[k] /\ \A r \in Slot : slots[k][r].id # new
      BY <2>1, <2>2 DEF IInv, IdsAreCounted
    <2>5. ASSUME NEW j \in Table, NEW id \in 2..next'[j]
          PROVE  id \in retired'[j] \/ \E r \in Slot : slots'[j][r].id = id
      <3>1. CASE j = k /\ id = new
        BY <1>3, <3>1
      <3>2. CASE ~(j = k /\ id = new)
        <4>1. id \in 2..next[j]
          BY <1>0, <1>4, <2>1, <3>2
        <4>2. id \in retired[j] \/ \E r \in Slot : slots[j][r].id = id /\ ~(j = k /\ r = s)
          BY <1>0, <4>1 DEF IInv, IdsIdentify, IsFree
        <4> QED
          BY <1>1, <1>3, <4>2
      <3> QED
        BY <3>1, <3>2
    <2>6. /\ \A j \in Table, r \in Slot : IsFree(slots'[j][r]) => slots'[j][r] = FreeSlot
          /\ \A j \in Table, q, r \in Slot :
               q # r /\ slots'[j][q].id = slots'[j][r].id => IsFree(slots'[j][r])
          /\ \A j \in Table, r \in Slot : slots'[j][r].id \notin retired'[j]
      BY <1>0, <1>1, <1>3, <2>1, <2>4 DEF IInv, IdsIdentify, IsFree, FreeSlot
    <2> QED
      BY <2>3, <2>5, <2>6 DEF IdsIdentify, IsFree
  <1>6. EntryIsKept'
    <2> SUFFICES ASSUME NEW u \in Thread, thread'[u].pc \in {"id", "content", "registered"}
                 PROVE  EntryIsKept!(u)'
      BY DEF EntryIsKept
    <2>1. CASE u = t
      BY <1>0, <1>1, <1>3, <1>4, <2>1 DEF TypeOK, Idle
    <2>2. CASE u # t
      <3>1. thread'[u] = thread[u] /\ thread[u].table \in Table /\ thread[u].slot \in Slot
        BY <1>0, <1>1, <2>2, Types DEF TypeOK
      <3>2. EntryIsKept!(u)
        BY DEF IInv, EntryIsKept
      <3>3. thread[u].own \in Nat /\ \A j \in Table : next[j] \in Nat
        BY <1>0, Types
      <3> QED
        BY <1>0, <1>1, <1>3, <1>4, <3>1, <3>2, <3>3 DEF IsFree
    <2> QED
      BY <2>1, <2>2
  <1>7. thread'[t] = [Idle EXCEPT !.pc = "id", !.table = k, !.slot = s, !.own = new, !.content = c]
        /\ \A u \in Thread : u # t => thread'[u] = thread[u]
    BY <1>0, <1>1 DEF TypeOK
  <1>8. PollIsRight'
    BY <1>1, <1>7 DEF IInv, PollIsRight, Idle
  <1>9. SettingIsKept'
    <2>1. thread'[t].asked = NothingAsked /\ thread'[t].todo = <<>>
      BY <1>7, IdleIsRequest DEF Idle
    <2>2. \A u \in Thread : \/ thread'[u] = thread[u]
                            \/ thread'[u].asked = NothingAsked /\ thread'[u].todo = <<>>
      <3>1. \A u \in Thread : u # t => thread'[u] = thread[u]
        BY <1>7
      <3> QED
        BY <2>1, <3>1
    <2> QED
      BY ONLY IInv, <1>1, <2>1, <2>2, OthersKeepSettings
  <1> QED
    BY <1>2, <1>5, <1>6, <1>8, <1>9 DEF IInv

(* Reading a slot again, finding none, and polling change only the thread. *)
LEMMA AnsweringKeeps ==
  ASSUME IInv, NEW t \in Thread,
         \/ \E k \in Table : RegisterFull(t, k)
         \/ AnswerId(t)
         \/ AnswerContent(t)
         \/ \E id \in 0..MaxIds : Poll(t, id)
  PROVE  IInv'
  <1> DEFINE Goal == /\ thread'[t] \in Request
                     /\ EntryIsKept!(t)' /\ PollIsRight!(t)' /\ AskIsKept(thread'[t], settings')
                     /\ thread' = [thread EXCEPT ![t] = thread'[t]]
  <1>0. TypeOK /\ UNCHANGED <<slots, next, settings, retired, begun>>
    BY DEF IInv, RegisterFull, AnswerId, AnswerContent, Poll
  <1>1. /\ EntryIsKept!(t) /\ PollIsRight!(t) /\ AskIsKept(thread[t], settings) /\ thread[t] \in Request
    BY <1>0, Types DEF IInv, EntryIsKept, PollIsRight, SettingIsKept
  <1>2. ASSUME NEW k \in Table, RegisterFull(t, k) PROVE Goal
    <2>1. /\ thread'[t] = [Idle EXCEPT !.pc = "full", !.table = k]
          /\ thread' = [thread EXCEPT ![t] = thread'[t]]
      BY <1>0, <1>2 DEF TypeOK, RegisterFull
    <2>2. thread'[t] \in Request /\ thread'[t].pc = "full"
          /\ thread'[t].asked = NothingAsked /\ thread'[t].todo = <<>>
      BY <2>1, IdleIsRequest DEF Request
    <2>3. AskIsKept(thread'[t], settings')
      BY <2>2, NothingIsKept
    <2> QED
      BY <2>1, <2>2, <2>3
  <1>3. ASSUME NEW id \in 0..MaxIds, Poll(t, id) PROVE Goal
    <2> DEFINE known == id # 0 /\ \E s \in Slot : slots["atdecc"][s].id = id
    <2>1. /\ thread'[t] = [Idle EXCEPT !.pc = IF known THEN "polled" ELSE "unknown",
                                      !.table = "atdecc", !.own = id, !.id = next["atdecc"]]
          /\ thread' = [thread EXCEPT ![t] = thread'[t]]
      BY <1>0, <1>3 DEF TypeOK, Poll
    <2>2. next["atdecc"] \in Nat /\ id \in Nat /\ "atdecc" \in Table
      BY <1>0, SizeAssumption, Types DEF Table
    <2> HIDE DEF known
    <2>3. /\ thread'[t] \in Request /\ thread'[t].pc = IF known THEN "polled" ELSE "unknown"
          /\ thread'[t].own = id /\ thread'[t].id = next["atdecc"]
          /\ thread'[t].asked = NothingAsked /\ thread'[t].todo = <<>>
      BY <2>1, <2>2, IdleIsRequest DEF Request
    <2>4. AskIsKept(thread'[t], settings')
      BY <2>3, NothingIsKept
    <2>5. PollIsRight!(t)'
      <3>1. CASE known
        BY <2>3, <3>1
      <3>2. CASE ~known
        BY <1>0, <2>2, <2>3, <3>2 DEF known, IInv, IdsIdentify
      <3> QED
        BY <3>1, <3>2
    <2> QED
      BY <2>1, <2>3, <2>4, <2>5
  <1>4. ASSUME AnswerId(t) PROVE Goal
    <2>1. /\ thread'[t] = [thread[t] EXCEPT !.id = slots[thread[t].table][thread[t].slot].id,
               !.pc = IF thread[t].table = "srp" THEN "content" ELSE "registered"]
          /\ thread' = [thread EXCEPT ![t] = thread'[t]] /\ thread[t].pc = "id"
      BY <1>0, <1>4 DEF TypeOK, AnswerId, At
    <2>2. /\ thread'[t] \in Request
          /\ thread'[t].pc = IF thread[t].table = "srp" THEN "content" ELSE "registered"
          /\ thread'[t].id = slots[thread[t].table][thread[t].slot].id
          /\ \A f \in {"own", "content", "table", "slot"} : thread'[t][f] = thread[t][f]
      <3>1. slots[thread[t].table][thread[t].slot].id \in Nat
        BY <1>0, Types
      <3> QED
        BY <1>1, <2>1, <3>1 DEF Request
    <2>3. \A f \in {"asked", "todo", "overtaken"} : thread'[t][f] = thread[t][f]
      BY <1>1, <2>1 DEF Request
    <2>4. EntryIsKept!(t)'
      BY <1>0, <1>1, <2>1, <2>2
    <2>5. AskIsKept(thread'[t], settings')
      BY <1>0, <1>1, <2>1, <2>2, <2>3 DEF AskIsKept, Owed
    <2> QED
      BY <2>1, <2>2, <2>4, <2>5
  <1>5. ASSUME AnswerContent(t) PROVE Goal
    <2>1. /\ thread'[t] = [thread[t] EXCEPT
               !.told = slots["srp"][thread[t].slot].content, !.pc = "registered"]
          /\ thread' = [thread EXCEPT ![t] = thread'[t]] /\ thread[t].pc = "content"
      BY <1>0, <1>5 DEF TypeOK, AnswerContent, At
    <2>2. slots["srp"][thread[t].slot].content \in Value
      BY <1>0, Types DEF Table, Value
    <2>3. /\ thread'[t] \in Request /\ thread'[t].pc = "registered"
          /\ thread'[t].told = slots["srp"][thread[t].slot].content
          /\ \A f \in {"own", "content", "table", "slot", "id"} : thread'[t][f] = thread[t][f]
      BY <1>1, <2>1, <2>2 DEF Request
    <2>4. \A f \in {"asked", "todo", "overtaken"} : thread'[t][f] = thread[t][f]
      BY <1>1, <2>1 DEF Request
    <2>5. EntryIsKept!(t)'
      BY <1>0, <1>1, <2>1, <2>3
    <2>6. AskIsKept(thread'[t], settings')
      <3>1. thread[t].overtaken = thread'[t].overtaken /\ AskIsKept(thread[t], settings')
        BY <1>0, <1>1, <2>4
      <3>2. thread[t].told # thread'[t].told => thread[t].pc = "content"
        BY <2>1
      <3> QED
        BY <2>1, <2>3, <2>4, <3>1 DEF AskIsKept, Owed
    <2> QED
      BY <2>1, <2>3, <2>5, <2>6
  <1>6. Goal
    BY <1>2, <1>3, <1>4, <1>5
  <1>7. \A u \in Thread : u # t => thread'[u] = thread[u]
    BY <1>0, <1>6 DEF TypeOK
  <1>8. TypeOK'
    BY <1>0, <1>6 DEF TypeOK
  <1>9. IdsAreCounted' /\ IdsIdentify'
    BY <1>0 DEF IInv, IdsAreCounted, IdsIdentify
  <1>10. EntryIsKept'
    BY <1>0, <1>6, <1>7 DEF IInv, EntryIsKept
  <1>11. PollIsRight'
    BY <1>0, <1>6, <1>7 DEF IInv, PollIsRight
  <1>12. SettingIsKept'
    BY <1>0, <1>6, <1>7 DEF IInv, SettingIsKept
  <1> QED
    BY <1>8, <1>9, <1>10, <1>11, <1>12 DEF IInv

(* Clearing a slot gives up its id, and with it what a thread may hold.    *)
LEMMA FreeKeeps ==
  ASSUME IInv, NEW k \in Table, NEW s \in Slot, Free(k, s), UNCHANGED <<next, settings, thread, begun>>
  PROVE  IInv'
  <1>0. TypeOK
    BY DEF IInv
  <1>1. \A j \in Table, r \in Slot :
          slots'[j][r] = IF j = k /\ r = s THEN FreeSlot ELSE slots[j][r]
    BY <1>0 DEF TypeOK, Free
  <1>2. \A j \in Table :
          retired'[j] = IF j = k THEN (retired[k] \cup {slots[k][s].id}) \ {0} ELSE retired[j]
    BY <1>0 DEF TypeOK, Free
  <1>3. TypeOK'
    BY <1>0 DEF TypeOK, Entry, Free, FreeSlot, Tag
  <1>4. \A j \in Table, r \in Slot : slots[j][r].id \in Nat /\ next[j] \in Nat
    BY <1>0, Types
  <1>5. IdsAreCounted'
    BY <1>1, <1>2, <1>4 DEF IInv, IdsAreCounted, FreeSlot
  <1>6. IdsIdentify'
    <2>1. /\ \A j \in Table, r \in Slot : IsFree(slots'[j][r]) => slots'[j][r] = FreeSlot
          /\ \A j \in Table, q, r \in Slot :
               q # r /\ slots'[j][q].id = slots'[j][r].id => IsFree(slots'[j][r])
          /\ \A j \in Table, r \in Slot : slots'[j][r].id \notin retired'[j]
      BY <1>1, <1>2, <1>4 DEF IInv, IdsIdentify, IdsAreCounted, IsFree, FreeSlot
    <2>2. ASSUME NEW j \in Table, NEW id \in 2..next[j]
          PROVE  id \in retired'[j] \/ \E r \in Slot : slots'[j][r].id = id
      <3>1. id # 0 /\ (id \in retired[j] \/ \E r \in Slot : slots[j][r].id = id)
        BY <1>4 DEF IInv, IdsIdentify
      <3> QED
        BY <1>1, <1>2, <3>1
    <2> QED
      BY <2>1, <2>2 DEF IdsIdentify, IsFree
  <1>7. EntryIsKept'
    <2> SUFFICES ASSUME NEW u \in Thread, thread[u].pc \in {"id", "content", "registered"}
                 PROVE  EntryIsKept!(u)'
      BY DEF EntryIsKept
    <2>1. EntryIsKept!(u) /\ thread[u].table \in Table /\ thread[u].slot \in Slot
      BY <1>0, Types DEF IInv, EntryIsKept
    <2> QED
      BY <1>1, <1>2, <2>1
  <1>8. PollIsRight'
    <2>1. "atdecc" \in Table /\ \A id \in retired["atdecc"] : id \in retired'["atdecc"]
      BY <1>2 DEF IInv, IdsAreCounted, Table
    <2> QED
      BY <2>1 DEF IInv, PollIsRight
  <1>9. SettingIsKept'
    <2>1. \A u \in Thread : thread'[u] = thread[u]
      OBVIOUS
    <2> QED
      BY ONLY IInv, UNCHANGED settings, <2>1, OthersKeepSettings
  <1> QED
    BY <1>3, <1>5, <1>6, <1>7, <1>8, <1>9 DEF IInv

(* What every request for settings asks: its stores are those of what it   *)
(* asks, and the identity of a tag is asked together with its priority.    *)
Sound(pc, todo, asked) ==
  /\ pc \in {"tagging", "setting"}
  /\ asked \in [Setting -> Value \cup {Unasked}] /\ todo \in Seq(Setting)
  /\ \A i \in 1..Len(todo) : asked[todo[i]] # Unasked
  /\ \A f \in Setting : asked[f] # Unasked => \E i \in 1..Len(todo) : todo[i] = f
  /\ asked["vlan_id"] # Unasked => pc = "tagging" /\ asked["vlan_pcp"] # Unasked

(* The order of the stores of each request is that of what it asks.        *)
LEMMA AskingIsSound ==
  ASSUME NEW t \in Thread, Asking(t)
  PROVE  \E pc, todo, asked : Sound(pc, todo, asked) /\ Begin(t, pc, todo, asked)
  <1>0. /\ \A c \in Content : c \in Value /\ c # Unasked
        /\ NoContent \in Value /\ NoContent # Unasked
        /\ TRUE \in Value /\ TRUE # Unasked /\ FALSE \in Value /\ FALSE # Unasked
        /\ \A on \in BOOLEAN : on \in Value /\ on # Unasked
    BY UnaskedAssumption DEF Value, Tag
  <1>1. ASSUME NEW c \in Content, VlanEnable(t, c)
        PROVE  \E pc, todo, asked : Sound(pc, todo, asked) /\ Begin(t, pc, todo, asked)
    <2> DEFINE on == TRUE
               todo == <<"vlan_id", "vlan_pcp", "vlan_strip_rx", "vlan_enabled">>
               asked == [NothingAsked EXCEPT !["vlan_id"] = c, !["vlan_pcp"] = c,
                           !["vlan_strip_rx"] = c, !["vlan_enabled"] = on]
    <2>0. on \in Value /\ on # Unasked
      BY <1>0
    <2> HIDE DEF on
    <2>1. Sound("tagging", todo, asked)
      BY <1>0, <2>0, IdleIsRequest DEF Sound, NothingAsked, Setting
    <2> QED
      BY <1>1, <2>1 DEF on, VlanEnable
  <1>2. ASSUME VlanDisable(t)
        PROVE  \E pc, todo, asked : Sound(pc, todo, asked) /\ Begin(t, pc, todo, asked)
    <2> DEFINE on == FALSE
               todo == <<"vlan_enabled">>
               asked == [NothingAsked EXCEPT !["vlan_enabled"] = on]
    <2>0. on \in Value /\ on # Unasked
      BY <1>0
    <2> HIDE DEF on
    <2>1. Sound("tagging", todo, asked)
      BY <1>0, <2>0, IdleIsRequest DEF Sound, NothingAsked, Setting
    <2> QED
      BY <1>2, <2>1 DEF on, VlanDisable
  <1>3. ASSUME NEW c \in Content, EeeEnable(t, c)
        PROVE  \E pc, todo, asked : Sound(pc, todo, asked) /\ Begin(t, pc, todo, asked)
    <2> DEFINE on == TRUE
               todo == <<"eee_lpi_timer_us", "eee_enabled">>
               asked == [NothingAsked EXCEPT !["eee_lpi_timer_us"] = c, !["eee_enabled"] = on]
    <2>0. on \in Value /\ on # Unasked
      BY <1>0
    <2> HIDE DEF on
    <2>1. Sound("setting", todo, asked)
      BY <1>0, <2>0, IdleIsRequest DEF Sound, NothingAsked, Setting
    <2> QED
      BY <1>3, <2>1 DEF on, EeeEnable
  <1>4. ASSUME EeeDisable(t)
        PROVE  \E pc, todo, asked : Sound(pc, todo, asked) /\ Begin(t, pc, todo, asked)
    <2> DEFINE on == FALSE
               todo == <<"eee_lpi_timer_us", "eee_enabled">>
               asked == [NothingAsked EXCEPT !["eee_lpi_timer_us"] = NoContent,
                           !["eee_enabled"] = on]
    <2>0. on \in Value /\ on # Unasked
      BY <1>0
    <2> HIDE DEF on
    <2>1. Sound("setting", todo, asked)
      BY <1>0, <2>0, IdleIsRequest DEF Sound, NothingAsked, Setting
    <2> QED
      BY <1>4, <2>1 DEF on, EeeDisable
  <1>5. ASSUME NEW c \in Content, NEW on \in BOOLEAN, PfcEnable(t, on, c)
        PROVE  \E pc, todo, asked : Sound(pc, todo, asked) /\ Begin(t, pc, todo, asked)
    <2> DEFINE todo == <<"pfc_enabled", "pfc_priority_mask">>
               asked == [NothingAsked EXCEPT !["pfc_enabled"] = on, !["pfc_priority_mask"] = c]
    <2>1. Sound("setting", todo, asked)
      BY <1>0, IdleIsRequest DEF Sound, NothingAsked, Setting
    <2> QED
      BY <1>5, <2>1 DEF PfcEnable
  <1>6. ASSUME NEW c \in Content, SetPortLatency(t, c)
        PROVE  \E pc, todo, asked : Sound(pc, todo, asked) /\ Begin(t, pc, todo, asked)
    <2> DEFINE todo == <<"ingress_latency_ns", "egress_latency_ns">>
               asked == [NothingAsked EXCEPT !["ingress_latency_ns"] = c,
                           !["egress_latency_ns"] = c]
    <2>1. Sound("setting", todo, asked)
      BY <1>0, IdleIsRequest DEF Sound, NothingAsked, Setting
    <2> QED
      BY <1>6, <2>1 DEF SetPortLatency
  <1> QED
    BY <1>1, <1>2, <1>3, <1>4, <1>5, <1>6 DEF Asking

(* Who stores to a setting overtakes all who have asked for it.            *)
LEMMA SettingKeeps ==
  ASSUME IInv, NEW t \in Thread, SettingStep(t)
  PROVE  IInv'
  <1> DEFINE Same(u) == thread'[u] = thread[u] /\ settings' = settings
             f0 == Head(thread[t].todo)
             Overtaken(u) ==
               thread'[u] = [thread[u] EXCEPT !.overtaken = @ \/ thread[u].asked[f0] # Unasked]
             Stored == settings' = [settings EXCEPT ![f0] = thread[t].asked[f0]] /\ f0 \in Setting
             Others == \A u \in Thread : u # t => Same(u) \/ (Stored /\ Overtaken(u))
             Goal == /\ settings' \in [Setting -> Value]
                     /\ begun' \in Nat
                     /\ thread' \in [Thread -> {thread'[u] : u \in Thread}]
                     /\ thread'[t] \in Request
                     /\ thread'[t].pc \in {"tagging", "setting", "read pcp", "set", "refused"}
                     /\ AskIsKept(thread'[t], settings')
                     /\ Others
  <1>0. TypeOK /\ UNCHANGED <<slots, next, retired>> /\ \A u \in Thread : thread[u] \in Request
    <2>1. TypeOK /\ \A u \in Thread : thread[u] \in Request
      BY Types DEF IInv
    <2>2. CASE Asking(t)
      BY <2>1, <2>2, AskingIsSound DEF Begin
    <2>3. CASE ~Asking(t)
      BY <2>1, <2>3 DEF SettingStep, SetupQav, Store, ReadVlanId, ReadVlanPcp, AnswerSet
    <2> QED
      BY <2>1, <2>2, <2>3
  <1>1. AskIsKept(thread[t], settings) /\ thread[t] \in Request
    BY <1>0 DEF IInv, SettingIsKept
  <1>2. "vlan_id" \in Setting /\ "vlan_pcp" \in Setting
    BY DEF Setting
  <1>3. ASSUME Asking(t) PROVE Goal
    <2>1. PICK pc, todo, asked : Sound(pc, todo, asked) /\ Begin(t, pc, todo, asked)
      BY <1>3, AskingIsSound
    <2>2. /\ thread'[t] = [Idle EXCEPT !.pc = pc, !.todo = todo, !.asked = asked]
          /\ thread' \in [Thread -> {thread'[u] : u \in Thread}]
          /\ settings' = settings /\ begun' = begun + 1
          /\ \A u \in Thread : u # t => thread'[u] = thread[u]
      BY <1>0, <2>1 DEF TypeOK, Begin
    <2>3. /\ thread'[t] \in Request /\ thread'[t].pc = pc
          /\ thread'[t].todo = todo /\ thread'[t].asked = asked
      BY <2>1, <2>2, IdleIsRequest DEF Request, Sound
    <2>4. AskIsKept(thread'[t], settings')
      BY <2>1, <2>3 DEF Sound, AskIsKept, Owed
    <2>5. Others
      BY <2>2
    <2>6. pc \in {"tagging", "setting"}
      BY <2>1 DEF Sound
    <2>7. settings' \in [Setting -> Value] /\ begun' \in Nat
      BY <1>0, <2>2 DEF TypeOK
    <2>8. thread'[t].pc \in {"tagging", "setting", "read pcp", "set", "refused"}
      BY <2>3, <2>6
    <2> QED
      BY <2>2, <2>3, <2>4, <2>5, <2>7, <2>8
  <1>4. ASSUME NEW tc, NEW slope, NEW hi, NEW lo, SetupQav(t, tc, slope, hi, lo) PROVE Goal
    <2> DEFINE ok == tc < 8 /\ slope <= 0 /\ hi >= 0 /\ lo <= 0
    <2>1. /\ thread'[t] = [Idle EXCEPT !.pc = IF ok THEN "set" ELSE "refused"]
          /\ thread' \in [Thread -> {thread'[u] : u \in Thread}]
          /\ settings' = settings /\ begun' = begun
          /\ \A u \in Thread : u # t => thread'[u] = thread[u]
      BY <1>0, <1>4 DEF TypeOK, SetupQav
    <2> HIDE DEF ok
    <2>2. /\ thread'[t] \in Request /\ thread'[t].pc \in {"set", "refused"}
          /\ thread'[t].todo = <<>> /\ thread'[t].asked = NothingAsked
      BY <2>1, IdleIsRequest DEF Request
    <2>3. AskIsKept(thread'[t], settings')
      BY <2>2, NothingIsKept
    <2> QED
      BY <1>0, <2>1, <2>2, <2>3 DEF TypeOK
  <1>5. ASSUME Store(t) PROVE Goal
    <2>0. thread[t].todo \in Seq(Setting) /\ thread[t].todo # <<>>
          /\ thread[t].asked \in [Setting -> Value \cup {Unasked}]
          /\ thread[t].pc \in {"tagging", "setting"}
      BY <1>1, <1>5 DEF Store, Request
    <2>1. /\ thread'[t] = [thread[t] EXCEPT !.todo = Tail(@)]
          /\ thread' \in [Thread -> {thread'[u] : u \in Thread}]
          /\ settings' = [settings EXCEPT ![f0] = thread[t].asked[f0]] /\ begun' = begun
          /\ \A u \in Thread : u # t => Overtaken(u)
      BY <1>0, <1>5 DEF TypeOK, Store
    <2>2. /\ f0 \in Setting /\ f0 \in Owed(thread[t])
          /\ Owed(thread[t]) = {f0} \cup
               {Tail(thread[t].todo)[i] : i \in 1..Len(Tail(thread[t].todo))}
      BY <2>0, OwedOfTodo
    <2>3. thread[t].asked[f0] # Unasked /\ thread[t].asked[f0] \in Value
      BY <1>1, <2>0, <2>2 DEF AskIsKept
    <2>4. settings' \in [Setting -> Value]
      BY <1>0, <2>1, <2>2, <2>3 DEF TypeOK
    <2>5. thread'[t] \in Request /\ thread'[t].todo = Tail(thread[t].todo)
      <3>1. Tail(thread[t].todo) \in Seq(Setting)
        BY <2>0
      <3> QED
        BY <1>1, <2>1, <3>1 DEF Request
    <2>6. \A f \in {"pc", "asked", "told", "pcp", "overtaken"} : thread'[t][f] = thread[t][f]
      BY <1>1, <2>1 DEF Request
    <2>7. \A f \in Setting : settings'[f] = IF f = f0 THEN thread[t].asked[f0] ELSE settings[f]
      BY <1>0, <2>1, <2>2 DEF TypeOK
    <2>8. Owed(thread[t]) = {f0} \cup Owed(thread'[t])
      BY <2>2, <2>5 DEF Owed
    <2>9. AskIsKept(thread'[t], settings')
      BY <1>1, <2>0, <2>6, <2>7, <2>8 DEF AskIsKept
    <2>10. Others
      BY <2>1, <2>2
    <2> QED
      BY <2>0, <2>1, <2>4, <2>5, <2>6, <2>9, <2>10, <1>0 DEF TypeOK
  <1>6. ASSUME ReadVlanId(t) PROVE Goal
    <2>1. /\ thread'[t] = [thread[t] EXCEPT !.pc = "read pcp", !.told = settings["vlan_id"]]
          /\ thread' \in [Thread -> {thread'[u] : u \in Thread}]
          /\ settings' = settings /\ begun' = begun /\ thread[t].todo = <<>>
          /\ \A u \in Thread : u # t => thread'[u] = thread[u]
      BY <1>0, <1>6 DEF TypeOK, ReadVlanId
    <2>0. thread[t].pc = "tagging" /\ Owed(thread[t]) = {}
      BY <1>1, <1>6, OwedOfTodo DEF ReadVlanId, At, Request
    <2>2. settings["vlan_id"] \in Value
      BY <1>0, <1>2 DEF TypeOK
    <2>3. /\ thread'[t] \in Request /\ thread'[t].pc = "read pcp"
          /\ thread'[t].told = settings["vlan_id"]
          /\ \A f \in {"asked", "todo", "overtaken"} : thread'[t][f] = thread[t][f]
      BY <1>1, <2>1, <2>2 DEF Request
    <2>4. AskIsKept(thread'[t], settings')
      <3>1. Owed(thread'[t]) = {}
        BY <2>0, <2>3 DEF Owed
      <3> QED
        BY <1>1, <1>2, <2>0, <2>1, <2>3, <3>1 DEF AskIsKept
    <2> QED
      BY <1>0, <2>1, <2>3, <2>4 DEF TypeOK
  <1>7. ASSUME ReadVlanPcp(t) PROVE Goal
    <2>1. /\ thread'[t] = [thread[t] EXCEPT !.pc = "set", !.pcp = settings["vlan_pcp"]]
          /\ thread' \in [Thread -> {thread'[u] : u \in Thread}]
          /\ settings' = settings /\ begun' = begun /\ thread[t].pc = "read pcp"
          /\ \A u \in Thread : u # t => thread'[u] = thread[u]
      BY <1>0, <1>7 DEF TypeOK, ReadVlanPcp, At
    <2>0. thread[t].todo = <<>> /\ Owed(thread[t]) = {}
      BY <1>1, <2>1, OwedOfTodo DEF AskIsKept, Request
    <2>2. settings["vlan_pcp"] \in Value
      BY <1>0, <1>2 DEF TypeOK
    <2>3. /\ thread'[t] \in Request /\ thread'[t].pc = "set"
          /\ thread'[t].pcp = settings["vlan_pcp"]
          /\ \A f \in {"asked", "todo", "overtaken", "told"} : thread'[t][f] = thread[t][f]
      BY <1>1, <2>1, <2>2 DEF Request
    <2>4. AskIsKept(thread'[t], settings')
      <3>1. Owed(thread'[t]) = {}
        BY <2>0, <2>3 DEF Owed
      <3> QED
        BY <1>1, <1>2, <2>0, <2>1, <2>3, <3>1 DEF AskIsKept
    <2> QED
      BY <1>0, <2>1, <2>3, <2>4 DEF TypeOK
  <1>8. ASSUME AnswerSet(t) PROVE Goal
    <2>1. /\ thread'[t] = [thread[t] EXCEPT !.pc = "set"]
          /\ thread' \in [Thread -> {thread'[u] : u \in Thread}]
          /\ settings' = settings /\ begun' = begun
          /\ thread[t].pc = "setting" /\ thread[t].todo = <<>>
          /\ \A u \in Thread : u # t => thread'[u] = thread[u]
      BY <1>0, <1>8 DEF TypeOK, AnswerSet, At
    <2>2. /\ thread'[t] \in Request /\ thread'[t].pc = "set"
          /\ \A f \in {"asked", "todo", "overtaken", "told", "pcp"} : thread'[t][f] = thread[t][f]
      BY <1>1, <2>1 DEF Request
    <2>3. AskIsKept(thread'[t], settings')
      BY <1>1, <2>1, <2>2, OwedOfTodo DEF AskIsKept, Owed
    <2> QED
      BY <1>0, <2>1, <2>2, <2>3 DEF TypeOK
  <1>9. Goal
    BY <1>3, <1>4, <1>5, <1>6, <1>7, <1>8 DEF SettingStep
  <1>10. ASSUME NEW u \in Thread, u # t
         PROVE  /\ thread'[u] \in Request
                /\ \A f \in {"pc", "own", "content", "table", "slot", "id", "told"} :
                     thread'[u][f] = thread[u][f]
                /\ AskIsKept(thread'[u], settings')
    <2>1. thread[u] \in Request /\ AskIsKept(thread[u], settings) /\ (Same(u) \/ (Stored /\ Overtaken(u)))
      BY <1>0, <1>9, <1>10 DEF IInv, SettingIsKept
    <2>2. CASE Same(u)
      BY <2>1, <2>2
    <2>3. CASE Stored /\ Overtaken(u)
      <3>1. /\ thread'[u] \in Request
            /\ thread'[u].overtaken = (thread[u].overtaken \/ thread[u].asked[f0] # Unasked)
            /\ \A f \in {"pc", "own", "content", "table", "slot", "id", "told"} :
                 thread'[u][f] = thread[u][f]
            /\ \A f \in {"pcp", "asked", "todo"} : thread'[u][f] = thread[u][f]
        BY <2>1, <2>3 DEF Request
      <3>2. \A f \in Setting : f # f0 => settings'[f] = settings[f]
        BY <1>0, <2>3 DEF TypeOK
      <3>3. AskIsKept(thread'[u], settings')
        <4>1. Owed(thread'[u]) = Owed(thread[u])
          BY <3>1 DEF Owed
        <4>2. \A f \in Setting : ~thread'[u].overtaken =>
                thread[u].asked[f] = Unasked \/ settings'[f] = settings[f]
          BY <3>1, <3>2
        <4> QED
          BY <2>1, <3>1, <4>1, <4>2 DEF AskIsKept
      <3> QED
        BY <3>1, <3>3
    <2> QED
      BY <2>1, <2>2, <2>3
  <1>11. TypeOK'
    BY <1>0, <1>9, <1>10 DEF TypeOK
  <1>12. IdsAreCounted' /\ IdsIdentify'
    BY <1>0 DEF IInv, IdsAreCounted, IdsIdentify
  <1>13. EntryIsKept'
    <2>1. ASSUME NEW u \in Thread, u # t PROVE EntryIsKept!(u)'
      <3>1. EntryIsKept!(u)
        BY DEF IInv, EntryIsKept
      <3> QED
        BY <1>0, <1>10, <2>1, <3>1
    <2>2. EntryIsKept!(t)'
      BY <1>9
    <2> QED
      BY <2>1, <2>2 DEF EntryIsKept
  <1>14. PollIsRight'
    BY <1>0, <1>9, <1>10 DEF IInv, PollIsRight
  <1>15. SettingIsKept'
    BY <1>9, <1>10 DEF SettingIsKept
  <1> QED
    BY <1>11, <1>12, <1>13, <1>14, <1>15 DEF IInv

(* Every step of the requests keeps the strengthened invariant.            *)
LEMMA NextIInv == IInv /\ [Next]_vars => IInv'
  <1> SUFFICES ASSUME IInv, [Next]_vars PROVE IInv'
    OBVIOUS
  <1>1. ASSUME NEW t \in Thread, Registering(t) PROVE IInv'
    BY <1>1, RegisterKeeps, AnsweringKeeps DEF Registering
  <1>2. ASSUME NEW t \in Thread, SettingStep(t) PROVE IInv'
    BY <1>2, SettingKeeps
  <1>3. ASSUME NEW id \in 0..MaxIds, Deregister(id) PROVE IInv'
    BY <1>3, FreeKeeps DEF Deregister, Table
  <1>4. ASSUME NEW id \in 0..MaxIds, Unsubscribe(id) PROVE IInv'
    BY <1>4, FreeKeeps DEF Unsubscribe, Table
  <1>5. CASE UNCHANGED vars
    BY <1>5 DEF vars, IInv, TypeOK, IdsAreCounted, IdsIdentify, EntryIsKept, PollIsRight,
                SettingIsKept
  <1> QED
    BY <1>1, <1>2, <1>3, <1>4, <1>5 DEF Next

(* An answer that has been given agrees with the entry, or with the tag.   *)
LEMMA KeptIsAnswered == IInv => AnswersAreOwn
  <1> SUFFICES ASSUME IInv, NEW t \in Thread PROVE AnswersAreOwn!(t)
    BY DEF AnswersAreOwn
  <1>1. EntryIsKept!(t) /\ PollIsRight!(t) /\ AskIsKept(thread[t], settings)
    BY DEF IInv, EntryIsKept, PollIsRight, SettingIsKept
  <1>2. thread[t].pc = "set" => Owed(thread[t]) = {}
    BY <1>1, Types, OwedOfTodo DEF IInv, AskIsKept, Request
  <1>3. thread[t].pc = "set" /\ ~thread[t].overtaken =>
          \A f \in Setting : thread[t].asked[f] \in {Unasked, settings[f]}
    BY <1>1, <1>2 DEF AskIsKept
  <1> QED
    BY <1>1, <1>3 DEF At, AskIsKept

(* The strengthened invariant holds of every behaviour.                    *)
LEMMA AlwaysIInv == Spec => []IInv
  BY InitIInv, NextIInv, PTL DEF Spec

(* In both tables an id names one entry for good, however many slots there *)
(* are and whoever registers, frees and frees again: two requests cannot   *)
(* hold the same id, and an id given up frees nobody else's entry.         *)
THEOREM IdsIdentifyAlways == Spec => []IdsIdentify
  <1>1. IInv => IdsIdentify
    BY DEF IInv
  <1> QED
    BY <1>1, AlwaysIInv, PTL

(* Reading the entry again after the lock, and storing settings under      *)
(* none, shows a thread somebody else's only if its id was given up or one *)
(* of its settings stored to in between, however many threads there are.   *)
THEOREM AnswersAreOwnAlways == Spec => []AnswersAreOwn
  BY KeptIsAnswered, AlwaysIInv, PTL

=============================================================================
