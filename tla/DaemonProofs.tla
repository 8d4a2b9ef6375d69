---------------------------- MODULE DaemonProofs ----------------------------
(***************************************************************************)
(* Proofs about the list of policy notifications, for any number of        *)
(* handlers, any length of the list and any number of notifications.       *)
(***************************************************************************)
EXTENDS Daemon, TLAPS, SequenceTheorems

Write == Handlers \X Nat

(* The list is the tail end of what was made, and whatever was written is  *)
(* older than the list.                                                    *)
QueueInv ==
    /\ made \in Nat
    /\ queue \in Seq(Nat) /\ Len(queue) <= MaxSize /\ Len(queue) <= made
    /\ \A i \in 1..Len(queue) : queue[i] = made - Len(queue) + i

SentInv ==
    /\ sent \in Seq(Write)
    /\ \A i \in 1..Len(sent) : sent[i][2] <= made - Len(queue)
    /\ SentInOrder

(* Every notification older than the list was written, went to a client    *)
(* that had gone, or is MaxSize behind.                                    *)
Accounted ==
    \A n \in 1..made :
      n \in Sent \cup lost \/ n > made - Len(queue) \/ n + MaxSize <= made

IInv == QueueInv /\ SentInv /\ Accounted

-----------------------------------------------------------------------------
LEMMA InitInv == Init => IInv
  <1> SUFFICES ASSUME Init PROVE IInv
    OBVIOUS
  <1>1. made = 0 /\ queue = <<>> /\ sent = <<>>
    BY DEF Init
  <1>2. Len(queue) = 0 /\ Len(sent) = 0 /\ queue \in Seq(Nat) /\ sent \in Seq(Write)
    BY <1>1, EmptySeq
  <1>3. QueueInv
    BY <1>1, <1>2, DaemonAssumption DEF QueueInv
  <1>4. DOMAIN sent = {}
    BY <1>1
  <1>5. SentInv
    BY <1>1, <1>2, <1>4 DEF SentInv, SentInOrder
  <1>6. Accounted
    BY <1>1 DEF Accounted
  <1>7. QED
    BY <1>3, <1>5, <1>6 DEF IInv

(* A step that leaves the list and the histories alone.                    *)
LEMMA SameStep ==
    ASSUME IInv, UNCHANGED <<queue, made, sent, lost>>
    PROVE  IInv'
  BY DEF IInv, QueueInv, SentInv, SentInOrder, Accounted, Sent

(* xpum_notify_callback_func: the oldest one leaves a full list.           *)
LEMMA NotifyStep ==
    ASSUME IInv, Notify
    PROVE  IInv'
  <1> DEFINE q == RoomForOne(queue)
  <1>1. /\ made \in Nat /\ queue \in Seq(Nat) /\ Len(queue) <= MaxSize /\ Len(queue) <= made
        /\ \A i \in 1..Len(queue) : queue[i] = made - Len(queue) + i
        /\ Len(queue) \in Nat
    BY LenProperties DEF IInv, QueueInv
  <1>2. made' = made + 1 /\ queue' = Append(q, made + 1) /\ UNCHANGED <<sent, lost>>
    BY DEF Notify
  <1>3. /\ q \in Seq(Nat) /\ Len(q) \in Nat /\ Len(q) + 1 <= MaxSize /\ Len(q) <= made
        /\ Len(q) <= Len(queue)
        /\ \A i \in 1..Len(q) : q[i] = made - Len(q) + i
        /\ Len(q) < Len(queue) => Len(q) + 1 = MaxSize
    <2>1. CASE Len(queue) >= MaxSize
      <3>1. queue # <<>>
        BY <1>1, <2>1, EmptySeq, DaemonAssumption
      <3>2. q = Tail(queue)
        BY <2>1 DEF RoomForOne
      <3> HIDE DEF q
      <3>3. /\ q \in Seq(Nat) /\ Len(q) = Len(queue) - 1
            /\ \A i \in 1..Len(q) : q[i] = queue[i + 1]
        BY <1>1, <3>1, <3>2, HeadTailProperties
      <3>4. Len(queue) = MaxSize /\ MaxSize \in Nat \ {0}
        BY <1>1, <2>1, DaemonAssumption
      <3>5. \A i \in 1..Len(q) : q[i] = made - Len(q) + i
        BY <1>1, <3>3, <3>4
      <3>6. QED
        BY <1>1, <3>3, <3>4, <3>5
    <2>2. CASE ~(Len(queue) >= MaxSize)
      <3>1. q = queue
        BY <2>2 DEF RoomForOne
      <3>2. QED
        BY <1>1, <2>2, <3>1, DaemonAssumption
    <2>3. QED
      BY <2>1, <2>2
  <1> HIDE DEF q
  <1>4. /\ queue' \in Seq(Nat) /\ Len(queue') = Len(q) + 1
        /\ \A i \in 1..Len(q) : queue'[i] = q[i]
        /\ queue'[Len(q) + 1] = made + 1
    BY <1>1, <1>2, <1>3, AppendProperties
  <1>5. \A i \in 1..Len(queue') : queue'[i] = made' - Len(queue') + i
    <2> SUFFICES ASSUME NEW i \in 1..Len(queue')
                 PROVE  queue'[i] = made' - Len(queue') + i
      OBVIOUS
    <2>1. CASE i = Len(q) + 1
      BY <1>1, <1>2, <1>3, <1>4, <2>1
    <2>2. CASE i \in 1..Len(q)
      BY <1>1, <1>2, <1>3, <1>4, <2>2
    <2>3. QED
      BY <1>3, <1>4, <2>1, <2>2
  <1>6. QueueInv'
    BY <1>1, <1>2, <1>3, <1>4, <1>5 DEF QueueInv
  <1>7. made' - Len(queue') >= made - Len(queue)
    BY <1>1, <1>2, <1>3, <1>4
  <1>8. SentInv'
    <2>1. \A i \in 1..Len(sent) : sent[i][2] \in Nat
      <3> SUFFICES ASSUME NEW i \in 1..Len(sent) PROVE sent[i][2] \in Nat
        OBVIOUS
      <3>1. sent[i] \in Write
        BY ElementOfSeq DEF IInv, SentInv
      <3>2. QED
        BY <3>1 DEF Write
    <2>2. \A i \in 1..Len(sent) : sent[i][2] <= made' - Len(queue')
      BY <1>1, <1>2, <1>3, <1>4, <1>7, <2>1 DEF IInv, SentInv
    <2>3. QED
      BY <1>2, <2>2 DEF IInv, SentInv, SentInOrder
  <1>9. Accounted'
    <2> SUFFICES ASSUME NEW n \in 1..made'
                 PROVE  n \in Sent \cup lost \/ n > made' - Len(queue') \/ n + MaxSize <= made'
      BY <1>2 DEF Accounted, Sent
    <2>1. CASE n = made + 1
      BY <1>1, <1>2, <1>3, <1>4, <2>1
    <2>2. CASE n \in 1..made
      <3>1. n \in Sent \cup lost \/ n > made - Len(queue) \/ n + MaxSize <= made
        BY <2>2 DEF IInv, Accounted
      <3>2. CASE n > made - Len(queue)
        BY <1>1, <1>2, <1>3, <1>4, <2>2, <3>2, DaemonAssumption
      <3>3. CASE n + MaxSize <= made
        BY <1>1, <1>2, <2>2, <3>3, DaemonAssumption
      <3>4. QED
        BY <3>1, <3>2, <3>3
    <2>3. QED
      BY <1>1, <1>2, <2>1, <2>2
  <1>10. QED
    BY <1>6, <1>8, <1>9 DEF IInv

(* readPolicyNotifyData writes the whole list and clears it.               *)
LEMMA DeliverStep ==
    ASSUME IInv, NEW h \in Handlers, Deliver(h)
    PROVE  IInv'
  <1> DEFINE new == [i \in DOMAIN queue |-> <<h, queue[i]>>]
  <1>1. /\ made \in Nat /\ queue \in Seq(Nat) /\ Len(queue) <= made /\ Len(queue) \in Nat
        /\ \A i \in 1..Len(queue) : queue[i] = made - Len(queue) + i /\ queue[i] \in Nat
        /\ DOMAIN queue = 1..Len(queue)
    BY LenProperties, ElementOfSeq DEF IInv, QueueInv
  <1>2. /\ sent \in Seq(Write) /\ Len(sent) \in Nat /\ DOMAIN sent = 1..Len(sent)
        /\ \A i \in 1..Len(sent) : sent[i][2] <= made - Len(queue)
        /\ \A i, j \in 1..Len(sent) : i < j => sent[i][2] < sent[j][2]
    BY LenProperties DEF IInv, SentInv, SentInOrder
  <1>3. \A i \in 1..Len(sent) : sent[i][2] \in Nat
    <2> SUFFICES ASSUME NEW i \in 1..Len(sent) PROVE sent[i][2] \in Nat
      OBVIOUS
    <2>1. sent[i] \in Write
      BY <1>2, ElementOfSeq
    <2>2. QED
      BY <2>1 DEF Write
  <1>4. CASE handler[h].svc \in closed
    BY <1>4, SameStep DEF Deliver
  <1>5. CASE handler[h].svc \notin closed
    <2>1. queue' = <<>> /\ UNCHANGED made
      BY <1>5 DEF Deliver
    <2>2. Len(queue') = 0 /\ queue' \in Seq(Nat)
      BY <2>1, EmptySeq
    <2>3. QueueInv'
      BY <1>1, <2>1, <2>2, DaemonAssumption DEF QueueInv
    <2>4. CASE ~handler[h].up
      <3>1. sent' = sent /\ lost' = lost \cup Range(queue)
        BY <1>5, <2>4 DEF Deliver
      <3>2. \A i \in 1..Len(sent) : sent[i][2] <= made
        BY <1>1, <1>2, <1>3
      <3>3. SentInv'
        BY <1>1, <2>1, <2>2, <3>1, <3>2 DEF IInv, SentInv, SentInOrder
      <3>4. Accounted'
        <4> SUFFICES ASSUME NEW n \in 1..made
                     PROVE  n \in Sent \cup lost' \/ n > made' - Len(queue') \/ n + MaxSize <= made
          BY <2>1, <3>1 DEF Accounted, Sent
        <4>1. CASE n > made - Len(queue)
          <5>1. n - (made - Len(queue)) \in 1..Len(queue)
            BY <1>1, <4>1
          <5>2. queue[n - (made - Len(queue))] = n
            BY <1>1, <5>1
          <5>3. n \in Range(queue)
            BY <1>1, <5>1, <5>2 DEF Range
          <5>4. QED
            BY <3>1, <5>3
        <4>2. QED
          BY <3>1, <4>1 DEF IInv, Accounted
      <3>5. QED
        BY <2>3, <3>3, <3>4 DEF IInv
    <2>5. CASE handler[h].up
      <3>1. sent' = sent \o new /\ lost' = lost
        BY <1>5, <2>5 DEF Deliver
      <3>2. /\ new \in [1..Len(queue) -> Write]
            /\ \A i \in 1..Len(queue) : new[i] = <<h, queue[i]>>
        BY <1>1 DEF Write
      <3>3. new \in Seq(Write) /\ DOMAIN new = 1..Len(queue)
        BY <1>1, <3>2, SeqDef
      <3> HIDE DEF new
      <3>4. Len(new) = Len(queue)
        BY <1>1, <3>3
      <3>5. /\ sent' \in Seq(Write) /\ Len(sent') = Len(sent) + Len(queue)
            /\ \A i \in 1..(Len(sent) + Len(queue)) :
                 sent'[i] = IF i <= Len(sent) THEN sent[i] ELSE new[i - Len(sent)]
        <4>1. /\ sent \o new \in Seq(Write) /\ Len(sent \o new) = Len(sent) + Len(new)
              /\ \A i \in 1..(Len(sent) + Len(new)) :
                   (sent \o new)[i] = IF i <= Len(sent) THEN sent[i] ELSE new[i - Len(sent)]
          <5>1. sent \in Seq(Write) /\ new \in Seq(Write)
            BY <1>2, <3>3
          <5>2. QED
            BY <5>1, ConcatProperties, Zenon
        <4>2. QED
          BY <3>1, <3>4, <4>1, Zenon
      <3>6. \A i \in 1..Len(sent) : sent'[i][2] = sent[i][2]
        <4> SUFFICES ASSUME NEW i \in 1..Len(sent) PROVE sent'[i] = sent[i]
          OBVIOUS
        <4>1. i \in 1..(Len(sent) + Len(queue)) /\ i <= Len(sent)
          BY <1>1, <1>2
        <4>2. QED
          BY <3>5, <4>1
      <3>7. \A i \in 1..Len(queue) : sent'[Len(sent) + i][2] = made - Len(queue) + i
        <4> SUFFICES ASSUME NEW i \in 1..Len(queue)
                     PROVE  sent'[Len(sent) + i][2] = made - Len(queue) + i
          OBVIOUS
        <4>1. /\ Len(sent) + i \in 1..(Len(sent) + Len(queue)) /\ ~(Len(sent) + i <= Len(sent))
              /\ (Len(sent) + i) - Len(sent) = i
          BY <1>1, <1>2
        <4>2. sent'[Len(sent) + i] = new[i]
          BY <3>5, <4>1
        <4>3. new[i][2] = queue[i]
          BY <3>2
        <4>4. QED
          BY <1>1, <4>2, <4>3
      <3>8. \A i \in 1..Len(sent') :
              i \in 1..Len(sent) \/ \E k \in 1..Len(queue) : i = Len(sent) + k
        <4> SUFFICES ASSUME NEW i \in 1..Len(sent'), i \notin 1..Len(sent)
                     PROVE  \E k \in 1..Len(queue) : i = Len(sent) + k
          OBVIOUS
        <4>1. i - Len(sent) \in 1..Len(queue) /\ i = Len(sent) + (i - Len(sent))
          BY <1>1, <1>2, <3>5
        <4>2. QED
          BY <4>1
      <3>9. \A i \in 1..Len(sent') : sent'[i][2] <= made'
        BY <1>1, <1>2, <1>3, <2>1, <3>6, <3>7, <3>8
      <3>10. DOMAIN sent' = 1..Len(sent')
        BY <3>5, LenProperties
      <3>11. SentInOrder'
        <4> SUFFICES ASSUME NEW i \in 1..Len(sent'), NEW j \in 1..Len(sent'), i < j
                     PROVE  sent'[i][2] < sent'[j][2]
          BY <3>10 DEF SentInOrder
        <4>1. CASE i \in 1..Len(sent) /\ j \in 1..Len(sent)
          BY <1>2, <3>6, <4>1
        <4>2. CASE i \in 1..Len(sent) /\ \E k \in 1..Len(queue) : j = Len(sent) + k
          <5>1. PICK k \in 1..Len(queue) : j = Len(sent) + k
            BY <4>2
          <5>2. sent'[j][2] = made - Len(queue) + k
            BY <3>7, <5>1
          <5>3. sent'[i][2] \in Nat /\ sent'[i][2] <= made - Len(queue)
            BY <1>2, <1>3, <3>6, <4>2
          <5>4. QED
            BY <1>1, <5>2, <5>3
        <4>3. CASE i \notin 1..Len(sent)
          <5>1. PICK k \in 1..Len(queue) : i = Len(sent) + k
            BY <3>8, <4>3
          <5>2. j \notin 1..Len(sent)
            BY <1>2, <4>3
          <5>3. PICK l \in 1..Len(queue) : j = Len(sent) + l
            BY <3>8, <5>2
          <5>4. k < l
            BY <1>2, <5>1, <5>3
          <5>5. sent'[i][2] = made - Len(queue) + k /\ sent'[j][2] = made - Len(queue) + l
            BY <3>7, <5>1, <5>3
          <5>6. QED
            BY <1>1, <5>4, <5>5
        <4>4. QED
          BY <3>8, <4>1, <4>2, <4>3
      <3>12. SentInv'
        BY <1>1, <2>1, <2>2, <3>5, <3>9, <3>11 DEF SentInv
      <3>13. Accounted'
        <4> SUFFICES ASSUME NEW n \in 1..made
                     PROVE  n \in Sent' \cup lost \/ n > made' - Len(queue') \/ n + MaxSize <= made
          BY <2>1, <3>1 DEF Accounted
        <4>1. CASE n > made - Len(queue)
          <5> DEFINE k == n - (made - Len(queue))
          <5>1. k \in 1..Len(queue) /\ made - Len(queue) + k = n
            BY <1>1, <4>1
          <5>2. sent'[Len(sent) + k][2] = n /\ Len(sent) + k \in 1..Len(sent')
            BY <1>1, <1>2, <3>5, <3>7, <5>1
          <5>3. n \in Sent'
            BY <3>10, <5>2 DEF Sent
          <5>4. QED
            BY <5>3
        <4>2. CASE n \in Sent
          <5>1. PICK i \in 1..Len(sent) : n = sent[i][2]
            BY <1>2, <4>2 DEF Sent
          <5>2. i \in DOMAIN sent' /\ sent'[i][2] = n
            BY <1>1, <1>2, <3>5, <3>6, <3>10, <5>1
          <5>3. QED
            BY <5>2 DEF Sent
        <4>3. QED
          BY <4>1, <4>2 DEF IInv, Accounted
      <3>14. QED
        BY <2>3, <3>12, <3>13 DEF IInv
    <2>6. QED
      BY <2>4, <2>5
  <1>6. QED
    BY <1>4, <1>5

LEMMA StepInv == IInv /\ [Next]_vars => IInv'
  <1> SUFFICES ASSUME IInv, [Next]_vars PROVE IInv'
    OBVIOUS
  <1>1. CASE Notify
    BY <1>1, NotifyStep
  <1>2. ASSUME NEW h \in Handlers, HandlerGo(h) PROVE IInv'
    BY <1>2, DeliverStep DEF HandlerGo
  <1>3. CASE MainStep \/ Signal \/ UNCHANGED vars
    BY <1>3, SameStep DEF MainStep, MainTest, MainWait, SetStop, NotifyStop, Shutdown, Signal, vars
  <1>4. ASSUME NEW h \in Handlers,
               HandlerTest(h) \/ HandlerWait(h) \/ Disconnect(h) \/ SpuriousWake(h)
        PROVE  IInv'
    BY <1>4, SameStep DEF HandlerTest, HandlerWait, Disconnect, SpuriousWake
  <1>5. ASSUME NEW h \in Handlers, NEW s \in Service, Connect(h, s) PROVE IInv'
    BY <1>5, SameStep DEF Connect
  <1>6. QED
    BY <1>1, <1>2, <1>3, <1>4, <1>5 DEF Next, HandlerStep

-----------------------------------------------------------------------------
(* The list and the histories fit together in every state.                 *)
THEOREM Invariance == Spec => []IInv
  BY InitInv, StepInv, PTL DEF Spec

(* However many handlers share the list, a notification is written once    *)
(* and the writes keep the order of the policies' triggers.                *)
THEOREM NotesSentInOrder == Spec => []SentInOrder
  <1>1. IInv => SentInOrder
    BY DEF IInv, SentInv
  <1>2. QED
    BY <1>1, Invariance, PTL

(* The list has no gap, and only MaxSize later notifications push one out. *)
THEOREM NotesAccountedFor == Spec => []NothingVanishes
  <1>1. ASSUME IInv PROVE NothingVanishes
    <2>1. /\ made \in Nat /\ Len(queue) \in Nat /\ Len(queue) <= made
          /\ DOMAIN queue = 1..Len(queue)
          /\ \A i \in 1..Len(queue) : queue[i] = made - Len(queue) + i
      BY <1>1, LenProperties DEF IInv, QueueInv
    <2>2. ASSUME NEW n \in 1..made, n > made - Len(queue)
          PROVE  n \in Range(queue)
      <3>1. n - (made - Len(queue)) \in 1..Len(queue)
        BY <2>1, <2>2
      <3>2. queue[n - (made - Len(queue))] = n
        BY <2>1, <3>1
      <3>3. QED
        BY <2>1, <3>1, <3>2 DEF Range
    <2>3. QED
      BY <1>1, <2>1, <2>2 DEF IInv, Accounted, NothingVanishes
  <1>2. QED
    BY <1>1, Invariance, PTL

=============================================================================
