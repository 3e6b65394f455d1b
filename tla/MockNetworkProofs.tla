------------------------- MODULE MockNetworkProofs -------------------------
(***************************************************************************)
(* Proofs about MockNetwork, for every network of devices, every set of    *)
(* failure knobs and every schedule: its types, that a device keeps what   *)
(* it has acknowledged, that no receiver sleeps beside a reply, and that   *)
(* the transport is a PacketPort.  What is acknowledged, and the wake-up,  *)
(* need the one sender, and the one receiver, that the tests and the       *)
(* client have; both fail with two.                                        *)
(***************************************************************************)
EXTENDS MockNetwork, SelectionProofs, SequenceTheorems, TLAPS

OneSender == \E s \in Senders : Senders = {s}
SingleReceiver == \A r, t \in Receivers : r = t

Handling == {"handle", "save", "reload"}

(* The parts of TypeOK, and what makes them inductive: a device is being    *)
(* asked while its request is handled.                                      *)
MemoryType ==
  /\ work \in [Nodes -> [Params -> Vals]] /\ nvram \in [Nodes -> [Params -> Vals]]
  /\ acked \in [Nodes -> [Params -> Vals]]
  /\ window \in [Nodes -> {"none", "ahead", "past"}]

ControlType ==
  /\ sends \in 0..MaxSends
  /\ pc \in [Senders -> {"idle", "ask", "handle", "save", "reload", "notify"}]
  /\ op \in [Senders -> Seq(Requests)]
  /\ \A s \in Senders : op[s] = <<>> <=> pc[s] = "idle"
  /\ todo \in [Senders -> Seq(Nodes)]
  /\ \A s \in Senders : pc[s] \in Handling => todo[s] # <<>>

RepliesType == replies \in [Senders -> Seq(Replies)]

MailType ==
  /\ timers \subseteq Replies /\ rings \in Nat
  /\ pending \in Seq(Replies) /\ wakeup \in BOOLEAN /\ closed \in BOOLEAN

ReaderType ==
  /\ recv \in [Receivers -> {"idle", "look", "sleep"}] /\ ctx \subseteq Receivers
  /\ out \in Seq(Replies)

Typed == MemoryType /\ ControlType /\ RepliesType /\ MailType /\ ReaderType

-----------------------------------------------------------------------------
(* Data. *)

LEMMA NothingIsConfig == Nothing \in Configs /\ DOMAIN Nothing = {}
<1>1. {} \in SUBSET Params /\ Nothing \in [{} -> Vals]
  BY DEF Nothing
<1>2. QED
  BY <1>1 DEF Configs, Nothing

LEMMA MergeType ==
  ASSUME NEW old \in [Params -> Vals], NEW new \in Configs
  PROVE  Merge(old, new) \in [Params -> Vals]
<1>1. PICK S \in SUBSET Params : new \in [S -> Vals]
  BY DEF Configs
<1>2. \A p \in Params : (IF p \in DOMAIN new THEN new[p] ELSE old[p]) \in Vals
  BY <1>1
<1>3. QED
  BY <1>2 DEF Merge

LEMMA MemoryIsConfig == [Params -> Vals] \subseteq Configs
  BY DEF Configs

(* The request a sender handles, and the device it asks. *)
LEMMA Asked ==
  ASSUME ControlType, NEW s \in Senders, pc[s] # "idle"
  PROVE  Op(s) \in Requests
<1>1. op[s] \in Seq(Requests) /\ op[s] # <<>>
  BY DEF ControlType
<1>2. QED
  BY <1>1, EmptySeq DEF Op

LEMMA AskedDevice ==
  ASSUME ControlType, NEW s \in Senders, todo[s] # <<>>
  PROVE  At(s) \in Nodes /\ Tail(todo[s]) \in Seq(Nodes)
<1>1. todo[s] \in Seq(Nodes)
  BY DEF ControlType
<1>2. QED
  BY <1>1, HeadTailProperties DEF At

-----------------------------------------------------------------------------
(* What the steps of a sender are made of. *)

LEMMA DoneKeeps ==
  ASSUME ControlType, NEW s \in Senders, Done(s), todo[s] # <<>>, pc[s] # "idle",
         op' = op, sends' = sends
  PROVE  ControlType'
<1>1. /\ todo' = [todo EXCEPT ![s] = Tail(@)] /\ pc' = [pc EXCEPT ![s] = "ask"]
  BY DEF Done, Goto
<1>2. todo' \in [Senders -> Seq(Nodes)]
  BY <1>1, AskedDevice DEF ControlType
<1>3. \A t \in Senders : t # s => pc'[t] = pc[t] /\ todo'[t] = todo[t]
  BY <1>1 DEF ControlType
<1>4. pc'[s] = "ask" /\ pc' \in [Senders -> {"idle", "ask", "handle", "save", "reload", "notify"}]
  BY <1>1 DEF ControlType
<1>5. QED
  BY <1>2, <1>3, <1>4 DEF ControlType, Handling

LEMMA GotoKeeps ==
  ASSUME ControlType, NEW s \in Senders, NEW where \in {"ask", "handle", "save", "reload", "notify"},
         Goto(s, where), pc[s] # "idle", where \in Handling => todo[s] # <<>>,
         op' = op, sends' = sends, todo' = todo
  PROVE  ControlType'
<1>1. pc' = [pc EXCEPT ![s] = where]
  BY DEF Goto
<1>2. QED
  BY <1>1 DEF ControlType, Handling

LEMMA AnswersKeeps ==
  ASSUME ControlType, RepliesType, NEW s \in Senders,
         NEW method \in Methods \cup {"Error"}, NEW data \in Configs,
         Answers(s, method, data), pc[s] \in Handling, op' = op, sends' = sends
  PROVE  ControlType' /\ RepliesType'
<1>1. todo[s] # <<>> /\ pc[s] # "idle"
  BY DEF ControlType, Handling
<1>2. ControlType'
  BY <1>1, DoneKeeps DEF Answers
<1> DEFINE r == [n |-> Op(s).n, node |-> At(s), method |-> method, data |-> data]
<1>3. r \in Replies
  <2>1. Op(s).n \in 1..MaxSends
    BY <1>1, Asked DEF Requests
  <2>2. At(s) \in Nodes
    BY <1>1, AskedDevice
  <2>3. QED
    BY <2>1, <2>2 DEF Replies
<1>4. replies' = [replies EXCEPT ![s] = Append(@, r)]
  BY DEF Answers
<1> HIDE DEF r
<1>5. replies \in [Senders -> Seq(Replies)] /\ replies[s] \in Seq(Replies)
  BY DEF RepliesType
<1>6. Append(replies[s], r) \in Seq(Replies)
  BY <1>3, <1>5, AppendProperties
<1>7. RepliesType'
  BY <1>4, <1>5, <1>6 DEF RepliesType
<1>8. QED
  BY <1>2, <1>7

-----------------------------------------------------------------------------
(* The steps of a sender. *)

LEMMA SendTyped ==
  ASSUME ControlType, NEW s \in Senders, Send(s)
  PROVE  ControlType'
<1>1. PICK method \in Methods, d \in Nodes, data \in Writes \cup {Nothing} :
        /\ op' = [op EXCEPT ![s] = <<[n |-> sends', method |-> method, node |-> d, data |-> data]>>]
        /\ todo' = [todo EXCEPT ![s] = IF method = "AdvDisc" THEN Devices ELSE <<d>>]
  BY DEF Send
<1>2. sends' \in 1..MaxSends /\ pc' = [pc EXCEPT ![s] = "ask"] /\ pc[s] = "idle"
  BY BoundAssumption DEF Send, Goto, ControlType
<1>3. data \in Configs
  BY NothingIsConfig, WriteAssumption
<1> DEFINE o == [n |-> sends', method |-> method, node |-> d, data |-> data]
<1>4. o \in Requests
  BY <1>2, <1>3 DEF Requests
<1>5. op' = [op EXCEPT ![s] = <<o>>]
  BY <1>1
<1> HIDE DEF o
<1>6. <<o>> \in Seq(Requests) /\ <<o>> # <<>>
  BY <1>4
<1>7. op' \in [Senders -> Seq(Requests)] /\ op'[s] # <<>>
  BY <1>5, <1>6 DEF ControlType
<1>8. (IF method = "AdvDisc" THEN Devices ELSE <<d>>) \in Seq(Nodes)
  BY DevicesAssumption
<1>9. todo' \in [Senders -> Seq(Nodes)]
  BY <1>1, <1>8 DEF ControlType
<1>10. \A t \in Senders : t # s => pc'[t] = pc[t] /\ todo'[t] = todo[t] /\ op'[t] = op[t]
  BY <1>1, <1>2, <1>5 DEF ControlType
<1>11. pc'[s] = "ask" /\ pc' \in [Senders -> {"idle", "ask", "handle", "save", "reload", "notify"}]
  BY <1>2 DEF ControlType
<1>12. sends' \in 0..MaxSends
  BY <1>2, BoundAssumption
<1>13. QED
  BY <1>7, <1>9, <1>10, <1>11, <1>12 DEF ControlType, Handling

LEMMA ControlTyped ==
  ASSUME MemoryType, ControlType, RepliesType, NEW s \in Senders, SenderStep(s)
  PROVE  ControlType' /\ RepliesType'
<1>1. CASE Ignored(s) \/ Rebooting(s) \/ Drops(s)
  <2>1. todo[s] # <<>> /\ pc[s] # "idle"
    BY <1>1 DEF Ignored, Rebooting, Heard, Drops, Asks, ControlType, Handling
  <2>2. Done(s) /\ op' = op /\ sends' = sends /\ replies' = replies
    BY <1>1 DEF Ignored, Rebooting, Drops
  <2>3. QED
    BY <2>1, <2>2, DoneKeeps DEF RepliesType
<1>2. CASE Awake(s) \/ AppliesSet(s) \/ StartsReboot(s)
  <2>1. /\ pc[s] # "idle" /\ todo[s] # <<>>
        /\ op' = op /\ sends' = sends /\ todo' = todo /\ replies' = replies
    BY <1>2 DEF Awake, Heard, AppliesSet, StartsReboot, Asks, ControlType, Handling
  <2>2. \E where \in {"handle", "save", "reload"} : Goto(s, where)
    BY <1>2 DEF Awake, AppliesSet, StartsReboot
  <2>3. QED
    BY <2>1, <2>2, GotoKeeps DEF RepliesType
<1>3. CASE Refuses(s) \/ AnswersDiscovery(s) \/ Saves(s) \/ Reloads(s)
  <2>1. pc[s] \in Handling /\ op' = op /\ sends' = sends
    BY <1>3 DEF Refuses, AnswersDiscovery, Saves, Reloads, Asks, Handling
  <2>2. \E method \in {"Error", "AdvDisc", "SetData", "Reset"} : Answers(s, method, Nothing)
    BY <1>3 DEF Refuses, AnswersDiscovery, Saves, Reloads
  <2>3. QED
    BY <2>1, <2>2, AnswersKeeps, NothingIsConfig DEF Methods
<1>4. CASE AnswersGet(s)
  <2>1. pc[s] = "handle" /\ op' = op /\ sends' = sends /\ Answers(s, "GetData", work[At(s)])
    BY <1>4 DEF AnswersGet, Asks
  <2>2. todo[s] # <<>>
    BY <2>1 DEF ControlType, Handling
  <2>3. work[At(s)] \in Configs
    BY <2>2, AskedDevice, MemoryIsConfig DEF MemoryType
  <2>4. QED
    BY <2>1, <2>3, AnswersKeeps DEF Methods, Handling
<1>5. CASE StartsTimer(s) \/ Enqueues(s)
  <2>1. /\ pc[s] = "ask" /\ replies[s] # <<>> /\ replies' = [replies EXCEPT ![s] = Tail(@)]
        /\ op' = op /\ sends' = sends /\ todo' = todo
    BY <1>5 DEF StartsTimer, Enqueues, Scheduling
  <2>2. replies[s] \in Seq(Replies) /\ Tail(replies[s]) \in Seq(Replies)
    BY <2>1, HeadTailProperties DEF RepliesType
  <2>3. RepliesType'
    BY <2>1, <2>2 DEF RepliesType
  <2>4. pc' = pc \/ Goto(s, "notify")
    BY <1>5 DEF StartsTimer, Enqueues
  <2>5. ControlType'
    <3>1. CASE pc' = pc
      BY <2>1, <3>1 DEF ControlType
    <3>2. CASE Goto(s, "notify")
      BY <2>1, <3>2, GotoKeeps DEF Handling
    <3>3. QED
      BY <2>4, <3>1, <3>2
  <2>6. QED
    BY <2>3, <2>5
<1>6. CASE Notifies(s)
  <2>1. /\ pc[s] = "notify" /\ Goto(s, "ask") /\ op' = op /\ sends' = sends /\ todo' = todo
        /\ replies' = replies
    BY <1>6 DEF Notifies
  <2>2. QED
    BY <2>1, GotoKeeps DEF RepliesType, Handling
<1>7. CASE SendReturns(s)
  <2>1. /\ pc[s] = "ask" /\ pc' = [pc EXCEPT ![s] = "idle"] /\ op' = [op EXCEPT ![s] = <<>>]
        /\ sends' = sends /\ todo' = todo /\ replies' = replies
    BY <1>7 DEF SendReturns, Goto
  <2>2. op' \in [Senders -> Seq(Requests)]
    BY <2>1, EmptySeq DEF ControlType
  <2>3. QED
    BY <2>1, <2>2 DEF ControlType, RepliesType, Handling
<1>8. QED
  BY <1>1, <1>2, <1>3, <1>4, <1>5, <1>6, <1>7 DEF SenderStep

LEMMA MemoryTyped ==
  ASSUME MemoryType, ControlType, NEW s \in Senders, SenderStep(s)
  PROVE  MemoryType'
<1>1. CASE Awake(s)
  <2>1. At(s) \in Nodes
    BY <1>1, AskedDevice DEF Awake, Heard
  <2>2. QED
    BY <1>1, <2>1 DEF Awake, MemoryType
<1>2. CASE AppliesSet(s) \/ Saves(s)
  <2>1. pc[s] \in Handling
    BY <1>2 DEF AppliesSet, Saves, Asks, Handling
  <2>2. todo[s] # <<>> /\ pc[s] # "idle"
    BY <2>1 DEF ControlType, Handling
  <2>3. At(s) \in Nodes /\ Op(s).data \in Configs
    BY <2>2, AskedDevice, Asked DEF Requests
  <2>4. /\ Merge(work[At(s)], Op(s).data) \in [Params -> Vals]
        /\ Merge(acked[At(s)], Op(s).data) \in [Params -> Vals]
    BY <2>3, MergeType DEF MemoryType
  <2>5. CASE AppliesSet(s)
    BY <2>4, <2>5 DEF AppliesSet, MemoryType
  <2>6. CASE Saves(s)
    BY <2>3, <2>4, <2>6 DEF Saves, MemoryType
  <2>7. QED
    BY <1>2, <2>5, <2>6
<1>3. CASE Reloads(s)
  <2>1. At(s) \in Nodes
    BY <1>3, AskedDevice DEF Reloads, ControlType, Handling
  <2>2. QED
    BY <1>3, <2>1 DEF Reloads, MemoryType
<1>4. CASE StartsReboot(s)
  BY <1>4 DEF StartsReboot, MemoryType
<1>5. CASE \/ Ignored(s) \/ Rebooting(s) \/ Refuses(s) \/ Drops(s) \/ AnswersDiscovery(s)
           \/ AnswersGet(s) \/ StartsTimer(s) \/ Enqueues(s) \/ Notifies(s) \/ SendReturns(s)
  BY <1>5 DEF Ignored, Rebooting, Refuses, Drops, AnswersDiscovery, AnswersGet, StartsTimer,
              Enqueues, Notifies, SendReturns, memory, MemoryType
<1>6. QED
  BY <1>1, <1>2, <1>3, <1>4, <1>5 DEF SenderStep

-----------------------------------------------------------------------------
(* The mailbox and its receivers. *)

LEMMA QueuedTyped ==
  ASSUME MailType, NEW r \in Replies, Queued(r)
  PROVE  pending' \in Seq(Replies)
  BY AppendProperties DEF Queued, MailType

LEMMA MailTyped ==
  ASSUME MailType, RepliesType, NEW s \in Senders, SenderStep(s)
  PROVE  MailType'
<1>1. CASE StartsTimer(s) \/ Enqueues(s)
  <2>1. replies[s] \in Seq(Replies) /\ replies[s] # <<>>
    BY <1>1 DEF StartsTimer, Enqueues, Scheduling, RepliesType
  <2>2. Head(replies[s]) \in Replies
    BY <2>1, HeadTailProperties
  <2>3. CASE StartsTimer(s)
    BY <2>2, <2>3 DEF StartsTimer, mailbox, MailType
  <2>4. CASE Enqueues(s)
    <3>1. pending' \in Seq(Replies)
      BY <2>2, <2>4, QueuedTyped DEF Enqueues
    <3>2. QED
      BY <2>4, <3>1 DEF Enqueues, MailType
  <2>5. QED
    BY <1>1, <2>3, <2>4
<1>2. CASE Notifies(s)
  BY <1>2 DEF Notifies, MailType
<1>3. CASE \/ Ignored(s) \/ Rebooting(s) \/ Awake(s) \/ Refuses(s) \/ Drops(s)
           \/ AnswersDiscovery(s) \/ AnswersGet(s) \/ AppliesSet(s) \/ Saves(s)
           \/ StartsReboot(s) \/ Reloads(s) \/ SendReturns(s)
  BY <1>3 DEF Ignored, Rebooting, Awake, Refuses, Drops, AnswersDiscovery, AnswersGet,
              AppliesSet, Saves, StartsReboot, Reloads, SendReturns, mailbox, MailType
<1>4. QED
  BY <1>1, <1>2, <1>3 DEF SenderStep

(* No sender touches a receiver. *)
LEMMA ReadersLeft ==
  ASSUME NEW s \in Senders, Send(s) \/ SenderStep(s)
  PROVE  UNCHANGED reader
  BY DEF Send, SenderStep, Ignored, Rebooting, Awake, Refuses, Drops, AnswersDiscovery,
         AnswersGet, AppliesSet, Saves, StartsReboot, Reloads, SendReturns, StartsTimer,
         Enqueues, Notifies, reader

LEMMA ReaderTyped ==
  ASSUME MailType, ReaderType, NEW r \in Receivers,
         Recv(r) \/ ReceiverStep(r) \/ RecvCancelled(r) \/ ContextDone(r)
  PROVE  MailType' /\ ReaderType'
<1>1. CASE RecvTakes(r)
  <2>1. Head(pending) \in Replies /\ Tail(pending) \in Seq(Replies)
    BY <1>1, HeadTailProperties DEF RecvTakes, MailType
  <2>2. Append(out, Head(pending)) \in Seq(Replies)
    BY <2>1, AppendProperties DEF ReaderType
  <2>3. QED
    BY <1>1, <2>1, <2>2 DEF RecvTakes, RecvReturns, MailType, ReaderType
<1>2. CASE Recv(r) \/ RecvClosed(r) \/ RecvSleeps(r) \/ RecvCancelled(r) \/ ContextDone(r)
  BY <1>2 DEF Recv, RecvClosed, RecvSleeps, RecvCancelled, ContextDone, RecvReturns, mailbox,
              MailType, ReaderType
<1>3. CASE RecvWakes(r)
  BY <1>3 DEF RecvWakes, MailType, ReaderType
<1>4. QED
  BY <1>1, <1>2, <1>3 DEF ReceiverStep

-----------------------------------------------------------------------------
LEMMA TypedKept ==
  ASSUME Typed, [Next]_vars
  PROVE  Typed'
<1>1. MemoryType /\ ControlType /\ RepliesType /\ MailType /\ ReaderType
  BY DEF Typed
<1>2. ASSUME NEW s \in Senders, Send(s)
      PROVE  Typed'
  <2>1. MemoryType' /\ RepliesType' /\ MailType' /\ ReaderType'
    BY <1>1, <1>2 DEF Send, memory, mailbox, reader, MemoryType, RepliesType, MailType, ReaderType
  <2>2. QED
    BY <1>1, <1>2, <2>1, SendTyped DEF Typed
<1>3. ASSUME NEW s \in Senders, SenderStep(s)
      PROVE  Typed'
  <2>1. ReaderType'
    BY <1>1, <1>3, ReadersLeft DEF reader, ReaderType
  <2>2. QED
    BY <1>1, <1>3, <2>1, ControlTyped, MemoryTyped, MailTyped DEF Typed
<1>4. ASSUME NEW d \in Nodes, WindowCloses(d)
      PROVE  Typed'
  <2>1. MemoryType'
    BY <1>1, <1>4 DEF WindowCloses, MemoryType
  <2>2. ControlType' /\ RepliesType' /\ MailType' /\ ReaderType'
    BY <1>1, <1>4 DEF WindowCloses, sender, mailbox, reader, ControlType, RepliesType, MailType,
                      ReaderType
  <2>3. QED
    BY <2>1, <2>2 DEF Typed
<1>5. CASE (\E r \in timers : TimerFires(r)) \/ Rings \/ Close
  <2>1. MemoryType' /\ ControlType' /\ RepliesType' /\ ReaderType'
    BY <1>1, <1>5 DEF TimerFires, Rings, Close, memory, sender, reader, MemoryType, ControlType,
                      RepliesType, ReaderType
  <2>2. MailType'
    <3>1. ASSUME NEW r \in timers, TimerFires(r)
          PROVE  MailType'
      <4>1. pending' \in Seq(Replies)
        BY <1>1, <3>1, QueuedTyped DEF TimerFires, MailType
      <4>2. QED
        BY <1>1, <3>1, <4>1 DEF TimerFires, MailType
    <3>2. CASE Rings
      BY <1>1, <3>2 DEF Rings, MailType
    <3>3. CASE Close
      BY <1>1, <3>3, EmptySeq DEF Close, MailType
    <3>4. QED
      BY <1>5, <3>1, <3>2, <3>3
  <2>3. QED
    BY <2>1, <2>2 DEF Typed
<1>6. ASSUME NEW r \in Receivers,
             Recv(r) \/ ReceiverStep(r) \/ RecvCancelled(r) \/ ContextDone(r)
      PROVE  Typed'
  <2>1. MemoryType' /\ ControlType' /\ RepliesType'
    BY <1>1, <1>6 DEF Recv, ReceiverStep, RecvClosed, RecvTakes, RecvSleeps, RecvWakes,
                      RecvCancelled, ContextDone, memory, sender, MemoryType, ControlType,
                      RepliesType
  <2>2. QED
    BY <1>1, <1>6, <2>1, ReaderTyped DEF Typed
<1>7. CASE UNCHANGED vars
  BY <1>1, <1>7 DEF vars, Typed, MemoryType, ControlType, RepliesType, MailType, ReaderType
<1>8. QED
  BY <1>2, <1>3, <1>4, <1>5, <1>6, <1>7 DEF Next

LEMMA TypedInit == Init => Typed
<1>1. SUFFICES ASSUME Init PROVE Typed
  OBVIOUS
<1>2. MemoryType
  <2> DEFINE blank == [p \in Params |-> Factory]
  <2>1. blank \in [Params -> Vals]
    BY FactoryAssumption
  <2>2. /\ work = [d \in Nodes |-> blank] /\ nvram = work /\ acked = work
        /\ window = [d \in Nodes |-> "none"]
    BY <1>1 DEF Init
  <2> HIDE DEF blank
  <2>3. QED
    BY <2>1, <2>2 DEF MemoryType
<1>3. ControlType
  <2>1. /\ sends = 0 /\ pc = [s \in Senders |-> "idle"] /\ op = [s \in Senders |-> <<>>]
        /\ todo = [s \in Senders |-> <<>>]
    BY <1>1 DEF Init
  <2>2. <<>> \in Seq(Requests) /\ <<>> \in Seq(Nodes)
    BY EmptySeq
  <2>3. 0 \in 0..MaxSends
    BY BoundAssumption
  <2>4. QED
    BY <2>1, <2>2, <2>3 DEF ControlType, Handling
<1>4. RepliesType /\ MailType /\ ReaderType
  <2>1. <<>> \in Seq(Replies)
    BY EmptySeq
  <2>2. /\ replies = [s \in Senders |-> <<>>] /\ timers = {} /\ rings = 0
        /\ pending = <<>> /\ wakeup = FALSE /\ closed = FALSE
        /\ recv = [r \in Receivers |-> "idle"] /\ ctx = {} /\ out = <<>>
    BY <1>1 DEF Init
  <2>3. QED
    BY <2>1, <2>2 DEF RepliesType, MailType, ReaderType
<1>5. QED
  BY <1>2, <1>3, <1>4 DEF Typed

LEMMA TypedHolds == Spec => []Typed
  BY TypedInit, TypedKept, PTL DEF Spec

(* Every variable keeps its type: a device's memories stay complete, and    *)
(* only well-formed replies are ever scheduled, queued and delivered.       *)
THEOREM TypeCorrect == Spec => []TypeOK
<1>1. Typed => TypeOK
  BY DEF Typed, MemoryType, ControlType, RepliesType, MailType, ReaderType, TypeOK
<1>2. QED
  BY <1>1, TypedHolds, PTL

-----------------------------------------------------------------------------
(* What a device acknowledged is in its NVRAM at any time; it is in the     *)
(* working memory too, where a set that is being saved has got ahead.       *)
Kept(s) ==
  \A d \in Nodes :
    /\ nvram[d] = acked[d]
    /\ work[d] = IF pc[s] = "save" /\ d = At(s) THEN Merge(acked[d], Op(s).data) ELSE acked[d]

LEMMA KeptBySender ==
  ASSUME MemoryType, ControlType, NEW s \in Senders, Kept(s), Send(s) \/ SenderStep(s)
  PROVE  Kept(s)'
<1>1. \A d \in Nodes : nvram[d] = acked[d]
  BY DEF Kept
<1>2. ASSUME UNCHANGED <<work, nvram, acked>>, pc[s] # "save", pc'[s] # "save"
      PROVE  Kept(s)'
  BY <1>2 DEF Kept
<1>3. /\ pc \in [Senders -> {"idle", "ask", "handle", "save", "reload", "notify"}]
      /\ work \in [Nodes -> [Params -> Vals]] /\ nvram \in [Nodes -> [Params -> Vals]]
      /\ acked \in [Nodes -> [Params -> Vals]]
  BY DEF ControlType, MemoryType
<1>4. CASE Send(s)
  BY <1>2, <1>3, <1>4 DEF Send, Goto, memory
<1>5. CASE \/ Ignored(s) \/ Rebooting(s) \/ Refuses(s) \/ Drops(s) \/ AnswersDiscovery(s)
           \/ AnswersGet(s) \/ StartsReboot(s) \/ StartsTimer(s) \/ Enqueues(s)
           \/ Notifies(s) \/ SendReturns(s)
  <2>1. UNCHANGED <<work, nvram, acked>>
    BY <1>5 DEF Ignored, Rebooting, Refuses, Drops, AnswersDiscovery, AnswersGet, StartsReboot,
                StartsTimer, Enqueues, Notifies, SendReturns, memory
  <2>2. pc[s] # "save" /\ pc'[s] # "save"
    BY <1>3, <1>5 DEF Ignored, Rebooting, Heard, Refuses, Drops, AnswersDiscovery, AnswersGet,
                StartsReboot, StartsTimer, Scheduling, Enqueues, Notifies, SendReturns, Asks,
                Answers, Done, Goto
  <2>3. QED
    BY <1>2, <2>1, <2>2
<1>6. CASE Awake(s) \/ Reloads(s)
  <2>1. pc[s] # "save" /\ pc'[s] # "save"
    BY <1>3, <1>6 DEF Awake, Heard, Reloads, Answers, Done, Goto
  <2>2. nvram' = nvram /\ acked' = acked
    BY <1>6 DEF Awake, Reloads
  <2>3. \A d \in Nodes : work[d] = acked[d]
    BY <2>1 DEF Kept
  <2>4. work' = work \/ work' = [work EXCEPT ![At(s)] = nvram[At(s)]]
    BY <1>6 DEF Awake, Reloads
  <2>5. \A d \in Nodes : work'[d] = acked[d]
    BY <1>1, <1>3, <2>3, <2>4
  <2>6. QED
    BY <1>1, <2>1, <2>2, <2>5 DEF Kept
<1>7. CASE AppliesSet(s)
  <2>1. /\ pc[s] = "handle" /\ pc' = [pc EXCEPT ![s] = "save"]
        /\ UNCHANGED <<nvram, acked, op, todo>>
        /\ work' = [work EXCEPT ![At(s)] = Merge(@, Op(s).data)]
    BY <1>7 DEF AppliesSet, Asks, Goto
  <2>2. At(s)' = At(s) /\ Op(s)' = Op(s)
    BY <2>1 DEF At, Op
  <2>3. At(s) \in Nodes
    BY <2>1, AskedDevice DEF ControlType, Handling
  <2>4. \A d \in Nodes : work[d] = acked[d]
    BY <2>1 DEF Kept
  <2>5. \A d \in Nodes : work'[d] = IF d = At(s) THEN Merge(acked[d], Op(s).data) ELSE acked[d]
    BY <1>3, <2>1, <2>3, <2>4
  <2>6. pc'[s] = "save"
    BY <1>3, <2>1
  <2>7. QED
    BY <1>1, <2>1, <2>2, <2>5, <2>6 DEF Kept
<1>8. CASE Saves(s)
  <2>1. /\ pc[s] = "save" /\ work' = work
        /\ nvram' = [nvram EXCEPT ![At(s)] = work[At(s)]]
        /\ acked' = [acked EXCEPT ![At(s)] = Merge(@, Op(s).data)]
    BY <1>8 DEF Saves
  <2>2. pc'[s] = "ask"
    BY <1>3, <1>8 DEF Saves, Answers, Done, Goto
  <2>3. \A d \in Nodes : work[d] = IF d = At(s) THEN Merge(acked[d], Op(s).data) ELSE acked[d]
    BY <2>1 DEF Kept
  <2>4. \A d \in Nodes : nvram'[d] = acked'[d] /\ work'[d] = acked'[d]
    BY <1>1, <1>3, <2>1, <2>3
  <2>5. QED
    BY <2>2, <2>4 DEF Kept
<1>9. QED
  BY <1>4, <1>5, <1>6, <1>7, <1>8 DEF SenderStep

(* With one sender, as the tests and the mock's serve loop have it, an      *)
(* acknowledged set survives every reset, reboot and refused request that   *)
(* follows (handlers.go:151-169, device.go:161-217).                        *)
THEOREM AckedIsKept == ASSUME OneSender PROVE Spec => []AckedSurvives
<1> DEFINE K == \A s \in Senders : Kept(s)
<1>1. Init => K
  BY DEF Init, Kept
<1>2. ASSUME Typed, K, [Next]_vars
      PROVE  K'
  <2>1. SUFFICES ASSUME NEW s \in Senders PROVE Kept(s)'
    OBVIOUS
  <2>2. Kept(s) /\ MemoryType /\ ControlType
    BY <1>2 DEF Typed
  <2>3. CASE \E t \in Senders : Send(t) \/ SenderStep(t)
    BY <2>2, <2>3, KeptBySender DEF OneSender
  <2>4. CASE ~\E t \in Senders : Send(t) \/ SenderStep(t)
    <3>1. UNCHANGED <<work, nvram, acked, pc, op, todo>>
      BY <1>2, <2>4 DEF Next, WindowCloses, TimerFires, Rings, Close, Recv, ReceiverStep,
                        RecvClosed, RecvTakes, RecvSleeps, RecvWakes, RecvCancelled,
                        ContextDone, memory, sender, vars
    <3>2. QED
      BY <2>2, <3>1 DEF Kept, At, Op
  <2>5. QED
    BY <2>3, <2>4
<1>3. Typed /\ K => AckedSurvives
  <2>1. SUFFICES ASSUME Typed, K, NEW s \in Senders, todo[s] = <<>>
                 PROVE  \A d \in Nodes : work[d] = acked[d] /\ nvram[d] = acked[d]
    BY DEF OneSender, AckedSurvives
  <2>2. pc[s] # "save"
    BY <2>1 DEF Typed, ControlType, Handling
  <2>3. QED
    BY <2>1, <2>2 DEF Kept
<1>4. QED
  BY <1>1, <1>2, <1>3, TypedHolds, PTL DEF Spec

-----------------------------------------------------------------------------
(* The wake-up channel. *)

LEMMA WakefulKept ==
  ASSUME SingleReceiver, Typed, NoLostWakeup, Next
  PROVE  NoLostWakeup'
<1>1. /\ pc \in [Senders -> {"idle", "ask", "handle", "save", "reload", "notify"}]
      /\ rings \in Nat /\ recv \in [Receivers -> {"idle", "look", "sleep"}]
  BY DEF Typed, ControlType, MailType, ReaderType
<1>2. CASE \E s \in Senders : Enqueues(s)
  <2>1. PICK s \in Senders : Enqueues(s)
    BY <1>2
  <2>2. /\ UNCHANGED <<wakeup, rings, closed, recv>> /\ pc[s] = "ask"
        /\ IF closed THEN pending' = pending /\ pc' = pc ELSE pc'[s] = "notify"
    BY <1>1, <2>1 DEF Enqueues, Scheduling, Queued, Goto, reader
  <2>3. QED
    BY <2>2 DEF NoLostWakeup
<1>3. CASE (\E s \in Senders : Notifies(s)) \/ Rings
  <2>1. wakeup'
    BY <1>3 DEF Notifies, Rings
  <2>2. QED
    BY <2>1 DEF NoLostWakeup
<1>4. CASE (\E r \in timers : TimerFires(r)) \/ Close
  <2>1. /\ UNCHANGED <<wakeup, pc, recv>>
        /\ \/ rings' > 0
           \/ closed /\ UNCHANGED <<closed, pending, rings>>
    BY <1>1, <1>4 DEF TimerFires, Queued, Close, sender, reader
  <2>2. QED
    BY <2>1 DEF NoLostWakeup
<1>5. CASE \E s \in Senders : Send(s) \/ (SenderStep(s) /\ ~Enqueues(s) /\ ~Notifies(s))
  <2>1. PICK s \in Senders : Send(s) \/ (SenderStep(s) /\ ~Enqueues(s) /\ ~Notifies(s))
    BY <1>5
  <2>2. UNCHANGED <<pending, closed, wakeup, rings, recv>>
    BY <2>1 DEF Send, SenderStep, Ignored, Rebooting, Awake, Refuses, Drops, AnswersDiscovery,
                AnswersGet, AppliesSet, Saves, StartsReboot, Reloads, StartsTimer,
                SendReturns, mailbox, reader
  <2>3. pc' = pc \/ \E where : Goto(s, where)
    BY <2>1 DEF Send, SenderStep, Ignored, Rebooting, Awake, Refuses, Drops, AnswersDiscovery,
                AnswersGet, AppliesSet, Saves, StartsReboot, Reloads, StartsTimer,
                SendReturns, Answers, Done
  <2>4. pc[s] # "notify"
    BY <2>1 DEF Send, SenderStep, Ignored, Rebooting, Awake, Heard, Refuses, Drops,
                AnswersDiscovery, AnswersGet, AppliesSet, Saves, StartsReboot, Reloads,
                StartsTimer, SendReturns, Scheduling, Asks
  <2>5. \A t \in Senders : pc[t] = "notify" => pc'[t] = "notify"
    BY <1>1, <2>3, <2>4 DEF Goto
  <2>6. QED
    BY <2>2, <2>5 DEF NoLostWakeup
<1>6. CASE \E d \in Nodes : WindowCloses(d)
  BY <1>6 DEF WindowCloses, sender, mailbox, reader, NoLostWakeup
<1>7. CASE \E r \in Receivers : Recv(r) \/ ReceiverStep(r) \/ RecvCancelled(r) \/ ContextDone(r)
  <2>1. PICK r \in Receivers : Recv(r) \/ ReceiverStep(r) \/ RecvCancelled(r) \/ ContextDone(r)
    BY <1>7
  <2>2. CASE RecvSleeps(r)
    BY <2>2 DEF RecvSleeps, mailbox, NoLostWakeup
  <2>3. CASE ContextDone(r)
    BY <2>3 DEF ContextDone, sender, mailbox, NoLostWakeup
  <2>4. CASE Recv(r) \/ RecvClosed(r) \/ RecvTakes(r) \/ RecvWakes(r) \/ RecvCancelled(r)
    <3>1. recv'[r] # "sleep"
      BY <1>1, <2>4 DEF Recv, RecvClosed, RecvTakes, RecvWakes, RecvCancelled, RecvReturns
    <3>2. ~\E t \in Receivers : recv'[t] = "sleep"
      BY <3>1 DEF SingleReceiver
    <3>3. QED
      BY <3>2 DEF NoLostWakeup
  <2>5. QED
    BY <2>1, <2>2, <2>3, <2>4 DEF ReceiverStep
<1>8. QED
  BY <1>2, <1>3, <1>4, <1>5, <1>6, <1>7 DEF Next

(* With one receiver, as the client has it, the one token is enough: as     *)
(* long as a reply is pending or the transport is closed, a receiver that   *)
(* sleeps is about to be woken, for any number of senders and timers        *)
(* (mocksbr/transport.go:74-130).                                           *)
THEOREM WakesUp == ASSUME SingleReceiver PROVE Spec => []NoLostWakeup
<1>1. Init => NoLostWakeup
  BY DEF Init, NoLostWakeup
<1>2. Typed /\ NoLostWakeup /\ [Next]_vars => NoLostWakeup'
  <2>1. CASE UNCHANGED vars
    BY <2>1 DEF vars, NoLostWakeup
  <2>2. QED
    BY <2>1, WakefulKept
<1>3. QED
  BY <1>1, <1>2, TypedHolds, PTL DEF Spec

-----------------------------------------------------------------------------
(* The reboot window: a request is handled by a device that was awake, and  *)
(* only the handling of a reset puts it to sleep.                           *)
AwakeInside(s) ==
  /\ pc[s] \in {"handle", "save"} => window[At(s)] # "ahead"
  /\ pc[s] = "reload" => Op(s).method = "Reset"

LEMMA AwakeBySender ==
  ASSUME MemoryType, ControlType, NEW s \in Senders, AwakeInside(s), Send(s) \/ SenderStep(s)
  PROVE  AwakeInside(s)'
<1>1. /\ pc \in [Senders -> {"idle", "ask", "handle", "save", "reload", "notify"}]
      /\ window \in [Nodes -> {"none", "ahead", "past"}]
  BY DEF ControlType, MemoryType
<1>2. CASE Awake(s)
  <2>1. /\ pc' = [pc EXCEPT ![s] = "handle"] /\ todo' = todo /\ At(s) \in Nodes
        /\ window[At(s)] # "ahead"
        /\ window' = window \/ window' = [window EXCEPT ![At(s)] = "none"]
    BY <1>2, AskedDevice DEF Awake, Heard, Goto
  <2>2. At(s)' = At(s)
    BY <2>1 DEF At
  <2>3. window'[At(s)] # "ahead" /\ pc'[s] = "handle"
    BY <1>1, <2>1
  <2>4. QED
    BY <2>2, <2>3 DEF AwakeInside
<1>3. CASE AppliesSet(s)
  <2>1. pc[s] = "handle" /\ pc'[s] = "save" /\ todo' = todo /\ window' = window
    BY <1>1, <1>3 DEF AppliesSet, Asks, Goto
  <2>2. QED
    BY <2>1 DEF AwakeInside, At
<1>4. CASE StartsReboot(s)
  <2>1. pc'[s] = "reload" /\ op' = op /\ Op(s).method = "Reset"
    BY <1>1, <1>4 DEF StartsReboot, Asks, Goto
  <2>2. QED
    BY <2>1 DEF AwakeInside, Op
<1>5. CASE \/ Send(s) \/ Ignored(s) \/ Rebooting(s) \/ Refuses(s) \/ Drops(s)
           \/ AnswersDiscovery(s) \/ AnswersGet(s) \/ Saves(s) \/ Reloads(s)
           \/ StartsTimer(s) \/ Enqueues(s) \/ Notifies(s) \/ SendReturns(s)
  <2>1. pc'[s] \in {"idle", "ask", "notify"}
    BY <1>1, <1>5 DEF Send, Ignored, Rebooting, Refuses, Drops, AnswersDiscovery, AnswersGet,
                      Saves, Reloads, StartsTimer, Enqueues, Notifies, SendReturns,
                      Scheduling, Answers, Done, Goto
  <2>2. QED
    BY <2>1 DEF AwakeInside
<1>6. QED
  BY <1>2, <1>3, <1>4, <1>5 DEF SenderStep

(* Whoever adds a reply while its device reboots is handling the reset.     *)
LEMMA OnlyTheReset ==
  ASSUME ControlType, NEW s \in Senders, AwakeInside(s), SenderStep(s),
         replies'[s] # replies[s], todo[s] # <<>>, window[At(s)] = "ahead"
  PROVE  Op(s).method = "Reset"
<1>1. \/ Refuses(s) \/ AnswersDiscovery(s) \/ AnswersGet(s) \/ Saves(s) \/ Reloads(s)
  BY DEF SenderStep, Ignored, Rebooting, Awake, Drops, AppliesSet, StartsReboot, StartsTimer,
         Enqueues, Notifies, SendReturns, Scheduling
<1>2. pc[s] \in Handling
  BY <1>1 DEF Refuses, AnswersDiscovery, AnswersGet, Saves, Reloads, Asks, Handling
<1>3. QED
  BY <1>2 DEF AwakeInside, Handling

(* With one sender, a device in its reboot window answers nothing but the   *)
(* reset that opened it, although rebooting() is asked, and its lock        *)
(* released, before the handler runs (handlers.go:121-148, device.go:201-   *)
(* 217).                                                                    *)
THEOREM SilentWhileRebooting == ASSUME OneSender PROVE Spec => SilentInWindow
<1> DEFINE A == \A s \in Senders : AwakeInside(s)
<1>1. Init => A
  BY DEF Init, AwakeInside
<1>2. ASSUME Typed, A, [Next]_vars
      PROVE  A'
  <2>1. SUFFICES ASSUME NEW s \in Senders PROVE AwakeInside(s)'
    OBVIOUS
  <2>2. AwakeInside(s) /\ MemoryType /\ ControlType
    BY <1>2 DEF Typed
  <2>3. CASE \E t \in Senders : Send(t) \/ SenderStep(t)
    BY <2>2, <2>3, AwakeBySender DEF OneSender
  <2>4. CASE ~\E t \in Senders : Send(t) \/ SenderStep(t)
    <3>1. UNCHANGED <<pc, op, todo>>
      BY <1>2, <2>4 DEF Next, WindowCloses, TimerFires, Rings, Close, Recv, ReceiverStep,
                        RecvClosed, RecvTakes, RecvSleeps, RecvWakes, RecvCancelled,
                        ContextDone, sender, vars
    <3>2. \A d \in Nodes : window'[d] = "ahead" => window[d] = "ahead"
      BY <1>2, <2>2, <2>4 DEF Next, WindowCloses, TimerFires, Rings, Close, Recv, ReceiverStep,
                        RecvClosed, RecvTakes, RecvSleeps, RecvWakes, RecvCancelled,
                        ContextDone, memory, vars, MemoryType
    <3>3. pc[s] \in {"handle", "save"} => At(s) \in Nodes
      BY <2>2, AskedDevice DEF ControlType, Handling
    <3>4. At(s)' = At(s) /\ Op(s)' = Op(s)
      BY <3>1 DEF At, Op
    <3>5. QED
      BY <2>2, <3>1, <3>2, <3>3, <3>4 DEF AwakeInside
  <2>5. QED
    BY <2>3, <2>4
<1>3. ASSUME Typed, A, [Next]_vars, NEW s \in Senders,
             replies'[s] # replies[s], todo[s] # <<>>, window[At(s)] = "ahead"
      PROVE  Op(s).method = "Reset"
  <2>1. SenderStep(s)
    BY <1>3 DEF OneSender, Next, Send, WindowCloses, TimerFires, Rings, Close, Recv, ReceiverStep,
                RecvClosed, RecvTakes, RecvSleeps, RecvWakes, RecvCancelled, ContextDone,
                sender, vars
  <2>2. QED
    BY <1>3, <2>1, OnlyTheReset DEF Typed
<1>4. Typed /\ A /\ [Next]_vars =>
        [\A s \in Senders :
           replies'[s] # replies[s] /\ todo[s] # <<>> /\ window[At(s)] = "ahead"
             => Op(s).method = "Reset"]_vars
  BY <1>3
<1>5. QED
  BY <1>1, <1>2, <1>4, TypedHolds, PTL DEF Spec, SilentInWindow

-----------------------------------------------------------------------------
(* The port: by link, what is queued and the reply that waits for its timer.*)

NameOf == [r \in Replies |-> Name(r)]

LEMMA NameTyped ==
  ASSUME NEW r \in Replies
  PROVE  /\ Name(r) \in Names /\ NameOf[r] = Name(r)
         /\ Name(r)[1] = r.n /\ Name(r)[2] = r.node
BY DEF Replies, Name, Names, NameOf

LEMMA NamedIs ==
  ASSUME NEW m \in Seq(Replies)
  PROVE  Named(m) = Renamed(NameOf, m) /\ Named(m) \in Seq(Names)
<1>1. \A i \in DOMAIN m : m[i] \in Replies
  BY ElementOfSeq, LenProperties
<1>2. Named(m) = Renamed(NameOf, m)
  BY <1>1, NameTyped DEF Named, Renamed
<1>3. NameOf \in [Replies -> Names]
  BY NameTyped DEF NameOf
<1>4. Renamed(NameOf, m) \in Seq(Names)
  BY <1>3, RenamedShape
<1>5. QED
  BY <1>2, <1>4

LEMMA NamedGrows ==
  ASSUME NEW m \in Seq(Replies), NEW r \in Replies
  PROVE  Named(Append(m, r)) = Append(Named(m), Name(r))
<1>1. Append(m, r) \in Seq(Replies)
  BY AppendProperties
<1>2. NameOf \in [Replies -> Names]
  BY NameTyped DEF NameOf
<1>3. Renamed(NameOf, Append(m, r)) = Append(Renamed(NameOf, m), NameOf[r])
  BY <1>2, RenamedAppend
<1>4. Named(m) = Renamed(NameOf, m) /\ Named(Append(m, r)) = Renamed(NameOf, Append(m, r))
  BY <1>1, NamedIs
<1>5. QED
  BY <1>3, <1>4, NameTyped

LEMMA NamedShrinks ==
  ASSUME NEW m \in Seq(Replies), m # <<>>
  PROVE  /\ Named(m) # <<>> /\ Head(Named(m)) = Name(Head(m)) /\ Head(m) \in Replies
         /\ Tail(Named(m)) = Named(Tail(m)) /\ Tail(m) \in Seq(Replies)
<1>1. Head(m) \in Replies /\ Tail(m) \in Seq(Replies)
  BY HeadTailProperties
<1>2. NameOf \in [Replies -> Names]
  BY NameTyped DEF NameOf
<1>3. /\ Renamed(NameOf, m) # <<>>
      /\ Head(Renamed(NameOf, m)) = NameOf[Head(m)]
      /\ Tail(Renamed(NameOf, m)) = Renamed(NameOf, Tail(m))
  BY <1>2, RenamedTail
<1>4. Named(m) = Renamed(NameOf, m) /\ Named(Tail(m)) = Renamed(NameOf, Tail(m))
  BY <1>1, NamedIs
<1>5. QED
  BY <1>1, <1>3, <1>4, NameTyped

LEMMA QueueGrows ==
  ASSUME NEW l, NEW m \in Seq(Names), NEW e \in Names
  PROVE  Queue(l, Append(m, e)) = IF Link(e) = l THEN Append(Queue(l, m), e) ELSE Queue(l, m)
<1>1. e \in {name \in Names : Link(name) = l} <=> Link(e) = l
  OBVIOUS
<1>2. \A X : Selected(Append(m, e), X) = IF e \in X THEN Append(Selected(m, X), e) ELSE Selected(m, X)
  BY SelectedAppend
<1>3. QED
  BY <1>1, <1>2 DEF Queue

LEMMA QueueShrinks ==
  ASSUME NEW l, NEW m \in Seq(Names), m # <<>>
  PROVE  /\ Link(Head(m)) # l => Queue(l, Tail(m)) = Queue(l, m)
         /\ Link(Head(m)) = l => /\ Queue(l, m) # <<>> /\ Head(Queue(l, m)) = Head(m)
                                 /\ Tail(Queue(l, m)) = Queue(l, Tail(m))
<1>1. Head(m) \in Names
  BY HeadTailProperties
<1>2. Head(m) \in {name \in Names : Link(name) = l} <=> Link(Head(m)) = l
  BY <1>1
<1>3. \A X : /\ Head(m) \notin X => Selected(Tail(m), X) = Selected(m, X)
             /\ Head(m) \in X => /\ Selected(m, X) # <<>> /\ Head(Selected(m, X)) = Head(m)
                                 /\ Tail(Selected(m, X)) = Selected(Tail(m), X)
  BY SelectedTail
<1>4. QED
  BY <1>2, <1>3 DEF Queue

LEMMA QueueType ==
  ASSUME NEW l, NEW m \in Seq(Names)
  PROVE  /\ Queue(l, m) \in Seq(Names) /\ Queue(l, <<>>) = <<>>
         /\ \A i \in 1..Len(Queue(l, m)) : Link(Queue(l, m)[i]) = l
<1> DEFINE X == {name \in Names : Link(name) = l}
<1>1. Selected(m, X) \in Seq(X \cap Names)
  BY SelectedShape
<1>2. X \cap Names = X /\ Seq(X) \subseteq Seq(Names)
  <2>1. X \subseteq Names
    OBVIOUS
  <2>2. QED
    BY <2>1, SeqMonotonic
<1>3. Queue(l, m) \in Seq(X)
  BY <1>1, <1>2 DEF Queue
<1>4. \A i \in 1..Len(Queue(l, m)) : Queue(l, m)[i] \in X
  BY <1>3, ElementOfSeq
<1>5. Queue(l, <<>>) = <<>>
  BY SelectedNone DEF Queue
<1>6. QED
  BY <1>2, <1>3, <1>4, <1>5

(* Only the replies of slow devices wait for a timer.                       *)
LateSlow == \A r \in timers : r.node \in Slow

LEMMA LateSlowKept ==
  ASSUME LateSlow, [Next]_vars
  PROVE  LateSlow'
<1>1. CASE \E s \in Senders : StartsTimer(s)
  BY <1>1 DEF StartsTimer, LateSlow
<1>2. CASE \E r \in timers : TimerFires(r)
  BY <1>2 DEF TimerFires, LateSlow
<1>3. CASE ~(\E s \in Senders : StartsTimer(s)) /\ ~(\E r \in timers : TimerFires(r))
  <2>1. timers' = timers
    BY <1>3 DEF Next, Send, SenderStep, Ignored, Rebooting, Awake, Refuses, Drops,
                AnswersDiscovery, AnswersGet, AppliesSet, Saves, StartsReboot, Reloads,
                Enqueues, Notifies, SendReturns, WindowCloses, Rings, Close, Recv, ReceiverStep,
                RecvClosed, RecvTakes, RecvSleeps, RecvWakes, RecvCancelled, ContextDone, vars
  <2>2. QED
    BY <2>1 DEF LateSlow
<1>4. QED
  BY <1>1, <1>2, <1>3

LEMMA LinkTyped ==
  ASSUME NEW e \in Names
  PROVE  /\ Link(e) \in Links
         /\ e[2] \in Slow => Link(e) = e
         /\ e[2] \notin Slow => Link(e) = <<0, e[2]>>
BY DEF Names, Link, Links

(* On the link of a slow device there is one reply.                         *)
LEMMA AloneOnLink ==
  ASSUME NEW e \in Names, e[2] \in Slow, NEW f \in Names, Link(f) = Link(e)
  PROVE  f = e
<1>1. e = <<e[1], e[2]>> /\ f = <<f[1], f[2]>>
  BY DEF Names
<1>2. QED
  BY <1>1, LinkTyped

LEMMA OwedType ==
  ASSUME MailType, LateSlow, NEW l \in Links
  PROVE  /\ Named(pending) \in Seq(Names) /\ Queue(l, Named(pending)) \in Seq(Names)
         /\ Late(l) \in Seq(Names) /\ Owed(l) \in Seq(Names)
<1>1. Named(pending) \in Seq(Names)
  BY NamedIs DEF MailType
<1>2. Queue(l, Named(pending)) \in Seq(Names)
  BY <1>1, QueueType
<1>3. Late(l) \in Seq(Names)
  <2>1. CASE \E r \in timers : Link(Name(r)) = l
    <3>1. PICK r \in timers : Link(Name(r)) = l
      BY <2>1
    <3>2. r \in Replies /\ r.node \in Slow
      BY DEF MailType, LateSlow
    <3>3. l \in Names
      BY <3>1, <3>2, NameTyped, LinkTyped
    <3>4. <<l>> \in Seq(Names)
      BY <3>3
    <3>5. QED
      BY <2>1, <3>4 DEF Late
  <2>2. CASE ~\E r \in timers : Link(Name(r)) = l
    BY <2>2, EmptySeq DEF Late
  <2>3. QED
    BY <2>1, <2>2
<1>4. QED
  BY <1>1, <1>2, <1>3, ConcatProperties DEF Owed

LEMMA OwedKept ==
  ASSUME NEW l \in Links, Queue(l, Named(pending))' = Queue(l, Named(pending)), Late(l)' = Late(l)
  PROVE  Owed(l)' = Owed(l)
BY DEF Owed

LEMMA PortStutters ==
  ASSUME \A l \in Links : Owed(l)' = Owed(l), UNCHANGED <<out, closed>>
  PROVE  UNCHANGED Port!portVars
BY DEF Port!portVars

LEMMA PortStays ==
  ASSUME UNCHANGED <<pending, timers, out, closed>>
  PROVE  UNCHANGED Port!portVars
<1>1. ASSUME NEW l \in Links
      PROVE  Owed(l)' = Owed(l)
  BY DEF Owed, Late
<1>2. QED
  BY <1>1, PortStutters

(* A reply that is queued, and one whose timer is started, arrive on their  *)
(* link; a timer that fires moves one from Late to Queue.                   *)
LEMMA PortArrives ==
  ASSUME MailType, LateSlow, UNCHANGED <<out, closed>>, NEW l \in Links, NEW name \in Names,
         \A d \in Links \ {l} : Owed(d)' = Owed(d), Owed(l)' = Append(Owed(l), name)
  PROVE  Port!Next
<1>1. [d \in Links |-> Owed(d)]' = [[d \in Links |-> Owed(d)] EXCEPT ![l] = Append(@, name)]
  OBVIOUS
<1>2. Port!Arrive(l)
  BY <1>1 DEF Port!Arrive
<1>3. Owed(l) \in Seq(Names)
  BY OwedType
<1>4. Len(Append(Owed(l), name)) = Len(Owed(l)) + 1 /\ Len(Owed(l)) \in Nat
  BY <1>3, AppendProperties, LenProperties
<1>5. Owed(l)' # Owed(l)
  BY <1>4
<1>6. QED
  BY <1>2, <1>5 DEF Port!Next

LEMMA PortTimer ==
  ASSUME MailType, RepliesType, LateSlow, NEW s \in Senders, StartsTimer(s)
  PROVE  Port!Next \/ UNCHANGED Port!portVars
<1>1. PICK r : r = Head(replies[s])
  OBVIOUS
<1>2. /\ r \in Replies /\ r.node \in Slow /\ timers' = timers \cup {r}
      /\ UNCHANGED <<pending, out, closed>>
  <2>1. replies[s] \in Seq(Replies) /\ replies[s] # <<>>
    BY DEF StartsTimer, Scheduling, RepliesType
  <2>2. QED
    BY <1>1, <2>1, HeadTailProperties DEF StartsTimer, mailbox, reader
<1>3. PICK l : l = Name(r)
  OBVIOUS
<1>4. l \in Names /\ l \in Links /\ Link(Name(r)) = l
  BY <1>2, <1>3, NameTyped, LinkTyped
<1>5. ASSUME NEW d \in Links \ {l}
      PROVE  Owed(d)' = Owed(d)
  <2>1. Late(d)' = Late(d)
    BY <1>2, <1>4 DEF Late
  <2>2. QED
    BY <1>2, <2>1, OwedKept
<1>6. CASE Late(l)' = Late(l)
  <2>1. Owed(l)' = Owed(l)
    BY <1>2, <1>4, <1>6, OwedKept
  <2>2. QED
    BY <1>2, <1>5, <2>1, PortStutters
<1>7. CASE Late(l)' # Late(l)
  <2>1. Late(l)' = <<l>> /\ Late(l) = <<>>
    BY <1>2, <1>4, <1>7 DEF Late
  <2>2. PICK Q : Q = Queue(l, Named(pending))
    OBVIOUS
  <2>3. Q \in Seq(Names)
    BY <1>4, <2>2, OwedType
  <2>4. Owed(l) = Q \o <<>> /\ Owed(l)' = Q \o <<l>>
    <3>1. Queue(l, Named(pending))' = Q
      BY <1>2, <2>2
    <3>2. QED
      BY <2>1, <2>2, <3>1 DEF Owed
  <2>5. Q \o <<>> = Q /\ Q \o <<l>> = Append(Q, l)
    BY <1>4, <2>3, ConcatEmptySeq, AppendIsConcat
  <2>6. Owed(l)' = Append(Owed(l), l)
    BY <2>4, <2>5
  <2>7. QED
    BY <1>2, <1>4, <1>5, <2>6, PortArrives
<1>8. QED
  BY <1>6, <1>7

LEMMA PortEnqueues ==
  ASSUME MailType, RepliesType, LateSlow, NEW s \in Senders, Enqueues(s)
  PROVE  Port!Next \/ UNCHANGED Port!portVars
<1>1. PICK r : r = Head(replies[s])
  OBVIOUS
<1>2. /\ r \in Replies /\ r.node \notin Slow /\ Queued(r)
      /\ UNCHANGED <<timers, out, closed>>
  <2>1. replies[s] \in Seq(Replies) /\ replies[s] # <<>>
    BY DEF Enqueues, Scheduling, RepliesType
  <2>2. QED
    BY <1>1, <2>1, HeadTailProperties DEF Enqueues, reader
<1>3. CASE closed
  BY <1>2, <1>3, PortStays DEF Queued
<1>4. CASE ~closed
  <2>1. PICK l : l = Link(Name(r))
    OBVIOUS
  <2>2. Name(r) \in Names /\ l \in Links /\ l = <<0, r.node>>
    BY <1>2, <2>1, NameTyped, LinkTyped
  <2>3. Named(pending) \in Seq(Names) /\ Named(pending)' = Append(Named(pending), Name(r))
    BY <1>2, <1>4, NamedIs, NamedGrows DEF Queued, MailType
  <2>4. \A d \in Links : Queue(d, Named(pending))' = IF l = d THEN Append(Queue(d, Named(pending)), Name(r))
                                                     ELSE Queue(d, Named(pending))
    <3>1. \A d : Queue(d, Append(Named(pending), Name(r)))
                   = IF Link(Name(r)) = d THEN Append(Queue(d, Named(pending)), Name(r))
                     ELSE Queue(d, Named(pending))
      BY <2>2, <2>3, QueueGrows
    <3>2. \A d \in Links : Queue(d, Named(pending))' = Queue(d, Append(Named(pending), Name(r)))
      BY <2>3
    <3>3. QED
      BY <2>1, <3>1, <3>2
  <2>5. \A d \in Links : Late(d)' = Late(d)
    BY <1>2 DEF Late
  <2>6. \A d \in Links \ {l} : Owed(d)' = Owed(d)
    BY <2>4, <2>5, OwedKept
  <2>7. Late(l) = <<>>
    <3>1. SUFFICES ASSUME NEW t \in timers, Link(Name(t)) = l PROVE FALSE
      BY DEF Late
    <3>2. t \in Replies /\ t.node \in Slow
      BY DEF MailType, LateSlow
    <3>3. l = <<t.n, t.node>>
      BY <3>1, <3>2, NameTyped, LinkTyped DEF Name
    <3>4. QED
      BY <1>2, <2>2, <3>2, <3>3
  <2>8. PICK Q : Q = Queue(l, Named(pending))
    OBVIOUS
  <2>9. Q \in Seq(Names) /\ Append(Q, Name(r)) \in Seq(Names)
    BY <2>2, <2>8, OwedType, AppendProperties
  <2>10. Owed(l) = Q \o <<>> /\ Owed(l)' = Append(Q, Name(r)) \o <<>>
    <3>1. Queue(l, Named(pending))' = Append(Q, Name(r)) /\ Late(l)' = <<>>
      BY <2>2, <2>4, <2>5, <2>7, <2>8
    <3>2. QED
      BY <2>7, <2>8, <3>1 DEF Owed
  <2>11. Owed(l)' = Append(Owed(l), Name(r))
    BY <2>9, <2>10, ConcatEmptySeq
  <2>12. QED
    BY <1>2, <2>2, <2>6, <2>11, PortArrives
<1>5. QED
  BY <1>3, <1>4

(* What Close, and a timer that fires after it, lose is the end of a queue. *)
LEMMA PortCut ==
  ASSUME MailType, LateSlow, NEW links \in SUBSET Links,
         \A d \in Links : \/ Owed(d)' = Owed(d)
                          \/ d \in links /\ \E n \in 0..Len(Owed(d)) : Owed(d)' = SubSeq(Owed(d), 1, n)
  PROVE  Port!Cut(links)
<1>1. ASSUME NEW d \in Links
      PROVE  \E n \in 0..Len(Owed(d)) :
               Owed(d)' = SubSeq(Owed(d), 1, n) /\ (d \notin links => n = Len(Owed(d)))
  <2>1. Owed(d) \in Seq(Names) /\ Len(Owed(d)) \in 0..Len(Owed(d))
    BY OwedType, LenProperties
  <2>2. CASE Owed(d)' = Owed(d)
    <3>1. SubSeq(Owed(d), 1, Len(Owed(d))) = Owed(d)
      BY <2>1, SubSeqFull
    <3>2. QED
      BY <2>1, <2>2, <3>1
  <2>3. CASE Owed(d)' # Owed(d)
    BY <2>3
  <2>4. QED
    BY <2>2, <2>3
<1>2. QED
  BY <1>1 DEF Port!Cut

LEMMA PortFires ==
  ASSUME MailType, LateSlow, NEW r \in timers, TimerFires(r)
  PROVE  Port!Next \/ UNCHANGED Port!portVars
<1>1. /\ r \in Replies /\ r.node \in Slow /\ timers' = timers \ {r} /\ Queued(r)
      /\ UNCHANGED <<out, closed>>
  BY DEF TimerFires, reader, MailType, LateSlow
<1>2. PICK l : l = Name(r)
  OBVIOUS
<1>3. l \in Names /\ l \in Links /\ Link(Name(r)) = l
  BY <1>1, <1>2, NameTyped, LinkTyped
<1>4. PICK Q : Q = Queue(l, Named(pending))
  OBVIOUS
<1>5. Q \in Seq(Names) /\ Late(l) = <<l>> /\ Owed(l) = Q \o <<l>> /\ Q \o <<>> = Q
  <2>1. Q \in Seq(Names) /\ Late(l) = <<l>>
    BY <1>3, <1>4, OwedType DEF Late
  <2>2. QED
    BY <1>4, <2>1, ConcatEmptySeq DEF Owed
<1>6. \A d \in Links \ {l} : Late(d)' = Late(d)
  BY <1>1, <1>3 DEF Late
<1>7. Late(l)' = <<>> \/ Late(l)' = <<l>>
  BY DEF Late
<1>8. CASE closed
  <2>1. pending' = pending
    BY <1>1, <1>8 DEF Queued
  <2>2. \A d \in Links : Queue(d, Named(pending))' = Queue(d, Named(pending))
    BY <2>1
  <2>3. \A d \in Links \ {l} : Owed(d)' = Owed(d)
    BY <1>6, <2>2, OwedKept
  <2>4. CASE Late(l)' = <<l>>
    <3>1. Owed(l)' = Owed(l)
      BY <1>3, <1>5, <2>2, <2>4, OwedKept
    <3>2. QED
      BY <1>1, <2>3, <3>1, PortStutters
  <2>5. CASE Late(l)' = <<>>
    <3>1. Owed(l)' = Q
      BY <1>3, <1>4, <1>5, <2>2, <2>5 DEF Owed
    <3>2. <<l>> \in Seq(Names)
      BY <1>3
    <3>3. \E n \in 0..Len(Q \o <<l>>) : Q = SubSeq(Q \o <<l>>, 1, n)
      BY <1>5, <3>2, PrefixOfConcat
    <3>4. Port!Cut({l})
      BY <1>3, <1>5, <2>3, <3>1, <3>3, PortCut
    <3>5. Port!Lose(l)
      BY <1>1, <1>8, <3>4 DEF Port!Lose
    <3>6. Owed(l)' # Owed(l)
      <4>1. Append(Q, l) = Q \o <<l>> /\ Len(Append(Q, l)) = Len(Q) + 1 /\ Len(Q) \in Nat
        BY <1>3, <1>5, AppendIsConcat, AppendProperties, LenProperties
      <4>2. Q # Append(Q, l)
        BY <4>1
      <4>3. QED
        BY <1>5, <3>1, <4>1, <4>2
    <3>7. QED
      BY <1>3, <3>5, <3>6 DEF Port!Next
  <2>6. QED
    BY <1>7, <2>4, <2>5
<1>9. CASE ~closed
  <2>1. Named(pending) \in Seq(Names) /\ Named(pending)' = Append(Named(pending), l)
    BY <1>1, <1>2, <1>9, NamedIs, NamedGrows DEF Queued, MailType
  <2>2. \A d \in Links : Queue(d, Named(pending))' = IF l = d THEN Append(Queue(d, Named(pending)), l)
                                                     ELSE Queue(d, Named(pending))
    <3>1. \A d : Queue(d, Append(Named(pending), l))
                   = IF Link(l) = d THEN Append(Queue(d, Named(pending)), l)
                     ELSE Queue(d, Named(pending))
      BY <1>3, <2>1, QueueGrows
    <3>2. \A d \in Links : Queue(d, Named(pending))' = Queue(d, Append(Named(pending), l))
      BY <2>1
    <3>3. QED
      BY <1>2, <1>3, <3>1, <3>2
  <2>3. \A d \in Links \ {l} : Owed(d)' = Owed(d)
    BY <1>6, <2>2, OwedKept
  <2>4. Queue(l, Named(pending))' = Append(Q, l) /\ Append(Q, l) = Q \o <<l>>
        /\ Append(Q, l) \in Seq(Names)
    BY <1>3, <1>4, <1>5, <2>2, AppendIsConcat, AppendProperties
  <2>5. CASE Late(l)' = <<>>
    <3>1. Owed(l)' = Append(Q, l) \o <<>>
      BY <2>4, <2>5 DEF Owed
    <3>2. Owed(l)' = Owed(l)
      BY <1>5, <2>4, <3>1, ConcatEmptySeq
    <3>3. QED
      BY <1>1, <2>3, <3>2, PortStutters
  <2>6. CASE Late(l)' = <<l>>
    <3>1. Owed(l)' = Append(Q, l) \o <<l>>
      BY <2>4, <2>6 DEF Owed
    <3>2. Append(Append(Q, l), l) = Append(Q, l) \o <<l>>
      BY <1>3, <2>4, AppendIsConcat
    <3>3. Owed(l)' = Append(Owed(l), l)
      BY <1>5, <2>4, <3>1, <3>2
    <3>4. QED
      BY <1>1, <1>3, <2>3, <3>3, PortArrives
  <2>7. QED
    BY <1>7, <2>5, <2>6
<1>10. QED
  BY <1>8, <1>9

LEMMA PortCloses ==
  ASSUME MailType, LateSlow, Close
  PROVE  Port!Next
<1>1. ~closed /\ closed' = TRUE /\ pending' = <<>> /\ UNCHANGED <<timers, out>>
  BY DEF Close, reader
<1>2. ASSUME NEW l \in Links
      PROVE  \E n \in 0..Len(Owed(l)) : Owed(l)' = SubSeq(Owed(l), 1, n)
  <2>1. PICK Q : Q = Queue(l, Named(pending))
    OBVIOUS
  <2>2. Named(pending) \in Seq(Names) /\ Q \in Seq(Names) /\ Late(l) \in Seq(Names)
        /\ Owed(l) = Q \o Late(l)
    BY <2>1, OwedType DEF Owed
  <2>3. Owed(l)' = Late(l)
    <3>1. Named(pending)' = <<>>
      BY <1>1 DEF Named
    <3>2. Queue(l, Named(pending))' = <<>>
      BY <2>2, <3>1, QueueType
    <3>3. Late(l)' = Late(l)
      BY <1>1 DEF Late
    <3>4. Owed(l)' = <<>> \o Late(l)
      BY <3>2, <3>3 DEF Owed
    <3>5. QED
      BY <2>2, <3>4, ConcatEmptySeq
  <2>4. CASE Q = <<>>
    <3>1. Owed(l) = Late(l) /\ Owed(l) \in Seq(Names)
      BY <2>2, <2>4, ConcatEmptySeq
    <3>2. SubSeq(Owed(l), 1, Len(Owed(l))) = Owed(l) /\ Len(Owed(l)) \in 0..Len(Owed(l))
      BY <3>1, SubSeqFull, LenProperties
    <3>3. QED
      BY <2>3, <3>1, <3>2
  <2>5. CASE Late(l) = <<>>
    <3>1. \E n \in 0..Len(<<>> \o Owed(l)) : <<>> = SubSeq(<<>> \o Owed(l), 1, n)
      <4>1. Owed(l) \in Seq(Names) /\ <<>> \in Seq(Names)
        BY OwedType, EmptySeq
      <4>2. QED
        BY <4>1, PrefixOfConcat
    <3>2. <<>> \o Owed(l) = Owed(l)
      BY OwedType, ConcatEmptySeq
    <3>3. QED
      BY <2>3, <2>5, <3>1, <3>2
  <2>6. CASE Q # <<>> /\ Late(l) = <<l>>
    <3>1. PICK r \in timers : Link(Name(r)) = l
      BY <2>6 DEF Late
    <3>2. r \in Replies /\ r.node \in Slow /\ Name(r) = l /\ l \in Names /\ l[2] \in Slow
      BY <3>1, NameTyped, LinkTyped DEF MailType, LateSlow
    <3>3. 1 \in 1..Len(Q) /\ Q[1] \in Names
      BY <2>2, <2>6, LenProperties, ElementOfSeq
    <3>4. Q[1] = l
      <4>1. Link(Q[1]) = l
        BY <2>1, <2>2, <3>3, QueueType
      <4>2. Link(l) = l
        BY <3>2, LinkTyped
      <4>3. QED
        BY <3>2, <3>3, <4>1, <4>2, AloneOnLink
    <3>5. Q = <<l>> \o Tail(Q) /\ Tail(Q) \in Seq(Names) /\ <<l>> \in Seq(Names)
      <4>1. Tail(Q) \in Seq(Names) /\ <<l>> \in Seq(Names)
        BY <2>2, <2>6, <3>2, HeadTailProperties
      <4>2. ASSUME NEW q \in Seq(Names), q # <<>>
            PROVE  q = <<q[1]>> \o Tail(q)
        BY <4>2
      <4>3. QED
        BY <2>2, <2>6, <3>4, <4>1, <4>2
    <3>6. Owed(l) = <<l>> \o (Tail(Q) \o Late(l)) /\ Tail(Q) \o Late(l) \in Seq(Names)
      <4>1. (<<l>> \o Tail(Q)) \o Late(l) = <<l>> \o (Tail(Q) \o Late(l))
        BY <2>2, <3>5, ConcatAssociative
      <4>2. QED
        BY <2>2, <3>5, <4>1, ConcatProperties
    <3>7. PICK rest \in Seq(Names) : Owed(l) = <<l>> \o rest
      BY <3>6
    <3>8. \E n \in 0..Len(<<l>> \o rest) : <<l>> = SubSeq(<<l>> \o rest, 1, n)
      BY <3>5, PrefixOfConcat
    <3>9. QED
      BY <2>3, <2>6, <3>7, <3>8
  <2>7. QED
    BY <2>4, <2>5, <2>6 DEF Late
<1>3. Port!Cut(Links)
  BY <1>2, PortCut
<1>4. QED
  BY <1>1, <1>3 DEF Port!Close, Port!Next

LEMMA PortDelivers ==
  ASSUME MailType, ReaderType, LateSlow, NEW t \in Receivers, RecvTakes(t)
  PROVE  Port!Next
<1>1. /\ pending # <<>> /\ pending' = Tail(pending) /\ out' = Append(out, Head(pending))
      /\ UNCHANGED <<timers, closed>>
  BY DEF RecvTakes
<1>2. /\ pending \in Seq(Replies) /\ out \in Seq(Replies) /\ Named(pending) \in Seq(Names)
      /\ Named(pending) # <<>> /\ Head(pending) \in Replies
      /\ Head(Named(pending)) = Name(Head(pending)) /\ Tail(Named(pending)) = Named(Tail(pending))
  BY <1>1, NamedShrinks, NamedIs DEF MailType, ReaderType
<1>3. PICK e : e = Name(Head(pending))
  OBVIOUS
<1>4. PICK l : l = Link(e)
  OBVIOUS
<1>5. e \in Names /\ l \in Links
  BY <1>2, <1>3, <1>4, NameTyped, LinkTyped
<1>6. Named(out)' = Append(Named(out), e)
  BY <1>1, <1>2, <1>3, NamedGrows
<1>7. \A d : /\ l # d => Queue(d, Tail(Named(pending))) = Queue(d, Named(pending))
             /\ l = d => /\ Queue(d, Named(pending)) # <<>> /\ Head(Queue(d, Named(pending))) = e
                         /\ Tail(Queue(d, Named(pending))) = Queue(d, Tail(Named(pending)))
  BY <1>2, <1>3, <1>4, QueueShrinks
<1>8. \A d \in Links : /\ Queue(d, Named(pending))' = Queue(d, Tail(Named(pending)))
                       /\ Late(d)' = Late(d)
  BY <1>1, <1>2 DEF Late
<1>9. \A d \in Links \ {l} : Owed(d)' = Owed(d)
  BY <1>7, <1>8, OwedKept
<1>10. PICK Q : Q = Queue(l, Named(pending))
  OBVIOUS
<1>11. Q # <<>> /\ Head(Q) = e /\ Q \in Seq(Names) /\ Late(l) \in Seq(Names) /\ Owed(l) \in Seq(Names)
  BY <1>5, <1>7, <1>10, OwedType
<1>12. Owed(l) = Q \o Late(l) /\ Owed(l)' = Tail(Q) \o Late(l)
  <2>1. Queue(l, Named(pending))' = Tail(Q)
    BY <1>5, <1>7, <1>8, <1>10
  <2>2. QED
    BY <1>5, <1>8, <1>10, <2>1 DEF Owed
<1>13. Q \o Late(l) # <<>> /\ Head(Q \o Late(l)) = Head(Q) /\ Tail(Q \o Late(l)) = Tail(Q) \o Late(l)
  BY <1>11, HeadTailConcat
<1>14. Owed(l) # <<>> /\ Head(Owed(l)) = e /\ Owed(l)' = Tail(Owed(l))
  BY <1>11, <1>12, <1>13
<1>15. [d \in Links |-> Owed(d)]' = [[d \in Links |-> Owed(d)] EXCEPT ![l] = Tail(@)]
  BY <1>5, <1>9, <1>14
<1>16. Port!Deliver(l)
  BY <1>1, <1>5, <1>6, <1>14, <1>15 DEF Port!Deliver
<1>17. Owed(l)' # Owed(l)
  <2>1. Len(Tail(Owed(l))) = Len(Owed(l)) - 1 /\ Len(Owed(l)) \in Nat
    BY <1>11, <1>14, HeadTailProperties, LenProperties
  <2>2. Tail(Owed(l)) # Owed(l)
    BY <2>1
  <2>3. QED
    BY <1>14, <2>2
<1>18. QED
  BY <1>5, <1>16, <1>17 DEF Port!Next

(* The mock transport implements the port UDP gives the client: the replies *)
(* of a device come out once each and in the order it gave them, a slow     *)
(* reply when its timer has fired, and none is lost before Close; what is   *)
(* lost then, or by a timer that fires later, is the end of a queue         *)
(* (mocksbr/transport.go:44-123).  Any number of senders and receivers.     *)
THEOREM PortKept == Spec => IsPort
<1>1. Spec => []LateSlow
  <2>1. Init => LateSlow
    BY DEF Init, LateSlow
  <2>2. LateSlow /\ [Next]_vars => LateSlow'
    BY LateSlowKept
  <2>3. QED
    BY <2>1, <2>2, PTL DEF Spec
<1>2. Init => Port!Init
  <2> SUFFICES ASSUME Init PROVE Port!Init
    OBVIOUS
  <2>1. pending = <<>> /\ timers = {} /\ out = <<>> /\ closed = FALSE
    BY DEF Init
  <2>2. Named(<<>>) = <<>>
    BY DEF Named
  <2>3. ASSUME NEW l \in Links
        PROVE  Owed(l) = <<>>
    <3>1. Queue(l, <<>>) = <<>>
      BY SelectedNone DEF Queue
    <3>2. Late(l) = <<>>
      BY <2>1 DEF Late
    <3>3. QED
      BY <2>1, <2>2, <3>1, <3>2 DEF Owed
  <2>4. QED
    BY <2>1, <2>2, <2>3 DEF Port!Init
<1>3. Typed /\ LateSlow /\ [Next]_vars => [Port!Next]_(Port!portVars)
  <2> SUFFICES ASSUME Typed, LateSlow, [Next]_vars
               PROVE  Port!Next \/ UNCHANGED Port!portVars
    OBVIOUS
  <2>1. MailType /\ RepliesType /\ ReaderType
    BY DEF Typed
  <2>2. CASE \E s \in Senders : StartsTimer(s) \/ Enqueues(s)
    BY <2>1, <2>2, PortTimer, PortEnqueues
  <2>3. CASE (\E r \in timers : TimerFires(r)) \/ Close
    BY <2>1, <2>3, PortFires, PortCloses
  <2>4. CASE \E r \in Receivers : RecvTakes(r)
    BY <2>1, <2>4, PortDelivers
  <2>5. CASE /\ ~\E s \in Senders : StartsTimer(s) \/ Enqueues(s)
             /\ ~(\E r \in timers : TimerFires(r)) /\ ~Close
             /\ ~\E r \in Receivers : RecvTakes(r)
    <3>1. UNCHANGED <<pending, timers, out, closed>>
      BY <2>5 DEF Next, Send, SenderStep, Ignored, Rebooting, Awake, Refuses, Drops,
                AnswersDiscovery, AnswersGet, AppliesSet, Saves, StartsReboot, Reloads,
                Notifies, SendReturns, WindowCloses, Rings, Recv, ReceiverStep,
                RecvClosed, RecvSleeps, RecvWakes, RecvCancelled, ContextDone, mailbox, reader, vars
    <3>2. QED
      BY <3>1, PortStays
  <2>6. QED
    BY <2>2, <2>3, <2>4, <2>5
<1>4. QED
  BY <1>1, <1>2, <1>3, TypedHolds, PTL DEF Spec, IsPort, Port!Spec

=============================================================================
