------------------------- MODULE UdapSessionProofs -------------------------
(***************************************************************************)
(* Proofs about UdapSession, for every network, device, parameter set,     *)
(* script and bound the assumptions of that module allow: its types, and   *)
(* that a session in turn never mistakes a reply: the invariants of        *)
(* UdapSessionInv are inductive, and the safety properties of UdapSession  *)
(* that the CLI and library runs check follow from them.                   *)
(***************************************************************************)
EXTENDS UdapSessionInv, TLAPS

-----------------------------------------------------------------------------
(* Parameter maps. *)

LEMMA ConfigShape ==
  ASSUME NEW c
  PROVE  c \in Configs <=> /\ c = [p \in DOMAIN c |-> c[p]]
                           /\ DOMAIN c \subseteq Params
                           /\ \A p \in DOMAIN c : c[p] \in Vals
BY DEF Configs

LEMMA EmptyConfig == Empty \in Configs /\ DOMAIN Empty = {}
BY DEF Empty, Configs

(* Merging parameter maps gives a parameter map. *)
LEMMA MergeConfig ==
  ASSUME NEW a \in Configs, NEW b \in Configs
  PROVE  /\ Merge(a, b) \in Configs
         /\ DOMAIN Merge(a, b) = DOMAIN a \cup DOMAIN b
         /\ \A p \in DOMAIN a \cup DOMAIN b :
              Merge(a, b)[p] = IF p \in DOMAIN b THEN b[p] ELSE a[p]
<1>1. /\ DOMAIN a \subseteq Params /\ \A p \in DOMAIN a : a[p] \in Vals
      /\ DOMAIN b \subseteq Params /\ \A p \in DOMAIN b : b[p] \in Vals
  BY ConfigShape
<1>2. Merge(a, b) \in [DOMAIN a \cup DOMAIN b -> Vals]
  BY <1>1 DEF Merge
<1>3. QED
  BY <1>1, <1>2 DEF Merge, Configs

(* What a device reads out of its memory is a parameter map. *)
LEMMA ReadConfig ==
  ASSUME NEW f \in [Params -> Vals], NEW S \in SUBSET Params
  PROVE  [p \in S |-> f[p]] \in Configs
BY DEF Configs

-----------------------------------------------------------------------------
(* Type correctness. *)

LEMMA ScriptType ==
  ASSUME CallerType
  PROVE  /\ script \in Seq(Steps) /\ Len(script) \in Nat
         /\ \A i \in 1..Len(script) : script[i] \in Steps
BY ScriptAssumption DEF CallerType

LEMMA MethodType == \A step \in Steps : Method(step) \in Methods
BY DEF Method, Steps, Methods, Discoveries

(* Starting an operation, or failing to. *)
LEMMA WaitType ==
  ASSUME CallerType, NEW step, Begin(step), NEW as \in {"prelude", "wait"}, Wait(as),
         UNCHANGED script
  PROVE  CallerType'
<1>1. expired' \in BOOLEAN
  <2>1. expired' = (OneShot /\ expired)
    BY DEF Begin
  <2>2. QED
    BY <2>1, Zenon
<1>2. at' \in 0..Len(script') /\ at' > 0
  BY ScriptType DEF CallerType, Begin, Wait
<1>3. phase' \in {"idle", "prelude", "wait"} /\ phase' # "idle" /\ reading' = FALSE
  BY DEF Wait
<1>4. QED
  BY <1>1, <1>2, <1>3 DEF CallerType, Wait

LEMMA ConcludeType ==
  ASSUME CallerType, NEW pos \in 1..Len(script),
         NEW res \in {"ok", "assumed", "error", "unknown", "broken"}, Conclude(pos, res),
         UNCHANGED script, expired' \in BOOLEAN
  PROVE  CallerType'
<1>1. script[pos] \in Steps
  BY ScriptType
<1>2. at' \in 0..Len(script')
  BY ScriptType DEF Conclude
<1>3. phase' = "idle" /\ reading' = FALSE /\ last' = [step |-> script[pos], res |-> res]
  BY DEF Conclude
<1>4. QED
  BY <1>1, <1>2, <1>3 DEF CallerType

LEMMA TransmitType ==
  ASSUME NetworkType, NEW method \in Methods, NEW dsts \in SUBSET Nodes,
         NEW want \in SUBSET Params, NEW write \in Configs,
         Transmit(method, dsts, want, write), inbox' \subseteq Replies, UNCHANGED losses
  PROVE  NetworkType'
<1>1. seq + 1 \in Nat
  BY DEF NetworkType
<1>2. [node : dsts, method : {method}, seq : {seq + 1},
       copy : Copies, want : {want}, write : {write}] \subseteq Requests
  BY <1>1 DEF Requests
<1>3. QED
  BY <1>1, <1>2 DEF Transmit, NetworkType

LEMMA AnswerType ==
  ASSUME NetworkType, NEW m \in wire, NEW method \in Methods \cup {"Error"},
         NEW data \in Configs, NEW from \in Addrs, Answer(m, method, data, from),
         wire' = wire \ {m}, UNCHANGED <<seq, losses>>
  PROVE  NetworkType'
<1>1. m \in Requests
  BY DEF NetworkType
<1>2. m.node \in Nodes /\ m.seq \in Nat /\ m.copy \in Copies
  BY <1>1 DEF Requests
<1>3. [node |-> m.node, method |-> method, seq |-> m.seq,
       copy |-> m.copy, ip |-> from, data |-> data] \in Replies
  BY <1>2 DEF Replies
<1>4. QED
  BY <1>3 DEF Answer, NetworkType

(* Every reachable state has the types the code gives its variables. *)
THEOREM TypeCorrect == Spec => []TypeOK
<1>1. Init => TypeOK
  <2> SUFFICES ASSUME Init PROVE TypeOK
    OBVIOUS
  <2>1. CallerType
    <3>1. script \in Seq(Steps)
      BY ScriptAssumption DEF Init
    <3>2. 0 \in 0..Len(script)
      BY <3>1
    <3>3. QED
      BY <3>2 DEF Init, CallerType
  <2>2. EntryType
    BY EmptyConfig DEF Init, EntryType
  <2>3. NetworkType
    BY BoundAssumption DEF Init, NetworkType
  <2>4. DeviceType
    BY DEF Init, DeviceType
  <2>5. QED
    BY <2>1, <2>2, <2>3, <2>4 DEF TypeOK
<1>2. TypeOK /\ [Next]_vars => TypeOK'
  <2> SUFFICES ASSUME CallerType, EntryType, NetworkType, DeviceType, [Next]_vars
               PROVE  CallerType' /\ EntryType' /\ NetworkType' /\ DeviceType'
    BY DEF TypeOK
  <2>1. CASE StartDiscovery
    <3>5. CallerType'
      BY <2>1, WaitType DEF StartDiscovery
    <3>6. EntryType'
      BY <2>1 DEF StartDiscovery, EntryType, entry
    <3>7. NetworkType'
      BY <2>1, TransmitType, EmptyConfig DEF StartDiscovery, Methods, NetworkType, world
    <3>8. DeviceType'
      BY <2>1 DEF StartDiscovery, DeviceType, target, world
    <3>9. QED
      BY <3>5, <3>6, <3>7, <3>8
  <2>2. CASE StartRead
    <3>5. CallerType'
      BY <2>2, WaitType DEF StartRead
    <3>6. EntryType'
      BY <2>2 DEF StartRead, EntryType, entry
    <3>7. NetworkType'
      BY <2>2, TransmitType, EmptyConfig, NodeAssumption DEF StartRead, Methods, NetworkType, world
    <3>8. DeviceType'
      BY <2>2 DEF StartRead, DeviceType, target, world
    <3>9. QED
      BY <3>5, <3>6, <3>7, <3>8
  <2>3. CASE StartSet
    <3>5. CallerType'
      BY <2>3, WaitType DEF StartSet
    <3>6. EntryType'
      BY <2>3 DEF StartSet, EntryType, entry
    <3>7. NetworkType'
      <4>1. PICK config \in Configs \ {Empty} :
               \/ Transmit("GetData", {Target}, Params, Empty)
               \/ Transmit("SetData", {Target}, {}, Merge(cache, config))
        BY <2>3 DEF StartSet
      <4>2. Merge(cache, config) \in Configs
        BY <4>1, MergeConfig DEF EntryType
      <4>3. UNCHANGED <<inbox, losses>>
        BY <2>3 DEF StartSet, world
      <4>4. QED
        BY <4>1, <4>2, <4>3, TransmitType, EmptyConfig, NodeAssumption DEF Methods, NetworkType
    <3>8. DeviceType'
      BY <2>3 DEF StartSet, DeviceType, target, world
    <3>9. QED
      BY <3>5, <3>6, <3>7, <3>8
  <2>4. CASE StartSimple
    <3>5. CallerType'
      BY <2>4, WaitType DEF StartSimple
    <3>6. EntryType'
      BY <2>4 DEF StartSimple, EntryType, entry
    <3>7. NetworkType'
      <4>1. PICK step \in Steps : Transmit(Method(step), {Target}, {}, Empty)
        BY <2>4 DEF StartSimple, Steps
      <4>2. UNCHANGED <<inbox, losses>>
        BY <2>4 DEF StartSimple, world
      <4>3. QED
        BY <4>1, <4>2, MethodType, TransmitType, EmptyConfig, NodeAssumption DEF NetworkType
    <3>8. DeviceType'
      BY <2>4 DEF StartSimple, DeviceType, target, world
    <3>9. QED
      BY <3>5, <3>6, <3>7, <3>8
  <2>5. CASE SendFails
    <3>5. CallerType'
      <4>1. expired' \in BOOLEAN
        <5>1. expired' = (OneShot /\ expired)
          BY <2>5 DEF SendFails, Begin
        <5>2. QED
          BY <5>1, Zenon
      <4>2. at + 1 \in 1..Len(script)
        BY <2>5, ScriptType DEF SendFails, CallerType
      <4>3. QED
        BY <2>5, <4>1, <4>2, ConcludeType DEF SendFails
    <3>6. EntryType'
      BY <2>5 DEF SendFails, EntryType, entry
    <3>7. NetworkType'
      BY <2>5 DEF SendFails, NetworkType, world
    <3>8. DeviceType'
      BY <2>5 DEF SendFails, DeviceType, target, world
    <3>9. QED
      BY <3>5, <3>6, <3>7, <3>8
  <2>6. CASE SkipQuery
    <3>5. CallerType'
      BY <2>6, ScriptType DEF SkipQuery, CallerType, recv
    <3>6. EntryType'
      BY <2>6 DEF SkipQuery, EntryType, entry
    <3>7. NetworkType'
      BY <2>6 DEF SkipQuery, NetworkType, world
    <3>8. DeviceType'
      BY <2>6 DEF SkipQuery, DeviceType, target, world
    <3>9. QED
      BY <3>5, <3>6, <3>7, <3>8
  <2>7. CASE RecvCheck
    <3>5. CallerType'
      BY <2>7 DEF RecvCheck, CallerType, caller
    <3>6. EntryType'
      BY <2>7 DEF RecvCheck, EntryType, entry
    <3>7. NetworkType'
      BY <2>7 DEF RecvCheck, NetworkType, world
    <3>8. DeviceType'
      BY <2>7 DEF RecvCheck, DeviceType, target, world
    <3>9. QED
      BY <3>5, <3>6, <3>7, <3>8
  <2>8. CASE ReadTimesOut
    <3>5. CallerType'
      BY <2>8 DEF ReadTimesOut, CallerType, caller
    <3>6. EntryType'
      BY <2>8 DEF ReadTimesOut, EntryType, entry
    <3>7. NetworkType'
      BY <2>8 DEF ReadTimesOut, NetworkType, world
    <3>8. DeviceType'
      BY <2>8 DEF ReadTimesOut, DeviceType, target, world
    <3>9. QED
      BY <3>5, <3>6, <3>7, <3>8
  <2>9. CASE TimesOut
    <3>5. CallerType'
      <4>1. at \in 1..Len(script) /\ expired' = expired
        BY <2>9, ScriptType DEF TimesOut, CallerType, Take
      <4>2. QED
        BY <2>9, <4>1, ConcludeType DEF TimesOut, CallerType
    <3>6. EntryType'
      BY <2>9 DEF TimesOut, EntryType, entry
    <3>7. NetworkType'
      BY <2>9 DEF TimesOut, NetworkType, world
    <3>8. DeviceType'
      BY <2>9 DEF TimesOut, DeviceType, target, world
    <3>9. QED
      BY <3>5, <3>6, <3>7, <3>8
  <2>10. CASE RecvFails
    <3>5. CallerType'
      <4>1. at \in 1..Len(script) /\ expired' = expired
        BY <2>10, ScriptType DEF RecvFails, CallerType, Take
      <4>2. QED
        BY <2>10, <4>1, ConcludeType DEF RecvFails, CallerType
    <3>6. EntryType'
      BY <2>10 DEF RecvFails, EntryType, entry
    <3>7. NetworkType'
      BY <2>10 DEF RecvFails, NetworkType, world
    <3>8. DeviceType'
      BY <2>10 DEF RecvFails, DeviceType, target, world
    <3>9. QED
      BY <3>5, <3>6, <3>7, <3>8
  <2>11. CASE FindReturns
    <3>5. CallerType'
      <4>1. at \in 1..Len(script) /\ expired' = expired
        BY <2>11, ScriptType DEF FindReturns, CallerType, Take
      <4>2. QED
        BY <2>11, <4>1, ConcludeType DEF FindReturns, CallerType
    <3>6. EntryType'
      BY <2>11 DEF FindReturns, EntryType, entry
    <3>7. NetworkType'
      BY <2>11 DEF FindReturns, NetworkType, world
    <3>8. DeviceType'
      BY <2>11 DEF FindReturns, DeviceType, target, world
    <3>9. QED
      BY <3>5, <3>6, <3>7, <3>8
  <2>12. CASE Deadline
    <3>5. CallerType'
      BY <2>12 DEF Deadline, CallerType, caller
    <3>6. EntryType'
      BY <2>12 DEF Deadline, EntryType, entry
    <3>7. NetworkType'
      BY <2>12 DEF Deadline, NetworkType, world
    <3>8. DeviceType'
      BY <2>12 DEF Deadline, DeviceType, target, world
    <3>9. QED
      BY <3>5, <3>6, <3>7, <3>8
  <2>13. ASSUME NEW r \in inbox, HandleDiscoveryReply(r) PROVE CallerType' /\ EntryType' /\ NetworkType' /\ DeviceType'
    <3>5. CallerType'
      BY <2>13 DEF HandleDiscoveryReply, CallerType, caller
    <3>6. EntryType'
      <4>1. r.method \in Methods \cup {"Error"} /\ r.ip \in Addrs
        BY DEF NetworkType, Replies
      <4>2. QED
        BY <2>13, <4>1, EmptyConfig DEF HandleDiscoveryReply, EntryType, entry
    <3>7. NetworkType'
      BY <2>13 DEF HandleDiscoveryReply, NetworkType, world
    <3>8. DeviceType'
      BY <2>13 DEF HandleDiscoveryReply, DeviceType, target, world
    <3>9. QED
      BY <3>5, <3>6, <3>7, <3>8
  <2>14. ASSUME NEW r \in inbox, IgnoreReply(r) PROVE CallerType' /\ EntryType' /\ NetworkType' /\ DeviceType'
    <3>5. CallerType'
      BY <2>14 DEF IgnoreReply, CallerType, caller
    <3>6. EntryType'
      BY <2>14 DEF IgnoreReply, EntryType, entry
    <3>7. NetworkType'
      BY <2>14 DEF IgnoreReply, NetworkType, world
    <3>8. DeviceType'
      BY <2>14 DEF IgnoreReply, DeviceType, target, world
    <3>9. QED
      BY <3>5, <3>6, <3>7, <3>8
  <2>15. ASSUME NEW r \in inbox, PreludeReply(r) PROVE CallerType' /\ EntryType' /\ NetworkType' /\ DeviceType'
    <3>5. CallerType'
      <4>1. CASE r.method # "GetData"
        <5>1. at \in 1..Len(script) /\ expired' = expired
          BY <2>15, ScriptType DEF PreludeReply, CallerType
        <5>2. QED
          BY <2>15, <4>1, <5>1, ConcludeType DEF PreludeReply, CallerType
      <4>2. CASE r.method = "GetData"
        BY <2>15, <4>2 DEF PreludeReply, CallerType
      <4>3. QED
        BY <4>1, <4>2
    <3>6. EntryType'
      <4>1. r.data \in Configs
        BY DEF NetworkType, Replies
      <4>2. Merge(cache, r.data) \in Configs
        BY <4>1, MergeConfig DEF EntryType
      <4>3. QED
        BY <2>15, <4>2 DEF PreludeReply, EntryType, entry
    <3>7. NetworkType'
      <4>1. CASE r.method # "GetData"
        BY <2>15, <4>1 DEF PreludeReply, NetworkType, world, Take
      <4>2. CASE r.method = "GetData"
        <5>1. r.data \in Configs
          BY DEF NetworkType, Replies
        <5>2. Merge(Merge(cache, r.data), cfg) \in Configs
          BY <5>1, MergeConfig DEF EntryType
        <5>3. Transmit("SetData", {Target}, {}, Merge(Merge(cache, r.data), cfg))
          BY <2>15, <4>2 DEF PreludeReply
        <5>4. inbox' \subseteq Replies /\ UNCHANGED losses
          BY <2>15 DEF PreludeReply, Take, NetworkType, world
        <5>5. QED
          BY <5>2, <5>3, <5>4, TransmitType, NodeAssumption DEF Methods
      <4>3. QED
        BY <4>1, <4>2
    <3>8. DeviceType'
      BY <2>15 DEF PreludeReply, DeviceType, target, world
    <3>9. QED
      BY <3>5, <3>6, <3>7, <3>8
  <2>16. ASSUME NEW r \in inbox, PreludeSendFails(r) PROVE CallerType' /\ EntryType' /\ NetworkType' /\ DeviceType'
    <3>5. CallerType'
      <4>1. at \in 1..Len(script) /\ expired' = expired
        BY <2>16, ScriptType DEF PreludeSendFails, CallerType, Take
      <4>2. QED
        BY <2>16, <4>1, ConcludeType DEF PreludeSendFails, CallerType
    <3>6. EntryType'
      <4>1. r.data \in Configs
        BY DEF NetworkType, Replies
      <4>2. Merge(cache, r.data) \in Configs
        BY <4>1, MergeConfig DEF EntryType
      <4>3. QED
        BY <2>16, <4>2 DEF PreludeSendFails, EntryType, entry
    <3>7. NetworkType'
      BY <2>16 DEF PreludeSendFails, NetworkType, world, Take
    <3>8. DeviceType'
      BY <2>16 DEF PreludeSendFails, DeviceType, target, world
    <3>9. QED
      BY <3>5, <3>6, <3>7, <3>8
  <2>17. ASSUME NEW r \in inbox, OperationReply(r) PROVE CallerType' /\ EntryType' /\ NetworkType' /\ DeviceType'
    <3>5. CallerType'
      <4>1. at \in 1..Len(script) /\ expired' = expired
        BY <2>17, ScriptType DEF OperationReply, CallerType, Take
      <4>2. QED
        BY <2>17, <4>1, ConcludeType DEF OperationReply, CallerType
    <3>6. EntryType'
      <4>1. r.data \in Configs
        BY DEF NetworkType, Replies
      <4>2. Learnt(r) \in Configs
        BY <4>1, MergeConfig DEF Learnt, EntryType
      <4>3. QED
        BY <2>17, <4>2 DEF OperationReply, EntryType, entry
    <3>7. NetworkType'
      BY <2>17 DEF OperationReply, NetworkType, world, Take
    <3>8. DeviceType'
      BY <2>17 DEF OperationReply, DeviceType, target, world
    <3>9. QED
      BY <3>5, <3>6, <3>7, <3>8
  <2>18. ASSUME NEW m \in wire, OtherAnswers(m) PROVE CallerType' /\ EntryType' /\ NetworkType' /\ DeviceType'
    <3>5. CallerType'
      BY <2>18 DEF OtherAnswers, CallerType, Client, caller, recv
    <3>6. EntryType'
      BY <2>18 DEF OtherAnswers, EntryType, Client, entry
    <3>7. NetworkType'
      <4>1. m.method \in Methods /\ m.want \in SUBSET Params
        BY DEF NetworkType, Requests
      <4>2. QED
        BY <2>18, <4>1, AnswerType, EmptyConfig DEF OtherAnswers, Client, world, DeviceType
    <3>8. DeviceType'
      BY <2>18 DEF OtherAnswers, DeviceType, target, world
    <3>9. QED
      BY <3>5, <3>6, <3>7, <3>8
  <2>19. ASSUME NEW m \in wire, TargetSilent(m) PROVE CallerType' /\ EntryType' /\ NetworkType' /\ DeviceType'
    <3>5. CallerType'
      BY <2>19 DEF TargetSilent, CallerType, Client, caller, recv
    <3>6. EntryType'
      BY <2>19 DEF TargetSilent, EntryType, Client, entry
    <3>7. NetworkType'
      BY <2>19 DEF TargetSilent, NetworkType, Client, world
    <3>8. DeviceType'
      BY <2>19 DEF TargetSilent, DeviceType, target, world
    <3>9. QED
      BY <3>5, <3>6, <3>7, <3>8
  <2>20. ASSUME NEW m \in wire, TargetRejects(m) PROVE CallerType' /\ EntryType' /\ NetworkType' /\ DeviceType'
    <3>5. CallerType'
      BY <2>20 DEF TargetRejects, CallerType, Client, caller, recv
    <3>6. EntryType'
      BY <2>20 DEF TargetRejects, EntryType, Client, entry
    <3>7. NetworkType'
      <4>1. m.method \in Methods /\ m.want \in SUBSET Params
        BY DEF NetworkType, Requests
      <4>2. QED
        BY <2>20, <4>1, AnswerType, EmptyConfig DEF TargetRejects, Client, world, DeviceType
    <3>8. DeviceType'
      BY <2>20 DEF TargetRejects, DeviceType, target, world
    <3>9. QED
      BY <3>5, <3>6, <3>7, <3>8
  <2>21. ASSUME NEW m \in wire, TargetReads(m) PROVE CallerType' /\ EntryType' /\ NetworkType' /\ DeviceType'
    <3>5. CallerType'
      BY <2>21 DEF TargetReads, CallerType, Client, caller, recv
    <3>6. EntryType'
      BY <2>21 DEF TargetReads, EntryType, Client, entry
    <3>7. NetworkType'
      <4>1. m.method \in Methods /\ m.want \in SUBSET Params
        BY DEF NetworkType, Requests
      <4>2. [p \in m.want |-> nv[p]] \in Configs
        BY <4>1, ReadConfig DEF DeviceType
      <4>3. QED
        BY <2>21, <4>1, <4>2, AnswerType DEF TargetReads, Serves, Client, world, DeviceType
    <3>8. DeviceType'
      <4>1. m.seq \in Nat
        BY DEF NetworkType, Requests
      <4>2. QED
        BY <2>21, <4>1 DEF TargetReads, Serves, DeviceType, world
    <3>9. QED
      BY <3>5, <3>6, <3>7, <3>8
  <2>22. ASSUME NEW m \in wire, TargetWrites(m) PROVE CallerType' /\ EntryType' /\ NetworkType' /\ DeviceType'
    <3>5. CallerType'
      BY <2>22 DEF TargetWrites, CallerType, Client, caller, recv
    <3>6. EntryType'
      BY <2>22 DEF TargetWrites, EntryType, Client, entry
    <3>7. NetworkType'
      BY <2>22, AnswerType, EmptyConfig DEF TargetWrites, Serves, Client, world, DeviceType, Methods
    <3>8. DeviceType'
      <4>1. m.seq \in Nat /\ m.write \in Configs
        BY DEF NetworkType, Requests
      <4>2. nv' \in [Params -> Vals]
        BY <2>22, <4>1, ConfigShape, ValueAssumption DEF TargetWrites, DeviceType
      <4>3. held' \in [Params -> SUBSET Vals]
        BY <2>22, <4>2 DEF TargetWrites, DeviceType
      <4>4. QED
        BY <2>22, <4>1, <4>2, <4>3 DEF TargetWrites, Serves, DeviceType, world
    <3>9. QED
      BY <3>5, <3>6, <3>7, <3>8
  <2>23. ASSUME NEW m \in wire, TargetResets(m) PROVE CallerType' /\ EntryType' /\ NetworkType' /\ DeviceType'
    <3>5. CallerType'
      BY <2>23 DEF TargetResets, CallerType, Client, caller, recv
    <3>6. EntryType'
      BY <2>23 DEF TargetResets, EntryType, Client, entry
    <3>7. NetworkType'
      <4>1. CASE UNCHANGED inbox
        BY <2>23, <4>1 DEF TargetResets, Serves, NetworkType, Client, world
      <4>2. CASE Answer(m, "Reset", Empty, addr)
        BY <2>23, <4>2, AnswerType, EmptyConfig DEF TargetResets, Serves, Client, world, DeviceType, Methods
      <4>3. QED
        BY <2>23, <4>1, <4>2 DEF TargetResets
    <3>8. DeviceType'
      <4>1. m.seq \in Nat
        BY DEF NetworkType, Requests
      <4>2. QED
        BY <2>23, <4>1 DEF TargetResets, Serves, DeviceType, world
    <3>9. QED
      BY <3>5, <3>6, <3>7, <3>8
  <2>24. CASE TargetBoots
    <3>5. CallerType'
      BY <2>24 DEF TargetBoots, CallerType, Client, caller, recv
    <3>6. EntryType'
      BY <2>24 DEF TargetBoots, EntryType, Client, entry
    <3>7. NetworkType'
      BY <2>24 DEF TargetBoots, NetworkType, Client, world
    <3>8. DeviceType'
      BY <2>24 DEF TargetBoots, DeviceType, world
    <3>9. QED
      BY <3>5, <3>6, <3>7, <3>8
  <2>25. CASE ForeignWrite
    <3>5. CallerType'
      BY <2>25 DEF ForeignWrite, CallerType, Client, caller, recv
    <3>6. EntryType'
      BY <2>25 DEF ForeignWrite, EntryType, Client, entry
    <3>7. NetworkType'
      BY <2>25 DEF ForeignWrite, NetworkType, Client
    <3>8. DeviceType'
      BY <2>25, BoundAssumption DEF ForeignWrite, DeviceType
    <3>9. QED
      BY <3>5, <3>6, <3>7, <3>8
  <2>26. CASE Lose
    <3>5. CallerType'
      BY <2>26 DEF Lose, CallerType, Client, caller, recv
    <3>6. EntryType'
      BY <2>26 DEF Lose, EntryType, Client, entry
    <3>7. NetworkType'
      BY <2>26, BoundAssumption DEF Lose, NetworkType, Client
    <3>8. DeviceType'
      BY <2>26 DEF Lose, DeviceType, target
    <3>9. QED
      BY <3>5, <3>6, <3>7, <3>8
  <2>27. CASE UNCHANGED vars
    BY <2>27 DEF vars, CallerType, EntryType, NetworkType, DeviceType
  <2>28. QED
    BY <2>1, <2>2, <2>3, <2>4, <2>5, <2>6, <2>7, <2>8, <2>9, <2>10, <2>11, <2>12, <2>13, <2>14, <2>15, <2>16, <2>17, <2>18, <2>19, <2>20, <2>21, <2>22, <2>23, <2>24, <2>25, <2>26, <2>27
       DEF Next, Start, Receive, Device
<1>3. QED
  BY <1>1, <1>2, PTL DEF Spec

-----------------------------------------------------------------------------
(* A session in turn. *)

(* In turn, every send puts one copy on the wire. *)
LEMMA OneCopy == ASSUME InTurn PROVE \E c : Copies = {c}
<1>1. PICK l \in Links : Links = {l}
  BY DEF InTurn
<1>2. 0..Retries = {0}
  BY DEF InTurn
<1>3. Copies = {<<0, l>>}
  BY <1>1, <1>2 DEF Copies
<1>4. QED
  BY <1>3

(* What a send changes, seen by the target. *)
LEMMA TransmitOne ==
  ASSUME InTurn, NetworkType, NEW method, NEW dsts, Target \in dsts, NEW want, NEW write,
         Transmit(method, dsts, want, write)
  PROVE  /\ seq' = seq + 1
         /\ \A m \in wire' \ wire : m.seq = seq'
         /\ \E m : /\ ToTarget' = ToTarget \cup {m}
                   /\ m.seq = seq' /\ m.method = method
                   /\ m.want = want /\ m.write = write
<1>1. PICK c : Copies = {c}
  BY OneCopy
<1> DEFINE new == [node : dsts, method : {method}, seq : {seq + 1},
                   copy : Copies, want : {want}, write : {write}]
           one == [node |-> Target, method |-> method, seq |-> seq + 1,
                   copy |-> c, want |-> want, write |-> write]
<1>2. wire' = wire \cup new /\ seq' = seq + 1
  BY DEF Transmit
<1>3. \A m \in new : m.seq = seq + 1
  OBVIOUS
<1>4. {m \in new : m.node = Target} = {one}
  BY <1>1
<1>5. one.seq = seq + 1 /\ one.method = method /\ one.want = want /\ one.write = write
  OBVIOUS
<1> HIDE DEF new, one
<1>6. ToTarget' = ToTarget \cup {one}
  BY <1>2, <1>4 DEF ToTarget
<1>7. QED
  BY <1>2, <1>3, <1>5, <1>6

-----------------------------------------------------------------------------
(* A packet goes out and the operation waits for its answer. *)
LEMMA SendTurn ==
  ASSUME InTurn, TypeOK, TypeOK', Turn,
         phase' \in {"prelude", "wait"}, reading' = FALSE, at' # 0,
         NEW method, method = Asked', NEW dsts, Target \in dsts, NEW want, NEW write,
         Transmit(method, dsts, want, write),
         inbox' \subseteq inbox, served' = served,
         Listening' => ToTarget = {} /\ FromTarget' = {},
         ~OneShot => ~expired',
         Step' = "find" => ~known', PreludeOfSet'
  PROVE  Turn'
<1>1. PICK m0 : ToTarget' = ToTarget \cup {m0} /\ m0.seq = seq' /\ m0.method = method
  BY TransmitOne DEF TypeOK
<1>2. seq' = seq + 1 /\ \A m \in wire' \ wire : m.seq = seq'
  BY TransmitOne DEF TypeOK
<1>3. seq \in Nat
  BY DEF TypeOK, NetworkType
<1>4. phase' # "idle"
  OBVIOUS
<1>5. NumbersPast'
  <2>1. /\ \A m \in wire : m \in Requests
        /\ \A r \in inbox : r \in Replies
        /\ served \subseteq Nat
    BY DEF TypeOK, NetworkType, DeviceType
  <2>2. \A m \in wire' : m.seq <= seq'
    BY <1>2, <1>3, <2>1 DEF Turn, NumbersPast, Requests
  <2>3. \A r \in inbox' : r.seq <= seq'
    BY <1>2, <1>3, <2>1 DEF Turn, NumbersPast, Replies
  <2>4. \A n \in served' : n <= seq'
    BY <1>2, <1>3, <2>1 DEF Turn, NumbersPast
  <2>5. QED
    BY <2>2, <2>3, <2>4 DEF NumbersPast
<1>6. seq' \notin served
  BY <1>2, <1>3 DEF Turn, NumbersPast
<1>7. RequestOutstanding'
  BY <1>1, <1>6 DEF RequestOutstanding
<1>8. ReplyOutstanding'
  BY DEF ReplyOutstanding
<1>9. NothingLeft'
  BY <1>4 DEF NothingLeft
<1>10. Found'
  BY <1>4 DEF Found
<1>11. VerdictStands'
  BY <1>4 DEF VerdictStands
<1>12. QED
  BY <1>5, <1>7, <1>8, <1>9, <1>10, <1>11 DEF Turn

(* The start of an operation. *)
LEMMA StartTurn ==
  ASSUME InTurn, TypeOK, TypeOK', Turn,
         NEW step \in Steps, Begin(step), NEW as \in {"prelude", "wait"}, Wait(as),
         as = "prelude" => step = "set",
         NEW method, method = IF as = "prelude" THEN "GetData" ELSE Method(step),
         NEW dsts, Target \in dsts, NEW want, NEW write,
         Transmit(method, dsts, want, write),
         UNCHANGED <<script, inbox, served, known>>
  PROVE  Turn'
<1>1. CallerType
  BY DEF TypeOK
<1>2. at \in Nat /\ Len(script) \in Nat
  BY <1>1, ScriptType DEF CallerType
<1>3. /\ phase = "idle" /\ at < Len(script) /\ phase' = as
      /\ phase' \in {"prelude", "wait"} /\ reading' = FALSE /\ at' # 0
      /\ script[at + 1] = step /\ Step' = step
  <2>1. /\ phase = "idle" /\ at < Len(script) /\ script[at + 1] = step
        /\ phase' = as /\ reading' = FALSE /\ at' = at + 1 /\ script' = script
    BY DEF Begin, Wait
  <2>2. Step' = step
    BY <2>1 DEF Step
  <2>3. at' # 0
    BY <1>2, <2>1
  <2>4. QED
    BY <2>1, <2>2, <2>3
<1>4. method = Asked'
  BY <1>3 DEF Asked
<1>5. Listening' => Silence
  BY <1>3 DEF Listening, Turn, NothingLeft, Begin
<1>6. Listening' => ToTarget = {} /\ FromTarget' = {}
  BY <1>5 DEF Silence, FromTarget
<1>7. ~OneShot => ~expired'
  BY DEF Begin
<1>8. Step' = "find" => ~known'
  <2>1. script \in Scripts /\ at + 1 \in 1..Len(script)
    BY <1>1, <1>2, <1>3 DEF CallerType
  <2>2. step = "find" => at = 0
    BY <1>2, <1>3, <2>1, DiscoveryAssumption DEF Discoveries
  <2>3. QED
    BY <1>3, <2>2 DEF Turn, Found
<1>9. PreludeOfSet'
  BY <1>3 DEF PreludeOfSet
<1>10. inbox' \subseteq inbox /\ served' = served
  OBVIOUS
<1>11. QED
  BY <1>3, <1>4, <1>6, <1>7, <1>8, <1>9, <1>10, SendTurn

(* The return of an operation: what has to be shown of the particular one. *)
LEMMA ConcludeTurn ==
  ASSUME TypeOK, Turn, NEW pos \in 1..Len(script), NEW res, Conclude(pos, res),
         UNCHANGED <<script, served>>, wire' \subseteq wire, inbox' \subseteq inbox,
         seq' \in {seq, seq + 1},
         at' < Len(script) /\ (OneShot => ~expired') => Silence',
         res = "error" => seq' \notin served /\ \A m \in ToTarget' : m.seq # seq',
         res = "ok" /\ script[pos] \notin {"none", "discover"} => seq' \in served
  PROVE  Turn'
<1>1. /\ phase' = "idle" /\ reading' = FALSE /\ at' >= 1
      /\ last'.step = script[pos] /\ last'.res = res
  BY ScriptType DEF Conclude, TypeOK, CallerType
<1>2. NumbersPast'
  <2>1. /\ seq \in Nat /\ served \subseteq Nat
        /\ \A m \in wire : m \in Requests
        /\ \A r \in inbox : r \in Replies
    BY DEF TypeOK, NetworkType, DeviceType
  <2>2. QED
    BY <2>1 DEF Turn, NumbersPast, Requests, Replies
<1>3. ~Listening'
  BY <1>1 DEF Listening
<1>4. RequestOutstanding' /\ ReplyOutstanding'
  BY <1>3 DEF RequestOutstanding, ReplyOutstanding
<1>5. NothingLeft'
  BY <1>1 DEF NothingLeft
<1>6. Found'
  BY <1>1 DEF Found
<1>7. VerdictStands'
  BY <1>1 DEF VerdictStands
<1>8. PreludeOfSet'
  BY <1>1 DEF PreludeOfSet
<1>9. QED
  BY <1>2, <1>4, <1>5, <1>6, <1>7, <1>8 DEF Turn

(* A reply taken while the client listens was the last packet in flight. *)
LEMMA TakenReply ==
  ASSUME Turn, reading, NEW r \in inbox, r.node = Target, inbox' = inbox \ {r}
  PROVE  /\ ToTarget = {} /\ FromTarget' = {} /\ ~Silence
         /\ r.seq = seq /\ r.method \in {Asked, "Error"}
         /\ r.method = "Error" => seq \notin served /\ Asked # "AdvDisc"
         /\ r.method # "Error" => seq \in served
<1>1. Listening
  BY DEF Listening
<1>2. r \in FromTarget
  BY DEF FromTarget
<1>3. FromTarget' = {} /\ ToTarget = {}
  BY <1>1, <1>2 DEF Turn, RequestOutstanding, ReplyOutstanding, FromTarget, ToTarget
<1>4. QED
  BY <1>1, <1>2, <1>3 DEF Turn, ReplyOutstanding, Silence

-----------------------------------------------------------------------------
(* A target that takes a request off the wire, and perhaps answers it. *)
LEMMA ServeTurn ==
  ASSUME TypeOK, Turn, NEW m \in wire, m.node = Target, wire' = wire \ {m},
         UNCHANGED <<caller, recv, seq, entry, cfg, last>>,
         NEW reply, reply.node = Target, reply.seq = m.seq,
         \/ /\ inbox' = inbox \cup {reply} /\ reply.method = "Error"
            /\ m.method # "AdvDisc" /\ served' = served
         \/ /\ inbox' = inbox \cup {reply} /\ reply.method = m.method
            /\ m.method # "Error" /\ served' = served \cup {m.seq}
         \/ inbox' = inbox /\ served' = served \cup {m.seq}
         \/ inbox' = inbox /\ served' = served
  PROVE  Turn'
<1>1. m \in ToTarget /\ ToTarget' = ToTarget \ {m}
  BY DEF ToTarget
<1>2. FromTarget' \in {FromTarget, FromTarget \cup {reply}}
  BY DEF FromTarget
<1>3. /\ phase' = phase /\ reading' = reading /\ expired' = expired /\ at' = at
      /\ script' = script /\ known' = known /\ last' = last /\ seq' = seq
  BY DEF caller, recv, entry
<1>4. Step' = Step /\ Asked' = Asked /\ (Listening' <=> Listening)
  BY <1>3 DEF Step, Asked, Listening
<1>5. NumbersPast'
  <2>1. m.seq <= seq
    BY DEF Turn, NumbersPast
  <2>2. QED
    BY <1>3, <2>1 DEF Turn, NumbersPast
<1>6. ASSUME Listening
      PROVE  /\ ToTarget' = {} /\ FromTarget = {} /\ m.seq = seq /\ m.method = Asked
             /\ seq \notin served /\ ~(Step = "find" /\ known)
  BY <1>1, <1>6 DEF Turn, RequestOutstanding, ReplyOutstanding, Silence
<1>7. RequestOutstanding'
  BY <1>4, <1>6 DEF RequestOutstanding
<1>8. ReplyOutstanding'
  <2>1. SUFFICES ASSUME Listening
                 PROVE  ReplyOutstanding'
    BY <1>4 DEF ReplyOutstanding
  <2>2. FromTarget' \subseteq {reply}
    BY <1>2, <1>6, <2>1
  <2>3. ~(Step' = "find" /\ known')
    BY <1>3, <1>4, <1>6, <2>1
  <2>4. reply \in FromTarget' =>
          /\ reply.seq = seq' /\ reply.method \in {Asked', "Error"}
          /\ reply.method = "Error" => seq' \notin served' /\ Asked' # "AdvDisc"
          /\ reply.method # "Error" => seq' \in served'
    BY <1>3, <1>4, <1>6, <2>1 DEF FromTarget
  <2>5. QED
    BY <2>2, <2>3, <2>4 DEF ReplyOutstanding
<1>9. NothingLeft'
  BY <1>1, <1>3 DEF Turn, NothingLeft, Silence
<1>10. Found'
  BY <1>3, <1>4 DEF Turn, Found
<1>11. VerdictStands'
  BY <1>1, <1>3 DEF Turn, VerdictStands
<1>12. PreludeOfSet'
  BY <1>3, <1>4 DEF Turn, PreludeOfSet
<1>13. QED
  BY <1>5, <1>7, <1>8, <1>9, <1>10, <1>11, <1>12 DEF Turn

(* A step that takes packets away, or only concerns other nodes. *)
LEMMA QuietTurn ==
  ASSUME TypeOK, Turn, ToTarget' \subseteq ToTarget, FromTarget' \subseteq FromTarget,
         UNCHANGED <<caller, phase, seq, known, last, served>>,
         Listening' => Listening,
         phase # "idle" /\ ~OneShot /\ expired' => expired \/ Silence,
         OneShot /\ expired => expired',
         \A m \in wire' : m.seq <= seq, \A r \in inbox' : r.seq <= seq
  PROVE  Turn'
<1>1. /\ phase' = phase /\ at' = at /\ script' = script /\ known' = known
      /\ last' = last /\ seq' = seq /\ served' = served
  BY DEF caller
<1>2. Step' = Step /\ Asked' = Asked
  BY <1>1 DEF Step, Asked
<1>3. Silence => Silence'
  BY DEF Silence
<1>4. NumbersPast'
  BY <1>1 DEF Turn, NumbersPast
<1>5. RequestOutstanding'
  BY <1>1, <1>2 DEF Turn, RequestOutstanding
<1>6. ReplyOutstanding'
  BY <1>1, <1>2, <1>3 DEF Turn, ReplyOutstanding
<1>7. NothingLeft'
  BY <1>1, <1>3 DEF Turn, NothingLeft
<1>8. Found'
  BY <1>1, <1>2 DEF Turn, Found
<1>9. VerdictStands'
  BY <1>1 DEF Turn, VerdictStands
<1>10. PreludeOfSet'
  BY <1>1, <1>2 DEF Turn, PreludeOfSet
<1>11. QED
  BY <1>4, <1>5, <1>6, <1>7, <1>8, <1>9, <1>10 DEF Turn

-----------------------------------------------------------------------------
LEMMA TurnInit == ASSUME Init PROVE Turn
<1>1. ToTarget = {} /\ FromTarget = {} /\ ~Listening
  BY DEF Init, ToTarget, FromTarget, Listening
<1>2. NumbersPast /\ RequestOutstanding /\ ReplyOutstanding
  BY <1>1 DEF Init, NumbersPast, RequestOutstanding, ReplyOutstanding
<1>3. NothingLeft /\ Found /\ PreludeOfSet /\ VerdictStands
  BY <1>1 DEF Init, NothingLeft, Silence, Found, PreludeOfSet, VerdictStands
<1>4. QED
  BY <1>2, <1>3 DEF Turn

LEMMA TurnStart ==
  ASSUME InTurn, TypeOK, TypeOK', Turn, Start
  PROVE  Turn'
<1>0. Target \in Nodes /\ Target \in {Target}
  BY NodeAssumption
<1>1. CASE StartDiscovery
  <2>1. PICK step \in Discoveries : Begin(step) /\ Wait("wait")
                                    /\ Transmit("AdvDisc", Nodes, {}, Empty)
    BY <1>1 DEF StartDiscovery
  <2>2. step \in Steps /\ Method(step) = "AdvDisc"
    BY DEF Steps, Method, Discoveries
  <2>3. UNCHANGED <<script, inbox, served, known>>
    BY <1>1 DEF StartDiscovery, target, entry
  <2>4. QED
    BY <1>0, <2>1, <2>2, <2>3, StartTurn
<1>2. CASE StartRead
  <2>1. PICK step \in {"getall", "get"}, want \in SUBSET Params :
          Begin(step) /\ Wait("wait") /\ Transmit("GetData", {Target}, want, Empty)
    BY <1>2 DEF StartRead
  <2>2. step \in Steps /\ Method(step) = "GetData"
    BY DEF Steps, Method, Discoveries
  <2>3. UNCHANGED <<script, inbox, served, known>>
    BY <1>2 DEF StartRead, target, entry
  <2>4. QED
    BY <1>0, <2>1, <2>2, <2>3, StartTurn
<1>3. CASE StartSet
  <2>1. PICK config \in Configs \ {Empty} :
          /\ Begin("set")
          /\ \/ Wait("prelude") /\ Transmit("GetData", {Target}, Params, Empty)
             \/ Wait("wait") /\ Transmit("SetData", {Target}, {}, Merge(cache, config))
    BY <1>3 DEF StartSet
  <2>2. "set" \in Steps /\ Method("set") = "SetData"
    BY DEF Steps, Method, Discoveries
  <2>3. UNCHANGED <<script, inbox, served, known>>
    BY <1>3 DEF StartSet, target, entry
  <2>4. CASE Wait("prelude") /\ Transmit("GetData", {Target}, Params, Empty)
    BY <1>0, <2>1, <2>2, <2>3, <2>4, StartTurn
  <2>5. CASE Wait("wait") /\ Transmit("SetData", {Target}, {}, Merge(cache, config))
    BY <1>0, <2>1, <2>2, <2>3, <2>5, StartTurn
  <2>6. QED
    BY <2>1, <2>4, <2>5
<1>4. CASE StartSimple
  <2>1. PICK step \in {"reset", "getip", "getuuid"} :
          Begin(step) /\ Wait("wait") /\ Transmit(Method(step), {Target}, {}, Empty)
    BY <1>4 DEF StartSimple
  <2>2. step \in Steps
    BY DEF Steps
  <2>3. UNCHANGED <<script, inbox, served, known>>
    BY <1>4 DEF StartSimple, target, entry
  <2>4. QED
    BY <1>0, <2>1, <2>2, <2>3, StartTurn
<1>5. CASE SendFails
  <2>1. /\ phase = "idle" /\ at + 1 \in 1..Len(script) /\ at < Len(script)
        /\ Conclude(at + 1, "error") /\ (OneShot => ~expired') = (OneShot => ~expired)
        /\ seq' = seq + 1 /\ UNCHANGED <<script, served, wire, inbox>>
    BY <1>5, ScriptType DEF SendFails, Begin, target, TypeOK, CallerType
  <2>2. (OneShot => ~expired') => Silence'
    BY <2>1 DEF Turn, NothingLeft, Silence, ToTarget, FromTarget
  <2>3. seq' \notin served /\ \A m \in ToTarget' : m.seq # seq'
    <3>1. seq \in Nat /\ \A m \in wire : m.seq \in Nat
      BY DEF TypeOK, NetworkType, Requests
    <3>2. QED
      BY <2>1, <3>1 DEF Turn, NumbersPast, ToTarget
  <2>4. QED
    BY <2>1, <2>2, <2>3, ConcludeTurn
<1>6. CASE SkipQuery
  <2>1. /\ phase = "idle" /\ at \in Nat /\ at' = at + 1 /\ Len(script) \in Nat /\ ~reading
        /\ UNCHANGED <<script, phase, reading, expired, seq, known, last, wire, inbox, served>>
    BY <1>6, ScriptType DEF SkipQuery, recv, entry, target, TypeOK, CallerType
  <2>2. ~Listening' /\ (Silence => Silence') /\ ToTarget' = ToTarget
    BY <2>1 DEF Listening, Silence, ToTarget, FromTarget
  <2>3. NumbersPast' /\ RequestOutstanding' /\ ReplyOutstanding'
    BY <2>1, <2>2 DEF Turn, NumbersPast, RequestOutstanding, ReplyOutstanding
  <2>4. NothingLeft'
    BY <2>1, <2>2 DEF Turn, NothingLeft
  <2>5. Found' /\ PreludeOfSet'
    BY <2>1 DEF Found, PreludeOfSet
  <2>6. VerdictStands'
    BY <2>1, <2>2 DEF Turn, VerdictStands
  <2>7. QED
    BY <2>3, <2>4, <2>5, <2>6 DEF Turn
<1>7. QED
  BY <1>1, <1>2, <1>3, <1>4, <1>5, <1>6 DEF Start

-----------------------------------------------------------------------------
(* Steps of Recv that end the operation. *)
LEMMA TurnReturns ==
  ASSUME InTurn, TypeOK, Turn, TimesOut \/ RecvFails \/ FindReturns
  PROVE  Turn'
<1>1. /\ phase # "idle" /\ at \in 1..Len(script) /\ script \in Scripts
      /\ reading \in BOOLEAN /\ expired \in BOOLEAN
  BY ScriptType DEF TypeOK, CallerType, TimesOut, RecvFails, FindReturns
<1>2. /\ UNCHANGED <<script, expired, seq, served, wire, inbox>>
      /\ Silence => Silence'
  BY DEF TimesOut, RecvFails, FindReturns, target, Silence, ToTarget, FromTarget
<1>3. Step = "find" /\ known => seq \in served
  BY <1>1 DEF Turn, Found
<1>4. CASE TimesOut
  <2>1. PICK res : /\ Conclude(at, res) /\ res # "error" /\ expired
                   /\ res = "ok" => Step = "discover" \/ (Step = "find" /\ known)
    BY <1>4 DEF TimesOut
  <2>2. (OneShot => ~expired') => Silence'
    BY <1>1, <1>2, <2>1 DEF Turn, NothingLeft
  <2>3. QED
    BY <1>1, <1>2, <1>3, <2>1, <2>2, ConcludeTurn DEF Step
<1>5. CASE RecvFails
  <2>1. PICK res : /\ Conclude(at, res) /\ res \in {"ok", "broken"} /\ reading
                   /\ res = "ok" => Step = "find" /\ known
    BY <1>5 DEF RecvFails
  <2>2. res = "broken" => at' = Len(script)
    BY <2>1 DEF Conclude
  <2>3. res = "ok" => Silence'
    BY <1>2, <2>1 DEF Turn, ReplyOutstanding, Listening
  <2>4. at' < Len(script) => Silence'
    BY <1>1, <2>1, <2>2, <2>3, ScriptType
  <2>5. QED
    BY <1>1, <1>2, <1>3, <2>1, <2>4, ConcludeTurn DEF Step
<1>6. CASE FindReturns
  <2>1. Conclude(at, "ok") /\ Step = "find" /\ known
    BY <1>6 DEF FindReturns
  <2>2. OneShot
    BY <1>1, <2>1, DiscoveryAssumption DEF Step
  <2>3. ~expired' => Silence'
    BY <1>1, <1>2, <2>1 DEF Turn, ReplyOutstanding, Listening
  <2>4. QED
    BY <1>1, <1>2, <1>3, <2>1, <2>2, <2>3, ConcludeTurn
<1>7. QED
  BY <1>4, <1>5, <1>6

(* A discovery reply fills in the map, whoever it comes from. *)
LEMMA TurnDiscovers ==
  ASSUME InTurn, TypeOK, Turn, NEW r \in inbox, HandleDiscoveryReply(r)
  PROVE  Turn'
<1>1. /\ reading /\ phase # "idle" /\ at > 0 /\ Step \in Discoveries
      /\ inbox' = inbox \ {r} /\ reading' = FALSE
      /\ UNCHANGED <<caller, phase, expired, seq, last, wire, served>>
  BY DEF HandleDiscoveryReply, TypeOK, CallerType, target
<1>2. \A s \in inbox' : s \in inbox /\ s.seq <= seq
  BY <1>1 DEF Turn, NumbersPast
<1>3. Step' = Step /\ ToTarget' = ToTarget
  BY <1>1 DEF Step, caller, ToTarget
<1>4. CASE r.node = Target
  <2>1. ToTarget = {} /\ FromTarget' = {}
    BY <1>1, <1>4, TakenReply
  <2>2. Asked = "AdvDisc"
    BY <1>1 DEF Turn, PreludeOfSet, Asked, Method, Discoveries
  <2>3. seq \in served
    BY <1>1, <1>4, <2>2, TakenReply
  <2>4. NumbersPast'
    BY <1>1, <1>2 DEF Turn, NumbersPast
  <2>5. RequestOutstanding' /\ ReplyOutstanding' /\ NothingLeft'
    BY <1>3, <2>1 DEF RequestOutstanding, ReplyOutstanding, NothingLeft, Silence
  <2>6. Found' /\ VerdictStands' /\ PreludeOfSet'
    BY <1>1, <1>3, <2>3 DEF Turn, Found, VerdictStands, PreludeOfSet, caller
  <2>7. QED
    BY <2>4, <2>5, <2>6 DEF Turn
<1>5. CASE r.node # Target
  <2>1. known' = known /\ FromTarget' \subseteq FromTarget
    BY <1>1, <1>5 DEF HandleDiscoveryReply, entry, FromTarget
  <2>2. Listening
    BY <1>1 DEF Listening
  <2>3. \A m \in wire' : m.seq <= seq
    BY <1>1 DEF Turn, NumbersPast
  <2>4. QED
    BY <1>1, <1>2, <1>3, <2>1, <2>2, <2>3, QuietTurn
<1>6. QED
  BY <1>4, <1>5

(* The reply that ends an operation, or the read inside a set. *)
LEMMA TurnTakes ==
  ASSUME InTurn, TypeOK, TypeOK', Turn, NEW r \in inbox,
         PreludeReply(r) \/ PreludeSendFails(r) \/ OperationReply(r)
  PROVE  Turn'
<1>1. /\ reading /\ r.node = Target /\ inbox' = inbox \ {r}
      /\ UNCHANGED <<script, expired, served>>
  BY DEF PreludeReply, PreludeSendFails, OperationReply, Take, FromDevice, target
<1>2. /\ phase # "idle" /\ at \in 1..Len(script)
      /\ seq \in Nat /\ expired \in BOOLEAN
  BY <1>1, ScriptType DEF TypeOK, CallerType, NetworkType
<1>3. /\ ToTarget = {} /\ FromTarget' = {} /\ ~Silence
      /\ r.method \in {Asked, "Error"}
      /\ r.method = "Error" => seq \notin served
      /\ r.method # "Error" => seq \in served
  BY <1>1, TakenReply
<1>4. wire' = wire => ToTarget' = {} /\ Silence'
  BY <1>3 DEF Silence, ToTarget
<1>5. ASSUME phase = "prelude"
      PROVE  Step = "set" /\ Asked = "GetData"
  BY <1>5 DEF Turn, PreludeOfSet, Asked
<1>6. CASE PreludeReply(r)
  <2>1. CASE r.method # "GetData" /\ Conclude(at, "error") /\ UNCHANGED <<seq, wire>>
    <3>1. r.method = "Error"
      BY <1>3, <1>5, <1>6, <2>1 DEF PreludeReply
    <3>2. QED
      BY <1>1, <1>2, <1>3, <1>4, <2>1, <3>1, ConcludeTurn
  <2>2. CASE /\ phase' = "wait" /\ reading' = FALSE /\ at' = at
             /\ Transmit("SetData", {Target}, {}, Merge(Merge(cache, r.data), cfg))
    <3>1. Step' = "set" /\ Asked' = "SetData" /\ PreludeOfSet'
      BY <1>1, <1>5, <1>6, <2>2
         DEF PreludeReply, Step, Asked, Method, Discoveries, PreludeOfSet
    <3>2. ~OneShot => ~expired'
      BY <1>1, <1>2, <1>3 DEF Turn, NothingLeft
    <3>3. /\ phase' \in {"prelude", "wait"} /\ at' # 0 /\ inbox' \subseteq inbox
          /\ Step' # "find" /\ served' = served /\ Target \in {Target}
      BY <1>1, <1>2, <2>2, <3>1, ScriptType DEF TypeOK, CallerType
    <3>4. ToTarget = {} /\ FromTarget' = {} /\ reading' = FALSE
      BY <1>3, <2>2
    <3>5. QED
      BY <2>2, <3>1, <3>2, <3>3, <3>4, SendTurn
  <2>3. QED
    BY <1>6, <2>1, <2>2 DEF PreludeReply
<1>7. CASE PreludeSendFails(r)
  <2>1. Conclude(at, "error") /\ seq' = seq + 1 /\ wire' = wire
    BY <1>7 DEF PreludeSendFails
  <2>2. seq' \notin served
    BY <1>2, <2>1 DEF TypeOK, DeviceType, Turn, NumbersPast
  <2>3. QED
    BY <1>1, <1>2, <1>3, <1>4, <2>1, <2>2, ConcludeTurn
<1>8. CASE OperationReply(r)
  <2>1. phase = "wait" /\ seq' = seq /\ wire' = wire
    BY <1>8 DEF OperationReply
  <2>2. Asked = Method(Step) /\ Method(Step) \in Accepted(Step) /\ "Error" \notin Accepted(Step)
    BY <2>1 DEF Asked, Accepted, Method, Discoveries
  <2>3. CASE r.method \in Accepted(Step) /\ Conclude(at, "ok")
    BY <1>1, <1>2, <1>3, <1>4, <2>1, <2>2, <2>3, ConcludeTurn
  <2>4. CASE r.method \notin Accepted(Step) /\ Conclude(at, "error")
    BY <1>1, <1>2, <1>3, <1>4, <2>1, <2>2, <2>4, ConcludeTurn
  <2>5. QED
    BY <1>8, <2>3, <2>4 DEF OperationReply
<1>9. QED
  BY <1>6, <1>7, <1>8

(* Steps that leave the operation waiting. *)
LEMMA TurnWaits ==
  ASSUME InTurn, TypeOK, Turn,
         RecvCheck \/ ReadTimesOut \/ Deadline \/ \E r \in inbox : IgnoreReply(r)
  PROVE  Turn'
<1>1. /\ UNCHANGED <<caller, phase, seq, known, last, served, wire>> /\ inbox' \subseteq inbox
  BY DEF RecvCheck, ReadTimesOut, Deadline, IgnoreReply, entry, target
<1>2. ToTarget' = ToTarget /\ FromTarget' \subseteq FromTarget
  BY <1>1 DEF ToTarget, FromTarget
<1>3. \A m \in wire' : m.seq <= seq
  BY <1>1 DEF Turn, NumbersPast
<1>4. \A r \in inbox' : r.seq <= seq
  BY <1>1 DEF Turn, NumbersPast
<1>5. Listening' => Listening
  BY DEF RecvCheck, ReadTimesOut, Deadline, IgnoreReply, Listening
<1>6. /\ phase # "idle" /\ ~OneShot /\ expired' => expired \/ Silence
      /\ OneShot /\ expired => expired'
  BY DEF RecvCheck, ReadTimesOut, Deadline, IgnoreReply, InTurn, Silence
<1>7. QED
  BY <1>1, <1>2, <1>3, <1>4, <1>5, <1>6, QuietTurn

LEMMA TurnReceive ==
  ASSUME InTurn, TypeOK, TypeOK', Turn, Receive
  PROVE  Turn'
BY TurnReturns, TurnDiscovers, TurnTakes, TurnWaits DEF Receive

(* The devices and the network. *)
LEMMA TurnDevice ==
  ASSUME InTurn, TypeOK, Turn, Device
  PROVE  Turn'
<1>1. PICK m \in wire : \/ OtherAnswers(m) \/ TargetSilent(m) \/ TargetRejects(m)
                        \/ TargetReads(m) \/ TargetWrites(m) \/ TargetResets(m)
  BY DEF Device
<1>2. /\ UNCHANGED <<caller, recv, seq, entry, cfg, last>> /\ wire' = wire \ {m}
  BY <1>1 DEF OtherAnswers, TargetSilent, TargetRejects, TargetReads, TargetWrites,
              TargetResets, Serves, Client
<1>3. m.seq <= seq /\ m.method \in Methods
  BY DEF Turn, NumbersPast, TypeOK, NetworkType, Requests
<1>4. CASE OtherAnswers(m)
  <2>1. PICK from \in Addrs : Answer(m, m.method, Empty, from)
    BY <1>4 DEF OtherAnswers
  <2> DEFINE reply == [node |-> m.node, method |-> m.method, seq |-> m.seq,
                       copy |-> m.copy, ip |-> from, data |-> Empty]
  <2>2. m.node # Target /\ served' = served /\ inbox' = inbox \cup {reply}
    BY <1>4, <2>1 DEF OtherAnswers, Answer, target
  <2>3. reply.node # Target /\ reply.seq <= seq
    BY <1>3, <2>2
  <2> HIDE DEF reply
  <2>4. FromTarget' = FromTarget /\ ToTarget' \subseteq ToTarget
    BY <1>2, <2>2, <2>3 DEF FromTarget, ToTarget
  <2>5. \A q \in wire' : q.seq <= seq
    BY <1>2 DEF Turn, NumbersPast
  <2>6. \A r \in inbox' : r.seq <= seq
    BY <2>2, <2>3 DEF Turn, NumbersPast
  <2>7. UNCHANGED <<caller, phase, seq, known, last, served, expired, reading>>
    BY <1>2, <2>2 DEF recv, entry
  <2>8. Listening' => Listening
    BY <2>7 DEF Listening
  <2>9. QED
    BY <2>4, <2>5, <2>6, <2>7, <2>8, QuietTurn
<1>5. ASSUME NEW method, NEW data, NEW from,
             Answer(m, method, data, from), m.node = Target,
             \/ method = "Error" /\ m.method # "AdvDisc" /\ served' = served
             \/ method = m.method /\ served' = served \cup {m.seq}
      PROVE  Turn'
  <2> DEFINE reply == [node |-> m.node, method |-> method, seq |-> m.seq,
                       copy |-> m.copy, ip |-> from, data |-> data]
  <2>1. inbox' = inbox \cup {reply}
    BY <1>5 DEF Answer
  <2>2. reply.node = Target /\ reply.seq = m.seq /\ reply.method = method
    BY <1>5
  <2>3. m.method # "Error"
    BY <1>3 DEF Methods
  <2> HIDE DEF reply
  <2>4. QED
    BY <1>2, <1>5, <2>1, <2>2, <2>3, ServeTurn
<1>6. ASSUME inbox' = inbox, m.node = Target, served' \in {served, served \cup {m.seq}}
      PROVE  Turn'
  <2> DEFINE reply == [node |-> Target, seq |-> m.seq]
  <2>1. reply.node = Target /\ reply.seq = m.seq
    OBVIOUS
  <2> HIDE DEF reply
  <2>2. QED
    BY <1>2, <1>6, <2>1, ServeTurn
<1>7. CASE TargetSilent(m)
  BY <1>6, <1>7 DEF TargetSilent, target
<1>8. CASE TargetRejects(m)
  BY <1>5, <1>8 DEF TargetRejects, target
<1>9. CASE TargetReads(m)
  BY <1>5, <1>9 DEF TargetReads, Serves
<1>10. CASE TargetWrites(m)
  BY <1>5, <1>10 DEF TargetWrites, Serves
<1>11. CASE TargetResets(m)
  BY <1>5, <1>6, <1>11 DEF TargetResets, Serves
<1>12. QED
  BY <1>1, <1>4, <1>7, <1>8, <1>9, <1>10, <1>11

LEMMA TurnWorld ==
  ASSUME TypeOK, Turn, TargetBoots \/ ForeignWrite \/ Lose
  PROVE  Turn'
<1>1. /\ UNCHANGED <<caller, phase, seq, known, last, served, reading, expired>>
      /\ wire' \subseteq wire /\ inbox' \subseteq inbox
  BY DEF TargetBoots, ForeignWrite, Lose, Client, recv, entry, target
<1>2. ToTarget' \subseteq ToTarget /\ FromTarget' \subseteq FromTarget
  BY <1>1 DEF ToTarget, FromTarget
<1>3. \A m \in wire' : m.seq <= seq
  BY <1>1 DEF Turn, NumbersPast
<1>4. \A r \in inbox' : r.seq <= seq
  BY <1>1 DEF Turn, NumbersPast
<1>5. Listening' => Listening
  BY <1>1 DEF Listening
<1>6. QED
  BY <1>1, <1>2, <1>3, <1>4, <1>5, QuietTurn

LEMMA TurnStutter ==
  ASSUME TypeOK, Turn, UNCHANGED vars
  PROVE  Turn'
BY DEF vars, Turn, NumbersPast, RequestOutstanding, ReplyOutstanding, NothingLeft, Found,
       PreludeOfSet, VerdictStands, Listening, Asked, Silence, Step, ToTarget, FromTarget

-----------------------------------------------------------------------------
(* A session in turn never has anything of the target in flight but the     *)
(* request it waits on or the one reply to it (config.go:24-48).            *)
THEOREM TurnHolds == ASSUME InTurn PROVE Spec => []Turn
<1>1. Init => Turn
  BY TurnInit
<1>2. TypeOK /\ TypeOK' /\ Turn /\ [Next]_vars => Turn'
  <2> SUFFICES ASSUME TypeOK, TypeOK', Turn, [Next]_vars
               PROVE  Turn'
    OBVIOUS
  <2>1. CASE Start
    BY <2>1, TurnStart
  <2>2. CASE Receive
    BY <2>2, TurnReceive
  <2>3. CASE Deadline
    BY <2>3, TurnWaits
  <2>4. CASE Device
    BY <2>4, TurnDevice
  <2>5. CASE TargetBoots \/ ForeignWrite \/ Lose
    BY <2>5, TurnWorld
  <2>6. CASE UNCHANGED vars
    BY <2>6, TurnStutter
  <2>7. QED
    BY <2>1, <2>2, <2>3, <2>4, <2>5, <2>6 DEF Next
<1>3. QED
  BY <1>1, <1>2, TypeCorrect, PTL DEF Spec

(* Whatever reaches an operation of a session in turn answers its own       *)
(* request: the sequence check the code leaves out is not missed.           *)
THEOREM Correlated == ASSUME InTurn PROVE Spec => []CorrelatedReplies
<1>1. Turn => CorrelatedReplies
  BY DEF Turn, ReplyOutstanding, Listening, CorrelatedReplies
<1>2. QED
  BY <1>1, TurnHolds, PTL

(* In turn, an operation that reports success was carried out by the        *)
(* device, and one that reports the device's refusal was not.               *)
THEOREM Truthful == ASSUME InTurn PROVE Spec => []VerdictIsTrue
<1>1. Turn => VerdictIsTrue
  BY DEF Turn, VerdictStands, VerdictIsTrue
<1>2. QED
  BY <1>1, TurnHolds, PTL

-----------------------------------------------------------------------------
(* A session in turn never shows a value the device has not held, nor an   *)
(* entry that is not of a discovery: TurnValues is inductive beside Turn.  *)

(* Steps that bring no new value. *)

LEMMA QuietValues ==
  ASSUME ValuesHeld, inbox' \subseteq inbox, nv' = nv, held' = held,
         \A p \in DOMAIN cache' : cache'[p] \in held[p]
  PROVE  ValuesHeld'
BY DEF ValuesHeld

LEMMA QuietCarries ==
  ASSUME TypeOK, SetCarriesConfig, Listening' => Listening, phase' = phase, Step' = Step,
         cfg' = cfg, seq' = seq, served' = served, ToTarget' \subseteq ToTarget,
         \A p \in Params : held[p] \subseteq held'[p]
  PROVE  SetCarriesConfig'
<1>1. DOMAIN cfg \subseteq Params
  BY ConfigShape DEF TypeOK, EntryType
<1>2. QED
  BY <1>1 DEF SetCarriesConfig

LEMMA NotASet ==
  ASSUME phase' # "wait" \/ Step' # "set"
  PROVE  SetCarriesConfig'
BY DEF SetCarriesConfig

(* What is merged from held values is held. *)
LEMMA MergeHeld ==
  ASSUME NEW a \in Configs, NEW b \in Configs,
         \A p \in DOMAIN a : a[p] \in held[p], \A p \in DOMAIN b : b[p] \in held[p]
  PROVE  \A p \in DOMAIN Merge(a, b) : Merge(a, b)[p] \in held[p]
<1>1. /\ DOMAIN Merge(a, b) = DOMAIN a \cup DOMAIN b
      /\ \A p \in DOMAIN a \cup DOMAIN b :
           Merge(a, b)[p] = IF p \in DOMAIN b THEN b[p] ELSE a[p]
  BY MergeConfig
<1>2. QED
  BY <1>1

(* A SetData goes out: it carries the config, and nobody has seen it yet. *)
LEMMA SetSent ==
  ASSUME InTurn, TypeOK, Turn, NEW old \in Configs, cfg' \in Configs,
         Transmit("SetData", {Target}, {}, Merge(old, cfg')), served' = served,
         Listening' => ToTarget = {}
  PROVE  SetCarriesConfig'
<1> DEFINE write == Merge(old, cfg')
<1>1. \A p \in DOMAIN cfg' : p \in DOMAIN write /\ write[p] = cfg'[p]
  <2>1. /\ DOMAIN write = DOMAIN old \cup DOMAIN cfg'
        /\ \A p \in DOMAIN old \cup DOMAIN cfg' :
             write[p] = IF p \in DOMAIN cfg' THEN cfg'[p] ELSE old[p]
    BY MergeConfig
  <2> HIDE DEF write
  <2>2. QED
    BY <2>1
<1>2. NetworkType /\ seq \in Nat /\ served \subseteq Nat
  BY DEF TypeOK, NetworkType, DeviceType
<1> HIDE DEF write
<1>3. PICK m : /\ ToTarget' = ToTarget \cup {m}
               /\ m.seq = seq' /\ m.method = "SetData" /\ m.write = write
  BY <1>2, TransmitOne DEF write
<1>4. seq' \notin served'
  BY <1>2 DEF Transmit, Turn, NumbersPast
<1>5. Listening' => ToTarget' = {m}
  BY <1>3
<1>6. QED
  BY <1>1, <1>3, <1>4, <1>5 DEF SetCarriesConfig

-----------------------------------------------------------------------------
LEMMA ValuesInit == ASSUME Init PROVE TurnValues
BY EmptyConfig DEF Init, TurnValues, ValuesHeld, SetCarriesConfig, Listening

LEMMA ValuesStart ==
  ASSUME InTurn, TypeOK, TypeOK', Turn, TurnValues, Start
  PROVE  TurnValues'
<1>1. UNCHANGED <<cache, inbox, nv, held, served, script>>
  BY DEF Start, StartDiscovery, StartRead, StartSet, StartSimple, SendFails, SkipQuery,
         Transmit, Wait, Conclude, entry, target, recv
<1>2. ValuesHeld'
  BY <1>1 DEF TurnValues, ValuesHeld
<1>3. /\ phase = "idle" /\ at \in Nat /\ Len(script) \in Nat
      /\ script \in Scripts /\ at < Len(script)
  BY ScriptType DEF TypeOK, CallerType, Start, StartDiscovery, StartRead, StartSet, StartSimple,
                    SendFails, SkipQuery, Begin
<1>4. CASE StartSet
  <2>1. PICK config \in Configs \ {Empty} :
          /\ Begin("set") /\ cfg' = config
          /\ \/ cache = Empty /\ Wait("prelude") /\ Transmit("GetData", {Target}, Params, Empty)
             \/ cache # Empty /\ Wait("wait")
                /\ Transmit("SetData", {Target}, {}, Merge(cache, config))
    BY <1>4 DEF StartSet
  <2>2. CASE Wait("prelude")
    BY <1>2, <2>2, NotASet DEF Wait, TurnValues
  <2>3. CASE Wait("wait") /\ Transmit("SetData", {Target}, {}, Merge(cache, cfg'))
    <3>1. Listening' => ToTarget = {}
      BY <1>3, <2>1, <2>3 DEF Begin, Wait, Listening, Turn, NothingLeft, Silence
    <3>2. cache \in Configs /\ cfg' \in Configs
      BY <2>1 DEF TypeOK, EntryType
    <3>3. SetCarriesConfig'
      BY <1>1, <2>3, <3>1, <3>2, SetSent
    <3>4. QED
      BY <1>2, <3>3 DEF TurnValues
  <2>4. QED
    BY <2>1, <2>2, <2>3
<1>5. CASE StartDiscovery \/ StartRead \/ StartSimple
  <2>1. PICK step \in Discoveries \cup {"getall", "get", "reset", "getip", "getuuid"} :
          Begin(step) /\ Wait("wait")
    BY <1>5 DEF StartDiscovery, StartRead, StartSimple
  <2>2. Step' # "set"
    BY <1>1, <2>1 DEF Begin, Wait, Step, Discoveries
  <2>3. QED
    BY <1>2, <2>2, NotASet DEF TurnValues
<1>6. CASE SendFails
  BY <1>2, <1>6, NotASet DEF SendFails, Conclude, TurnValues
<1>7. CASE SkipQuery
  BY <1>2, <1>3, <1>7, NotASet DEF SkipQuery, TurnValues, recv
<1>8. QED
  BY <1>4, <1>5, <1>6, <1>7 DEF Start

(* Returns, and the steps of Recv between packets. *)
LEMMA ValuesWait ==
  ASSUME TypeOK, TurnValues,
         \/ RecvCheck \/ ReadTimesOut \/ TimesOut \/ RecvFails \/ FindReturns
         \/ Deadline \/ \E r \in inbox : IgnoreReply(r)
  PROVE  TurnValues'
<1>1. /\ UNCHANGED <<cache, nv, held, served, script, cfg, seq, wire>>
      /\ inbox' \subseteq inbox
  BY DEF RecvCheck, ReadTimesOut, TimesOut, RecvFails, FindReturns, Deadline, IgnoreReply,
         caller, entry, target
<1>2. ValuesHeld'
  BY <1>1 DEF TurnValues, ValuesHeld
<1>3. CASE TimesOut \/ RecvFails \/ FindReturns
  BY <1>2, <1>3, NotASet DEF TimesOut, RecvFails, FindReturns, Conclude, TurnValues
<1>4. CASE RecvCheck \/ ReadTimesOut \/ Deadline \/ \E r \in inbox : IgnoreReply(r)
  <2>1. phase' = phase /\ at' = at
    BY <1>4 DEF RecvCheck, ReadTimesOut, Deadline, IgnoreReply, caller
  <2>2. Listening' => Listening
    BY <1>4 DEF RecvCheck, ReadTimesOut, Deadline, IgnoreReply, Listening
  <2>3. Step' = Step /\ ToTarget' = ToTarget
    BY <1>1, <2>1 DEF Step, ToTarget
  <2>4. SetCarriesConfig'
    BY <1>1, <2>1, <2>2, <2>3, QuietCarries DEF TurnValues
  <2>5. QED
    BY <1>2, <2>4 DEF TurnValues
<1>5. QED
  BY <1>3, <1>4

LEMMA ValuesDiscover ==
  ASSUME TypeOK, TurnValues, NEW r \in inbox, HandleDiscoveryReply(r)
  PROVE  TurnValues'
<1>1. /\ UNCHANGED <<nv, held, script, at>> /\ inbox' \subseteq inbox
      /\ cache' # cache => cache' = Empty
      /\ Step \in Discoveries
  BY DEF HandleDiscoveryReply, caller, entry, target
<1>2. ValuesHeld'
  BY <1>1, EmptyConfig DEF TurnValues, ValuesHeld
<1>3. Step' # "set"
  BY <1>1 DEF HandleDiscoveryReply, Step, Discoveries
<1>4. QED
  BY <1>2, <1>3, NotASet DEF TurnValues

(* What an operation takes from a reply. *)
LEMMA ValuesTake ==
  ASSUME InTurn, TypeOK, TypeOK', Turn, TurnValues, NEW r \in inbox,
         PreludeReply(r) \/ PreludeSendFails(r) \/ OperationReply(r)
  PROVE  TurnValues'
<1>1. /\ reading /\ r.node = Target /\ inbox' = inbox \ {r}
      /\ UNCHANGED <<script, cfg, nv, held, served>>
  BY DEF PreludeReply, PreludeSendFails, OperationReply, Take, FromDevice, target
<1>2. /\ ToTarget = {} /\ r.method \in {Asked, "Error"}
      /\ r.method # "Error" => seq \in served
  BY <1>1, TakenReply
<1>3. cache \in Configs /\ cfg \in Configs /\ r.data \in Configs /\ Listening
  BY <1>1 DEF TypeOK, EntryType, NetworkType, Replies, Listening
<1>4. \A p \in DOMAIN Merge(cache, r.data) : Merge(cache, r.data)[p] \in held[p]
  BY <1>3, MergeHeld DEF TurnValues, ValuesHeld
<1>5. CASE PreludeReply(r) \/ PreludeSendFails(r)
  <2>1. cache' = cache \/ cache' = Merge(cache, r.data)
    BY <1>5 DEF PreludeReply, PreludeSendFails, entry
  <2>2. ValuesHeld'
    <3>1. \A p \in DOMAIN cache' : cache'[p] \in held[p]
      BY <1>4, <2>1 DEF TurnValues, ValuesHeld
    <3>2. QED
      BY <1>1, <3>1, QuietValues DEF TurnValues
  <2>3. CASE phase' = "idle"
    BY <2>2, <2>3, NotASet DEF TurnValues
  <2>4. CASE Transmit("SetData", {Target}, {}, Merge(Merge(cache, r.data), cfg))
    <3>1. Merge(cache, r.data) \in Configs
      BY <1>3, MergeConfig
    <3>2. SetCarriesConfig'
      BY <1>1, <1>2, <1>3, <2>4, <3>1, SetSent
    <3>3. QED
      BY <2>2, <3>2 DEF TurnValues
  <2>5. QED
    BY <1>5, <2>3, <2>4 DEF PreludeReply, PreludeSendFails, Conclude
<1>6. CASE OperationReply(r)
  <2>1. phase' = "idle"
    BY <1>6 DEF OperationReply, Conclude
  <2>2. cache' = cache \/ (cache' = Learnt(r) /\ r.method \in Accepted(Step) /\ phase = "wait")
    BY <1>6 DEF OperationReply, entry
  <2>3. CASE Step = "set" /\ cache' = Learnt(r) /\ r.method \in Accepted(Step) /\ phase = "wait"
    <3>1. r.method # "Error"
      BY <2>3 DEF Accepted
    <3>2. \A p \in DOMAIN cfg : cfg[p] \in held[p]
      BY <1>2, <1>3, <2>3, <3>1 DEF TurnValues, SetCarriesConfig
    <3>3. cache' = Merge(cache, cfg)
      BY <2>3 DEF Learnt
    <3>4. \A p \in DOMAIN cache' : cache'[p] \in held[p]
      BY <1>3, <3>2, <3>3, MergeHeld DEF TurnValues, ValuesHeld
    <3>5. QED
      BY <1>1, <2>1, <3>4, QuietValues, NotASet DEF TurnValues
  <2>4. CASE cache' = cache \/ (Step # "set" /\ cache' = Learnt(r))
    <3>1. cache' = cache \/ cache' = Merge(cache, r.data)
      BY <2>4 DEF Learnt
    <3>2. \A p \in DOMAIN cache' : cache'[p] \in held[p]
      BY <1>4, <3>1 DEF TurnValues, ValuesHeld
    <3>3. QED
      BY <1>1, <2>1, <3>2, QuietValues, NotASet DEF TurnValues
  <2>5. QED
    BY <2>2, <2>3, <2>4
<1>7. QED
  BY <1>5, <1>6

-----------------------------------------------------------------------------
(* The device answers with what it holds. *)
LEMMA AnswerHeld ==
  ASSUME ValuesHeld, NEW m, NEW method, NEW data, NEW from,
         inbox' = inbox \/ Answer(m, method, data, from),
         \A p \in DOMAIN data : data[p] \in held'[p], DOMAIN data \subseteq Params,
         \A p \in Params : held[p] \subseteq held'[p] /\ nv'[p] \in held'[p],
         cache' = cache, cache \in Configs, inbox \subseteq Replies
  PROVE  ValuesHeld'
<1>1. \A p \in DOMAIN cache' : cache'[p] \in held'[p]
  BY ConfigShape DEF ValuesHeld
<1>2. ASSUME NEW r \in inbox
      PROVE  \A p \in DOMAIN r.data : r.data[p] \in held'[p]
  <2>1. r.data \in Configs
    BY DEF Replies
  <2>2. QED
    BY <2>1, ConfigShape DEF ValuesHeld
<1>3. \A r \in inbox' : \A p \in DOMAIN r.data : r.data[p] \in held'[p]
  BY <1>2 DEF Answer
<1>4. QED
  BY <1>1, <1>3 DEF ValuesHeld

LEMMA ValuesDevice ==
  ASSUME TypeOK, TypeOK', Turn, TurnValues, Device
  PROVE  TurnValues'
<1>1. PICK m \in wire : \/ OtherAnswers(m) \/ TargetSilent(m) \/ TargetRejects(m)
                        \/ TargetReads(m) \/ TargetWrites(m) \/ TargetResets(m)
  BY DEF Device
<1>2. UNCHANGED <<script, at, phase, reading, expired, seq, cache, cfg>> /\ wire' = wire \ {m}
  BY <1>1 DEF OtherAnswers, TargetSilent, TargetRejects, TargetReads, TargetWrites,
              TargetResets, Serves, Client, caller, recv, entry
<1>3. /\ Listening' = Listening /\ Step' = Step /\ ToTarget' \subseteq ToTarget
  BY <1>2 DEF Listening, Step, ToTarget
<1>4. /\ cache \in Configs /\ cfg \in Configs /\ inbox \subseteq Replies
      /\ m \in Requests /\ nv \in [Params -> Vals]
      /\ nv' \in [Params -> Vals] /\ held \in [Params -> SUBSET Vals]
  BY DEF TypeOK, EntryType, NetworkType, DeviceType
<1>5. \A p \in Params : nv[p] \in held[p]
  BY DEF TurnValues, ValuesHeld
<1>6. CASE OtherAnswers(m) \/ TargetSilent(m) \/ TargetRejects(m)
  <2>1. UNCHANGED <<nv, held, served>>
    BY <1>6 DEF OtherAnswers, TargetSilent, TargetRejects, target
  <2>2. inbox' = inbox \/ \E method, from : Answer(m, method, Empty, from)
    BY <1>6 DEF OtherAnswers, TargetSilent, TargetRejects
  <2>3. ValuesHeld'
    BY <1>2, <1>4, <1>5, <2>1, <2>2, AnswerHeld, EmptyConfig DEF TurnValues
  <2>4. SetCarriesConfig'
    BY <1>2, <1>3, <2>1, QuietCarries DEF TurnValues
  <2>5. QED
    BY <2>3, <2>4 DEF TurnValues
<1>7. CASE TargetReads(m) \/ TargetResets(m)
  <2>1. UNCHANGED <<nv, held>> /\ m.node = Target /\ m.method # "SetData"
    BY <1>7 DEF TargetReads, TargetResets, Serves
  <2>2. \/ inbox' = inbox
        \/ Answer(m, "Reset", Empty, addr)
        \/ Answer(m, m.method, [p \in m.want |-> nv[p]], addr)
    BY <1>7 DEF TargetReads, TargetResets
  <2>3. m.want \subseteq Params
    BY <1>4 DEF Requests
  <2>4. ValuesHeld'
    <3>1. \A p \in Params : held[p] \subseteq held'[p] /\ nv'[p] \in held'[p]
      BY <1>5, <2>1
    <3>2. ValuesHeld /\ cache' = cache
      BY <1>2 DEF TurnValues
    <3>3. CASE inbox' = inbox \/ Answer(m, "Reset", Empty, addr)
      BY <1>4, <3>1, <3>2, <3>3, AnswerHeld, EmptyConfig
    <3>4. CASE Answer(m, m.method, [p \in m.want |-> nv[p]], addr)
      <4> DEFINE read == [p \in m.want |-> nv[p]]
      <4>1. DOMAIN read \subseteq Params /\ \A p \in DOMAIN read : read[p] \in held'[p]
        BY <2>3, <1>5, <2>1
      <4>2. Answer(m, m.method, read, addr)
        BY <3>4
      <4> HIDE DEF read
      <4>3. QED
        BY <1>4, <3>1, <3>2, <4>1, <4>2, AnswerHeld
    <3>5. QED
      BY <2>2, <3>3, <3>4
  <2>5. ~(Listening' /\ phase' = "wait" /\ Step' = "set")
    <3>1. m \in ToTarget
      BY <2>1 DEF ToTarget
    <3>2. Listening => m.method = Asked
      BY <3>1 DEF Turn, RequestOutstanding
    <3>3. QED
      BY <1>2, <1>3, <2>1, <3>2 DEF Asked, Method, Discoveries
  <2>6. SetCarriesConfig'
    BY <2>5 DEF SetCarriesConfig
  <2>7. QED
    BY <2>4, <2>6 DEF TurnValues
<1>8. CASE TargetWrites(m)
  <2>1. /\ m.node = Target /\ m.method = "SetData" /\ served' = served \cup {m.seq}
        /\ Answer(m, "SetData", Empty, addr)
        /\ held' = [p \in Params |-> held[p] \cup {nv'[p]}]
    BY <1>8 DEF TargetWrites, Serves
  <2>2. \A p \in Params \cap DOMAIN m.write : nv'[p] = m.write[p]
    BY <1>8 DEF TargetWrites
  <2>3. \A p \in Params : held[p] \subseteq held'[p] /\ nv'[p] \in held'[p]
    BY <2>1
  <2>4. ValuesHeld'
    BY <1>2, <1>4, <2>1, <2>3, AnswerHeld, EmptyConfig DEF TurnValues
  <2>5. ASSUME Listening, phase = "wait", Step = "set"
        PROVE  /\ \A n \in ToTarget' : \A p \in DOMAIN cfg : p \in DOMAIN n.write
                                                          /\ n.write[p] = cfg[p]
               /\ \A p \in DOMAIN cfg : cfg[p] \in held'[p]
    <3>1. m \in ToTarget
      BY <2>1 DEF ToTarget
    <3>2. DOMAIN cfg \subseteq Params
      BY <1>4, ConfigShape
    <3>3. \A n \in ToTarget : \A p \in DOMAIN cfg : p \in DOMAIN n.write /\ n.write[p] = cfg[p]
      BY <2>5 DEF TurnValues, SetCarriesConfig
    <3>4. QED
      BY <1>3, <2>2, <2>3, <3>1, <3>2, <3>3
  <2>6. SetCarriesConfig'
    BY <1>2, <1>3, <2>5 DEF SetCarriesConfig
  <2>7. QED
    BY <2>4, <2>6 DEF TurnValues
<1>9. QED
  BY <1>1, <1>6, <1>7, <1>8

LEMMA ValuesWorld ==
  ASSUME TypeOK, TypeOK', TurnValues, TargetBoots \/ ForeignWrite \/ Lose
  PROVE  TurnValues'
<1>1. /\ UNCHANGED <<script, at, phase, reading, expired, seq, cache, cfg, served>>
      /\ wire' \subseteq wire /\ inbox' \subseteq inbox
  BY DEF TargetBoots, ForeignWrite, Lose, Client, caller, recv, entry, target
<1>2. /\ cache \in Configs /\ inbox \subseteq Replies
      /\ nv \in [Params -> Vals] /\ held \in [Params -> SUBSET Vals]
      /\ nv' \in [Params -> Vals]
  BY DEF TypeOK, EntryType, NetworkType, DeviceType
<1>3. \A p \in Params : held[p] \subseteq held'[p] /\ nv'[p] \in held'[p]
  <2>1. CASE TargetBoots \/ Lose
    <3>1. UNCHANGED <<nv, held>>
      BY <2>1 DEF TargetBoots, Lose, target
    <3>2. QED
      BY <3>1 DEF TurnValues, ValuesHeld
  <2>2. CASE ForeignWrite
    <3>1. PICK q \in ForeignParams, v \in Vals :
            /\ nv' = [nv EXCEPT ![q] = v] /\ held' = [held EXCEPT ![q] = @ \cup {v}]
      BY <2>2 DEF ForeignWrite
    <3>2. QED
      BY <1>2, <3>1 DEF TurnValues, ValuesHeld
  <2>3. QED
    BY <2>1, <2>2
<1>4. ValuesHeld'
  <2>1. \A p \in DOMAIN cache' : cache'[p] \in held'[p]
    BY <1>1, <1>2, <1>3, ConfigShape DEF TurnValues, ValuesHeld
  <2>2. ASSUME NEW r \in inbox'
        PROVE  \A p \in DOMAIN r.data : r.data[p] \in held'[p]
    <3>1. r \in inbox /\ r.data \in Configs
      BY <1>1, <1>2 DEF Replies
    <3>2. QED
      BY <1>3, <3>1, ConfigShape DEF TurnValues, ValuesHeld
  <2>3. QED
    BY <1>3, <2>1, <2>2 DEF ValuesHeld
<1>5. Listening' = Listening /\ Step' = Step /\ ToTarget' \subseteq ToTarget
  BY <1>1 DEF Listening, Step, ToTarget
<1>6. SetCarriesConfig'
  BY <1>1, <1>3, <1>5, QuietCarries DEF TurnValues
<1>7. QED
  BY <1>4, <1>6 DEF TurnValues

-----------------------------------------------------------------------------
LEMMA TurnValuesHold == ASSUME InTurn PROVE Spec => []TurnValues
<1>1. Init => TurnValues
  BY ValuesInit
<1>2. TypeOK /\ TypeOK' /\ Turn /\ TurnValues /\ [Next]_vars => TurnValues'
  <2> SUFFICES ASSUME TypeOK, TypeOK', Turn, TurnValues, [Next]_vars
               PROVE  TurnValues'
    OBVIOUS
  <2>1. CASE Start
    BY <2>1, ValuesStart
  <2>2. CASE Receive \/ Deadline
    BY <2>2, ValuesWait, ValuesDiscover, ValuesTake DEF Receive
  <2>3. CASE Device
    BY <2>3, ValuesDevice
  <2>4. CASE TargetBoots \/ ForeignWrite \/ Lose
    BY <2>4, ValuesWorld
  <2>5. CASE UNCHANGED vars
    BY <2>5 DEF vars, TurnValues, ValuesHeld, SetCarriesConfig, Listening, Step, ToTarget
  <2>6. QED
    BY <2>1, <2>2, <2>3, <2>4, <2>5 DEF Next
<1>3. QED
  BY <1>1, <1>2, TypeCorrect, TurnHolds, PTL DEF Spec

(* In turn, Device.Parameters never shows a value the device has not held:  *)
(* a set's values enter it behind an acknowledgement that is really the     *)
(* set's own (config.go:148-151).                                           *)
THEOREM NoPhantom == ASSUME InTurn PROVE Spec => []CacheNeverPhantom
<1>1. TurnValues => CacheNeverPhantom
  BY DEF TurnValues, ValuesHeld, CacheNeverPhantom
<1>2. QED
  BY <1>1, TurnValuesHold, PTL

(* In turn, the entry of the client's map is always made of an answer to a  *)
(* discovery, though the code takes any packet for one (discovery.go:37-54).*)
THEOREM EntryIsDiscovered == ASSUME InTurn PROVE Spec => []EntryFromDiscovery
<1>1. Init => EntryFromDiscovery
  BY DEF Init, EntryFromDiscovery
<1>2. ASSUME TypeOK, Turn, EntryFromDiscovery, NEW r \in inbox, HandleDiscoveryReply(r)
      PROVE  EntryFromDiscovery'
  <2>1. CASE r.node = Target
    <3>1. reading /\ Step \in Discoveries /\ inbox' = inbox \ {r} /\ meta' = r.method
      BY <1>2, <2>1 DEF HandleDiscoveryReply
    <3>2. Asked = "AdvDisc"
      BY <1>2, <3>1 DEF Turn, PreludeOfSet, Asked, Method, Discoveries
    <3>3. r.method = "AdvDisc"
      BY <1>2, <2>1, <3>1, <3>2, TakenReply
    <3>4. QED
      BY <3>1, <3>3 DEF EntryFromDiscovery
  <2>2. CASE r.node # Target
    BY <1>2, <2>2 DEF HandleDiscoveryReply, EntryFromDiscovery, entry
  <2>3. QED
    BY <2>1, <2>2
<1>3. ASSUME Next, ~\E r \in inbox : HandleDiscoveryReply(r)
      PROVE  UNCHANGED <<known, meta>>
  <2>1. CASE Start
    BY <2>1 DEF Start, StartDiscovery, StartRead, StartSet, StartSimple, SendFails, SkipQuery,
                entry
  <2>2. CASE Receive
    BY <1>3, <2>2 DEF Receive, RecvCheck, ReadTimesOut, TimesOut, RecvFails, FindReturns,
                      IgnoreReply, PreludeReply, PreludeSendFails, OperationReply, entry
  <2>3. CASE Device
    BY <2>3 DEF Device, OtherAnswers, TargetSilent, TargetRejects, TargetReads, TargetWrites,
                TargetResets, Client, entry
  <2>4. CASE Deadline \/ TargetBoots \/ ForeignWrite \/ Lose
    BY <2>4 DEF Deadline, TargetBoots, ForeignWrite, Lose, Client, entry
  <2>5. QED
    BY <1>3, <2>1, <2>2, <2>3, <2>4 DEF Next
<1>4. TypeOK /\ Turn /\ EntryFromDiscovery /\ [Next]_vars => EntryFromDiscovery'
  BY <1>2, <1>3 DEF EntryFromDiscovery, vars
<1>5. QED
  BY <1>1, <1>4, TypeCorrect, TurnHolds, PTL DEF Spec

=============================================================================
