------------------------- MODULE UdapCommandProofs -------------------------
(***************************************************************************)
(* What a command of the CLI, in turn, promises of the device's parameters *)
(* and of each of its calls: Command is inductive beside Turn, the cache   *)
(* is current, only what is named is written, and every step of a session  *)
(* is a step of DeviceCalls or none.  And, in turn or not, what a patient  *)
(* command needs to be left without an answer.                             *)
(***************************************************************************)
EXTENDS UdapSessionProofs, FiniteSetTheorems

-----------------------------------------------------------------------------
(* The scripts of the CLI. *)
LEMMA CliShape ==
  ASSUME CommandInTurn, CallerType, NEW i \in 1..Len(script)
  PROVE  /\ script[1] \in Discoveries /\ script[i] \in Steps
         /\ script[i] \in Discoveries => i = 1
         /\ script[i] \in {"set", "getall", "reset"} => script[1] = "find"
         /\ script[i] = "reset" => i = Len(script)
<1>1. script \in CliScripts /\ script \in Scripts
  BY DEF CommandInTurn, CallerType
<1>2. script[i] \in Discoveries => i = 1
  BY <1>1, DiscoveryAssumption DEF CommandInTurn
<1>3. CASE script \in DiscoverScripts
  BY <1>3, ScriptType, <1>2 DEF DiscoverScripts, Discoveries
<1>4. CASE script \in SetScripts
  BY <1>4, ScriptType, <1>2 DEF SetScripts, Discoveries
<1>5. CASE script \in {InfoScript, GetIPScript, GetScript, ReadScript, RebootScript}
  BY <1>5, ScriptType, <1>2
     DEF InfoScript, GetIPScript, GetScript, ReadScript, RebootScript, Discoveries
<1>6. QED
  BY <1>1, <1>3, <1>4, <1>5 DEF CliScripts

(* How a command returns: a failure is its last step, except in the queries *)
(* of discover --info.                                                      *)
LEMMA CommandReturns ==
  ASSUME CommandInTurn, CallerType, NEW pos \in 1..Len(script), NEW res, Conclude(pos, res),
         script' = script
  PROVE  /\ phase' = "idle" /\ last'.step = script[pos] /\ last'.res = res
         /\ script[1] = "find" /\ res \in {"error", "unknown", "broken"} => at' = Len(script)
         /\ res \in {"ok", "assumed"} => at' = pos
         /\ ~Setting' /\ ~ReadingAll'
<1>1. OneShot
  BY DEF CommandInTurn
<1>2. QED
  BY <1>1 DEF Conclude, Setting, ReadingAll

-----------------------------------------------------------------------------
(* Parameter values. *)

LEMMA CurrentEmpty == Current(Empty)
BY EmptyConfig DEF Current

(* A value stays current while only other controllers write. *)
LEMMA StaysCurrent ==
  ASSUME NEW c, DOMAIN c \subseteq Params, Current(c), foreign \subseteq foreign',
         \A p \in Params \ foreign' : nv'[p] = nv[p]
  PROVE  \A p \in DOMAIN c \ foreign' : c[p] = nv'[p]
BY DEF Current

(* What a full reply brings replaces what the cache held. *)
LEMMA MergeFull ==
  ASSUME NEW old \in Configs, NEW new \in Configs, DOMAIN new = Params
  PROVE  /\ Merge(old, new) \in Configs /\ DOMAIN Merge(old, new) = Params
         /\ \A p \in Params : Merge(old, new)[p] = new[p]
<1>1. DOMAIN old \subseteq Params
  BY ConfigShape
<1>2. QED
  BY <1>1, MergeConfig

(* The write of a set over a full cache that is current. *)
LEMMA MergeKeeps ==
  ASSUME NEW full \in Configs, DOMAIN full = Params, Current(full), cfg' \in Configs,
         NEW write, write = Merge(full, cfg'), UNCHANGED <<nv, foreign>>
  PROVE  KeepsOthers(write)'
<1>1. DOMAIN cfg' \subseteq Params
  BY ConfigShape
<1>2. /\ DOMAIN write = DOMAIN full \cup DOMAIN cfg'
      /\ \A p \in DOMAIN full \cup DOMAIN cfg' :
           write[p] = IF p \in DOMAIN cfg' THEN cfg'[p] ELSE full[p]
  BY MergeConfig
<1>3. DOMAIN write = Params /\ \A p \in DOMAIN cfg' : write[p] = cfg'[p]
  BY <1>1, <1>2
<1>4. \A p \in (Params \ DOMAIN cfg') \ foreign : write[p] = nv[p]
  BY <1>2 DEF Current
<1>5. QED
  BY <1>3, <1>4 DEF KeepsOthers, Current

-----------------------------------------------------------------------------
LEMMA CommandInit == ASSUME Init PROVE Command
<1>1. ToTarget = {} /\ FromTarget = {}
  BY DEF Init, ToTarget, FromTarget
<1>2. cache = Empty /\ phase = "idle" /\ last.step = "none"
  BY DEF Init
<1>3. QED
  BY <1>1, <1>2, CurrentEmpty
     DEF Command, StepsInSilence, ReadsAll, SetAlone, CacheFollows, Setting, ReadingAll,
         SetEndedBadly, Silence

(* A step that takes packets away, lets another controller write, or        *)
(* concerns other nodes.                                                    *)
LEMMA QuietCommand ==
  ASSUME TypeOK, Command, ToTarget' \subseteq ToTarget, FromTarget' \subseteq FromTarget,
         UNCHANGED <<script, at, phase, last, seq, served, known, cache, cfg>>,
         foreign \subseteq foreign', \A p \in Params \ foreign' : nv'[p] = nv[p]
  PROVE  Command'
<1>1. /\ Step' = Step /\ Setting' = Setting /\ ReadingAll' = ReadingAll
      /\ SetEndedBadly' = SetEndedBadly /\ (Silence => Silence')
  BY DEF Step, Setting, ReadingAll, SetEndedBadly, Silence
<1>2. ASSUME NEW c, DOMAIN c \subseteq Params, Current(c)
      PROVE  \A p \in DOMAIN c \ foreign' : c[p] = nv'[p]
  BY <1>2, StaysCurrent
<1>3. /\ cache \in Configs /\ cfg \in Configs /\ DOMAIN cache \subseteq Params
      /\ DOMAIN cfg \subseteq Params
      /\ \A r \in FromTarget : DOMAIN r.data \subseteq Params
  BY ConfigShape DEF TypeOK, EntryType, NetworkType, Replies, FromTarget
<1>4. StepsInSilence'
  BY <1>1 DEF Command, StepsInSilence
<1>5. ReadsAll'
  <2>1. ReadingAll' => /\ \A m \in ToTarget' : m.method = "GetData" => m.want = Params
                       /\ \A r \in FromTarget' : r.method = "GetData" => DOMAIN r.data = Params
    BY <1>1 DEF Command, ReadsAll
  <2>2. \A r \in FromTarget' : r.method = "GetData" =>
          \A p \in DOMAIN r.data \ foreign' : r.data[p] = nv'[p]
    BY <1>2, <1>3 DEF Command, ReadsAll
  <2>3. QED
    BY <2>1, <2>2 DEF ReadsAll, Current
<1>6. SetAlone'
  <2>1. ASSUME NEW m \in ToTarget', m.method = "SetData"
        PROVE  /\ m.seq = seq' /\ seq' \notin served' /\ ToTarget' = {m} /\ FromTarget' = {}
               /\ Setting' \/ (SetEndedBadly' /\ last'.res \in {"unknown", "broken"})
               /\ KeepsOthers(m.write)'
    <3>1. /\ m.seq = seq /\ seq \notin served /\ ToTarget = {m} /\ FromTarget = {}
          /\ Setting \/ (SetEndedBadly /\ last.res \in {"unknown", "broken"})
          /\ KeepsOthers(m.write)
      BY <2>1 DEF Command, SetAlone
    <3>2. ToTarget' = {m} /\ FromTarget' = {}
      BY <3>1
    <3> DEFINE others == [p \in Params \ DOMAIN cfg |-> m.write[p]]
    <3>3. DOMAIN others \subseteq Params /\ Current(others)
      BY <3>1 DEF KeepsOthers
    <3>4. \A p \in DOMAIN others \ foreign' : others[p] = nv'[p]
      BY <3>3, StaysCurrent
    <3>5. KeepsOthers(m.write)'
      BY <3>1, <3>4 DEF KeepsOthers, Current
    <3>6. QED
      BY <1>1, <3>1, <3>2, <3>5
  <2>2. Setting' => \A m \in ToTarget' : m.method = "SetData"
    BY <1>1 DEF Command, SetAlone
  <2>3. QED
    BY <2>1, <2>2 DEF SetAlone
<1>7. CacheFollows'
  <2>1. Current(cache) => Current(cache)'
    BY <1>2, <1>3 DEF Current
  <2>2. DOMAIN Merge(cache, cfg) \subseteq Params
    BY <1>3, MergeConfig, ConfigShape
  <2>3. Current(Merge(cache, cfg)) => Current(Merge(cache, cfg))'
    <3> DEFINE c == Merge(cache, cfg)
    <3>1. ASSUME Current(c) PROVE \A p \in DOMAIN c \ foreign' : c[p] = nv'[p]
      BY <2>2, <3>1, StaysCurrent
    <3>2. QED
      BY <3>1 DEF Current, Merge
  <2>4. QED
    BY <1>1, <2>1, <2>3 DEF Command, CacheFollows
<1>8. QED
  BY <1>4, <1>5, <1>6, <1>7 DEF Command

-----------------------------------------------------------------------------
(* Before its next step, a command has no set behind it that may come late. *)
LEMMA BetweenSteps ==
  ASSUME Command, phase = "idle", at < Len(script), CallerType
  PROVE  /\ ~SetEndedBadly /\ ~Setting /\ ~ReadingAll /\ Current(cache)
         /\ \A m \in ToTarget : m.method # "SetData"
         /\ script[1] = "find" => Silence
<1>1. ~SetEndedBadly
  BY ScriptType DEF Command, StepsInSilence, CallerType
<1>2. ~Setting /\ ~ReadingAll
  BY DEF Setting, ReadingAll
<1>3. QED
  BY <1>1, <1>2 DEF Command, StepsInSilence, SetAlone, CacheFollows

(* Any operation but a set sends its request. *)
LEMMA StartsCommand ==
  ASSUME CommandInTurn, TypeOK, Turn, Command, NEW step \in Steps \ {"set"},
         Begin(step), Wait("wait"), NEW dsts, Target \in dsts, NEW method, method # "SetData",
         NEW want, step = "getall" => want = Params, NEW write,
         Transmit(method, dsts, want, write),
         UNCHANGED <<script, inbox, served, known, cache, cfg, nv, foreign>>
  PROVE  Command'
<1>1. CallerType /\ InTurn /\ NetworkType /\ at \in Nat /\ Len(script) \in Nat
  BY ScriptType DEF TypeOK, CommandInTurn, CallerType
<1>2. /\ phase = "idle" /\ at < Len(script) /\ script[at + 1] = step
      /\ phase' = "wait" /\ at' = at + 1
  BY DEF Begin, Wait
<1>3. Step' = step
  BY <1>2 DEF Step
<1>4. /\ Current(cache) /\ \A m \in ToTarget : m.method # "SetData"
      /\ script[1] = "find" => Silence
  BY <1>1, <1>2, BetweenSteps
<1>5. PICK m0 : ToTarget' = ToTarget \cup {m0} /\ m0.method = method /\ m0.want = want
  BY <1>1, TransmitOne
<1>6. ~Setting' /\ ~SetEndedBadly' /\ (ReadingAll' => step = "getall")
  BY <1>2, <1>3 DEF Setting, SetEndedBadly, ReadingAll
<1>7. FromTarget' = FromTarget
  BY DEF FromTarget
<1>8. at + 1 \in 1..Len(script)
  BY <1>1, <1>2
<1>9. StepsInSilence'
  <2>1. step = "find" => at = 0
    BY <1>1, <1>2, <1>8, CliShape DEF Discoveries
  <2>2. step = "find" => ~known'
    BY <2>1 DEF Turn, Found
  <2>3. QED
    BY <1>2, <1>3, <1>6, <2>2 DEF StepsInSilence
<1>10. ReadsAll'
  <2>1. step = "getall" => Silence
    BY <1>1, <1>2, <1>4, <1>8, CliShape
  <2>2. ReadingAll' => ToTarget' = {m0} /\ FromTarget' = {}
    BY <1>5, <1>6, <1>7, <2>1 DEF Silence
  <2>3. QED
    BY <1>5, <1>6, <1>7, <2>2 DEF Command, ReadsAll, Current
<1>11. SetAlone'
  BY <1>4, <1>5, <1>6 DEF SetAlone
<1>12. CacheFollows'
  BY <1>4, <1>6 DEF Command, CacheFollows, Current
<1>13. QED
  BY <1>9, <1>10, <1>11, <1>12 DEF Command

(* A set sends its write over a full cache that is current, in silence. *)
LEMMA WritesCommand ==
  ASSUME CommandInTurn, TypeOK, TypeOK', Turn, NEW full \in Configs, DOMAIN full = Params,
         Current(full), Transmit("SetData", {Target}, {}, Merge(full, cfg')),
         ToTarget = {}, FromTarget' = {}, phase' = "wait", Step' = "set", cache' = full,
         UNCHANGED <<script, served, nv, foreign>>
  PROVE  Command'
<1>1. InTurn /\ NetworkType /\ cfg' \in Configs
  BY DEF TypeOK, CommandInTurn, EntryType
<1>2. PICK m0 : /\ ToTarget' = ToTarget \cup {m0}
                /\ m0.seq = seq' /\ m0.method = "SetData"
                /\ m0.write = Merge(full, cfg')
  BY <1>1, TransmitOne
<1>3. seq' \notin served'
  BY DEF Transmit, Turn, NumbersPast, TypeOK, NetworkType, DeviceType
<1>4. KeepsOthers(m0.write)'
  <2>1. \A write : write = Merge(full, cfg') => KeepsOthers(write)'
    BY <1>1, MergeKeeps
  <2> DEFINE w == m0.write
  <2>2. w = Merge(full, cfg')
    BY <1>2
  <2> HIDE DEF w
  <2>3. KeepsOthers(w)'
    BY <2>1, <2>2
  <2>4. QED
    BY <2>3 DEF w
<1>5. Setting' /\ ~ReadingAll' /\ ~SetEndedBadly' /\ ToTarget' = {m0}
  BY <1>2 DEF Setting, ReadingAll, SetEndedBadly
<1>6. StepsInSilence'
  BY <1>5 DEF StepsInSilence
<1>7. ReadsAll'
  BY <1>5 DEF ReadsAll
<1>8. SetAlone'
  BY <1>2, <1>3, <1>4, <1>5 DEF SetAlone
<1>9. CacheFollows'
  BY <1>3 DEF CacheFollows, Current
<1>10. QED
  BY <1>6, <1>7, <1>8, <1>9 DEF Command

(* The return of an operation: what has to be shown of the particular one. *)
LEMMA ConcludeCommand ==
  ASSUME CommandInTurn, TypeOK, Command, NEW pos \in 1..Len(script),
         NEW res \in {"ok", "assumed", "error", "unknown", "broken"}, Conclude(pos, res),
         UNCHANGED <<script, cfg, served, nv, foreign>>,
         ToTarget' \subseteq ToTarget, FromTarget' \subseteq FromTarget,
         at' < Len(script) /\ script[1] = "find" => Silence',
         \/ \A m \in ToTarget' : m.method # "SetData"
         \/ Setting /\ seq' = seq /\ pos = at /\ res \in {"unknown", "broken"},
         cache' = Empty \/ DOMAIN cache' = Params,
         script[pos] # "set" \/ res \in {"ok", "assumed"} =>
           \A p \in DOMAIN cache' \ foreign : cache'[p] = nv[p]
  PROVE  Command'
<1>1. CallerType
  BY DEF TypeOK
<1>2. /\ phase' = "idle" /\ last'.step = script[pos] /\ last'.res = res
      /\ script[1] = "find" /\ res \in {"error", "unknown", "broken"} => at' = Len(script)
      /\ ~Setting' /\ ~ReadingAll'
  BY <1>1, CommandReturns
<1>3. SetEndedBadly' = (script[pos] = "set" /\ res \notin {"ok", "assumed"})
  BY <1>2 DEF SetEndedBadly
<1>4. StepsInSilence'
  <2>1. SetEndedBadly' => at' = Len(script)
    BY <1>1, <1>2, <1>3, CliShape
  <2>2. QED
    BY <1>2, <2>1 DEF StepsInSilence
<1>5. ReadsAll'
  BY <1>2 DEF Command, ReadsAll, Current
<1>6. SetAlone'
  <2>1. CASE \A m \in ToTarget' : m.method # "SetData"
    BY <1>2, <2>1 DEF SetAlone
  <2>2. CASE Setting /\ seq' = seq /\ pos = at /\ res \in {"unknown", "broken"}
    <3>1. SetEndedBadly' /\ last'.res \in {"unknown", "broken"}
      BY <1>2, <1>3, <2>2 DEF Setting, Step
    <3>2. ASSUME NEW m \in ToTarget', m.method = "SetData"
          PROVE  /\ m.seq = seq' /\ seq' \notin served' /\ ToTarget' = {m} /\ FromTarget' = {}
                 /\ KeepsOthers(m.write)'
      <4>1. /\ m.seq = seq /\ seq \notin served /\ ToTarget = {m} /\ FromTarget = {}
            /\ KeepsOthers(m.write)
        BY <3>2 DEF Command, SetAlone
      <4>2. KeepsOthers(m.write)'
        BY <4>1 DEF KeepsOthers, Current
      <4>3. QED
        BY <2>2, <4>1, <4>2
    <3>3. QED
      BY <1>2, <3>1, <3>2 DEF SetAlone
  <2>3. QED
    BY <2>1, <2>2
<1>7. CacheFollows'
  BY <1>2, <1>3 DEF CacheFollows, Current
<1>8. QED
  BY <1>4, <1>5, <1>6, <1>7 DEF Command

LEMMA CommandStart ==
  ASSUME CommandInTurn, TypeOK, TypeOK', Turn, Command, Start
  PROVE  Command'
<1>0. /\ Target \in Nodes /\ Target \in {Target}
      /\ CallerType /\ at \in Nat /\ Len(script) \in Nat
  BY NodeAssumption, ScriptType DEF TypeOK, CallerType
<1>1. CASE StartDiscovery
  <2>1. PICK step \in Discoveries : Begin(step) /\ Wait("wait")
                                    /\ Transmit("AdvDisc", Nodes, {}, Empty)
    BY <1>1 DEF StartDiscovery
  <2>2. step \in Steps \ {"set"} /\ step # "getall"
    BY DEF Steps, Discoveries
  <2>3. UNCHANGED <<script, inbox, served, known, cache, cfg, nv, foreign>>
    BY <1>1 DEF StartDiscovery, target, entry, world
  <2>4. QED
    BY <1>0, <2>1, <2>2, <2>3, StartsCommand
<1>2. CASE StartRead
  <2>1. PICK step \in {"getall", "get"}, want \in SUBSET Params :
          /\ step = "getall" => want = Params
          /\ Begin(step) /\ Wait("wait") /\ Transmit("GetData", {Target}, want, Empty)
    BY <1>2 DEF StartRead
  <2>2. step \in Steps \ {"set"}
    BY DEF Steps
  <2>3. UNCHANGED <<script, inbox, served, known, cache, cfg, nv, foreign>>
    BY <1>2 DEF StartRead, target, entry, world
  <2>4. QED
    BY <1>0, <2>1, <2>2, <2>3, StartsCommand
<1>3. CASE StartSimple
  <2>1. PICK step \in {"reset", "getip", "getuuid"} :
          Begin(step) /\ Wait("wait") /\ Transmit(Method(step), {Target}, {}, Empty)
    BY <1>3 DEF StartSimple
  <2>2. step \in Steps \ {"set"} /\ step # "getall" /\ Method(step) # "SetData"
    BY DEF Steps, Method, Discoveries
  <2>3. UNCHANGED <<script, inbox, served, known, cache, cfg, nv, foreign>>
    BY <1>3 DEF StartSimple, target, entry, world
  <2>4. QED
    BY <1>0, <2>1, <2>2, <2>3, StartsCommand
<1>4. CASE StartSet
  <2>1. /\ Begin("set") /\ UNCHANGED <<script, inbox, served, known, cache, nv, foreign>>
        /\ \/ Wait("prelude") /\ Transmit("GetData", {Target}, Params, Empty)
           \/ cache # Empty /\ Wait("wait")
              /\ Transmit("SetData", {Target}, {}, Merge(cache, cfg'))
    BY <1>4 DEF StartSet, target, entry, world
  <2>2. /\ phase = "idle" /\ at < Len(script) /\ script[at + 1] = "set"
        /\ at + 1 \in 1..Len(script) /\ at' = at + 1
    BY <1>0, <2>1 DEF Begin, Wait
  <2>3. /\ script[1] = "find" /\ Step' = "set"
    BY <1>0, <2>1, <2>2, CliShape DEF Step
  <2>4. Current(cache) /\ ToTarget = {} /\ FromTarget' = {}
    BY <1>0, <2>1, <2>2, <2>3, BetweenSteps DEF Silence, FromTarget
  <2>5. CASE Wait("prelude") /\ Transmit("GetData", {Target}, Params, Empty)
    <3>1. PICK m0 : ToTarget' = ToTarget \cup {m0} /\ m0.method = "GetData" /\ m0.want = Params
      BY <1>0, <2>5, TransmitOne DEF TypeOK, CommandInTurn
    <3>2. phase' = "prelude" /\ ~Setting' /\ ~SetEndedBadly' /\ ToTarget' = {m0}
      BY <2>4, <2>5, <3>1 DEF Wait, Setting, SetEndedBadly
    <3>3. StepsInSilence'
      BY <2>3, <3>2 DEF StepsInSilence
    <3>4. ReadsAll'
      BY <2>4, <3>1, <3>2 DEF ReadsAll
    <3>5. SetAlone'
      BY <3>1, <3>2 DEF SetAlone
    <3>6. CacheFollows'
      BY <2>1, <2>4, <3>2 DEF Command, CacheFollows, Current
    <3>7. QED
      BY <3>3, <3>4, <3>5, <3>6 DEF Command
  <2>6. CASE /\ cache # Empty /\ Wait("wait")
             /\ Transmit("SetData", {Target}, {}, Merge(cache, cfg'))
    <3>1. DOMAIN cache = Params /\ cache \in Configs
      BY <2>6 DEF Command, CacheFollows, TypeOK, EntryType
    <3>2. phase' = "wait" /\ cache' = cache
      BY <2>1, <2>6 DEF Wait
    <3>3. QED
      BY <2>1, <2>3, <2>4, <2>6, <3>1, <3>2, WritesCommand
  <2>7. QED
    BY <2>1, <2>5, <2>6
<1>5. CASE SendFails
  <2>1. /\ phase = "idle" /\ at < Len(script) /\ Conclude(at + 1, "error")
        /\ at + 1 \in 1..Len(script)
        /\ UNCHANGED <<script, cache, cfg, served, nv, foreign, wire, inbox>>
    BY <1>0, <1>5 DEF SendFails, target, entry, world
  <2>2. ToTarget' = ToTarget /\ FromTarget' = FromTarget
    BY <2>1 DEF ToTarget, FromTarget
  <2>3. Current(cache) /\ \A m \in ToTarget' : m.method # "SetData"
    BY <1>0, <2>1, <2>2, BetweenSteps
  <2>4. script[1] = "find" => at' = Len(script)
    BY <1>0, <2>1, CommandReturns
  <2>5. cache' = Empty \/ DOMAIN cache' = Params
    BY <2>1 DEF Command, CacheFollows
  <2>6. \A p \in DOMAIN cache' \ foreign : cache'[p] = nv[p]
    BY <2>1, <2>3 DEF Current
  <2>7. QED
    BY <1>0, <2>1, <2>2, <2>3, <2>4, <2>5, <2>6, ConcludeCommand
<1>6. CASE SkipQuery
  <2>1. /\ phase = "idle" /\ at < Len(script) /\ at' = at + 1
        /\ UNCHANGED <<script, phase, last, cache, cfg, seq, served, nv, foreign, wire, inbox>>
    BY <1>6 DEF SkipQuery, recv, entry, target, world
  <2>2. /\ ~SetEndedBadly /\ ~Setting /\ ~ReadingAll /\ Current(cache)
        /\ \A m \in ToTarget : m.method # "SetData"
        /\ script[1] = "find" => Silence
    BY <1>0, <2>1, BetweenSteps
  <2>3. /\ ToTarget' = ToTarget /\ FromTarget' = FromTarget
        /\ ~SetEndedBadly' /\ ~Setting' /\ ~ReadingAll'
    BY <2>1, <2>2 DEF ToTarget, FromTarget, SetEndedBadly, Setting, ReadingAll
  <2>4. StepsInSilence'
    BY <2>1, <2>2, <2>3 DEF StepsInSilence, Silence
  <2>5. ReadsAll'
    BY <2>1, <2>3 DEF Command, ReadsAll, Current
  <2>6. SetAlone'
    BY <2>2, <2>3 DEF SetAlone
  <2>7. CacheFollows'
    BY <2>1, <2>2, <2>3 DEF Command, CacheFollows, Current
  <2>8. QED
    BY <2>4, <2>5, <2>6, <2>7 DEF Command
<1>7. QED
  BY <1>1, <1>2, <1>3, <1>4, <1>5, <1>6 DEF Start

-----------------------------------------------------------------------------
(* Recv gives up, or finds what it was for. *)
LEMMA CommandEnds ==
  ASSUME CommandInTurn, TypeOK, Turn, Command, TimesOut \/ RecvFails \/ FindReturns
  PROVE  Command'
<1>1. /\ phase # "idle" /\ at \in 1..Len(script) /\ CallerType /\ Step = script[at]
  BY ScriptType DEF TypeOK, CallerType, TimesOut, RecvFails, FindReturns, Step
<1>2. UNCHANGED <<script, cfg, served, nv, foreign, seq, cache, wire, inbox>>
  BY DEF TimesOut, RecvFails, FindReturns, target, entry, world
<1>3. ToTarget' = ToTarget /\ FromTarget' = FromTarget /\ (Silence => Silence')
  BY <1>2 DEF ToTarget, FromTarget, Silence
<1>4. /\ ~SetEndedBadly /\ (Setting => Step = "set")
      /\ Step # "set" => Current(cache)
      /\ Step # "set" => \A m \in ToTarget' : m.method # "SetData"
  BY <1>1, <1>3 DEF Command, CacheFollows, SetAlone, SetEndedBadly, Setting
<1>5. PICK res \in {"ok", "assumed", "unknown", "broken"} :
        /\ Conclude(at, res)
        /\ res = "ok" => Step = "discover" \/ (Step = "find" /\ known)
        /\ res = "assumed" => Step = "reset"
  BY <1>1 DEF TimesOut, RecvFails, FindReturns
<1>6. /\ script[1] = "find" /\ res \in {"error", "unknown", "broken"} => at' = Len(script)
      /\ res \in {"ok", "assumed"} => at' = at
  BY <1>1, <1>2, <1>5, CommandReturns
<1>7. at' < Len(script) /\ script[1] = "find" => Silence'
  <2>1. SUFFICES ASSUME at' < Len(script), script[1] = "find" PROVE Silence'
    OBVIOUS
  <2>2. at' # Len(script)
    BY <1>1, <2>1, ScriptType
  <2>3. res = "assumed" => at = Len(script)
    BY <1>1, <1>5, CliShape
  <2>4. Step # "discover"
    BY <1>1, <2>1, CliShape DEF Discoveries
  <2>5. Step = "find" /\ known
    BY <1>5, <1>6, <2>1, <2>2, <2>3, <2>4
  <2>6. QED
    BY <1>1, <1>3, <2>5 DEF Command, StepsInSilence
<1>8. \/ \A m \in ToTarget' : m.method # "SetData"
      \/ Setting /\ seq' = seq /\ res \in {"unknown", "broken"}
  <2>1. CASE Step # "set"
    BY <1>4, <2>1
  <2>2. CASE Step = "set" /\ Setting
    BY <1>2, <1>5, <2>2
  <2>3. CASE Step = "set" /\ ~Setting
    BY <1>1, <1>3, <1>4, <2>3 DEF Command, SetAlone
  <2>4. QED
    BY <2>1, <2>2, <2>3
<1>9. cache' = Empty \/ DOMAIN cache' = Params
  BY <1>2 DEF Command, CacheFollows
<1>10. script[at] # "set" \/ res \in {"ok", "assumed"} =>
         \A p \in DOMAIN cache' \ foreign : cache'[p] = nv[p]
  BY <1>1, <1>2, <1>4, <1>5 DEF Current
<1>11. QED
  BY <1>1, <1>2, <1>3, <1>5, <1>7, <1>8, <1>9, <1>10, ConcludeCommand

(* A discovery reply of the target empties the cache. *)
LEMMA CommandDiscovers ==
  ASSUME CommandInTurn, TypeOK, Turn, Command, NEW r \in inbox, HandleDiscoveryReply(r)
  PROVE  Command'
<1>1. /\ reading /\ phase # "idle" /\ Step \in Discoveries /\ inbox' = inbox \ {r}
      /\ UNCHANGED <<script, at, phase, last, seq, served, cfg, nv, foreign, wire>>
  BY DEF HandleDiscoveryReply, TypeOK, CallerType, caller, target, world
<1>2. Step' = Step /\ ToTarget' = ToTarget
  BY <1>1 DEF Step, ToTarget
<1>3. CASE r.node = Target
  <2>1. ToTarget' = {} /\ FromTarget' = {}
    BY <1>1, <1>2, <1>3, TakenReply
  <2>2. cache' = Empty
    BY <1>3 DEF HandleDiscoveryReply
  <2>3. /\ Step' # "set" /\ phase' # "idle"
    BY <1>1, <1>2 DEF Discoveries
  <2>4. StepsInSilence' /\ ReadsAll' /\ SetAlone'
    BY <2>1, <2>3 DEF StepsInSilence, Silence, SetEndedBadly, ReadsAll, SetAlone
  <2>5. CacheFollows'
    BY <2>2, <2>3, EmptyConfig DEF CacheFollows, Setting, Current
  <2>6. QED
    BY <2>4, <2>5 DEF Command
<1>4. CASE r.node # Target
  <2>1. known' = known /\ cache' = cache /\ FromTarget' \subseteq FromTarget
    BY <1>1, <1>4 DEF HandleDiscoveryReply, entry, FromTarget
  <2>2. QED
    BY <1>1, <1>2, <2>1, QuietCommand
<1>5. QED
  BY <1>3, <1>4

(* The reply that ends an operation, or the read inside a set. *)
LEMMA CommandTakes ==
  ASSUME CommandInTurn, TypeOK, TypeOK', Turn, Command, NEW r \in inbox,
         PreludeReply(r) \/ PreludeSendFails(r) \/ OperationReply(r)
  PROVE  Command'
<1>1. /\ reading /\ r.node = Target /\ inbox' = inbox \ {r}
      /\ UNCHANGED <<script, cfg, served, nv, foreign>>
  BY DEF PreludeReply, PreludeSendFails, OperationReply, Take, FromDevice, target, world
<1>2. /\ phase # "idle" /\ at \in 1..Len(script) /\ CallerType /\ Step = script[at]
      /\ r \in FromTarget
  BY <1>1, ScriptType DEF TypeOK, CallerType, Step, FromTarget
<1>3. /\ ToTarget = {} /\ FromTarget' = {} /\ r.method \in {Asked, "Error"}
      /\ r.method # "Error" => seq \in served
  BY <1>1, TakenReply
<1>4. wire' = wire => ToTarget' = {} /\ Silence'
  BY <1>3 DEF ToTarget, Silence
<1>5. /\ cache \in Configs /\ cfg \in Configs /\ r.data \in Configs
      /\ cache = Empty \/ DOMAIN cache = Params
      /\ ~SetEndedBadly
  BY <1>2 DEF TypeOK, EntryType, NetworkType, Replies, Command, CacheFollows, SetEndedBadly
<1>6. ASSUME ReadingAll, r.method = "GetData"
      PROVE  /\ Merge(cache, r.data) \in Configs /\ DOMAIN Merge(cache, r.data) = Params
             /\ Current(Merge(cache, r.data))
  <2>1. DOMAIN r.data = Params /\ Current(r.data)
    BY <1>2, <1>6 DEF Command, ReadsAll
  <2>2. QED
    BY <1>5, <2>1, MergeFull DEF Current
<1>7. ASSUME phase = "prelude"
      PROVE  Step = "set" /\ Asked = "GetData" /\ ReadingAll
  BY <1>7 DEF Turn, PreludeOfSet, Asked, ReadingAll
<1>8. ASSUME NEW res \in {"ok", "error"}, Conclude(at, res), wire' = wire,
             cache' = Empty \/ DOMAIN cache' = Params,
             Step # "set" \/ res = "ok" => \A p \in DOMAIN cache' \ foreign : cache'[p] = nv[p]
      PROVE  Command'
  <2>1. res \in {"ok", "assumed", "error", "unknown", "broken"}
    OBVIOUS
  <2>2. /\ ToTarget' \subseteq ToTarget /\ FromTarget' \subseteq FromTarget
        /\ \A m \in ToTarget' : m.method # "SetData"
    BY <1>3, <1>4, <1>8
  <2>3. script[at] # "set" \/ res \in {"ok", "assumed"} =>
          \A p \in DOMAIN cache' \ foreign : cache'[p] = nv[p]
    BY <1>2, <1>8
  <2>4. QED
    BY <1>1, <1>2, <1>4, <1>8, <2>1, <2>2, <2>3, ConcludeCommand
<1>9. CASE PreludeReply(r)
  <2>1. CASE r.method # "GetData" /\ Conclude(at, "error") /\ UNCHANGED <<entry, wire>>
    BY <1>5, <1>7, <1>8, <1>9, <2>1 DEF PreludeReply, entry
  <2>2. CASE /\ r.method = "GetData" /\ phase' = "wait" /\ cache' = Merge(cache, r.data)
             /\ at' = at /\ Transmit("SetData", {Target}, {}, Merge(Merge(cache, r.data), cfg))
    <3>1. Step' = "set" /\ ReadingAll
      BY <1>1, <1>7, <1>9, <2>2 DEF PreludeReply, Step
    <3>2. QED
      BY <1>1, <1>3, <1>6, <2>2, <3>1, WritesCommand
  <2>3. QED
    BY <1>9, <2>1, <2>2 DEF PreludeReply
<1>10. CASE PreludeSendFails(r)
  <2>1. /\ Conclude(at, "error") /\ wire' = wire /\ cache' = Merge(cache, r.data)
        /\ r.method = "GetData" /\ Step = "set" /\ ReadingAll
    BY <1>7, <1>10 DEF PreludeSendFails
  <2>2. QED
    BY <1>6, <1>8, <2>1
<1>11. CASE OperationReply(r)
  <2>1. phase = "wait" /\ wire' = wire
    BY <1>11 DEF OperationReply
  <2>2. CASE r.method \in Accepted(Step) /\ cache' = Learnt(r) /\ Conclude(at, "ok")
    <3>1. CASE Step = "getall"
      <4>1. ReadingAll /\ r.method = "GetData" /\ cache' = Merge(cache, r.data)
        BY <2>1, <2>2, <3>1 DEF ReadingAll, Accepted, Method, Discoveries, Learnt
      <4>2. QED
        BY <1>6, <1>8, <2>1, <2>2, <4>1 DEF Current
    <3>2. CASE Step = "set"
      <4>1. Setting /\ r.method # "Error" /\ cache' = Merge(cache, cfg)
        BY <2>1, <2>2, <3>2 DEF Setting, Accepted, Learnt
      <4>2. DOMAIN cache = Params /\ Current(cache')
        BY <1>1, <1>3, <4>1 DEF Command, CacheFollows, Current
      <4>3. DOMAIN cache' = Params
        <5>1. DOMAIN Merge(cache, cfg) = DOMAIN cache \cup DOMAIN cfg
          BY <1>5, MergeConfig
        <5>2. DOMAIN cfg \subseteq Params
          BY <1>5, ConfigShape
        <5>3. QED
          BY <4>1, <4>2, <5>1, <5>2
      <4>4. QED
        BY <1>8, <2>1, <2>2, <4>2, <4>3 DEF Current
    <3>3. CASE Step \notin {"getall", "set"}
      <4>1. cache' = cache /\ ~Setting
        BY <2>2, <3>3 DEF Learnt, Setting
      <4>2. Current(cache)
        BY <1>5, <4>1 DEF Command, CacheFollows
      <4>3. QED
        BY <1>5, <1>8, <2>1, <2>2, <4>1, <4>2 DEF Current
    <3>4. QED
      BY <3>1, <3>2, <3>3
  <2>3. CASE r.method \notin Accepted(Step) /\ UNCHANGED entry /\ Conclude(at, "error")
    <3>1. cache' = cache /\ (Step # "set" => ~Setting)
      BY <2>3 DEF entry, Setting
    <3>2. Step # "set" => Current(cache)
      BY <1>5, <3>1 DEF Command, CacheFollows
    <3>3. QED
      BY <1>5, <1>8, <2>1, <2>3, <3>1, <3>2 DEF Current
  <2>4. QED
    BY <1>11, <2>2, <2>3 DEF OperationReply
<1>12. QED
  BY <1>9, <1>10, <1>11

-----------------------------------------------------------------------------
(* The target takes a request off the wire: the SetData it was, if there    *)
(* was one, is gone.                                                        *)
LEMMA ServedAlone ==
  ASSUME Command, NEW m \in ToTarget, ToTarget' = ToTarget \ {m}
  PROVE  /\ \A n \in ToTarget' : n.method # "SetData"
         /\ phase # "idle" => ~(Step = "find" /\ known)
         /\ ~(phase = "idle" /\ at < Len(script) /\ script[1] = "find")
<1>1. \A n \in ToTarget : n.method = "SetData" => n = m
  BY DEF Command, SetAlone
<1>2. ~Silence
  BY DEF Silence
<1>3. QED
  BY <1>1, <1>2 DEF Command, StepsInSilence

(* It reads, resets, refuses, or only hears. *)
LEMMA CommandServes ==
  ASSUME TypeOK, Command, NEW m \in ToTarget, ToTarget' = ToTarget \ {m},
         UNCHANGED <<script, at, phase, last, seq, known, cache, cfg, nv, foreign>>,
         served' = served \/ m.method # "SetData",
         NEW reply, FromTarget' \subseteq FromTarget \cup {reply},
         reply.method = "GetData" =>
           m.method = "GetData" /\ reply.data = [p \in m.want |-> nv[p]]
  PROVE  Command'
<1>1. /\ Step' = Step /\ Setting' = Setting /\ ReadingAll' = ReadingAll
      /\ SetEndedBadly' = SetEndedBadly
  BY DEF Step, Setting, ReadingAll, SetEndedBadly
<1>2. /\ \A n \in ToTarget' : n.method # "SetData"
      /\ phase # "idle" => ~(Step = "find" /\ known)
      /\ ~(phase = "idle" /\ at < Len(script) /\ script[1] = "find")
  BY ServedAlone
<1>3. StepsInSilence'
  BY <1>1, <1>2 DEF Command, StepsInSilence
<1>4. ReadsAll'
  <2>1. m.want \subseteq Params
    BY DEF TypeOK, NetworkType, Requests, ToTarget
  <2>2. reply.method = "GetData" => Current(reply.data)
    BY <2>1 DEF Current
  <2>3. ReadingAll /\ reply.method = "GetData" => DOMAIN reply.data = Params
    BY DEF Command, ReadsAll
  <2>4. QED
    BY <1>1, <2>2, <2>3 DEF Command, ReadsAll, Current
<1>5. SetAlone'
  <2>1. Setting => ToTarget' = {}
    BY <1>2 DEF Command, SetAlone
  <2>2. QED
    BY <1>1, <1>2, <2>1 DEF SetAlone
<1>6. CacheFollows'
  <2>1. Setting => served' = served
    BY DEF Command, SetAlone
  <2>2. Merge(cache, cfg)' = Merge(cache, cfg)
    BY DEF Merge
  <2>3. QED
    BY <1>1, <2>1, <2>2 DEF Command, CacheFollows, Current
<1>7. QED
  BY <1>3, <1>4, <1>5, <1>6 DEF Command

(* It stores a SetData: what the set names, and nothing else. *)
LEMMA StoresNamed ==
  ASSUME TypeOK, Command, NEW m \in wire, TargetWrites(m)
  PROVE  /\ m \in ToTarget /\ m.method = "SetData" /\ m.seq = seq /\ seq \notin served
         /\ ToTarget' = {} /\ FromTarget = {} /\ KeepsOthers(m.write)
         /\ \A p \in Params : nv'[p] = m.write[p]
<1>1. m.node = Target /\ m.method = "SetData" /\ wire' = wire \ {m}
  BY DEF TargetWrites, Serves
<1>2. m \in ToTarget /\ ToTarget' = ToTarget \ {m}
  BY <1>1 DEF ToTarget
<1>3. m.seq = seq /\ seq \notin served /\ ToTarget = {m} /\ FromTarget = {} /\ KeepsOthers(m.write)
  BY <1>1, <1>2 DEF Command, SetAlone
<1>4. \A p \in Params : nv'[p] = m.write[p]
  BY <1>3 DEF TargetWrites, KeepsOthers
<1>5. QED
  BY <1>1, <1>2, <1>3, <1>4

LEMMA CommandWritten ==
  ASSUME TypeOK, Command, NEW m \in wire, TargetWrites(m)
  PROVE  Command'
<1>1. /\ m \in ToTarget /\ m.method = "SetData" /\ m.seq = seq /\ seq \notin served
      /\ ToTarget' = {} /\ FromTarget = {} /\ KeepsOthers(m.write)
      /\ \A p \in Params : nv'[p] = m.write[p]
  BY StoresNamed
<1>2. /\ UNCHANGED <<script, at, phase, last, seq, known, cache, cfg, foreign>>
      /\ Answer(m, "SetData", Empty, addr) /\ wire' = wire \ {m}
      /\ served' = served \cup {m.seq}
  BY DEF TargetWrites, Serves, Client, caller, recv, entry, world
<1>3. /\ Step' = Step /\ Setting' = Setting /\ ReadingAll' = ReadingAll
      /\ SetEndedBadly' = SetEndedBadly
  BY <1>2 DEF Step, Setting, ReadingAll, SetEndedBadly
<1>4. \A r \in FromTarget' : r.method = "SetData"
  BY <1>1, <1>2 DEF Answer, FromTarget
<1>5. StepsInSilence'
  <2>1. ToTarget' = ToTarget \ {m}
    BY <1>2 DEF ToTarget
  <2>2. QED
    BY <1>1, <1>2, <1>3, <2>1, ServedAlone DEF Command, StepsInSilence
<1>6. ReadsAll' /\ SetAlone'
  BY <1>1, <1>4 DEF ReadsAll, SetAlone
<1>7. CacheFollows'
  <2>1. DOMAIN cfg \subseteq Params /\ cache \in Configs /\ cfg \in Configs
    BY ConfigShape DEF TypeOK, EntryType
  <2>2. Setting \/ SetEndedBadly
    BY <1>1 DEF Command, SetAlone
  <2>3. ASSUME Setting
        PROVE  /\ seq \in served' /\ ~SetEndedBadly
               /\ \A p \in DOMAIN Merge(cache, cfg) \ foreign : Merge(cache, cfg)[p] = nv'[p]
    <3>1. /\ DOMAIN cache = Params /\ Current(cache) /\ ~SetEndedBadly
      BY <1>1, <2>3 DEF Command, CacheFollows, Setting, SetEndedBadly
    <3>2. /\ DOMAIN Merge(cache, cfg) = Params
          /\ \A p \in Params :
               Merge(cache, cfg)[p] = IF p \in DOMAIN cfg THEN cfg[p] ELSE cache[p]
      <4>1. /\ DOMAIN Merge(cache, cfg) = DOMAIN cache \cup DOMAIN cfg
            /\ \A p \in DOMAIN cache \cup DOMAIN cfg :
                 Merge(cache, cfg)[p] = IF p \in DOMAIN cfg THEN cfg[p] ELSE cache[p]
        BY <2>1, MergeConfig
      <4>2. QED
        BY <2>1, <3>1, <4>1
    <3>3. \A p \in Params \ foreign : m.write[p] = IF p \in DOMAIN cfg THEN cfg[p] ELSE nv[p]
      BY <1>1 DEF KeepsOthers, Current
    <3>4. \A p \in Params \ foreign : Merge(cache, cfg)[p] = nv'[p]
      BY <1>1, <3>1, <3>2, <3>3 DEF Current
    <3>5. QED
      BY <1>1, <1>2, <3>1, <3>2, <3>4
  <2>4. QED
    BY <1>2, <1>3, <2>2, <2>3 DEF Command, CacheFollows, Current, Merge
<1>8. QED
  BY <1>5, <1>6, <1>7 DEF Command

LEMMA CommandDevice ==
  ASSUME TypeOK, Command, Device
  PROVE  Command'
<1>1. PICK m \in wire : \/ OtherAnswers(m) \/ TargetSilent(m) \/ TargetRejects(m)
                        \/ TargetReads(m) \/ TargetWrites(m) \/ TargetResets(m)
  BY DEF Device
<1>2. CASE TargetWrites(m)
  BY <1>2, CommandWritten
<1>3. CASE OtherAnswers(m) \/ TargetSilent(m)
  <2>1. UNCHANGED <<script, at, phase, last, seq, served, known, cache, cfg, nv, foreign>>
    BY <1>3 DEF OtherAnswers, TargetSilent, Client, caller, recv, entry, target, world
  <2>2. ToTarget' \subseteq ToTarget
    BY <1>3 DEF OtherAnswers, TargetSilent, ToTarget
  <2>3. FromTarget' \subseteq FromTarget
    BY <1>3 DEF OtherAnswers, TargetSilent, Answer, FromTarget
  <2>4. QED
    BY <2>1, <2>2, <2>3, QuietCommand
<1>4. CASE TargetRejects(m) \/ TargetReads(m) \/ TargetResets(m)
  <2>1. /\ m.node = Target /\ wire' = wire \ {m}
        /\ UNCHANGED <<script, at, phase, last, seq, known, cache, cfg, nv, foreign>>
        /\ served' = served \/ m.method # "SetData"
    BY <1>4 DEF TargetRejects, TargetReads, TargetResets, Serves, Client, caller, recv, entry,
                target, world
  <2>2. m \in ToTarget /\ ToTarget' = ToTarget \ {m}
    BY <2>1 DEF ToTarget
  <2>3. PICK method, data :
          /\ inbox' = inbox \/ Answer(m, method, data, addr)
          /\ method = "GetData" => m.method = "GetData" /\ data = [p \in m.want |-> nv[p]]
    <3>1. CASE TargetRejects(m) \/ TargetResets(m)
      <4>1. \E method \in {"Error", "Reset"} : inbox' = inbox \/ Answer(m, method, Empty, addr)
        BY <3>1 DEF TargetRejects, TargetResets
      <4>2. QED
        BY <4>1
    <3>2. CASE TargetReads(m)
      <4>1. Answer(m, m.method, [p \in m.want |-> nv[p]], addr)
        BY <3>2 DEF TargetReads
      <4>2. QED
        BY <4>1
    <3>3. QED
      BY <1>4, <3>1, <3>2
  <2> DEFINE reply == [node |-> m.node, method |-> method, seq |-> m.seq,
                       copy |-> m.copy, ip |-> addr, data |-> data]
  <2>4. FromTarget' \subseteq FromTarget \cup {reply}
    BY <2>3 DEF Answer, FromTarget
  <2>5. reply.method = "GetData" =>
          m.method = "GetData" /\ reply.data = [p \in m.want |-> nv[p]]
    BY <2>3
  <2> HIDE DEF reply
  <2>6. QED
    BY <2>1, <2>2, <2>4, <2>5, CommandServes
<1>5. QED
  BY <1>1, <1>2, <1>3, <1>4

(* Steps of Recv between packets, the deadline, the world. *)
LEMMA CommandWaits ==
  ASSUME TypeOK, Command,
         \/ RecvCheck \/ ReadTimesOut \/ Deadline \/ TargetBoots \/ ForeignWrite \/ Lose
         \/ \E r \in inbox : IgnoreReply(r)
         \/ UNCHANGED vars
  PROVE  Command'
<1>1. /\ UNCHANGED <<script, at, phase, last, seq, served, known, cache, cfg>>
      /\ wire' \subseteq wire /\ inbox' \subseteq inbox
  BY DEF RecvCheck, ReadTimesOut, Deadline, TargetBoots, ForeignWrite, Lose, IgnoreReply,
         Client, caller, recv, entry, target, vars
<1>2. foreign \subseteq foreign' /\ \A p \in Params \ foreign' : nv'[p] = nv[p]
  <2>1. CASE ForeignWrite
    BY <2>1 DEF ForeignWrite, TypeOK, DeviceType
  <2>2. CASE ~ForeignWrite
    BY <2>2 DEF RecvCheck, ReadTimesOut, Deadline, TargetBoots, Lose, IgnoreReply,
                Client, target, world, vars
  <2>3. QED
    BY <2>1, <2>2
<1>3. ToTarget' \subseteq ToTarget /\ FromTarget' \subseteq FromTarget
  BY <1>1 DEF ToTarget, FromTarget
<1>4. QED
  BY <1>1, <1>2, <1>3, QuietCommand

-----------------------------------------------------------------------------
LEMMA CommandStep ==
  ASSUME CommandInTurn, TypeOK, TypeOK', Turn, Command, [Next]_vars
  PROVE  Command'
<1>1. CASE Start
  BY <1>1, CommandStart
<1>2. CASE Receive \/ Deadline
  BY <1>2, CommandEnds, CommandDiscovers, CommandTakes, CommandWaits DEF Receive
<1>3. CASE Device
  BY <1>3, CommandDevice
<1>4. CASE TargetBoots \/ ForeignWrite \/ Lose \/ UNCHANGED vars
  BY <1>4, CommandWaits
<1>5. QED
  BY <1>1, <1>2, <1>3, <1>4 DEF Next

LEMMA CommandHolds == ASSUME CommandInTurn PROVE Spec => []Command
<1>1. InTurn
  BY DEF CommandInTurn
<1>2. Init => Command
  BY CommandInit
<1>3. TypeOK /\ TypeOK' /\ Turn /\ Command /\ [Next]_vars => Command'
  BY CommandStep
<1>4. QED
  BY <1>1, <1>2, <1>3, TypeCorrect, TurnHolds, PTL DEF Spec

(* What a command shows of the device after a success is the device's       *)
(* present configuration, as far as no other controller has written: the    *)
(* read before each write and the update behind its acknowledgement leave   *)
(* no gap (config.go:80-111, 121-151).                                      *)
THEOREM CacheCurrent == ASSUME CommandInTurn PROVE Spec => []CacheIsCurrent
<1>1. Command => CacheIsCurrent
  BY DEF Command, CacheFollows, CacheIsCurrent, Current, Setting, SetEndedBadly
<1>2. QED
  BY <1>1, CommandHolds, PTL

(* No step of a command's session changes a parameter the set did not name, *)
(* not even a set carried out after the command has given up on it, though  *)
(* a device may blank whatever a SetData leaves out (config.go:112-132).    *)
THEOREM OnlyNamed == ASSUME CommandInTurn PROVE Spec => OnlyNamedWritten
<1> DEFINE Named == \A p \in Params : nv'[p] # nv[p] => p \in DOMAIN cfg \cup foreign'
<1>1. ASSUME TypeOK, Command, NEW m \in wire, TargetWrites(m)
      PROVE  Named
  <2>1. KeepsOthers(m.write) /\ \A p \in Params : nv'[p] = m.write[p]
    BY <1>1, StoresNamed
  <2>2. foreign' = foreign
    BY <1>1 DEF TargetWrites, world
  <2>3. \A p \in (Params \ DOMAIN cfg) \ foreign : m.write[p] = nv[p]
    BY <2>1 DEF KeepsOthers, Current
  <2>4. QED
    BY <2>1, <2>2, <2>3
<1>2. ASSUME TypeOK, ForeignWrite
      PROVE  Named
  BY <1>2 DEF ForeignWrite, TypeOK, DeviceType
<1>3. ASSUME Next, ~ForeignWrite, ~\E m \in wire : TargetWrites(m)
      PROVE  nv' = nv
  <2>1. CASE Start
    BY <2>1 DEF Start, StartDiscovery, StartRead, StartSet, StartSimple, SendFails, SkipQuery,
                target
  <2>2. CASE Receive
    BY <2>2 DEF Receive, RecvCheck, ReadTimesOut, TimesOut, RecvFails, FindReturns,
                HandleDiscoveryReply, IgnoreReply, PreludeReply, PreludeSendFails,
                OperationReply, target
  <2>3. CASE Device
    BY <1>3, <2>3 DEF Device, OtherAnswers, TargetSilent, TargetRejects, TargetReads,
                      TargetResets, target
  <2>4. CASE Deadline \/ TargetBoots \/ Lose
    BY <2>4 DEF Deadline, TargetBoots, Lose, target
  <2>5. QED
    BY <1>3, <2>1, <2>2, <2>3, <2>4 DEF Next
<1>4. TypeOK /\ Command /\ [Next]_vars => [Named]_vars
  BY <1>1, <1>2, <1>3
<1>5. QED
  BY <1>4, TypeCorrect, CommandHolds, PTL DEF Spec, OnlyNamedWritten

-----------------------------------------------------------------------------
(* Every request is carried out at most once. *)
LEMMA OnceHolds == ASSUME InTurn PROVE Spec => []RequestsOnce
<1>1. Init => RequestsOnce
  BY DEF Init, RequestsOnce, ToTarget
<1>2. ASSUME TypeOK, Turn, RequestsOnce, NEW method, NEW dsts, Target \in dsts,
             NEW want, NEW write, Transmit(method, dsts, want, write), served' = served
      PROVE  RequestsOnce'
  <2>1. PICK m0 : ToTarget' = ToTarget \cup {m0} /\ m0.seq = seq' /\ seq' = seq + 1
    BY <1>2, TransmitOne DEF TypeOK
  <2>2. /\ seq \in Nat /\ \A m \in ToTarget : m.seq \in Nat /\ m.seq <= seq
        /\ \A n \in served : n \in Nat /\ n <= seq
    BY <1>2 DEF TypeOK, NetworkType, DeviceType, Requests, ToTarget, Turn, NumbersPast
  <2>3. m0.seq \notin served /\ \A m \in ToTarget : m.seq # m0.seq
    BY <2>1, <2>2
  <2>4. QED
    BY <1>2, <2>1, <2>3 DEF RequestsOnce
<1>3. ASSUME RequestsOnce, ToTarget' \subseteq ToTarget, served' = served
      PROVE  RequestsOnce'
  BY <1>3 DEF RequestsOnce
<1>4. ASSUME RequestsOnce, NEW m \in ToTarget, ToTarget' = ToTarget \ {m},
             served' = served \cup {m.seq}
      PROVE  RequestsOnce'
  BY <1>4 DEF RequestsOnce
<1>5. ASSUME TypeOK, Turn, RequestsOnce, [Next]_vars
      PROVE  RequestsOnce'
  <2>0. Target \in Nodes /\ Target \in {Target}
    BY NodeAssumption
  <2>1. CASE StartDiscovery \/ StartRead \/ StartSet \/ StartSimple
    <3>1. served' = served
      BY <2>1 DEF StartDiscovery, StartRead, StartSet, StartSimple, target
    <3>2. \E dsts \in {Nodes, {Target}} : \E method, want, write :
            Transmit(method, dsts, want, write)
      BY <2>1 DEF StartDiscovery, StartRead, StartSet, StartSimple
    <3>3. QED
      BY <1>2, <1>5, <2>0, <3>1, <3>2
  <2>2. CASE \E r \in inbox : PreludeReply(r)
    <3>1. served' = served
      BY <2>2 DEF PreludeReply, target
    <3>2. wire' = wire \/ \E write : Transmit("SetData", {Target}, {}, write)
      BY <2>2 DEF PreludeReply
    <3>3. CASE wire' = wire
      BY <1>3, <1>5, <3>1, <3>3 DEF ToTarget
    <3>4. QED
      BY <1>2, <1>5, <2>0, <3>1, <3>2, <3>3
  <2>3. CASE SendFails \/ SkipQuery \/ Receive \/ Deadline \/ TargetBoots \/ ForeignWrite
             \/ Lose \/ UNCHANGED vars
    <3>1. CASE ~\E r \in inbox : PreludeReply(r)
      <4>1. served' = served /\ wire' \subseteq wire
        BY <2>3, <3>1 DEF SendFails, SkipQuery, Receive, RecvCheck, ReadTimesOut, TimesOut,
             RecvFails, FindReturns, HandleDiscoveryReply, IgnoreReply, PreludeSendFails,
             OperationReply, Deadline, TargetBoots, ForeignWrite, Lose, vars, target
      <4>2. QED
        BY <1>3, <1>5, <4>1 DEF ToTarget
    <3>2. QED
      BY <2>2, <3>1
  <2>4. CASE Device
    <3>1. PICK m \in wire : \/ OtherAnswers(m) \/ TargetSilent(m) \/ TargetRejects(m)
                            \/ TargetReads(m) \/ TargetWrites(m) \/ TargetResets(m)
      BY <2>4 DEF Device
    <3>2. /\ wire' = wire \ {m}
          /\ served' = served \/ (m.node = Target /\ served' = served \cup {m.seq})
      BY <3>1 DEF OtherAnswers, TargetSilent, TargetRejects, TargetReads, TargetWrites,
                  TargetResets, Serves, target
    <3>3. ToTarget' = ToTarget \ {m} /\ (m.node = Target => m \in ToTarget)
      BY <3>2 DEF ToTarget
    <3>4. QED
      BY <1>3, <1>4, <1>5, <3>2, <3>3
  <2>5. QED
    BY <1>5, <2>1, <2>2, <2>3, <2>4 DEF Next, Start
<1>6. TypeOK /\ Turn /\ RequestsOnce /\ [Next]_vars => RequestsOnce'
  BY <1>5
<1>7. QED
  BY <1>1, <1>6, TypeCorrect, TurnHolds, PTL DEF Spec

-----------------------------------------------------------------------------
(* The state of DeviceCalls, as KeepsCalls reads it off a session. *)
CallNow == IF phase = "idle" THEN "none" ELSE Step
DoneNow == phase = "wait" /\ seq \in served
VerdictNow == IF phase = "idle" THEN last.res ELSE "none"
LateNow == phase = "idle" /\ \E m \in ToTarget : m.method = "SetData"

(* Its actions, over that state. *)
LEMMA CallStarts ==
  ASSUME phase = "idle", ~LateNow, phase' # "idle", ~DoneNow', Step' \in Steps,
         cfg' \in Configs, Step' # "set" => cfg' = cfg, UNCHANGED <<nv, foreign>>
  PROVE  Calls!Next
<1>1. Calls!Starts
  BY DEF Calls!Starts, Calls!Configs, Configs, LateNow, DoneNow
<1>2. QED
  BY <1>1 DEF Calls!Next

LEMMA CallNotSent ==
  ASSUME phase = "idle", ~LateNow, phase' = "idle", ~LateNow', last'.res = "error",
         UNCHANGED <<cfg, nv, foreign>>
  PROVE  Calls!Next
<1>1. Calls!NotSent
  BY DEF Calls!NotSent, Calls!Returns, LateNow
<1>2. QED
  BY <1>1 DEF Calls!Next

LEMMA CallReturns ==
  ASSUME phase # "idle", Step \in Steps, phase' = "idle", UNCHANGED <<cfg, nv, foreign>>,
         \/ last'.res = "ok" /\ ~LateNow' /\ (DoneNow \/ Step = "discover")
         \/ last'.res = "error" /\ ~LateNow' /\ ~DoneNow
         \/ /\ last'.res \in {"unknown", "assumed", "broken"}
            /\ last'.res = "assumed" => Step = "reset"
            /\ LateNow' => Step = "set" /\ ~DoneNow
  PROVE  Calls!Next
<1>1. ~LateNow /\ Step # "none" /\ ~DoneNow'
  BY DEF LateNow, DoneNow, Steps, Discoveries
<1>2. CASE last'.res = "ok" /\ ~LateNow' /\ (DoneNow \/ Step = "discover")
  <2>1. Calls!Succeeds
    BY <1>1, <1>2 DEF Calls!Succeeds, Calls!Returns, LateNow, DoneNow
  <2>2. QED
    BY <2>1 DEF Calls!Next
<1>3. CASE last'.res = "error" /\ ~LateNow' /\ ~DoneNow
  <2>1. Calls!Fails
    BY <1>1, <1>3 DEF Calls!Fails, Calls!Returns, LateNow, DoneNow
  <2>2. QED
    BY <2>1 DEF Calls!Next
<1>4. CASE /\ last'.res \in {"unknown", "assumed", "broken"}
           /\ last'.res = "assumed" => Step = "reset"
           /\ LateNow' => Step = "set" /\ ~DoneNow
  <2>1. Calls!GivesUp
    BY <1>1, <1>4 DEF Calls!GivesUp, Calls!Returns, LateNow, DoneNow
  <2>2. QED
    BY <2>1 DEF Calls!Next
<1>5. QED
  BY <1>2, <1>3, <1>4

(* What a set may make of the memory. *)
LEMMA CallSetsMemory ==
  ASSUME nv' \in [Params -> Vals], NEW write, KeepsOthers(write),
         \A p \in Params : nv'[p] = write[p], cfg \in Configs
  PROVE  Calls!SetsMemory
<1>1. \A p \in Params : IF p \in DOMAIN cfg THEN nv'[p] = cfg[p]
                        ELSE nv'[p] = nv[p] \/ p \in foreign
  BY DEF KeepsOthers, Current
<1>2. QED
  BY <1>1 DEF Calls!SetsMemory

LEMMA CallCarriedOut ==
  ASSUME phase # "idle", phase' = phase, Step' = Step, Step \in Steps, ~DoneNow, DoneNow',
         IF Step = "set" THEN Calls!SetsMemory ELSE nv' = nv,
         UNCHANGED <<cfg, foreign>>
  PROVE  Calls!Next
<1>1. Step # "none" /\ ~LateNow /\ ~LateNow'
  BY DEF LateNow, Steps, Discoveries
<1>2. Calls!CarriedOut
  BY <1>1 DEF Calls!CarriedOut, LateNow, DoneNow
<1>3. QED
  BY <1>2 DEF Calls!Next

LEMMA CallComesLate ==
  ASSUME phase = "idle", phase' = phase, last' = last, LateNow, ~LateNow',
         Calls!SetsMemory \/ nv' = nv, UNCHANGED <<cfg, foreign>>
  PROVE  Calls!Next
<1>1. Calls!ComesLate \/ Calls!NeverComes
  BY DEF Calls!ComesLate, Calls!NeverComes, LateNow, DoneNow
<1>2. QED
  BY <1>1 DEF Calls!Next

LEMMA CallElseWritten ==
  ASSUME UNCHANGED <<phase, last, script, at, cfg, seq, served, wire>>, ForeignWrite
  PROVE  Calls!Next
<1>1. Calls!ElseWritten
  BY DEF Calls!ElseWritten, ForeignWrite, Step, ToTarget
<1>2. QED
  BY <1>1 DEF Calls!Next

LEMMA CallStutters ==
  ASSUME \/ phase = "idle" /\ phase' = "idle" /\ last' = last
         \/ phase # "idle" /\ phase' # "idle" /\ Step' = Step,
         LateNow' <=> LateNow, DoneNow' <=> DoneNow, UNCHANGED <<cfg, nv, foreign>>
  PROVE  UNCHANGED Calls!vars
BY DEF Calls!vars, LateNow, DoneNow

-----------------------------------------------------------------------------
(* The steps of a session as steps of DeviceCalls. *)

(* Only a set in progress, not yet carried out, has a SetData in flight.    *)
LEMMA LateOnlySet ==
  ASSUME Command, phase # "idle", NEW m \in ToTarget, m.method = "SetData"
  PROVE  Setting /\ Step = "set" /\ ~DoneNow
BY DEF Command, SetAlone, Setting, SetEndedBadly, DoneNow

LEMMA CallsStart ==
  ASSUME CommandInTurn, TypeOK, TypeOK', Turn, Command, Start
  PROVE  [Calls!Next]_(Calls!vars)
<1>1. /\ CallerType /\ phase = "idle" /\ at < Len(script) /\ script \in Scripts
      /\ at \in Nat /\ Len(script) \in Nat
  BY ScriptType DEF TypeOK, CallerType, Start, StartDiscovery, StartRead, StartSet, StartSimple,
                    SendFails, SkipQuery, Begin
<1>2. \A m \in ToTarget : m.method # "SetData"
  BY <1>1, BetweenSteps
<1>3. ~LateNow /\ ~DoneNow
  BY <1>1, <1>2 DEF LateNow, DoneNow
<1>4. UNCHANGED <<script, served, nv, foreign>>
  BY DEF Start, StartDiscovery, StartRead, StartSet, StartSimple, SendFails, SkipQuery,
         target, world
<1>5. CASE StartDiscovery \/ StartRead \/ StartSet \/ StartSimple
  <2>1. PICK step \in Steps :
          /\ Begin(step) /\ (Wait("wait") \/ Wait("prelude"))
          /\ step # "set" => cfg' = cfg
    BY <1>5 DEF StartDiscovery, StartRead, StartSet, StartSimple, Steps
  <2>2. phase' # "idle" /\ at' = at + 1 /\ script[at + 1] = step
    BY <2>1 DEF Begin, Wait
  <2>3. Step' \in Steps /\ (Step' # "set" => cfg' = cfg) /\ cfg' \in Configs
    BY <1>4, <2>1, <2>2 DEF Step, TypeOK, EntryType
  <2>4. ~DoneNow'
    <3>1. seq' = seq + 1
      BY <1>5 DEF StartDiscovery, StartRead, StartSet, StartSimple, Transmit
    <3>2. seq' \notin served
      BY <3>1 DEF Turn, NumbersPast, TypeOK, NetworkType, DeviceType
    <3>3. QED
      BY <1>4, <3>2 DEF DoneNow
  <2>5. QED
    BY <1>1, <1>3, <1>4, <2>2, <2>3, <2>4, CallStarts
<1>6. CASE SendFails
  <2>1. phase' = "idle" /\ last'.res = "error" /\ UNCHANGED <<cfg, wire>>
    BY <1>6 DEF SendFails, Conclude
  <2>2. ~LateNow'
    BY <1>2, <2>1 DEF LateNow, ToTarget
  <2>3. QED
    BY <1>1, <1>3, <1>4, <2>1, <2>2, CallNotSent
<1>7. CASE SkipQuery
  <2>1. UNCHANGED <<phase, last, cfg, wire, seq>>
    BY <1>7 DEF SkipQuery, recv
  <2>2. LateNow' = LateNow /\ DoneNow' = DoneNow
    BY <1>4, <2>1 DEF LateNow, DoneNow, ToTarget
  <2>3. QED
    BY <1>1, <1>4, <2>1, <2>2, CallStutters
<1>8. QED
  BY <1>5, <1>6, <1>7 DEF Start

(* The returns of Recv without a reply. *)
LEMMA CallsEnds ==
  ASSUME CommandInTurn, TypeOK, Turn, Command, TimesOut \/ RecvFails \/ FindReturns
  PROVE  Calls!Next
<1>1. /\ phase # "idle" /\ at \in 1..Len(script) /\ CallerType
      /\ Step = script[at] /\ Step \in Steps
  BY ScriptType DEF TypeOK, CallerType, TimesOut, RecvFails, FindReturns, Step
<1>2. UNCHANGED <<script, served, cfg, nv, foreign, seq, wire>>
  BY DEF TimesOut, RecvFails, FindReturns, target, world
<1>3. PICK res \in {"ok", "assumed", "unknown", "broken"} :
        /\ Conclude(at, res)
        /\ res = "ok" => Step = "discover" \/ (Step = "find" /\ known)
        /\ res = "assumed" => Step = "reset"
  BY <1>1 DEF TimesOut, RecvFails, FindReturns
<1>4. phase' = "idle" /\ last'.res = res
  BY <1>3 DEF Conclude
<1>5. LateNow' => Step = "set" /\ ~DoneNow
  BY <1>1, <1>2, LateOnlySet DEF LateNow, ToTarget
<1>6. Step = "find" /\ known => DoneNow
  BY <1>1 DEF Turn, Found, PreludeOfSet, DoneNow, TypeOK, CallerType
<1>7. QED
  BY <1>1, <1>2, <1>3, <1>4, <1>5, <1>6, CallReturns

(* The returns upon a reply, and the read inside a set, which is no step. *)
LEMMA CallsTakes ==
  ASSUME CommandInTurn, TypeOK, TypeOK', Turn, Command, NEW r \in inbox,
         PreludeReply(r) \/ PreludeSendFails(r) \/ OperationReply(r)
  PROVE  [Calls!Next]_(Calls!vars)
<1>1. /\ reading /\ r.node = Target /\ inbox' = inbox \ {r}
      /\ UNCHANGED <<script, cfg, served, nv, foreign>>
  BY DEF PreludeReply, PreludeSendFails, OperationReply, Take, FromDevice, target, world
<1>2. /\ phase # "idle" /\ at \in 1..Len(script) /\ Step = script[at] /\ Step \in Steps
  BY <1>1, ScriptType DEF TypeOK, CallerType, Step
<1>3. /\ ToTarget = {} /\ r.method \in {Asked, "Error"}
      /\ r.method = "Error" => seq \notin served
      /\ r.method # "Error" => seq \in served
  BY <1>1, TakenReply
<1>4. ASSUME NEW res \in {"ok", "error"}, Conclude(at, res), wire' = wire,
             IF res = "ok" THEN DoneNow ELSE ~DoneNow
      PROVE  Calls!Next
  <2>1. phase' = "idle" /\ last'.res = res
    BY <1>4 DEF Conclude
  <2>2. ~LateNow'
    BY <1>3, <1>4 DEF LateNow, ToTarget
  <2>3. QED
    BY <1>1, <1>2, <1>4, <2>1, <2>2, CallReturns
<1>5. CASE PreludeReply(r)
  <2>1. phase = "prelude" /\ Step = "set" /\ ~DoneNow
    BY <1>5 DEF PreludeReply, Turn, PreludeOfSet, DoneNow
  <2>2. CASE Conclude(at, "error") /\ UNCHANGED wire
    BY <1>4, <2>1, <2>2
  <2>3. CASE /\ phase' = "wait" /\ at' = at
             /\ Transmit("SetData", {Target}, {}, Merge(Merge(cache, r.data), cfg))
    <3>1. phase' # "idle" /\ Step' = Step
      BY <1>1, <2>3 DEF Step
    <3>2. seq' \notin served
      BY <2>3 DEF Transmit, Turn, NumbersPast, TypeOK, NetworkType, DeviceType
    <3>3. (DoneNow' <=> DoneNow) /\ (LateNow' <=> LateNow)
      BY <1>1, <1>2, <2>1, <3>1, <3>2 DEF DoneNow, LateNow
    <3>4. QED
      BY <1>1, <1>2, <3>1, <3>3, CallStutters
  <2>4. QED
    BY <1>5, <2>2, <2>3 DEF PreludeReply
<1>6. CASE PreludeSendFails(r)
  <2>1. ~DoneNow /\ Conclude(at, "error") /\ wire' = wire
    BY <1>6 DEF PreludeSendFails, DoneNow
  <2>2. QED
    BY <1>4, <2>1
<1>7. CASE OperationReply(r)
  <2>1. phase = "wait" /\ wire' = wire
    BY <1>7 DEF OperationReply
  <2>2. Asked = Method(Step) /\ Method(Step) \in Accepted(Step) /\ "Error" \notin Accepted(Step)
    BY <2>1 DEF Asked, Accepted, Method, Discoveries
  <2>3. CASE r.method \in Accepted(Step) /\ Conclude(at, "ok")
    <3>1. DoneNow
      BY <1>3, <2>1, <2>2, <2>3 DEF DoneNow
    <3>2. QED
      BY <1>4, <2>1, <2>3, <3>1
  <2>4. CASE r.method \notin Accepted(Step) /\ Conclude(at, "error")
    <3>1. ~DoneNow
      BY <1>3, <2>1, <2>2, <2>4 DEF DoneNow
    <3>2. QED
      BY <1>4, <2>1, <2>4, <3>1
  <2>5. QED
    BY <1>7, <2>3, <2>4 DEF OperationReply
<1>8. QED
  BY <1>5, <1>6, <1>7

(* A step that takes packets away can only drop a late set. *)
LEMMA CallsQuiet ==
  ASSUME Command, ToTarget' \subseteq ToTarget,
         UNCHANGED <<script, at, phase, last, seq, served, cfg, nv, foreign>>
  PROVE  [Calls!Next]_(Calls!vars)
<1>1. Step' = Step /\ (DoneNow' <=> DoneNow) /\ (LateNow' => LateNow)
  BY DEF Step, DoneNow, LateNow
<1>2. CASE LateNow /\ ~LateNow'
  BY <1>2, CallComesLate DEF LateNow
<1>3. CASE LateNow' <=> LateNow
  BY <1>1, <1>3, CallStutters
<1>4. QED
  BY <1>1, <1>2, <1>3

(* The target carries out a request. *)
LEMMA CallsServe ==
  ASSUME TypeOK, TypeOK', Turn, Command, RequestsOnce, NEW m \in wire,
         TargetReads(m) \/ TargetWrites(m) \/ TargetResets(m)
  PROVE  [Calls!Next]_(Calls!vars)
<1>1. /\ m.node = Target /\ wire' = wire \ {m} /\ served' = served \cup {m.seq}
      /\ UNCHANGED <<script, at, phase, last, seq, cfg, foreign>>
  BY DEF TargetReads, TargetWrites, TargetResets, Serves, Client, caller, recv, world
<1>2. m \in ToTarget /\ ToTarget' = ToTarget \ {m} /\ Step' = Step
  BY <1>1 DEF ToTarget, Step
<1>3. m.seq \notin served
  BY <1>2 DEF RequestsOnce
<1>4. \A n \in ToTarget' : n.method # "SetData"
  BY <1>2, ServedAlone
<1>5. IF m.method = "SetData" THEN Calls!SetsMemory /\ m.seq = seq ELSE nv' = nv
  <2>1. CASE TargetWrites(m)
    <3>1. /\ m.method = "SetData" /\ m.seq = seq /\ KeepsOthers(m.write)
          /\ \A p \in Params : nv'[p] = m.write[p]
      BY <2>1, StoresNamed
    <3>2. nv' \in [Params -> Vals] /\ cfg \in Configs
      BY DEF TypeOK, EntryType, DeviceType
    <3>3. QED
      BY <3>1, <3>2, CallSetsMemory
  <2>2. CASE TargetReads(m) \/ TargetResets(m)
    BY <2>2 DEF TargetReads, TargetResets, Serves
  <2>3. QED
    BY <2>1, <2>2
<1>6. CASE phase = "idle"
  <2>1. ~LateNow' /\ ~DoneNow /\ ~DoneNow'
    BY <1>1, <1>4, <1>6 DEF LateNow, DoneNow
  <2>2. CASE LateNow
    BY <1>1, <1>5, <1>6, <2>1, <2>2, CallComesLate
  <2>3. CASE ~LateNow
    <3>1. nv' = nv
      BY <1>2, <1>5, <1>6, <2>3 DEF LateNow
    <3>2. QED
      BY <1>1, <1>6, <2>1, <2>3, <3>1, CallStutters
  <2>4. QED
    BY <2>2, <2>3
<1>7. CASE phase # "idle"
  <2>1. m.method = "SetData" <=> Setting
    BY <1>2, <1>7, LateOnlySet DEF Command, SetAlone
  <2>2. Step \in Steps
    BY <1>7, ScriptType DEF TypeOK, CallerType, Step
  <2>3. CASE phase = "wait" /\ m.seq = seq
    <3>1. ~DoneNow /\ DoneNow'
      BY <1>1, <1>3, <2>3 DEF DoneNow
    <3>2. IF Step = "set" THEN Calls!SetsMemory ELSE nv' = nv
      BY <1>5, <2>1, <2>3 DEF Setting
    <3>3. QED
      BY <1>1, <1>2, <1>7, <2>2, <3>1, <3>2, CallCarriedOut
  <2>4. CASE ~(phase = "wait" /\ m.seq = seq)
    <3>1. (DoneNow' <=> DoneNow) /\ (LateNow' <=> LateNow)
      BY <1>1, <1>7, <2>4 DEF DoneNow, LateNow
    <3>2. m.method # "SetData"
      BY <1>5, <2>1, <2>4 DEF Setting
    <3>3. QED
      BY <1>1, <1>2, <1>5, <1>7, <3>1, <3>2, CallStutters
  <2>5. QED
    BY <2>3, <2>4
<1>8. QED
  BY <1>6, <1>7

LEMMA CallsStep ==
  ASSUME CommandInTurn, TypeOK, TypeOK', Turn, Command, RequestsOnce, [Next]_vars
  PROVE  [Calls!Next]_(Calls!vars)
<1>1. CASE Start
  BY <1>1, CallsStart
<1>2. CASE TimesOut \/ RecvFails \/ FindReturns
  BY <1>2, CallsEnds
<1>3. CASE \E r \in inbox : PreludeReply(r) \/ PreludeSendFails(r) \/ OperationReply(r)
  BY <1>3, CallsTakes
<1>4. CASE \/ RecvCheck \/ ReadTimesOut \/ Deadline \/ TargetBoots \/ Lose \/ UNCHANGED vars
           \/ \E r \in inbox : HandleDiscoveryReply(r) \/ IgnoreReply(r)
  <2>1. /\ UNCHANGED <<script, at, phase, last, seq, served, cfg, nv, foreign>>
        /\ wire' \subseteq wire
    BY <1>4 DEF RecvCheck, ReadTimesOut, Deadline, TargetBoots, Lose, HandleDiscoveryReply,
                IgnoreReply, Client, caller, recv, target, world, vars
  <2>2. QED
    BY <2>1, CallsQuiet DEF ToTarget
<1>5. CASE ForeignWrite
  BY <1>5, CallElseWritten DEF ForeignWrite, Client, caller, recv
<1>6. CASE Device
  <2>1. PICK m \in wire : \/ OtherAnswers(m) \/ TargetSilent(m) \/ TargetRejects(m)
                          \/ TargetReads(m) \/ TargetWrites(m) \/ TargetResets(m)
    BY <1>6 DEF Device
  <2>2. CASE OtherAnswers(m) \/ TargetSilent(m) \/ TargetRejects(m)
    <3>1. /\ UNCHANGED <<script, at, phase, last, seq, served, cfg, nv, foreign>>
          /\ wire' \subseteq wire
      BY <2>2 DEF OtherAnswers, TargetSilent, TargetRejects, Client, caller, recv, target, world
    <3>2. QED
      BY <3>1, CallsQuiet DEF ToTarget
  <2>3. CASE TargetReads(m) \/ TargetWrites(m) \/ TargetResets(m)
    BY <2>3, CallsServe
  <2>4. QED
    BY <2>1, <2>2, <2>3
<1>7. QED
  BY <1>1, <1>2, <1>3, <1>4, <1>5, <1>6 DEF Next, Receive

(* A command keeps the promises of DeviceCalls: every call is carried out   *)
(* at most once, between its start and its return, its verdict says whether *)
(* it was, and only a set that ran out of time may come late (config.go:    *)
(* 24-48, 120-170).                                                         *)
THEOREM CallsKept == ASSUME CommandInTurn PROVE Spec => KeepsCalls
<1>1. InTurn
  BY DEF CommandInTurn
<1>2. Init => Calls!Init
  <2> SUFFICES ASSUME Init PROVE Calls!Init
    OBVIOUS
  <2>1. cfg \in Calls!Configs
    BY EmptyConfig DEF Init, Calls!Configs, Configs
  <2>2. ~LateNow /\ ~DoneNow
    BY DEF Init, LateNow, DoneNow, ToTarget
  <2>3. phase = "idle" /\ last.res = "none" /\ nv \in [Params -> Vals] /\ foreign = {}
    BY DEF Init
  <2>4. QED
    BY <2>1, <2>2, <2>3 DEF Calls!Init, LateNow, DoneNow
<1>3. TypeOK /\ TypeOK' /\ Turn /\ Command /\ RequestsOnce /\ [Next]_vars
        => [Calls!Next]_(Calls!vars)
  BY CallsStep
<1>4. QED
  BY <1>1, <1>2, <1>3, TypeCorrect, TurnHolds, CommandHolds, OnceHolds, PTL
     DEF Spec, KeepsCalls, Calls!Spec

-----------------------------------------------------------------------------
(* A patient command: why the loss of a packet shows only when every repeat *)
(* of it is lost too.                                                       *)

LEMMA PatientShape ==
  ASSUME FindsPatiently, CallerType, NEW i \in 1..Len(script)
  PROVE  /\ script[i] \in Steps /\ script[i] # "discover" /\ script[1] = "find"
         /\ script[i] = "reset" => i = Len(script)
<1>1. script \in CliScripts /\ script \in Scripts /\ script[1] = "find"
  BY DEF FindsPatiently, CallerType
<1>2. script[i] \in Discoveries => i = 1
  BY <1>1, DiscoveryAssumption DEF FindsPatiently
<1>3. script[i] # "discover"
  BY <1>1, <1>2 DEF Discoveries
<1>4. script[i] = "reset" => i = Len(script)
  <2>1. CASE script \in DiscoverScripts
    BY <1>1, <2>1 DEF DiscoverScripts
  <2>2. CASE script \in SetScripts
    BY <2>2, ScriptType DEF SetScripts
  <2>3. CASE script \in {InfoScript, GetIPScript, GetScript, ReadScript, RebootScript}
    BY <2>3, ScriptType DEF InfoScript, GetIPScript, GetScript, ReadScript, RebootScript
  <2>4. QED
    BY <1>1, <2>1, <2>2, <2>3 DEF CliScripts
<1>5. QED
  BY <1>1, <1>3, <1>4, ScriptType

(* Only a set reads first, and nothing starts after an assumed reset.       *)
LEMMA CourseKept ==
  ASSUME FindsPatiently, TypeOK, Course, [Next]_vars
  PROVE  Course'
<1>1. CallerType /\ script \in Seq(Steps) /\ Len(script) \in Nat /\ at \in 0..Len(script)
  BY ScriptType DEF TypeOK, CallerType
<1>2. CASE UNCHANGED <<script, at, phase, last>>
  BY <1>2 DEF Course, Step
<1>3. CASE Start
  <2>1. phase = "idle" /\ at < Len(script) /\ script' = script /\ last.res # "assumed"
    BY <1>1, <1>3 DEF Start, StartDiscovery, StartRead, StartSet, StartSimple, SendFails, SkipQuery,
                Begin, Course
  <2>2. last' = last \/ last'.res = "error"
    BY <1>3 DEF Start, StartDiscovery, StartRead, StartSet, StartSimple, SendFails,
                SkipQuery, Wait, Conclude
  <2>3. phase' = "prelude" => Step' = "set"
    BY <1>3, <2>1 DEF Start, StartDiscovery, StartRead, StartSet, StartSimple, SendFails,
                SkipQuery, Begin, Wait, Conclude, Step, recv
  <2>4. QED
    BY <2>1, <2>2, <2>3 DEF Course
<1>4. ASSUME phase # "idle", script' = script, NEW res, Conclude(at, res),
             res = "assumed" => Step = "reset"
      PROVE  Course'
  <2>1. /\ phase' = "idle" /\ last'.res = res /\ (at' = at \/ at' = Len(script))
        /\ at \in 1..Len(script)
    BY <1>1, <1>4 DEF Conclude, CallerType
  <2>2. res = "assumed" => at' = Len(script)
    BY <1>1, <1>4, <2>1, PatientShape DEF Step
  <2>3. QED
    BY <1>4, <2>1, <2>2 DEF Course
<1>5. CASE Receive
  <2>1. CASE RecvCheck \/ ReadTimesOut \/ \E r \in inbox : HandleDiscoveryReply(r) \/ IgnoreReply(r)
    BY <1>2, <2>1 DEF RecvCheck, ReadTimesOut, HandleDiscoveryReply, IgnoreReply, caller
  <2>2. CASE TimesOut
    <3>1. PICK res : /\ Conclude(at, res)
                     /\ res = CASE Step = "discover" -> "ok"
                                [] Step = "find"     -> IF known THEN "ok" ELSE "unknown"
                                [] Step = "reset"    -> "assumed"
                                [] OTHER             -> "unknown"
      BY <2>2 DEF TimesOut
    <3>2. res = "assumed" => Step = "reset"
      BY <3>1
    <3>3. QED
      BY <1>4, <2>2, <3>1, <3>2 DEF TimesOut
  <2>3. CASE RecvFails
    BY <1>1, <1>4, <2>3 DEF RecvFails, CallerType
  <2>4. CASE FindReturns
    BY <1>4, <2>4 DEF FindReturns
  <2>5. ASSUME NEW r \in inbox, PreludeSendFails(r) \/ OperationReply(r) \/ PreludeReply(r)
        PROVE  Course'
    <3>1. phase # "idle" /\ script' = script
      BY <1>1, <2>5 DEF PreludeSendFails, OperationReply, PreludeReply, Take, CallerType
    <3>2. CASE \E res \in {"ok", "error"} : Conclude(at, res)
      BY <1>4, <3>1, <3>2
    <3>3. CASE phase' = "wait" /\ last' = last
      BY <3>1, <3>3 DEF Course
    <3>4. QED
      BY <2>5, <3>2, <3>3 DEF PreludeSendFails, OperationReply, PreludeReply
  <2>6. QED
    BY <1>5, <2>1, <2>2, <2>3, <2>4, <2>5 DEF Receive
<1>6. CASE Deadline \/ Device \/ TargetBoots \/ ForeignWrite \/ Lose \/ UNCHANGED vars
  <2>1. UNCHANGED <<script, at, phase, last>>
    BY <1>6 DEF Deadline, Device, OtherAnswers, TargetSilent, TargetRejects, TargetReads,
                TargetWrites, TargetResets, TargetBoots, ForeignWrite, Lose, Client, caller,
                recv, vars
  <2>2. QED
    BY <1>2, <2>1
<1>7. QED
  BY <1>3, <1>5, <1>6 DEF Next

(* The operations of a command start before it is done, and one that ends   *)
(* in the middle was no reset and no failure.                               *)
LEMMA GoesOn ==
  ASSUME FindsPatiently, TypeOK, Course, [Next]_vars, Going'
  PROVE  Going
<1>1. CallerType /\ script \in Seq(Steps) /\ Len(script) \in Nat /\ at \in 0..Len(script)
  BY ScriptType DEF TypeOK, CallerType
<1>2. CASE phase = "idle" /\ at < Len(script)
  BY <1>2 DEF Going
<1>3. CASE UNCHANGED <<script, at, phase, seq>> /\ served \subseteq served'
  BY <1>3 DEF Going, Step
<1>4. CASE phase = "prelude"
  BY <1>4 DEF Going, Course
<1>5. CASE phase # "idle" /\ script' = script /\ \E res : Conclude(at, res)
  <2>1. at \in 1..Len(script) /\ phase' = "idle" /\ (at' = at \/ at' = Len(script))
    BY <1>1, <1>5 DEF Conclude, CallerType
  <2>2. at < Len(script)
    BY <1>1, <1>5, <2>1 DEF Going
  <2>3. QED
    BY <1>1, <1>5, <2>1, <2>2, PatientShape DEF Going, Step
<1>6. CASE Start
  <2>1. phase = "idle" /\ at < Len(script)
    BY <1>6 DEF Start, StartDiscovery, StartRead, StartSet, StartSimple, SendFails, SkipQuery,
                Begin
  <2>2. QED
    BY <1>2, <2>1
<1>7. CASE Receive
  <2>1. CASE RecvCheck \/ ReadTimesOut \/ \E r \in inbox : HandleDiscoveryReply(r) \/ IgnoreReply(r)
    BY <1>3, <2>1 DEF RecvCheck, ReadTimesOut, HandleDiscoveryReply, IgnoreReply, caller, target
  <2>2. CASE TimesOut
    BY <1>5, <2>2 DEF TimesOut
  <2>3. CASE RecvFails
    BY <1>1, <1>5, <2>3 DEF RecvFails, CallerType
  <2>4. CASE FindReturns
    BY <1>5, <2>4 DEF FindReturns
  <2>5. CASE \E r \in inbox : PreludeSendFails(r) \/ OperationReply(r)
    BY <1>1, <1>5, <2>5 DEF PreludeSendFails, OperationReply, Take, CallerType
  <2>6. CASE \E r \in inbox : PreludeReply(r)
    BY <1>4, <2>6 DEF PreludeReply
  <2>7. QED
    BY <1>7, <2>1, <2>2, <2>3, <2>4, <2>5, <2>6 DEF Receive
<1>8. CASE Deadline \/ Device \/ TargetBoots \/ ForeignWrite \/ Lose \/ UNCHANGED vars
  <2>1. UNCHANGED <<script, at, phase, seq>> /\ served \subseteq served'
    BY <1>8 DEF Deadline, Device, OtherAnswers, TargetSilent, TargetRejects, TargetReads,
                TargetWrites, TargetResets, TargetBoots, ForeignWrite, Lose, Client, caller,
                recv, vars, Serves, target
  <2>2. QED
    BY <1>3, <2>1
<1>9. QED
  BY <1>6, <1>7, <1>8 DEF Next

(* A reset that is carried out is the last thing a command waits for.       *)
LEMMA NoResetGoesOn ==
  ASSUME NEW m \in wire, Going',
         \A n \in ToTarget : n.method = "Reset" => phase # "idle" /\ Step = "reset" /\ n.seq = seq
  PROVE  ~TargetResets(m)
<1> SUFFICES ASSUME TargetResets(m) PROVE FALSE
  OBVIOUS
<1>1. m \in ToTarget /\ m.method = "Reset" /\ m.seq \in served'
  BY DEF TargetResets, Serves, ToTarget
<1>2. UNCHANGED <<phase, script, at, seq>>
  BY DEF TargetResets, Client, caller, recv
<1>3. phase' # "idle" /\ Step' = "reset" /\ seq' \in served'
  BY <1>1, <1>2 DEF Step
<1>4. QED
  BY <1>3 DEF Going

(* What a step of a command leaves of the target's side while it goes on.   *)
LEMMA ThereKept ==
  ASSUME FindsPatiently, TypeOK, Course, TargetThere, Going, [Next]_vars, Going'
  PROVE  /\ ~rebooting' /\ addr' = addr /\ rejects' = rejects /\ ip' \in {NoAddr, addr}
         /\ \A m \in ToTarget' : m.method = "Reset" => phase' # "idle" /\ Step' = "reset" /\ m.seq = seq'
         /\ \A r \in FromTarget' : r.ip = addr
<1>1. /\ ~rebooting
      /\ \A m \in ToTarget : m.method = "Reset" => phase # "idle" /\ Step = "reset" /\ m.seq = seq
      /\ ip \in {NoAddr, addr} /\ \A r \in FromTarget : r.ip = addr
  BY DEF TargetThere
<1>2. CASE Start
  <2>1. UNCHANGED <<script, addr, rebooting, rejects, ip, inbox>> /\ phase = "idle"
    BY <1>2 DEF Start, StartDiscovery, StartRead, StartSet, StartSimple, SendFails, SkipQuery,
                Begin, target, entry
  <2>2. CASE wire' = wire
    BY <1>1, <2>1, <2>2 DEF ToTarget, FromTarget
  <2>3. CASE \E method \in {"AdvDisc", "GetData", "SetData"} :
               \E dsts, want, write : Transmit(method, dsts, want, write)
    BY <1>1, <2>1, <2>3 DEF ToTarget, FromTarget, Transmit
  <2>4. CASE StartSimple
    <3>1. PICK step \in {"reset", "getip", "getuuid"} :
            /\ Begin(step) /\ Wait("wait") /\ Transmit(Method(step), {Target}, {}, Empty)
      BY <2>4 DEF StartSimple
    <3>2. Step' = step /\ phase' = "wait"
      BY <2>1, <3>1 DEF Begin, Wait, Step
    <3>3. Method(step) = "Reset" => step = "reset"
      BY <3>1 DEF Method, Discoveries
    <3>4. QED
      BY <1>1, <2>1, <3>1, <3>2, <3>3 DEF ToTarget, FromTarget, Transmit
  <2>5. QED
    BY <1>2, <2>2, <2>3, <2>4 DEF Start, StartDiscovery, StartRead, StartSet, SendFails, SkipQuery
<1>3. CASE Receive
  <2>1. UNCHANGED <<addr, rebooting, rejects>> /\ inbox' \subseteq inbox
    BY <1>3 DEF Receive, RecvCheck, ReadTimesOut, TimesOut, RecvFails, FindReturns,
                HandleDiscoveryReply, IgnoreReply, PreludeReply, PreludeSendFails,
                OperationReply, Take, target
  <2>2. ip' \in {NoAddr, addr}
    <3>1. CASE UNCHANGED ip
      BY <1>1, <3>1
    <3>2. ASSUME NEW r \in inbox, HandleDiscoveryReply(r) PROVE ip' \in {NoAddr, addr}
      BY <1>1, <3>2 DEF HandleDiscoveryReply, FromTarget, entry
    <3>3. QED
      BY <1>3, <3>1, <3>2 DEF Receive, RecvCheck, ReadTimesOut, TimesOut, RecvFails,
                FindReturns, IgnoreReply, PreludeReply, PreludeSendFails, OperationReply, entry
  <2>3. wire' = wire \/ \E dsts, want, write : Transmit("SetData", dsts, want, write)
    BY <1>3 DEF Receive, RecvCheck, ReadTimesOut, TimesOut, RecvFails, FindReturns,
                HandleDiscoveryReply, IgnoreReply, PreludeReply, PreludeSendFails, OperationReply
  <2>4. \A m \in ToTarget' : m \in ToTarget \/ m.method = "SetData"
    BY <2>3 DEF ToTarget, Transmit
  <2>5. CASE UNCHANGED <<phase, script, at, seq>>
    BY <1>1, <2>1, <2>2, <2>4, <2>5 DEF FromTarget, Step
  <2>6. CASE phase = "prelude"
    BY <1>1, <2>1, <2>2, <2>4, <2>6 DEF FromTarget, Course
  <2>7. CASE phase # "idle" /\ script' = script /\ \E res : Conclude(at, res)
    <3>1. at \in 1..Len(script) /\ CallerType /\ Len(script) \in Nat
      BY <2>7, ScriptType DEF TypeOK, CallerType
    <3>2. phase' = "idle" /\ at' < Len(script) /\ (at' = at \/ at' = Len(script))
      BY <2>7 DEF Conclude, Going
    <3>3. Step # "reset"
      BY <3>1, <3>2, PatientShape DEF Step
    <3>4. QED
      BY <1>1, <2>1, <2>2, <2>4, <3>3 DEF FromTarget
  <2>8. CASE \E r \in inbox : OperationReply(r)
    <3>1. phase # "idle" /\ script' = script /\ \E res : Conclude(at, res)
      BY <2>8 DEF OperationReply, Take
    <3>2. QED
      BY <2>7, <3>1
  <2>9. CASE TimesOut \/ RecvFails \/ FindReturns
    <3>1. phase # "idle" /\ script' = script /\ \E res : Conclude(at, res)
      BY <2>9 DEF TimesOut, RecvFails, FindReturns, TypeOK, CallerType
    <3>2. QED
      BY <2>7, <3>1
  <2>10. QED
    BY <1>3, <2>5, <2>6, <2>8, <2>9 DEF Receive, RecvCheck, ReadTimesOut,
       HandleDiscoveryReply, IgnoreReply, PreludeReply, PreludeSendFails, caller
<1>4. CASE Device
  <2>1. PICK m \in wire : \/ OtherAnswers(m) \/ TargetSilent(m) \/ TargetRejects(m)
                          \/ TargetReads(m) \/ TargetWrites(m) \/ TargetResets(m)
    BY <1>4 DEF Device
  <2>2. ~TargetResets(m)
    BY <1>1, NoResetGoesOn
  <2>3. /\ UNCHANGED <<addr, rebooting, rejects, ip, phase, script, at, seq>> /\ Step' = Step
        /\ wire' = wire \ {m}
    BY <2>1, <2>2 DEF OtherAnswers, TargetSilent, TargetRejects, TargetReads, TargetWrites,
                      Serves, Client, caller, recv, entry, target, Step
  <2>4. \/ inbox' = inbox
        \/ m.node # Target /\ \E from : Answer(m, m.method, Empty, from)
        \/ \E method, data : Answer(m, method, data, addr)
    BY <2>1, <2>2 DEF OtherAnswers, TargetSilent, TargetRejects, TargetReads, TargetWrites
  <2>5. QED
    BY <1>1, <2>3, <2>4 DEF ToTarget, FromTarget, Answer
<1>5. CASE Deadline \/ ForeignWrite \/ Lose \/ UNCHANGED vars
  <2>1. /\ UNCHANGED <<addr, rebooting, rejects, ip, phase, script, at, seq>> /\ Step' = Step
        /\ wire' \subseteq wire /\ inbox' \subseteq inbox
    BY <1>5 DEF Deadline, ForeignWrite, Lose, Client, caller, recv, entry, target, vars, Step
  <2>2. QED
    BY <1>1, <2>1 DEF ToTarget, FromTarget
<1>6. ~TargetBoots
  BY <1>1 DEF TargetBoots
<1>7. QED
  BY <1>2, <1>3, <1>4, <1>5, <1>6 DEF Next

-----------------------------------------------------------------------------
(* Losses against repeats. *)

LEMMA GoneFinite ==
  ASSUME NEW link
  PROVE  IsFiniteSet(Gone(link)) /\ Cardinality(Gone(link)) \in Nat
<1>1. IsFiniteSet(0..Retries) /\ Gone(link) \in SUBSET (0..Retries)
  BY FS_Interval, SendAssumption DEF Gone
<1>2. QED
  BY <1>1, FS_Subset, FS_CardinalityType

(* Every repeat is new when a request to the target goes out. *)
LEMMA NoneGone ==
  ASSUME NEW method, NEW dsts, Target \in dsts, NEW want, NEW write,
         Transmit(method, dsts, want, write), NEW link \in Links
  PROVE  Gone(link)' = {}
<1>1. ASSUME NEW k \in 0..Retries
      PROVE  \E m \in ToTarget' : m.seq = seq' /\ m.copy = <<k, link>>
  <2> DEFINE m == [node |-> Target, method |-> method, seq |-> seq + 1,
                   copy |-> <<k, link>>, want |-> want, write |-> write]
  <2>1. m \in wire' /\ seq' = seq + 1
    BY DEF Transmit, Copies
  <2>2. m.node = Target /\ m.seq = seq + 1 /\ m.copy = <<k, link>>
    OBVIOUS
  <2> HIDE DEF m
  <2>3. QED
    BY <2>1, <2>2 DEF ToTarget
<1>2. QED
  BY <1>1 DEF Gone

(* A repeat that the target answers is not gone.                            *)
LEMMA GoneKept ==
  ASSUME NEW link, seq' = seq,
         \A m \in ToTarget : \/ m \in ToTarget'
                             \/ \E r \in FromTarget' : r.seq = m.seq /\ r.copy = m.copy,
         FromTarget \subseteq FromTarget'
  PROVE  Gone(link)' \subseteq Gone(link)
<1> SUFFICES ASSUME NEW k \in Gone(link)' PROVE k \in Gone(link)
  OBVIOUS
<1>1. /\ k \in 0..Retries
      /\ \A m \in ToTarget' : m.seq = seq => m.copy # <<k, link>>
      /\ \A r \in FromTarget' : r.seq = seq => r.copy # <<k, link>>
  BY DEF Gone
<1>2. \A m \in ToTarget : m.seq = seq => m.copy # <<k, link>>
  BY <1>1
<1>3. \A r \in FromTarget : r.seq = seq => r.copy # <<k, link>>
  BY <1>1
<1>4. QED
  BY <1>1, <1>2, <1>3 DEF Gone

LEMMA LossCounts ==
  ASSUME TypeOK, NEW link, Cardinality(Gone(link)) <= losses, Lose
  PROVE  Cardinality(Gone(link)') <= losses'
<1>1. losses' = losses + 1 /\ losses \in Nat /\ seq' = seq
  BY BoundAssumption DEF Lose, TypeOK, NetworkType, Client
<1>2. PICK x : wire \subseteq wire' \cup {x} /\ inbox \subseteq inbox' \cup {x}
  BY DEF Lose
<1>3. PICK k : \A l : <<l, link>> = x.copy => l = k
  OBVIOUS
<1>4. Gone(link)' \subseteq Gone(link) \cup {k}
  BY <1>1, <1>2, <1>3 DEF Gone, ToTarget, FromTarget
<1>5. /\ IsFiniteSet(Gone(link) \cup {k})
      /\ Cardinality(Gone(link) \cup {k}) <= Cardinality(Gone(link)) + 1
      /\ Cardinality(Gone(link) \cup {k}) \in Nat
  <2>1. IsFiniteSet(Gone(link)) /\ Cardinality(Gone(link)) \in Nat
    BY GoneFinite
  <2>2. /\ IsFiniteSet(Gone(link) \cup {k})
        /\ Cardinality(Gone(link) \cup {k})
             = IF k \in Gone(link) THEN Cardinality(Gone(link)) ELSE Cardinality(Gone(link)) + 1
    BY <2>1, FS_AddElement
  <2>3. QED
    BY <2>1, <2>2
<1>6. /\ Cardinality(Gone(link)') <= Cardinality(Gone(link) \cup {k})
      /\ Cardinality(Gone(link)') \in Nat
  BY <1>4, <1>5, FS_Subset, FS_CardinalityType
<1>7. QED
  BY <1>1, <1>5, <1>6, GoneFinite

LEMMA CountKept ==
  ASSUME FindsPatiently, TypeOK, TypeOK', Course, TargetThere, LossesCounted, [Next]_vars
  PROVE  LossesCounted'
<1> SUFFICES ASSUME phase' # "idle", Going', ~(Step' = "find" /\ known'), ~Silenced',
                    NEW link \in Links
             PROVE  Cardinality(Gone(link)') <= losses'
  BY DEF LossesCounted
<1>1. /\ Going /\ ~rebooting /\ addr' = addr /\ ~Silenced
      /\ ip \in {NoAddr, addr} /\ \A r \in FromTarget : r.ip = addr
      /\ \A m \in ToTarget : m.method = "Reset" => phase # "idle" /\ Step = "reset" /\ m.seq = seq
  BY GoesOn, ThereKept DEF TargetThere, Silenced
<1>2. losses \in Nat /\ losses' \in Nat
  BY BoundAssumption DEF TypeOK, NetworkType
<1>3. ASSUME NEW method, NEW dsts, Target \in dsts, NEW want, NEW write,
             Transmit(method, dsts, want, write)
      PROVE  Cardinality(Gone(link)') <= losses'
  BY <1>2, <1>3, NoneGone, FS_EmptySet
<1>4. ASSUME phase # "idle", ~(Step = "find" /\ known), losses' = losses,
             Gone(link)' \subseteq Gone(link)
      PROVE  Cardinality(Gone(link)') <= losses'
  <2>1. Cardinality(Gone(link)) <= losses
    BY <1>1, <1>4 DEF LossesCounted
  <2>2. Cardinality(Gone(link)') <= Cardinality(Gone(link)) /\ Cardinality(Gone(link)') \in Nat
    BY <1>4, GoneFinite, FS_Subset, FS_CardinalityType
  <2>3. QED
    BY <1>2, <1>4, <2>1, <2>2, GoneFinite
<1>5. CASE Start
  <2>1. ~SendFails /\ ~SkipQuery
    BY DEF SendFails, SkipQuery, Conclude, recv
  <2>2. QED
    BY <1>3, <1>5, <2>1, NodeAssumption DEF Start, StartDiscovery, StartRead, StartSet, StartSimple
<1>6. CASE Receive
  <2>1. ~TimesOut /\ ~RecvFails /\ ~FindReturns
    BY DEF TimesOut, RecvFails, FindReturns, Conclude
  <2>2. CASE RecvCheck \/ ReadTimesOut
    <3>1. UNCHANGED <<phase, script, at, known, seq, wire, inbox, losses>>
      BY <2>2 DEF RecvCheck, ReadTimesOut, caller, entry, world
    <3>2. Gone(link)' \subseteq Gone(link) /\ Step' = Step
      BY <3>1 DEF Gone, ToTarget, FromTarget, Step
    <3>3. QED
      BY <1>4, <3>1, <3>2
  <2>3. ASSUME NEW r \in inbox, HandleDiscoveryReply(r) \/ IgnoreReply(r)
        PROVE  Cardinality(Gone(link)') <= losses'
    <3>1. UNCHANGED <<phase, script, at, seq, wire, losses>> /\ inbox' = inbox \ {r} /\ Step' = Step
      BY <2>3 DEF HandleDiscoveryReply, IgnoreReply, caller, world, Step
    <3>2. r.node # Target /\ known' = known
      <4>1. CASE HandleDiscoveryReply(r)
        <5>1. at \in 1..Len(script) /\ CallerType
          BY <4>1, ScriptType DEF HandleDiscoveryReply, TypeOK, CallerType
        <5>2. Step = "find"
          BY <4>1, <5>1, PatientShape DEF HandleDiscoveryReply, Discoveries, Step
        <5>3. QED
          BY <3>1, <4>1, <5>2 DEF HandleDiscoveryReply, entry
      <4>2. CASE IgnoreReply(r)
        BY <1>1, <4>2 DEF IgnoreReply, FromDevice, FromTarget, entry
      <4>3. QED
        BY <2>3, <4>1, <4>2
    <3>3. FromTarget' = FromTarget /\ ToTarget' = ToTarget
      BY <3>1, <3>2 DEF FromTarget, ToTarget
    <3>4. Gone(link)' \subseteq Gone(link)
      BY <3>1, <3>3 DEF Gone
    <3>5. QED
      BY <1>4, <3>1, <3>2, <3>4
  <2>4. ASSUME NEW r \in inbox, PreludeReply(r) \/ PreludeSendFails(r) \/ OperationReply(r)
        PROVE  Cardinality(Gone(link)') <= losses'
    BY <1>3, <2>4 DEF PreludeReply, PreludeSendFails, OperationReply, Conclude
  <2>5. QED
    BY <1>6, <2>1, <2>2, <2>3, <2>4 DEF Receive
<1>7. CASE Device
  <2>1. PICK m \in wire : \/ OtherAnswers(m) \/ TargetSilent(m) \/ TargetRejects(m)
                          \/ TargetReads(m) \/ TargetWrites(m) \/ TargetResets(m)
    BY <1>7 DEF Device
  <2>2. ~TargetSilent(m) /\ ~TargetResets(m)
    BY <1>1, NoResetGoesOn DEF TargetSilent, Silenced
  <2>3. /\ UNCHANGED <<phase, script, at, known, seq, losses>> /\ wire' = wire \ {m}
        /\ \E method, data, from : Answer(m, method, data, from)
    BY <2>1, <2>2 DEF OtherAnswers, TargetRejects, TargetReads, TargetWrites,
                      Serves, Client, caller, recv, entry, world
  <2>4. /\ FromTarget \subseteq FromTarget' /\ Step' = Step
        /\ m.node = Target => \E r \in FromTarget' : r.seq = m.seq /\ r.copy = m.copy
    <3>1. PICK method, data, from : Answer(m, method, data, from)
      BY <2>3
    <3>2. PICK r : r = [node |-> m.node, method |-> method, seq |-> m.seq,
                        copy |-> m.copy, ip |-> from, data |-> data]
      OBVIOUS
    <3>3. inbox' = inbox \cup {r} /\ r.node = m.node /\ r.seq = m.seq /\ r.copy = m.copy
      BY <3>1, <3>2 DEF Answer
    <3>4. QED
      BY <2>3, <3>3 DEF FromTarget, Step
  <2>5. \A n \in ToTarget : \/ n \in ToTarget'
                            \/ \E r \in FromTarget' : r.seq = n.seq /\ r.copy = n.copy
    BY <2>3, <2>4 DEF ToTarget
  <2>6. QED
    BY <1>4, <2>3, <2>4, <2>5, GoneKept
<1>8. CASE Deadline \/ ForeignWrite \/ UNCHANGED vars
  <2>1. UNCHANGED <<phase, script, at, known, seq, wire, inbox, losses>>
    BY <1>8 DEF Deadline, ForeignWrite, Client, caller, recv, entry, world, vars
  <2>2. Gone(link)' \subseteq Gone(link) /\ Step' = Step
    BY <2>1 DEF Gone, ToTarget, FromTarget, Step
  <2>3. QED
    BY <1>4, <2>1, <2>2
<1>9. CASE Lose
  <2>1. UNCHANGED <<phase, script, at, known>> /\ Step' = Step
    BY <1>9 DEF Lose, Client, caller, recv, entry, Step
  <2>2. Cardinality(Gone(link)) <= losses
    BY <1>1, <2>1 DEF LossesCounted
  <2>3. QED
    BY <1>9, <2>2, LossCounts
<1>10. ~TargetBoots
  BY <1>1 DEF TargetBoots
<1>11. QED
  BY <1>5, <1>6, <1>7, <1>8, <1>9, <1>10 DEF Next

(* Between operations of a command only a deadline or a failure has it end. *)
LEMMA PatienceKept ==
  ASSUME FindsPatiently, TypeOK, TypeOK', Course, LossesCounted, PatienceTaken, [Next]_vars
  PROVE  PatienceTaken'
<1>1. OneShot /\ Patient
  BY DEF FindsPatiently
<1>2. losses \in Nat /\ losses' \in Nat /\ losses <= losses' /\ rejects' = rejects
  <2>1. losses \in Nat /\ losses' \in Nat
    BY BoundAssumption DEF TypeOK, NetworkType
  <2>2. UNCHANGED <<rejects, losses>> \/ (rejects' = rejects /\ losses' = losses + 1)
    BY DEF Next, vars, Start, StartDiscovery, StartRead, StartSet, StartSimple, SendFails,
           SkipQuery, Receive, RecvCheck, ReadTimesOut, TimesOut, RecvFails, FindReturns,
           HandleDiscoveryReply, IgnoreReply, PreludeReply, PreludeSendFails, OperationReply,
           Deadline, Device, OtherAnswers, TargetSilent, TargetRejects, TargetReads,
           TargetWrites, TargetResets, TargetBoots, ForeignWrite, Lose, target, world
  <2>3. QED
    BY <2>1, <2>2
<1>3. losses > Retries \/ Silenced => (losses > Retries \/ Silenced)'
  BY <1>2, SendAssumption DEF Silenced
<1>4. Going' => Going
  BY GoesOn
<1>5. ASSUME expired' => expired, last'.res = "unknown" => last.res = "unknown" \/ (expired /\ Going),
             last'.res = "assumed" /\ seq' \notin served'
               => (last.res = "assumed" /\ seq \notin served) \/ (expired /\ Going)
      PROVE  PatienceTaken'
  BY <1>3, <1>4, <1>5 DEF PatienceTaken, Unanswered
<1>6. CASE Start
  <2>1. expired' => expired
    BY <1>1, <1>6 DEF Start, StartDiscovery, StartRead, StartSet, StartSimple, SendFails,
                      SkipQuery, Begin, recv
  <2>2. last' = last \/ last'.res = "error"
    BY <1>6 DEF Start, StartDiscovery, StartRead, StartSet, StartSimple, SendFails,
                SkipQuery, Wait, Conclude
  <2>3. last.res # "assumed"
    <3>1. at < Len(script) /\ at \in Nat /\ Len(script) \in Nat
      BY <1>6, ScriptType DEF Start, StartDiscovery, StartRead, StartSet, StartSimple, SendFails,
                  SkipQuery, Begin, TypeOK, CallerType
    <3>2. QED
      BY <3>1 DEF Course
  <2>4. QED
    BY <1>5, <2>1, <2>2, <2>3
<1>7. CASE Receive
  <2>1. expired' = expired
    BY <1>7 DEF Receive, RecvCheck, ReadTimesOut, TimesOut, RecvFails, FindReturns,
                HandleDiscoveryReply, IgnoreReply, PreludeReply, PreludeSendFails, OperationReply
  <2>2. CASE TimesOut
    <3>1. expired /\ phase # "idle" /\ UNCHANGED <<seq, served>>
      BY <2>2 DEF TimesOut, target
    <3>2. last'.res = "unknown" => Step # "reset"
      BY <2>2 DEF TimesOut, Conclude
    <3>3. QED
      BY <1>5, <2>1, <3>1, <3>2 DEF Going
  <2>3. CASE ~TimesOut
    <3>1. last' = last \/ last'.res \in {"ok", "error", "broken"}
      BY <1>7, <2>3 DEF Receive, RecvCheck, ReadTimesOut, RecvFails, FindReturns, caller,
                        HandleDiscoveryReply, IgnoreReply, PreludeReply, PreludeSendFails,
                        OperationReply, Conclude
    <3>2. phase # "idle"
      BY <1>7 DEF Receive, RecvCheck, ReadTimesOut, TimesOut, RecvFails, FindReturns,
                  HandleDiscoveryReply, IgnoreReply, PreludeReply, PreludeSendFails,
                  OperationReply, Take, TypeOK, CallerType
    <3>3. last'.res # "assumed"
      BY <3>1, <3>2 DEF Course
    <3>4. QED
      BY <1>5, <2>1, <3>1, <3>3
  <2>4. QED
    BY <2>2, <2>3
<1>8. CASE Deadline
  <2>1. /\ phase # "idle" /\ ~(Step = "find" /\ known) /\ ToTarget = {} /\ FromTarget = {}
        /\ UNCHANGED <<last, seq, served>>
    BY <1>1, <1>8 DEF Deadline, target
  <2>2. ASSUME Going, ~Silenced PROVE losses > Retries
    <3>1. PICK link \in Links : TRUE
      BY SendAssumption
    <3>2. Cardinality(Gone(link)) <= losses
      BY <2>1, <2>2 DEF LossesCounted
    <3>3. Gone(link) = 0..Retries
      BY <2>1 DEF Gone
    <3>4. Cardinality(0..Retries) = Retries + 1
      BY FS_Interval, SendAssumption
    <3>5. QED
      BY <1>2, <3>2, <3>3, <3>4, SendAssumption
  <2>3. QED
    BY <1>3, <1>4, <2>1, <2>2 DEF PatienceTaken, Unanswered
<1>9. CASE Device \/ TargetBoots \/ ForeignWrite \/ Lose \/ UNCHANGED vars
  <2>1. UNCHANGED <<expired, last, seq>> /\ served \subseteq served'
    BY <1>9 DEF Device, OtherAnswers, TargetSilent, TargetRejects, TargetReads, TargetWrites,
                TargetResets, TargetBoots, ForeignWrite, Lose, Client, recv, vars, Serves, target
  <2>2. QED
    BY <1>5, <2>1
<1>10. QED
  BY <1>6, <1>7, <1>8, <1>9 DEF Next

(* A patient command is in every state on its course, and what it lost is   *)
(* counted.                                                                 *)
LEMMA MaskingHolds == ASSUME FindsPatiently PROVE Spec => []Masking
<1>1. Init => Masking
  <2> SUFFICES ASSUME Init PROVE Masking
    OBVIOUS
  <2>1. /\ phase = "idle" /\ ToTarget = {} /\ FromTarget = {} /\ ~rebooting /\ ip = NoAddr
        /\ ~expired /\ last.res = "none"
    BY DEF Init, ToTarget, FromTarget
  <2>2. QED
    BY <2>1 DEF Masking, Course, TargetThere, LossesCounted, PatienceTaken, Unanswered
<1>2. TypeOK /\ TypeOK' /\ Masking /\ [Next]_vars => Masking'
  <2> SUFFICES ASSUME TypeOK, TypeOK', Masking, [Next]_vars PROVE Masking'
    OBVIOUS
  <2>1. Course /\ TargetThere /\ LossesCounted /\ PatienceTaken
    BY DEF Masking
  <2>2. Course'
    BY <2>1, CourseKept
  <2>3. TargetThere'
    BY <2>1, GoesOn, ThereKept DEF TargetThere
  <2>4. QED
    BY <2>1, <2>2, <2>3, CountKept, PatienceKept DEF Masking
<1>3. QED
  BY <1>1, <1>2, TypeCorrect, PTL DEF Spec

(* A patient command is left without any answer, or with a reset it takes   *)
(* for done and that was not, only when every repeat of a request was lost, *)
(* or the target is set not to answer a discovery (client.go:68-97,         *)
(* config.go:186-191).                                                      *)
THEOREM LossMasked == ASSUME FindsPatiently PROVE Spec => []RetriesMaskLoss
<1>1. Masking => RetriesMaskLoss
  BY DEF Masking, PatienceTaken, Unanswered, Silenced, RetriesMaskLoss
<1>2. QED
  BY <1>1, MaskingHolds, PTL

=============================================================================
