---------------------------- MODULE WireExchange ----------------------------
(***************************************************************************)
(* One exchange between a client and a device, as bytes: the request the   *)
(* client builds (udap/client.go), the mock device that reads it, acts and *)
(* builds a reply (mocksbr/responses.go, handlers.go), and the client that *)
(* reads the reply (udap/getdata_response.go, discovery.go, getip.go,      *)
(* getuuid.go).  Reading is PayloadReader's.  Which packet reaches whom is *)
(* the business of UdapSession.                                            *)
(*                                                                         *)
(* A text is its bytes.  The definitions named X_Y are wrong variants of X *)
(* with the bug Y.                                                         *)
(***************************************************************************)
EXTENDS PayloadReader, Selection, SequencesExt

CONSTANTS
  Table,      \* the length of each parameter, by its NVRAM offset
  Unknown,    \* what the device adds to a reply: bytes by unknown offsets
  Discovery,  \* the entries of its discovery reply: <<type, bytes>>
  Network,    \* the entries of its get_ip reply
  UUID,       \* <<type, bytes>>
  Message,    \* <<type, bytes>>: why it refuses
  UUIDSize,   \* 16
  Buffer,     \* the payload a Recv has room for: 2048 bytes less the header
  Memories,   \* what the device may hold: text by offset
  Exchanges   \* the exchanges considered

Operations == {"get", "set", "discover", "get ip", "get uuid"}
Faults == {"none", "oversized count", "length exceeds payload", "unknown method", "cut"}

(* An exchange: the operation, the parameters a get names, the texts a set  *)
(* gives, whether other software sent it (and it was cut anywhere), whether *)
(* the device is told to fail (one that refuses discovery is silent), and   *)
(* what is wrong with its reply.                                            *)
(* A value is set after it was validated: a number or an address has all    *)
(* its bytes, any other text fits.                                          *)
Word == 0..(Base * Base - 1)
FitsIn(v, n) == IF n \in {1, 2, 4} THEN Len(v) = n ELSE Len(v) <= n

ASSUME ExchangeAssumption ==
  \A e \in Exchanges :
    /\ DOMAIN e = {"op", "asked", "values", "stranger", "refused", "fault"}
    /\ e.op \in Operations /\ e.asked \subseteq DOMAIN Table
    /\ DOMAIN e.values \subseteq DOMAIN Table
    /\ \A o \in DOMAIN e.values : e.values[o] \in Seq(Byte) /\ FitsIn(e.values[o], Table[o])
    /\ e.stranger \in BOOLEAN /\ e.refused \in BOOLEAN /\ e.fault \in Faults
    /\ ~(e.op = "discover" /\ e.refused)

(* Offsets, lengths and counts have two bytes on the wire (the parameters   *)
(* fill a small part of 65536); what the device adds is not in the table.   *)
ASSUME TableAssumption ==
  /\ DOMAIN Table \subseteq Word /\ \A o \in DOMAIN Table : Table[o] \in Word
  /\ DOMAIN Unknown \subseteq Word \ DOMAIN Table
  /\ \A o \in DOMAIN Unknown : Unknown[o] \in Seq(Byte) /\ Len(Unknown[o]) \in Word
  /\ Cardinality(DOMAIN Table \cup DOMAIN Unknown) \in Word
  /\ Memories \subseteq [DOMAIN Table -> Seq(Byte)]

(* A device says each thing of itself once, and its addresses have 4 bytes. *)
Telling == Seq(Byte \X Seq(Byte))
Distinct(entries) == \A i, j \in 1..Len(entries) : entries[i][1] = entries[j][1] => i = j
ASSUME DeviceAssumption ==
  /\ Discovery \in Telling /\ Distinct(Discovery)
  /\ Network \in Telling /\ Distinct(Network)
  /\ \A i \in 1..Len(Network) : Len(Network[i][2]) = 4
  /\ UUID \in Byte \X Seq(Byte) /\ Message \in Byte \X Seq(Byte)

(* 4 and 16 are lengths one byte can tell exactly; 1000 is not 0 % 65536.   *)
ASSUME SizeAssumption ==
  /\ 4 < Base - 1 /\ UUIDSize \in Nat /\ UUIDSize < Base - 1
  /\ 1000 % (Base * Base) # 0 /\ Buffer \in Nat /\ 2 <= Buffer

VARIABLES
  ex,      \* the exchange
  step,    \* "ask", "device", "client" or "over"
  mem,     \* the device's working memory: text by offset
  method,  \* of the reply: "ok", "error" or "unknown"
  outcome, \* of the call: "none", "ok" or "failed"
  taken    \* what the client has learnt: value by offset, or by type

exchange == <<ex, step, mem, method, outcome, taken>>
vars == <<buf, form, pos, left, items, verdict, ex, step, mem, method, outcome, taken>>

-----------------------------------------------------------------------------
(* Bytes. *)

Bytes16(n) == LET m == n % (Base * Base) IN <<m \div Base, m % Base>>
Zeros(n) == [i \in 1..n |-> 0]

(* A value on the wire has its parameter's length; a text is cut or padded. *)
Padded(v, n) == [i \in 1..n |-> IF i <= Len(v) THEN v[i] ELSE 0]

(* A value as text: numbers and addresses have all their bytes, any other   *)
(* value ends at its first zero.                                            *)
UpToZero(v) ==
  IF 0 \notin {v[i] : i \in 1..Len(v)} THEN v
  ELSE SubSeq(v, 1, SelectInSeq(v, LAMBDA b : b = 0) - 1)
Text(v) == IF Len(v) \in {1, 2, 4} THEN v ELSE UpToZero(v)

(* What a payload lists: a key, a size and a value; a counted form first    *)
(* says how many entries there are.                                         *)
Entry(key, v) == [key |-> key, size |-> Len(v), value |-> v]

EntryBytes(f, e) ==
  (IF f = "tlv" THEN <<e.key, e.size>> ELSE Bytes16(e.key) \o Bytes16(e.size)) \o e.value

Payload(f, entries) ==
  (IF Counted(f) THEN Zeros(Skipped(f)) \o Bytes16(Len(entries)) ELSE <<>>)
  \o FlattenSeq([i \in 1..Len(entries) |-> EntryBytes(f, entries[i])])

(* Both requests list their parameters by offset. *)
GetRequest(offsets) ==
  [i \in 1..Cardinality(offsets) |->
     LET o == Nth(offsets, i) IN [key |-> o, size |-> Table[o], value |-> <<>>]]

SetRequest(values) ==
  [i \in 1..Cardinality(DOMAIN values) |->
     LET o == Nth(DOMAIN values, i) IN Entry(o, Padded(values[o], Table[o]))]

(* The values asked for, then what the device adds. *)
GetReply(asked) ==
  [i \in 1..Len(asked) |-> Entry(asked[i].key, Padded(mem[asked[i].key], asked[i].size))]
  \o [i \in 1..Cardinality(DOMAIN Unknown) |->
        LET o == Nth(DOMAIN Unknown, i) IN Entry(o, Unknown[o])]

(* A count of 65535 and no item; one item of 1000 bytes, without them. *)
NoItems == Bytes16(Base * Base - 1)
NoValue == Bytes16(1) \o Bytes16(0) \o Bytes16(1000)

FaultyGetReply(asked) ==
  CASE ex.fault = "oversized count"        -> NoItems
    [] ex.fault = "length exceeds payload" -> NoValue
    [] OTHER                               -> Payload("get reply", GetReply(asked))

TLV_Unbounded(type, v) == [key |-> type, size |-> Len(v) % Base, value |-> v]

(* writeTLV: a length is one byte, so the value is cut to what it can say.  *)
TLV(type, v) == Entry(type, SubSeq(v, 1, IF Len(v) < Base THEN Len(v) ELSE Base - 1))

TLVs(entries) ==
  Payload("tlv", [i \in 1..Len(entries) |-> TLV(entries[i][1], entries[i][2])])

(* A Recv has room for what a device tells of itself: seven entries of 257  *)
(* bytes at most (responses.go:77-87).                                      *)
ASSUME RoomAssumption == Len(TLVs(Discovery)) <= Buffer /\ Len(TLVs(Network)) <= Buffer

-----------------------------------------------------------------------------
ReadFrom(bytes, f) ==
  buf' = bytes /\ form' = f /\ pos' = 0 /\ left' = 0 /\ items' = <<>> /\ verdict' = "start"

Request ==
  CASE ex.op = "get" -> Payload("get request", GetRequest(ex.asked))
    [] ex.op = "set" -> Payload("set request", SetRequest(ex.values))
    [] OTHER         -> <<>>

Init ==
  /\ ex \in Exchanges /\ step = "ask" /\ mem \in Memories
  /\ method = "ok" /\ outcome = "none" /\ taken = <<>>
  /\ buf = <<>> /\ form = "tlv" /\ pos = 0 /\ left = 0 /\ items = <<>> /\ verdict = "start"

(* The client's request arrives as it was built; other software may send    *)
(* the same in part.                                                        *)
Asks ==
  /\ step = "ask" /\ step' = "device"
  /\ \E n \in 0..Len(Request) :
       /\ n = Len(Request) \/ ex.stranger
       /\ ReadFrom(SubSeq(Request, 1, n),
                   IF ex.op = "set" THEN "set request" ELSE "get request")
  /\ UNCHANGED <<ex, mem, method, outcome, taken>>

(* What the device reads of a request: nothing unless it is get or set and  *)
(* is not refused.                                                          *)
DeviceReads == step = "device" /\ ex.op \in {"get", "set"} /\ ~ex.refused

Answers(m, bytes, f) ==
  /\ method' = m /\ step' = IF ex.stranger THEN "over" ELSE "client"
  /\ \E n \in 0..Len(bytes) :
       /\ n = Len(bytes) \/ ex.fault = "cut"
       /\ ReadFrom(SubSeq(bytes, 1, IF n < Buffer THEN n ELSE Buffer), f)
  /\ UNCHANGED <<ex, outcome, taken>>

DeviceRefuses ==
  /\ step = "device" /\ ex.refused
  /\ Answers("error", TLVs(<<Message>>), "tlv") /\ UNCHANGED mem

DeviceGets ==
  /\ DeviceReads /\ ex.op = "get" /\ verdict \in {"whole", "cut"}
  /\ Answers(IF ex.fault = "unknown method" THEN "unknown" ELSE "ok",
             FaultyGetReply(items), "get reply")
  /\ UNCHANGED mem

WithKey(its, k) == {i \in 1..Len(its) : its[i].key = k}

(* handleSetData: each item that arrived whole; a later one wins.           *)
Applied_Raw(its) ==
  [o \in DOMAIN Table |-> IF WithKey(its, o) = {} THEN mem[o] ELSE its[Max(WithKey(its, o))].value]

Applied(its) ==
  [o \in DOMAIN Table |->
     IF WithKey(its, o) = {} THEN mem[o] ELSE Text(its[Max(WithKey(its, o))].value)]

DeviceSets ==
  /\ DeviceReads /\ ex.op = "set" /\ verdict \in {"whole", "cut"}
  /\ mem' = Applied(items)
  /\ Answers("ok", Bytes16(Len(items)), "get reply")

DeviceTells ==
  /\ step = "device" /\ ex.op \notin {"get", "set"} /\ ~ex.refused
  /\ Answers("ok",
       CASE ex.op = "discover" -> TLVs(Discovery)
         [] ex.op = "get ip"   -> TLVs(Network)
         [] OTHER              -> TLVs(<<UUID>>),
       "tlv")
  /\ UNCHANGED mem

(* What the client reads of a reply: not the acknowledgement of a set, not  *)
(* one of an unknown method, not why a get was refused.                     *)
ClientReads ==
  step = "client" /\ ~(ex.op = "set" /\ method = "ok") /\ method # "unknown"
                  /\ ~(ex.op = "get" /\ method = "error")

Reads ==
  /\ DeviceReads \/ ClientReads
  /\ ReaderNext
  /\ UNCHANGED exchange

-----------------------------------------------------------------------------
(* What the client makes of the items of a reply. *)

Latest(its, places) ==
  [k \in {its[i].key : i \in places} |-> its[Max(places \cap WithKey(its, k))].value]

GetData(its) ==
  LET values == Latest(its, 1..Len(its))
  IN [k \in DOMAIN values |-> IF k \in DOMAIN Table THEN Text(values[k]) ELSE values[k]]

(* discovery takes any value of a type, get_ip addresses only, get_uuid the *)
(* first of the right length, an error the first message.                   *)
Addresses(its) == Latest(its, {i \in 1..Len(its) : its[i].size = 4})

First(its, places) ==
  IF places = {} THEN <<>> ELSE LET e == its[Min(places)] IN [k \in {e.key} |-> e.value]
FirstUUID(its) == First(its, {i \in WithKey(its, UUID[1]) : its[i].size = UUIDSize})
FirstMessage(its) == First(its, WithKey(its, Message[1]))

Concludes(o, t) ==
  /\ step' = "over" /\ outcome' = o /\ taken' = t
  /\ UNCHANGED <<reader, ex, mem, method>>

ClientKnowsAtOnce ==
  /\ step = "client" /\ ~ClientReads
  /\ Concludes(IF method = "ok" THEN "ok" ELSE "failed", <<>>)

ClientRefuses == ClientReads /\ verdict = "refused" /\ Concludes("failed", <<>>)

ClientTakes ==
  /\ ClientReads /\ verdict \in {"whole", "cut"}
  /\ IF method = "error" THEN Concludes("failed", FirstMessage(items))
     ELSE CASE ex.op = "get"      -> Concludes("ok", GetData(items))
            [] ex.op = "discover" -> Concludes("ok", Latest(items, 1..Len(items)))
            [] ex.op = "get ip"   -> Concludes("ok", Addresses(items))
            [] OTHER -> LET u == FirstUUID(items)
                        IN  Concludes(IF u = <<>> THEN "failed" ELSE "ok", u)

Next ==
  \/ Asks \/ Reads \/ DeviceRefuses \/ DeviceGets \/ DeviceSets \/ DeviceTells
  \/ ClientKnowsAtOnce \/ ClientRefuses \/ ClientTakes

Spec == Init /\ [][Next]_vars

-----------------------------------------------------------------------------
(* As much of a value as one length byte can announce. *)
Announced(v) == SubSeq(v, 1, IF Len(v) < Base THEN Len(v) ELSE Base - 1)
Told(entries) ==
  \A t \in DOMAIN taken :
    \E i \in 1..Len(entries) : entries[i][1] = t /\ taken[t] = Announced(entries[i][2])

(* Nothing shows that entries are missing at the end. *)
Uncut == ex.fault # "cut" /\ verdict = "whole"

ReplySize == Len(Payload("get reply", GetReply(GetRequest(ex.asked))))

(* What the client has learnt when its call returns is what the device said *)
(* of itself: of a GetData reply everything asked, as the device holds it,  *)
(* and what the device added, or nothing, if the reply was broken, cut, or  *)
(* longer than Recv has room for (transport.go:86); of the other replies no *)
(* value that was cut, and every value if nothing was.                      *)
TakenIsTrue ==
  step = "over" /\ ~ex.stranger =>
    /\ ex.op = "get" /\ outcome = "ok" =>
         taken = [o \in ex.asked \cup DOMAIN Unknown |->
                    IF o \in ex.asked THEN Text(Padded(mem[o], Table[o])) ELSE Unknown[o]]
    /\ ex.op = "get" /\ outcome = "failed" =>
         taken = <<>> /\ (ex.refused \/ ex.fault # "none" \/ ReplySize > Buffer)
    /\ ex.op = "discover" =>
         Told(Discovery) /\ (Uncut => Cardinality(DOMAIN taken) = Len(Discovery))
    /\ ex.op = "get ip" /\ outcome = "ok" =>
         Told(Network) /\ (Uncut => Cardinality(DOMAIN taken) = Len(Network))
    /\ ex.op = "get uuid" /\ outcome = "ok" => Told(<<UUID>>) /\ Len(UUID[2]) = UUIDSize
    /\ outcome = "failed" /\ method = "error" => Told(<<Message>>)

(* What a device makes of a text for a parameter of that length. *)
Meant(v, n) == IF n \in {1, 2, 4} THEN v ELSE UpToZero(v)

(* A set is carried out as the client meant it, all of it: afterwards the   *)
(* device holds the very texts that were sent (one with a zero in it, which *)
(* validation.go:60-63 lets through, up to the zero), the rest is           *)
(* untouched, and the count it acknowledges is theirs; of a request cut on  *)
(* the way only the parameters that arrived whole count                     *)
(* (client.go:217-283, handlers.go:157-169, responses.go:265-347).          *)
SetIsWhole ==
  [][step = "device" /\ step' # "device" =>
       IF ex.op # "set" \/ ex.refused THEN mem' = mem
       ELSE LET named == DOMAIN ex.values
                sent(n) == {Nth(named, i) : i \in 1..n}
            IN \E n \in 0..Cardinality(named) :
              /\ n = Cardinality(named) \/ ex.stranger
              /\ mem' = [o \in DOMAIN Table |->
                          IF o \in sent(n) THEN Meant(ex.values[o], Table[o]) ELSE mem[o]]
              /\ ex.fault = "none" => buf' = Bytes16(n)]_vars

=============================================================================
