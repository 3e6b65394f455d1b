--------------------------- MODULE UdapSessionInv ---------------------------
(***************************************************************************)
(* Why a session that keeps to one request at a time (InTurn) needs no     *)
(* sequence check: the inductive invariants behind CorrelatedReplies,      *)
(* VerdictIsTrue and CacheNeverPhantom; what a command in turn adds to     *)
(* them; and why it takes a loss for every repeat to leave a patient       *)
(* command without an answer.                                              *)
(***************************************************************************)
EXTENDS UdapSession, FiniteSets

(* Recv is reading, or will, on behalf of the operation in progress. *)
Listening == reading \/ (phase # "idle" /\ ~expired)

(* The method of the request now waited on. *)
Asked == IF phase = "prelude" THEN "GetData" ELSE Method(Step)

Silence == ToTarget = {} /\ FromTarget = {}

(* No packet is numbered ahead of the client. *)
NumbersPast ==
  /\ \A m \in wire : m.seq <= seq
  /\ \A r \in inbox : r.seq <= seq
  /\ \A n \in served : n <= seq

(* While the client listens, at most one packet of the target travels, and  *)
(* it is the request waited on or the one reply to it.                      *)
RequestOutstanding ==
  Listening =>
    /\ \A m \in ToTarget : m.seq = seq /\ m.method = Asked /\ seq \notin served
                           /\ FromTarget = {}
    /\ \A m, n \in ToTarget : m = n

ReplyOutstanding ==
  Listening =>
    /\ \A r \in FromTarget : /\ r.seq = seq /\ r.method \in {Asked, "Error"}
                             /\ r.method = "Error" => seq \notin served /\ Asked # "AdvDisc"
                             /\ r.method # "Error" => seq \in served
    /\ \A r, s \in FromTarget : r = s
    /\ Step = "find" /\ known => Silence

(* Between operations, and after a deadline in a library user's session,    *)
(* nothing of the target is left to be taken for an answer to what follows. *)
NothingLeft ==
  /\ phase = "idle" /\ at < Len(script) /\ (OneShot => ~expired) => Silence
  /\ phase # "idle" /\ ~OneShot /\ expired => Silence

(* The target is in the map only by an answer of this session; for a find   *)
(* that is the answer to its own request.                                   *)
Found ==
  /\ at = 0 => ~known
  /\ phase # "idle" /\ Step = "find" /\ known => seq \in served

(* Only a set reads before it writes. *)
PreludeOfSet == phase = "prelude" => Step = "set"

(* A verdict stays true after the operation has returned. *)
VerdictStands ==
  phase = "idle" =>
    /\ last.res = "error" => seq \notin served /\ \A m \in ToTarget : m.seq # seq
    /\ last.res = "ok" /\ last.step \notin {"none", "discover"} => seq \in served

(* A session in turn, in any reachable state. *)
Turn ==
  /\ NumbersPast /\ RequestOutstanding /\ ReplyOutstanding
  /\ NothingLeft /\ Found /\ PreludeOfSet /\ VerdictStands

(* Values are the device's own: what it holds, what its replies carry, and  *)
(* what the set in progress has written once it was carried out.            *)
ValuesHeld ==
  /\ \A p \in Params : nv[p] \in held[p]
  /\ \A r \in inbox : \A p \in DOMAIN r.data : r.data[p] \in held[p]
  /\ \A p \in DOMAIN cache : cache[p] \in held[p]

SetCarriesConfig ==
  Listening /\ phase = "wait" /\ Step = "set" =>
    /\ \A m \in ToTarget : \A p \in DOMAIN cfg : p \in DOMAIN m.write /\ m.write[p] = cfg[p]
    /\ seq \in served => \A p \in DOMAIN cfg : cfg[p] \in held[p]

TurnValues == ValuesHeld /\ SetCarriesConfig

-----------------------------------------------------------------------------
(* A command of the CLI, in turn: it stops at its first failure, and        *)
(* discover --info, which does not, sets nothing.                           *)
CommandInTurn == InTurn /\ OneShot /\ Scripts \subseteq CliScripts

(* A request on its way has not been carried out, and its number is its own.*)
RequestsOnce ==
  /\ \A m \in ToTarget : m.seq \notin served
  /\ \A m, n \in ToTarget : m.seq = n.seq => m = n

Setting == phase = "wait" /\ Step = "set"
ReadingAll == phase = "prelude" \/ (phase = "wait" /\ Step = "getall")
SetEndedBadly == phase = "idle" /\ last.step = "set" /\ last.res \notin {"ok", "assumed"}

(* Nothing of the target is under way when a find has its device, nor       *)
(* before the next step of the commands that begin with one, deadline or    *)
(* not; and a set that failed is a command's last step.                     *)
StepsInSilence ==
  /\ phase # "idle" /\ Step = "find" /\ known => Silence
  /\ phase = "idle" /\ at < Len(script) /\ script[1] = "find" => Silence
  /\ SetEndedBadly => at = Len(script)

(* The values that are the device's, as far as no other controller writes.  *)
Current(config) == \A p \in DOMAIN config \ foreign : config[p] = nv[p]

(* A read of everything is of everything, and of the present.               *)
ReadsAll ==
  /\ ReadingAll => /\ \A m \in ToTarget : m.method = "GetData" => m.want = Params
                   /\ \A r \in FromTarget : r.method = "GetData" => DOMAIN r.data = Params
  /\ \A r \in FromTarget : r.method = "GetData" => Current(r.data)

(* A SetData is alone in flight, is that of the set in progress or of one   *)
(* that was given up, and would leave every parameter the set does not name *)
(* as it is; a set in progress has nothing else in flight.                  *)
KeepsOthers(write) ==
  /\ DOMAIN write = Params
  /\ \A p \in DOMAIN cfg : write[p] = cfg[p]
  /\ Current([p \in Params \ DOMAIN cfg |-> write[p]])

SetAlone ==
  /\ \A m \in ToTarget : m.method = "SetData" =>
       /\ m.seq = seq /\ seq \notin served /\ ToTarget = {m} /\ FromTarget = {}
       /\ Setting \/ (SetEndedBadly /\ last.res \in {"unknown", "broken"})
       /\ KeepsOthers(m.write)
  /\ Setting => \A m \in ToTarget : m.method = "SetData"

(* The cache, but for the set in progress and after one that failed. *)
CacheFollows ==
  /\ cache = Empty \/ DOMAIN cache = Params
  /\ Setting => DOMAIN cache = Params
  /\ ~SetEndedBadly /\ (Setting => seq \notin served) => Current(cache)
  /\ Setting /\ seq \in served => Current(Merge(cache, cfg))

Command == StepsInSilence /\ ReadsAll /\ SetAlone /\ CacheFollows

-----------------------------------------------------------------------------
(* A command that begins with a find, and whose deadline leaves the target  *)
(* and the network the time they need.                                      *)
FindsPatiently == OneShot /\ Patient /\ \A s \in Scripts : s \in CliScripts /\ s[1] = "find"

(* No reset has been carried out, and there is still something to do. *)
Going == IF phase = "idle" THEN at < Len(script) ELSE Step = "reset" => seq \notin served

(* Only a set reads first, and a reset that was taken for done ends it all. *)
Course ==
  /\ phase = "prelude" => Step = "set"
  /\ last.res = "assumed" => phase = "idle" /\ at = Len(script)

(* The repeats of the request waited on that left one of the links and are  *)
(* neither on their way to the target nor answered by a reply to come.      *)
Gone(link) ==
  {k \in 0..Retries :
     /\ \A m \in ToTarget : m.seq = seq => m.copy # <<k, link>>
     /\ \A r \in FromTarget : r.seq = seq => r.copy # <<k, link>>}

Silenced == "AdvDisc" \in rejects

(* Until then the target hears, and keeps the address it was found at; a    *)
(* repeat is gone only by a loss of its own; and neither the deadline nor   *)
(* an operation without an answer comes before they are all gone, nor is a  *)
(* reset that the target has not seen taken for done.                       *)
TargetThere ==
  Going => /\ ~rebooting
           /\ \A m \in ToTarget : m.method = "Reset" => phase # "idle" /\ Step = "reset" /\ m.seq = seq
           /\ ip \in {NoAddr, addr} /\ \A r \in FromTarget : r.ip = addr

LossesCounted ==
  phase # "idle" /\ Going /\ ~(Step = "find" /\ known) /\ ~Silenced =>
    \A link \in Links : Cardinality(Gone(link)) <= losses

Unanswered ==
  \/ expired /\ Going
  \/ last.res = "unknown"
  \/ last.res = "assumed" /\ seq \notin served

PatienceTaken == Unanswered => losses > Retries \/ Silenced

Masking == Course /\ TargetThere /\ LossesCounted /\ PatienceTaken

=============================================================================
