--------------------------- MODULE PayloadReader ---------------------------
(***************************************************************************)
(* How a UDAP payload is read, byte by byte: the loops of                  *)
(* parseGetDataResponse (udap/getdata_response.go), parseGetDataRequest    *)
(* and parseSetDataRequest (mocksbr/responses.go), and the one loop over   *)
(* type-length-value entries that DecodeTLV (udap/protocol.go), discovery, *)
(* get_ip and get_uuid each write out.  They differ in what stands before  *)
(* the items, in the size of an item's head, in whether the items are      *)
(* counted, and in what they do with a payload that ends too early.        *)
(***************************************************************************)
EXTENDS Naturals, Sequences

CONSTANTS
  Base,   \* what a byte counts to: 256
  Creds   \* bytes of the user name and password of a request: 32

ASSUME ByteAssumption == Base \in Nat \ {0, 1} /\ Creds \in Nat

Byte == 0..(Base - 1)

Forms == {"get request", "set request", "get reply", "tlv"}
Counted(f) == f # "tlv"
Strict(f) == f = "get reply"
Skipped(f) == IF f \in {"get request", "set request"} THEN Creds ELSE 0
HeadSize(f) == IF f = "tlv" THEN 2 ELSE 4
ItemsStart(f) == IF Counted(f) THEN Skipped(f) + 2 ELSE 0

VARIABLES
  buf,     \* the payload
  form,    \* how it is read
  pos,     \* bytes consumed
  left,    \* items still promised
  items,   \* the items read: where each starts, its key and its value
  verdict  \* "start", "items", then "whole", "cut" (ended early) or "refused"

reader == <<buf, form, pos, left, items, verdict>>

Big16(b, p) == b[p + 1] * Base + b[p + 2]

(* An item's head: a one-byte type and length, or a two-byte offset and     *)
(* length; a GetData request asks for values and carries none.              *)
Key(b, f, p) == IF f = "tlv" THEN b[p + 1] ELSE Big16(b, p)
Size(b, f, p) == IF f = "tlv" THEN b[p + 2] ELSE Big16(b, p + 2)
Carried(b, f, p) == IF f = "get request" THEN 0 ELSE Size(b, f, p)

ReaderInit == form \in Forms /\ pos = 0 /\ left = 0 /\ items = <<>> /\ verdict = "start"

(* A payload that ends early: the client refuses a reply and forgets what   *)
(* it has read of it, the other readers keep the items before the cut.      *)
EndsEarly ==
  /\ verdict' = IF Strict(form) THEN "refused" ELSE "cut"
  /\ items' = IF Strict(form) THEN <<>> ELSE items
  /\ UNCHANGED <<buf, form, pos, left>>

ReadCount ==
  /\ verdict = "start"
  /\ Counted(form) => Len(buf) >= Skipped(form) + 2
  /\ left' = IF Counted(form) THEN Big16(buf, Skipped(form)) ELSE 0
  /\ pos' = ItemsStart(form) /\ verdict' = "items"
  /\ UNCHANGED <<buf, form, items>>

TooShort ==
  /\ verdict = "start" /\ Counted(form) /\ Len(buf) < Skipped(form) + 2
  /\ EndsEarly

More == IF Counted(form) THEN left > 0 ELSE pos < Len(buf)
HeadFits == pos + HeadSize(form) <= Len(buf)
ValueFits == pos + HeadSize(form) + Carried(buf, form, pos) <= Len(buf)

ReadItem ==
  /\ verdict = "items" /\ More /\ HeadFits /\ ValueFits
  /\ LET from == pos + HeadSize(form)
         upto == from + Carried(buf, form, pos)
     IN /\ items' = Append(items, [at |-> pos, key |-> Key(buf, form, pos),
                                   size |-> Size(buf, form, pos),
                                   value |-> SubSeq(buf, from + 1, upto)])
        /\ pos' = upto
  /\ left' = IF Counted(form) THEN left - 1 ELSE 0
  /\ UNCHANGED <<buf, form, verdict>>

HeadCut == verdict = "items" /\ More /\ ~HeadFits /\ EndsEarly

ValueCut_Kept ==
  /\ verdict = "items" /\ More /\ HeadFits /\ ~ValueFits
  /\ verdict' = "whole" /\ UNCHANGED <<buf, form, pos, left, items>>

ValueCut == verdict = "items" /\ More /\ HeadFits /\ ~ValueFits /\ EndsEarly

AllRead ==
  /\ verdict = "items" /\ ~More
  /\ verdict' = "whole"
  /\ UNCHANGED <<buf, form, pos, left, items>>

ReaderNext == ReadCount \/ TooShort \/ ReadItem \/ HeadCut \/ ValueCut \/ AllRead

ReaderSpec == buf \in Seq(Byte) /\ ReaderInit /\ [][ReaderNext]_reader

-----------------------------------------------------------------------------
Item == [at : Nat, key : Nat, size : Nat, value : Seq(Byte)]

ReaderTypeOK ==
  /\ buf \in Seq(Byte) /\ form \in Forms /\ pos \in Nat /\ left \in Nat
  /\ items \in Seq(Item)
  /\ verdict \in {"start", "items", "whole", "cut", "refused"}

(* Where the i-th of these items ends, and the next one starts. *)
EndOf(its, i, f) ==
  IF i = 0 THEN ItemsStart(f) ELSE its[i].at + HeadSize(f) + Len(its[i].value)

(* No reader looks past the payload, whatever counts and lengths promise,   *)
(* and no more items come out of it than it has room for.                   *)
InPayload == pos <= Len(buf) /\ HeadSize(form) * Len(items) <= pos

(* The items lie side by side from the first on, each with its own bytes.   *)
SideBySide ==
  /\ items # <<>> => pos = EndOf(items, Len(items), form)
  /\ \A i \in 1..Len(items) :
       LET e == items[i]
           from == e.at + HeadSize(form)
       IN /\ e.at = EndOf(items, i - 1, form) /\ from + Len(e.value) <= Len(buf)
          /\ e.key = Key(buf, form, e.at) /\ e.size = Size(buf, form, e.at)
          /\ e.value = SubSeq(buf, from + 1, from + Len(e.value))
          /\ Len(e.value) = Carried(buf, form, e.at)

(* A reply that is taken has every item its count promises.                 *)
TakenWhole ==
  verdict = "whole" /\ form = "get reply" => Len(items) = Big16(buf, 0)

(* What a reader has read is what the payload says: never a byte beyond it, *)
(* never an item of other bytes, never part of a GetData reply (the bounds  *)
(* checks of getdata_response.go:34-68, responses.go:215-295,               *)
(* protocol.go:142-161 and its three copies).                               *)
ReadsWhatIsThere == InPayload /\ SideBySide /\ TakenWhole

=============================================================================
