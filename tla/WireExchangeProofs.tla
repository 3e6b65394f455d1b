------------------------- MODULE WireExchangeProofs -------------------------
(***************************************************************************)
(* Proofs about PayloadReader and WireExchange, for every table of         *)
(* parameters, every device, every exchange and every size of byte:        *)
(* what a reader has read is what the payload says (ReadsWhatIsThere),     *)
(* what the client has learnt when its call returns is what the device     *)
(* said of itself (TakenIsTrue), and a set is carried out as it was meant  *)
(* (SetIsWhole).                                                           *)
(*                                                                         *)
(* The argument: a payload that lists entries shows each at its place;     *)
(* the reader of such a payload, or of the beginning of one, reads those   *)
(* entries in their order (ReadOf); so in every state of an exchange the   *)
(* reader of the request holds what the client asked, and the reader of    *)
(* the reply what the device owes (WireInv), and what the device does and  *)
(* the client learns follows from the items.  What would be induction      *)
(* over a list is induction over the set of its places (EveryNumber, AllOf).*)
(***************************************************************************)
EXTENDS WireExchange, SelectionProofs

-----------------------------------------------------------------------------
(* Lists of bytes. *)

(* Two lists of bytes one after the other. *)
LEMMA JoinedBytes ==
  ASSUME NEW a \in Seq(Byte), NEW b \in Seq(Byte), NEW c, c = a \o b
  PROVE  /\ c \in Seq(Byte) /\ Len(a) \in Nat /\ Len(b) \in Nat /\ Len(c) = Len(a) + Len(b)
         /\ \A p \in 1..Len(a) : c[p] = a[p]
         /\ \A p \in 1..Len(b) : c[Len(a) + p] = b[p]
BY Joined DEF Begins

(* Quotient and remainder. *)
LEMMA Divided ==
  ASSUME NEW n \in Nat, NEW b \in Nat \ {0}
  PROVE  /\ n \div b \in Nat /\ n % b \in 0..(b - 1) /\ n = (n \div b) * b + (n % b)
         /\ n < b => n % b = n
         /\ n < b * b => n \div b \in 0..(b - 1)
<1>1. n % b \in 0..(b - 1) /\ n \div b \in Int
  OBVIOUS
<1>2. n = (n \div b) * b + (n % b)
  OBVIOUS
<1>3. n \div b >= 0
  BY <1>1, <1>2
<1>4. n < b => n % b = n
  BY <1>1, <1>2
<1>5. n < b * b => n \div b < b
  BY <1>1, <1>2, <1>3
<1> QED
  BY <1>1, <1>2, <1>3, <1>4, <1>5

(* Two bytes tell a number modulo 65536. *)
LEMMA WordBytes ==
  ASSUME NEW n \in Nat
  PROVE  /\ Bytes16(n) \in Seq(Byte) /\ Len(Bytes16(n)) = 2
         /\ Bytes16(n)[1] * Base + Bytes16(n)[2] = n % (Base * Base)
         /\ n \in Word => n % (Base * Base) = n
<1> DEFINE m == n % (Base * Base)
<1>1. Base \in Nat \ {0} /\ Base * Base \in Nat \ {0}
  BY ByteAssumption
<1>2. m \in Nat /\ m < Base * Base /\ (n \in Word => m = n)
  BY <1>1, Divided DEF Word
<1>3. m \div Base \in Byte /\ m % Base \in Byte /\ (m \div Base) * Base + (m % Base) = m
  <2> HIDE DEF m
  <2> QED
    BY <1>1, <1>2, Divided DEF Byte
<1>4. Bytes16(n) = <<m \div Base, m % Base>>
  BY DEF Bytes16
<1> HIDE DEF m
<1>5. Bytes16(n) \in Seq(Byte) /\ Len(Bytes16(n)) = 2
  BY <1>3, <1>4
<1>6. Bytes16(n)[1] = m \div Base /\ Bytes16(n)[2] = m % Base
  BY <1>4
<1> QED
  BY <1>2, <1>3, <1>5, <1>6 DEF m

(* What fits in full fits in part. *)
LEMMA LessWithout ==
  ASSUME NEW a \in Nat, NEW h \in Nat, NEW c \in Nat, NEW d \in Nat, a + h + c <= d
  PROVE  a + h <= d /\ a <= d
OBVIOUS

(* What lies s bytes into a part that starts after a bytes. *)
LEMMA FurtherOn ==
  ASSUME NEW a \in Nat, NEW s \in Nat, NEW c \in Nat, NEW d \in Nat, s + c <= d
  PROVE  /\ a + (s + c) = a + s + c /\ a + (s + c) <= a + d
         /\ \A j \in 1..c : s + j \in 1..d /\ a + (s + j) = a + s + j
OBVIOUS

-----------------------------------------------------------------------------
(* The readers: what they have read is what the payload says. *)

(* What the count still promises; with it ReadsWhatIsThere is inductive. *)
Promise ==
  /\ verdict = "start" => pos = 0 /\ items = <<>>
  /\ verdict \in {"items", "whole"} => pos = EndOf(items, Len(items), form)
  /\ verdict \in {"items", "whole"} /\ Counted(form) =>
       Len(items) + left = Big16(buf, Skipped(form))
  /\ verdict = "whole" => IF Counted(form) THEN left = 0 ELSE pos = Len(buf)
  /\ verdict = "cut" => ~Strict(form)
  /\ verdict = "refused" => Strict(form)

ReaderInv == ReaderTypeOK /\ InPayload /\ SideBySide /\ Promise

-----------------------------------------------------------------------------
(* Two bytes of a payload are a natural number. *)
LEMMA Big16Nat ==
  ASSUME NEW b \in Seq(Byte), NEW p \in Nat, p + 2 <= Len(b)
  PROVE  Big16(b, p) \in Nat
<1>1. b[p + 1] \in Nat /\ b[p + 2] \in Nat
  BY ByteAssumption DEF Byte
<1>2. b[p + 1] * Base \in Nat
  BY <1>1, ByteAssumption
<1> QED
  BY <1>1, <1>2 DEF Big16

(* The sizes a form prescribes. *)
LEMMA Sizes ==
  ASSUME NEW f \in Forms
  PROVE  /\ HeadSize(f) \in {2, 4} /\ ItemsStart(f) \in Nat /\ Skipped(f) \in Nat
         /\ Counted(f) => ItemsStart(f) = Skipped(f) + 2 /\ HeadSize(f) = 4
         /\ ~Counted(f) => ItemsStart(f) = 0 /\ HeadSize(f) = 2 /\ f = "tlv"
<1>1. Skipped(f) \in Nat
  BY ByteAssumption DEF Skipped
<1>2. HeadSize(f) \in {2, 4}
  BY DEF HeadSize
<1>3. CASE f = "tlv"
  BY <1>1, <1>3 DEF HeadSize, ItemsStart, Counted
<1>4. CASE f # "tlv"
  BY <1>1, <1>4 DEF HeadSize, ItemsStart, Counted
<1> QED
  BY <1>3, <1>4

(* A part of a payload. *)
LEMMA Part ==
  ASSUME NEW b \in Seq(Byte), NEW p \in Nat, NEW c \in Nat, p + c <= Len(b)
  PROVE  SubSeq(b, p + 1, p + c) \in Seq(Byte) /\ Len(SubSeq(b, p + 1, p + c)) = c
<1>1. \A i \in (p + 1)..(p + c) : b[i] \in Byte
  OBVIOUS
<1>2. Len(SubSeq(b, p + 1, p + c)) = IF p + 1 <= p + c THEN p + c - (p + 1) + 1 ELSE 0
  BY <1>1, SubSeqProperties
<1>3. SubSeq(b, p + 1, p + c) \in Seq(Byte)
  BY <1>1, SubSeqProperties
<1> QED
  BY <1>2, <1>3

(* An item's head holds natural numbers. *)
LEMMA HeadNat ==
  ASSUME NEW b \in Seq(Byte), NEW f \in Forms, NEW p \in Nat, p + HeadSize(f) <= Len(b)
  PROVE  Key(b, f, p) \in Nat /\ Size(b, f, p) \in Nat /\ Carried(b, f, p) \in Nat
<1>1. CASE f = "tlv"
  <2>1. b[p + 1] \in Nat /\ b[p + 2] \in Nat
    BY <1>1, ByteAssumption DEF Byte, HeadSize
  <2> QED
    BY <1>1, <2>1 DEF Key, Size, Carried
<1>2. CASE f # "tlv"
  <2>1. Big16(b, p) \in Nat /\ Big16(b, p + 2) \in Nat
    BY <1>2, Big16Nat DEF HeadSize
  <2> QED
    BY <1>2, <2>1 DEF Key, Size, Carried
<1> QED
  BY <1>1, <1>2

-----------------------------------------------------------------------------
(* Before anything is read, nothing was read wrongly. *)
LEMMA ReaderStarts ==
  ASSUME buf \in Seq(Byte), ReaderInit
  PROVE  ReaderInv
BY Sizes, SMTT(30)
  DEF ReaderInit, ReaderInv, ReaderTypeOK, InPayload, SideBySide, Promise, Item

(* A payload that has nothing to read ends the reading. *)
LEMMA EndsEarlyKeeps ==
  ASSUME ReaderInv, EndsEarly
  PROVE  ReaderInv'
<1> USE DEF ReaderInv
<1>1. ReaderTypeOK'
  BY DEF ReaderTypeOK, EndsEarly
<1>2. HeadSize(form) \in {2, 4}
  BY Sizes DEF ReaderTypeOK
<1>3. CASE Strict(form)
  <2>1. items' = <<>> /\ verdict' = "refused" /\ UNCHANGED <<buf, form, pos, left>>
    BY <1>3 DEF EndsEarly
  <2>2. InPayload'
    BY <2>1, <1>2 DEF InPayload, ReaderTypeOK
  <2>3. SideBySide'
    BY <2>1 DEF SideBySide
  <2>4. Promise'
    BY <1>3, <2>1 DEF Promise, Strict
  <2> QED
    BY <1>1, <2>2, <2>3, <2>4
<1>4. CASE ~Strict(form)
  <2>1. verdict' = "cut" /\ UNCHANGED <<buf, form, pos, left, items>>
    BY <1>4 DEF EndsEarly
  <2> QED
    BY <1>1, <1>4, <2>1 DEF InPayload, SideBySide, Promise, Strict
<1> QED
  BY <1>3, <1>4

(* With the count read, that many items are promised. *)
LEMMA ReadCountKeeps ==
  ASSUME ReaderInv, ReadCount
  PROVE  ReaderInv'
<1> USE DEF ReaderInv
<1>1. /\ verdict = "start" /\ verdict' = "items" /\ items = <<>> /\ pos = 0
      /\ pos' = ItemsStart(form) /\ UNCHANGED <<buf, form, items>>
      /\ left' = IF Counted(form) THEN Big16(buf, Skipped(form)) ELSE 0
      /\ Counted(form) => Len(buf) >= Skipped(form) + 2
  BY DEF ReadCount, Promise
<1>2. buf \in Seq(Byte) /\ form \in Forms
  BY DEF ReaderTypeOK
<1>3. HeadSize(form) \in {2, 4} /\ ItemsStart(form) \in Nat /\ ItemsStart(form) <= Len(buf)
  BY <1>1, <1>2, Sizes
<1>4. left' \in Nat
  <2>1. CASE Counted(form)
    BY <1>1, <1>2, <2>1, Sizes, Big16Nat
  <2>2. CASE ~Counted(form)
    BY <1>1, <2>2
  <2> QED
    BY <2>1, <2>2
<1>5. ReaderTypeOK'
  BY <1>1, <1>3, <1>4 DEF ReaderTypeOK
<1>6. InPayload' /\ SideBySide'
  BY <1>1, <1>3 DEF InPayload, SideBySide, EndOf
<1>7. Promise'
  BY <1>1, <1>4 DEF Promise, EndOf
<1> QED
  BY <1>5, <1>6, <1>7

(* What ReadItem appends. *)
LEMMA NewItem ==
  ASSUME ReaderInv, ReadItem,
         NEW c, c = Carried(buf, form, pos),
         NEW e, e = items'[Len(items) + 1]
  PROVE  /\ verdict = "items" /\ verdict' = "items" /\ UNCHANGED <<buf, form>> /\ More
         /\ left' = (IF Counted(form) THEN left - 1 ELSE 0)
         /\ c \in Nat /\ pos' = pos + HeadSize(form) + c /\ pos' <= Len(buf)
         /\ items' \in Seq(Item) /\ Len(items') = Len(items) + 1
         /\ \A i \in 1..Len(items) : items'[i] = items[i]
         /\ e \in Item /\ e.at = pos /\ Len(e.value) = c
         /\ e.key = Key(buf, form, pos) /\ e.size = Size(buf, form, pos)
         /\ e.value = SubSeq(buf, pos + HeadSize(form) + 1, pos + HeadSize(form) + c)
<1> DEFINE k == Key(buf, form, pos)
           s == Size(buf, form, pos)
           from == pos + HeadSize(form)
           v == SubSeq(buf, from + 1, from + c)
           new == [at |-> pos, key |-> k, size |-> s, value |-> v]
<1>1. /\ verdict = "items" /\ verdict' = "items" /\ UNCHANGED <<buf, form>> /\ More
      /\ items' = Append(items, new) /\ pos' = from + c
      /\ left' = (IF Counted(form) THEN left - 1 ELSE 0)
      /\ from <= Len(buf) /\ from + c <= Len(buf)
  BY DEF ReadItem, HeadFits, ValueFits
<1>2. buf \in Seq(Byte) /\ form \in Forms /\ pos \in Nat /\ items \in Seq(Item)
  BY DEF ReaderInv, ReaderTypeOK
<1>3. HeadSize(form) \in {2, 4}
  BY <1>2, Sizes
<1>4. k \in Nat /\ s \in Nat /\ c \in Nat
  BY <1>1, <1>2, HeadNat
<1>5. from \in Nat
  BY <1>2, <1>3
<1>6. v \in Seq(Byte) /\ Len(v) = c
  <2> HIDE DEF from
  <2> QED
    BY <1>1, <1>2, <1>4, <1>5, Part
<1>7. /\ verdict = "items" /\ verdict' = "items" /\ UNCHANGED <<buf, form>> /\ More
      /\ left' = (IF Counted(form) THEN left - 1 ELSE 0)
      /\ c \in Nat /\ pos' = pos + HeadSize(form) + c /\ pos' <= Len(buf)
  BY <1>1, <1>4
<1> HIDE DEF k, s, v
<1>8. new \in Item
  BY <1>2, <1>4, <1>6 DEF Item
<1>9. /\ items' \in Seq(Item) /\ Len(items') = Len(items) + 1 /\ e = new
      /\ \A i \in 1..Len(items) : items'[i] = items[i]
  <2> HIDE DEF new
  <2> QED
    BY <1>1, <1>2, <1>8
<1>10. e.at = pos /\ e.key = k /\ e.size = s /\ e.value = v
  BY <1>9
<1>11. Len(e.value) = c
  BY <1>6, <1>10
<1> QED
  BY <1>7, <1>8, <1>9, <1>10, <1>11 DEF k, s, v

(* An item that fits is read whole, next to the one before. *)
LEMMA ReadItemKeeps ==
  ASSUME ReaderInv, ReadItem
  PROVE  ReaderInv'
<1> DEFINE n == Len(items)
<1>1. PICK c, e : c = Carried(buf, form, pos) /\ e = items'[n + 1]
  OBVIOUS
<1>2. /\ verdict = "items" /\ verdict' = "items" /\ UNCHANGED <<buf, form>> /\ More
      /\ left' = (IF Counted(form) THEN left - 1 ELSE 0)
      /\ c \in Nat /\ pos' = pos + HeadSize(form) + c /\ pos' <= Len(buf)
      /\ items' \in Seq(Item) /\ Len(items') = n + 1
      /\ \A i \in 1..n : items'[i] = items[i]
      /\ e \in Item /\ e.at = pos /\ Len(e.value) = c
      /\ e.key = Key(buf, form, pos) /\ e.size = Size(buf, form, pos)
      /\ e.value = SubSeq(buf, pos + HeadSize(form) + 1, pos + HeadSize(form) + c)
  BY <1>1, NewItem
<1>3. /\ buf \in Seq(Byte) /\ form \in Forms /\ pos \in Nat /\ left \in Nat
      /\ items \in Seq(Item) /\ n \in Nat
  BY DEF ReaderInv, ReaderTypeOK
<1>4. HeadSize(form) \in {2, 4}
  BY <1>3, Sizes
<1>5. left' \in Nat
  <2>1. CASE Counted(form)
    BY <1>2, <1>3, <2>1 DEF More
  <2>2. CASE ~Counted(form)
    BY <1>2, <2>2
  <2> QED
    BY <2>1, <2>2
<1>6. ReaderTypeOK'
  <2>1. pos' \in Nat
    <3>1. pos' = pos + HeadSize(form) + c /\ c \in Nat /\ pos \in Nat
      BY <1>2, <1>3
    <3>2. HeadSize(form) \in Nat
      BY <1>4
    <3> QED
      BY <3>1, <3>2
  <2>2. buf' = buf /\ form' = form /\ verdict' = "items" /\ items' \in Seq(Item)
    BY <1>2
  <2> QED
    BY <1>3, <1>5, <2>1, <2>2 DEF ReaderTypeOK
<1>7. InPayload'
  <2>1. HeadSize(form) * n <= pos
    BY DEF ReaderInv, InPayload
  <2>2. HeadSize(form) * (n + 1) <= pos + HeadSize(form) + c
    <3>1. CASE HeadSize(form) = 2
      BY <1>2, <1>3, <2>1, <3>1
    <3>2. CASE HeadSize(form) = 4
      BY <1>2, <1>3, <2>1, <3>2
    <3> QED
      BY <1>4, <3>1, <3>2
  <2> QED
    BY <1>2, <2>2 DEF InPayload
<1>8. pos' = EndOf(items', n + 1, form)
  <2>1. EndOf(items', n + 1, form) = e.at + HeadSize(form) + Len(e.value)
    BY <1>1, <1>3 DEF EndOf
  <2> QED
    BY <1>2, <2>1
<1>9. \A i \in 0..n : EndOf(items', i, form) = EndOf(items, i, form)
  <2> SUFFICES ASSUME NEW i \in 0..n
               PROVE  EndOf(items', i, form) = EndOf(items, i, form)
    OBVIOUS
  <2>1. CASE i = 0
    BY <2>1 DEF EndOf
  <2>2. CASE i # 0
    <3>1. items'[i] = items[i]
      BY <1>2, <1>3, <2>2
    <3> QED
      BY <2>2, <3>1 DEF EndOf
  <2> QED
    BY <2>1, <2>2
<1>10. SideBySide'
  <2> DEFINE Fits(x, i, its) ==
        LET f == x.at + HeadSize(form)
        IN /\ x.at = EndOf(its, i - 1, form) /\ f + Len(x.value) <= Len(buf)
           /\ x.key = Key(buf, form, x.at) /\ x.size = Size(buf, form, x.at)
           /\ x.value = SubSeq(buf, f + 1, f + Len(x.value))
           /\ Len(x.value) = Carried(buf, form, x.at)
  <2>1. ASSUME NEW i \in 1..n
        PROVE  Fits(items'[i], i, items')
    <3>1. Fits(items[i], i, items)
      BY DEF ReaderInv, SideBySide
    <3>2. items'[i] = items[i] /\ EndOf(items', i - 1, form) = EndOf(items, i - 1, form)
      BY <1>2, <1>3, <1>9
    <3> QED
      BY <3>1, <3>2
  <2>2. Fits(items'[n + 1], n + 1, items')
    <3>1. EndOf(items, n, form) = pos
      BY <1>2 DEF ReaderInv, Promise
    <3>2. EndOf(items', n, form) = pos /\ n + 1 - 1 = n
      BY <1>3, <1>9, <3>1
    <3>3. Fits(e, n + 1, items')
      BY <1>1, <1>2, <3>2
    <3> QED
      BY <1>1, <3>3
  <2>3. \A i \in 1..(n + 1) : Fits(items'[i], i, items')
    <3> HIDE DEF Fits
    <3> QED
      BY <1>3, <2>1, <2>2
  <2> QED
    BY <1>2, <1>8, <2>3 DEF SideBySide
<1>11. Promise'
  <2>1. Counted(form) => Len(items') + left' = Big16(buf, Skipped(form))
    BY <1>2, <1>3 DEF ReaderInv, Promise, More
  <2> QED
    BY <1>2, <1>8, <2>1 DEF Promise
<1> QED
  BY <1>6, <1>7, <1>10, <1>11 DEF ReaderInv

(* The reading ends where the last item does. *)
LEMMA AllReadKeeps ==
  ASSUME ReaderInv, AllRead
  PROVE  ReaderInv'
<1>1. /\ verdict = "items" /\ verdict' = "whole" /\ ~More
      /\ UNCHANGED <<buf, form, pos, left, items>>
  BY DEF AllRead
<1>2. ReaderTypeOK' /\ InPayload' /\ SideBySide'
  BY <1>1 DEF ReaderInv, ReaderTypeOK, InPayload, SideBySide
<1>3. IF Counted(form) THEN left = 0 ELSE pos = Len(buf)
  BY <1>1 DEF More, ReaderInv, ReaderTypeOK, InPayload
<1>4. Promise'
  BY <1>1, <1>3 DEF Promise, ReaderInv
<1> QED
  BY <1>2, <1>4 DEF ReaderInv

(* No step of a reader breaks what it has read. *)
LEMMA ReaderKeeps ==
  ASSUME ReaderInv, [ReaderNext]_reader
  PROVE  ReaderInv'
<1>1. CASE ReadCount
  BY <1>1, ReadCountKeeps
<1>2. CASE TooShort
  BY <1>2, EndsEarlyKeeps DEF TooShort
<1>3. CASE ReadItem
  BY <1>3, ReadItemKeeps
<1>4. CASE HeadCut
  BY <1>4, EndsEarlyKeeps DEF HeadCut
<1>5. CASE ValueCut
  BY <1>5, EndsEarlyKeeps DEF ValueCut
<1>6. CASE AllRead
  BY <1>6, AllReadKeeps
<1>7. CASE UNCHANGED reader
  BY <1>7 DEF reader, ReaderInv, ReaderTypeOK, InPayload, SideBySide, Promise
<1> QED
  BY <1>1, <1>2, <1>3, <1>4, <1>5, <1>6, <1>7 DEF ReaderNext

(* What is inductive says all that is checked. *)
LEMMA InvGivesProperty ==
  ASSUME ReaderInv
  PROVE  ReadsWhatIsThere
<1>1. items \in Seq(Item)
  BY DEF ReaderInv, ReaderTypeOK
<1>2. Len(items) \in Nat
  BY <1>1
<1>3. left = 0 => Len(items) + left = Len(items)
  BY <1>2
<1>4. form = "get reply" => Counted(form) /\ Skipped(form) = 0
  BY DEF Counted, Skipped
<1>5. verdict = "whole" /\ form = "get reply" =>
        left = 0 /\ Len(items) + left = Big16(buf, 0)
  BY <1>4 DEF ReaderInv, Promise
<1> QED
  BY <1>3, <1>5 DEF ReaderInv, ReadsWhatIsThere, TakenWhole

(* Whatever bytes arrive, and whatever counts and lengths they announce, a  *)
(* reader never looks past them, the items it has read are the payload's    *)
(* own, side by side, and a GetData reply is taken whole or not at all.     *)
THEOREM ReadsTrue == ReaderSpec => []ReadsWhatIsThere
<1>1. buf \in Seq(Byte) /\ ReaderInit => ReaderInv
  BY ReaderStarts
<1>2. ReaderInv /\ [ReaderNext]_reader => ReaderInv'
  BY ReaderKeeps
<1>3. ReaderInv => ReadsWhatIsThere
  BY InvGivesProperty
<1> QED
  BY <1>1, <1>2, <1>3, PTL DEF ReaderSpec

-----------------------------------------------------------------------------
(* Payloads: where each entry lies. *)

(* An entry that a form can carry. *)
OnWire(f, e) ==
  /\ e.value \in Seq(Byte) /\ Len(e.value) = IF f = "get request" THEN 0 ELSE e.size
  /\ IF f = "tlv" THEN e.key \in Byte /\ e.size \in Byte ELSE e.key \in Word /\ e.size \in Word

(* A payload shows an entry at a place. *)
Shows(f, b, p, e) ==
  /\ Key(b, f, p) = e.key /\ Size(b, f, p) = e.size
  /\ \A j \in 1..Len(e.value) : b[p + HeadSize(f) + j] = e.value[j]

(* The bytes of an entry, wherever they lie, show the entry. *)
LEMMA EntryShown ==
  ASSUME NEW f \in Forms, NEW e, OnWire(f, e)
  PROVE  /\ EntryBytes(f, e) \in Seq(Byte)
         /\ Len(EntryBytes(f, e)) = HeadSize(f) + Len(e.value)
         /\ \A b : \A p \in Nat :
              (\A j \in 1..Len(EntryBytes(f, e)) : b[p + j] = EntryBytes(f, e)[j])
                => Shows(f, b, p, e)
<1> DEFINE x == EntryBytes(f, e)
           v == e.value
<1>1. v \in Seq(Byte) /\ Len(v) \in Nat
  BY LenProperties DEF OnWire
<1>2. PICK h : h = IF f = "tlv" THEN <<e.key, e.size>> ELSE Bytes16(e.key) \o Bytes16(e.size)
  OBVIOUS
<1>3. x = h \o v
  BY <1>2 DEF EntryBytes
<1>4. /\ h \in Seq(Byte) /\ Len(h) = HeadSize(f)
      /\ f = "tlv" => h[1] = e.key /\ h[2] = e.size
      /\ f # "tlv" => h[1] * Base + h[2] = e.key /\ h[3] * Base + h[4] = e.size
  <2>1. CASE f = "tlv"
    BY <1>2, <2>1 DEF OnWire, HeadSize
  <2>2. CASE f # "tlv"
    <3>1. e.key \in Word /\ e.size \in Word
      BY <2>2 DEF OnWire
    <3>2. e.key \in Nat /\ e.size \in Nat
      BY <3>1, ByteAssumption DEF Word
    <3>3. PICK k, s : k = Bytes16(e.key) /\ s = Bytes16(e.size)
      OBVIOUS
    <3>4. /\ k \in Seq(Byte) /\ Len(k) = 2 /\ k[1] * Base + k[2] = e.key
          /\ s \in Seq(Byte) /\ Len(s) = 2 /\ s[1] * Base + s[2] = e.size
      BY <3>1, <3>2, <3>3, WordBytes
    <3>5. /\ h \in Seq(Byte) /\ Len(h) = 4
          /\ \A p \in 1..2 : h[p] = k[p]
          /\ \A p \in 1..2 : h[2 + p] = s[p]
      <4>1. h = k \o s
        BY <1>2, <2>2, <3>3
      <4>2. /\ h \in Seq(Byte) /\ Len(h) = Len(k) + Len(s)
            /\ \A p \in 1..Len(k) : h[p] = k[p]
            /\ \A p \in 1..Len(s) : h[Len(k) + p] = s[p]
        <5>1. k \in Seq(Byte) /\ s \in Seq(Byte)
          BY <3>4
        <5> QED
          BY <4>1, <5>1, JoinedBytes
      <4> QED
        BY <3>4, <4>2
    <3>6. h[1] = k[1] /\ h[2] = k[2] /\ h[3] = s[1] /\ h[4] = s[2]
      <4>1. 1 \in 1..2 /\ 2 \in 1..2 /\ 2 + 1 = 3 /\ 2 + 2 = 4
        OBVIOUS
      <4> QED
        BY <3>5, <4>1
    <3> QED
      BY <2>2, <3>4, <3>5, <3>6 DEF HeadSize
  <2> QED
    BY <2>1, <2>2
<1>5. /\ x \in Seq(Byte) /\ Len(x) = Len(h) + Len(v)
      /\ \A j \in 1..Len(h) : x[j] = h[j]
      /\ \A j \in 1..Len(v) : x[Len(h) + j] = v[j]
  <2>1. h \in Seq(Byte) /\ v \in Seq(Byte)
    BY <1>1, <1>4
  <2> HIDE DEF x, v
  <2> QED
    BY <1>3, <2>1, JoinedBytes
<1> HIDE DEF x, v
<1>6. ASSUME NEW b, NEW p \in Nat, \A j \in 1..Len(x) : b[p + j] = x[j]
      PROVE  Shows(f, b, p, e)
  <2>1. HeadSize(f) \in {2, 4} /\ (f = "tlv" <=> HeadSize(f) = 2)
    BY DEF HeadSize
  <2>2. ASSUME NEW j \in 1..HeadSize(f)
        PROVE  b[p + j] = h[j]
    BY <1>1, <1>4, <1>5, <1>6, <2>1
  <2>3. ASSUME NEW j \in 1..Len(v)
        PROVE  b[p + HeadSize(f) + j] = v[j]
    <3>1. PICK a, c, d : a = HeadSize(f) /\ c = Len(v) /\ d = Len(x)
      OBVIOUS
    <3>2. a \in Nat /\ c \in Nat /\ d = a + c
      BY <1>1, <1>4, <1>5, <2>1, <3>1
    <3>3. d \in Nat /\ a + c <= d
      BY <3>2
    <3>4. a + j \in 1..d /\ p + (a + j) = p + a + j
      BY <3>1, <3>2, <3>3, FurtherOn
    <3>5. x[a + j] = v[j]
      BY <1>4, <1>5, <3>1
    <3>6. b[p + (a + j)] = x[a + j]
      BY <1>6, <3>1, <3>4
    <3> QED
      BY <3>1, <3>4, <3>5, <3>6
  <2>4. CASE f = "tlv"
    <3>1. b[p + 1] = h[1] /\ b[p + 2] = h[2]
      BY <2>1, <2>2, <2>4
    <3> QED
      BY <1>4, <2>3, <2>4, <3>1 DEF Shows, Key, Size, v
  <2>5. CASE f # "tlv"
    <3>1. b[p + 1] = h[1] /\ b[p + 2] = h[2] /\ b[p + 3] = h[3] /\ b[p + 4] = h[4]
      BY <2>1, <2>2, <2>5
    <3>2. p + 2 + 1 = p + 3 /\ p + 2 + 2 = p + 4
      OBVIOUS
    <3>3. Big16(b, p) = e.key /\ Big16(b, p + 2) = e.size
      BY <1>4, <2>5, <3>1, <3>2 DEF Big16
    <3> QED
      BY <2>3, <2>5, <3>3 DEF Shows, Key, Size, v
  <2> QED
    BY <2>4, <2>5
<1> QED
  BY <1>1, <1>4, <1>5, <1>6 DEF x, v

(* A payload lists entries: each at its place, side by side, and no more.   *)
Lists(f, entries, b, at) ==
  /\ b \in Seq(Byte) /\ at \in [1..(Len(entries) + 1) -> Nat]
  /\ at[1] = ItemsStart(f) /\ at[Len(entries) + 1] = Len(b)
  /\ Counted(f) => Big16(b, Skipped(f)) = Len(entries)
  /\ \A i \in 1..Len(entries) :
       /\ at[i + 1] = at[i] + HeadSize(f) + Len(entries[i].value) /\ at[i + 1] <= Len(b)
       /\ Shows(f, b, at[i], entries[i])

Listable(f, entries) ==
  /\ Len(entries) \in Nat /\ (Counted(f) => Len(entries) \in Word)
  /\ \A i \in 1..Len(entries) : OnWire(f, entries[i])

\* What stands before the entries.
FrontOf(f, n) == IF Counted(f) THEN Zeros(Skipped(f)) \o Bytes16(n) ELSE <<>>

(* What a counted payload starts with tells the count. *)
LEMMA FrontShape ==
  ASSUME NEW f \in Forms, NEW n \in Nat, Counted(f) => n \in Word
  PROVE  /\ FrontOf(f, n) \in Seq(Byte) /\ Len(FrontOf(f, n)) = ItemsStart(f)
         /\ Counted(f) => FrontOf(f, n)[Skipped(f) + 1] * Base + FrontOf(f, n)[Skipped(f) + 2] = n
<1> PICK c : c = FrontOf(f, n)
  OBVIOUS
<1>1. CASE Counted(f)
  <2>1. PICK z, w : z = Zeros(Skipped(f)) /\ w = Bytes16(n)
    OBVIOUS
  <2>2. w \in Seq(Byte) /\ Len(w) = 2 /\ w[1] * Base + w[2] = n
    BY <1>1, <2>1, WordBytes
  <2>3. z \in Seq(Byte) /\ Len(z) = Skipped(f) /\ Skipped(f) \in Nat
    <3>1. Skipped(f) \in Nat
      BY Sizes
    <3>2. 0 \in Byte
      BY ByteAssumption DEF Byte
    <3> QED
      BY <2>1, <3>1, <3>2 DEF Zeros
  <2>4. c = z \o w
    BY <1>1, <2>1 DEF FrontOf
  <2>5. /\ c \in Seq(Byte) /\ Len(c) = Len(z) + Len(w)
        /\ \A p \in 1..Len(w) : c[Len(z) + p] = w[p]
    <3>1. z \in Seq(Byte) /\ w \in Seq(Byte)
      BY <2>2, <2>3
    <3> QED
      BY <2>4, <3>1, JoinedBytes
  <2>6. c[Skipped(f) + 1] = w[1] /\ c[Skipped(f) + 2] = w[2]
    <3>1. 1 \in 1..2 /\ 2 \in 1..2
      OBVIOUS
    <3> QED
      BY <2>2, <2>3, <2>5, <3>1
  <2> QED
    BY <1>1, <2>2, <2>3, <2>5, <2>6 DEF ItemsStart
<1>2. CASE ~Counted(f)
  BY <1>2 DEF ItemsStart, FrontOf
<1> QED
  BY <1>1, <1>2

(* What is built lists what it was built from. *)
LEMMA PayloadLists ==
  ASSUME NEW f \in Forms, NEW entries, Listable(f, entries)
  PROVE  \E at : Lists(f, entries, Payload(f, entries), at)
<1> DEFINE n == Len(entries)
           parts == [i \in 1..n |-> EntryBytes(f, entries[i])]
<1>1. n \in Nat /\ (Counted(f) => n \in Word) /\ \A i \in 1..n : OnWire(f, entries[i])
  BY DEF Listable
<1>2. PICK c : c = FrontOf(f, n)
  OBVIOUS
<1>3. /\ c \in Seq(Byte) /\ Len(c) = ItemsStart(f)
      /\ Counted(f) => c[Skipped(f) + 1] * Base + c[Skipped(f) + 2] = n
  BY <1>1, <1>2, FrontShape
<1>4. parts \in Seq(Seq(Byte)) /\ Len(parts) = n
  BY <1>1, EntryShown
<1>5. PICK flat : flat = FlattenSeq(parts)
  OBVIOUS
<1>6. flat \in Seq(Byte) /\ \E s \in [1..(n + 1) -> Nat] : PartsAt(parts, flat, s)
  <2> HIDE DEF parts, n
  <2> QED
    BY <1>4, <1>5, FlattenShape
<1>7. PICK s \in [1..(n + 1) -> Nat] : PartsAt(parts, flat, s)
  BY <1>6
<1>8. PICK b : b = c \o flat
  OBVIOUS
<1>9. b = Payload(f, entries)
  BY <1>2, <1>5, <1>8 DEF Payload, FrontOf
<1>10. /\ b \in Seq(Byte) /\ Len(b) = Len(c) + Len(flat) /\ Len(c) \in Nat /\ Len(flat) \in Nat
       /\ \A p \in 1..Len(c) : b[p] = c[p]
       /\ \A p \in 1..Len(flat) : b[Len(c) + p] = flat[p]
  <2>1. c \in Seq(Byte) /\ flat \in Seq(Byte)
    BY <1>3, <1>6
  <2> QED
    BY <1>8, <2>1, JoinedBytes
<1> DEFINE at == [i \in 1..(n + 1) |-> Len(c) + s[i]]
<1>11. at \in [1..(n + 1) -> Nat] /\ at[1] = ItemsStart(f) /\ at[n + 1] = Len(b)
  <2>1. s[1] = 0 /\ s[n + 1] = Len(flat)
    BY <1>4, <1>7 DEF PartsAt
  <2> HIDE DEF parts, n
  <2> QED
    BY <1>1, <1>3, <1>10, <2>1
<1>12. Counted(f) => Big16(b, Skipped(f)) = n
  <2>1. SUFFICES ASSUME Counted(f)
                 PROVE  Big16(b, Skipped(f)) = n
    OBVIOUS
  <2>2. Skipped(f) \in Nat /\ Len(c) = Skipped(f) + 2
    BY <1>3, <2>1, ByteAssumption DEF Skipped, ItemsStart
  <2>3. b[Skipped(f) + 1] = c[Skipped(f) + 1] /\ b[Skipped(f) + 2] = c[Skipped(f) + 2]
    BY <1>10, <2>2
  <2> QED
    BY <1>3, <2>1, <2>3 DEF Big16
<1>13. ASSUME NEW i \in 1..n
       PROVE  /\ at[i + 1] = at[i] + HeadSize(f) + Len(entries[i].value) /\ at[i + 1] <= Len(b)
              /\ Shows(f, b, at[i], entries[i])
  <2>1. PICK x : x = EntryBytes(f, entries[i])
    OBVIOUS
  <2>2. parts[i] = x
    BY <2>1
  <2>3. OnWire(f, entries[i])
    BY <1>1
  <2>4. x \in Seq(Byte) /\ Len(x) = HeadSize(f) + Len(entries[i].value) /\ Len(x) \in Nat
    BY <2>1, <2>3, EntryShown, LenProperties
  <2>5. /\ s[i + 1] = s[i] + Len(x) /\ s[i + 1] <= Len(flat)
        /\ \A j \in 1..Len(x) : flat[s[i] + j] = x[j]
    <3> HIDE DEF parts, n
    <3> QED
      BY <1>4, <1>7, <2>2 DEF PartsAt
  <2>6. s[i] \in Nat /\ s[i + 1] \in Nat /\ at[i] = Len(c) + s[i] /\ at[i + 1] = Len(c) + s[i + 1]
    <3> HIDE DEF parts, n
    <3>1. i \in 1..(n + 1) /\ i + 1 \in 1..(n + 1)
      BY <1>1
    <3> QED
      BY <1>7, <3>1
  <2> HIDE DEF at, parts, n
  <2>7. HeadSize(f) \in Nat /\ Len(entries[i].value) \in Nat
    BY <2>3, LenProperties DEF HeadSize, OnWire
  <2>8. Len(b) = Len(c) + Len(flat) /\ Len(c) \in Nat /\ Len(flat) \in Nat
    BY <1>10
  <2>9. at[i + 1] = at[i] + HeadSize(f) + Len(entries[i].value) /\ at[i + 1] <= Len(b)
    <3>1. /\ s[i] \in Nat /\ s[i + 1] \in Nat /\ Len(x) = HeadSize(f) + Len(entries[i].value)
          /\ s[i + 1] = s[i] + Len(x) /\ s[i + 1] <= Len(flat)
      BY <2>4, <2>5, <2>6
    <3>2. at[i] = Len(c) + s[i] /\ at[i + 1] = Len(c) + s[i + 1]
      BY <2>6
    <3>3. PICK h, v : h = HeadSize(f) /\ v = Len(entries[i].value)
      OBVIOUS
    <3>4. h \in Nat /\ v \in Nat /\ s[i + 1] = s[i] + (h + v)
      BY <2>7, <3>1, <3>3
    <3>5. PICK a, p, q, d : a = Len(c) /\ p = s[i] /\ q = s[i + 1] /\ d = Len(flat)
      OBVIOUS
    <3>6. a \in Nat /\ p \in Nat /\ q \in Nat /\ d \in Nat /\ q = p + (h + v) /\ q <= d
      BY <2>8, <3>1, <3>4, <3>5
    <3>7. a + q = a + p + h + v /\ a + q <= a + d
      BY <3>4, <3>6
    <3>8. at[i] = a + p /\ at[i + 1] = a + q /\ Len(b) = a + d
      BY <2>8, <3>2, <3>5
    <3> QED
      BY <3>3, <3>7, <3>8
  <2>10. ASSUME NEW j \in 1..Len(x)
        PROVE  b[at[i] + j] = x[j]
    <3>1. s[i] + j \in 1..Len(flat) /\ at[i] + j = Len(c) + (s[i] + j)
      <4>1. /\ s[i] \in Nat /\ Len(x) \in Nat /\ s[i + 1] = s[i] + Len(x) /\ s[i + 1] <= Len(flat)
        BY <2>4, <2>5, <2>6
      <4>2. PICK a, p, y, d : a = Len(c) /\ p = s[i] /\ y = Len(x) /\ d = Len(flat)
        OBVIOUS
      <4>3. a \in Nat /\ p \in Nat /\ y \in Nat /\ d \in Nat /\ p + y <= d /\ j \in 1..y
        BY <2>8, <4>1, <4>2
      <4>4. p + j \in 1..d /\ a + (p + j) = a + p + j
        BY <4>3, FurtherOn
      <4>5. at[i] = a + p
        BY <2>6, <4>2
      <4> QED
        BY <4>2, <4>4, <4>5
    <3> QED
      BY <1>10, <2>5, <3>1
  <2>11. at[i] \in Nat
    BY <2>6, <2>8
  <2> QED
    BY <2>1, <2>3, <2>9, <2>10, <2>11, EntryShown
<1>14. Lists(f, entries, b, at)
  <2> HIDE DEF at
  <2> QED
    BY <1>10, <1>11, <1>12, <1>13 DEF Lists
<1> QED
  BY <1>9, <1>14

-----------------------------------------------------------------------------
(* A reader of a payload that lists entries reads those entries. *)

(* The reader has the first bytes of a payload that lists entries. *)
Reading(entries, b, at) ==
  /\ ReaderInv /\ Listable(form, entries) /\ Lists(form, entries, b, at)
  /\ \E n \in 0..Len(b) : buf = SubSeq(b, 1, n)

\* The item of an entry.
ItemOf(entries, at, i) ==
  [at |-> at[i], key |-> entries[i].key, size |-> entries[i].size, value |-> entries[i].value]

(* The beginning of a list. *)
LEMMA PrefixShape ==
  ASSUME NEW T, NEW b \in Seq(T), NEW n \in 0..Len(b)
  PROVE  /\ SubSeq(b, 1, n) \in Seq(T) /\ Len(SubSeq(b, 1, n)) = n
         /\ \A p \in 1..n : SubSeq(b, 1, n)[p] = b[p]
         /\ n = Len(b) => SubSeq(b, 1, n) = b
<1>1. Len(b) \in Nat /\ n \in Nat
  BY LenProperties
<1>2. \A p \in 1..n : b[p] \in T
  BY <1>1, ElementOfSeq
<1>3. /\ SubSeq(b, 1, n) \in Seq(T)
      /\ Len(SubSeq(b, 1, n)) = IF 1 <= n THEN n - 1 + 1 ELSE 0
      /\ \A p \in 1..(n - 1 + 1) : SubSeq(b, 1, n)[p] = b[1 + p - 1]
  BY <1>1, <1>2, SubSeqProperties
<1>4. Len(SubSeq(b, 1, n)) = n /\ \A p \in 1..n : SubSeq(b, 1, n)[p] = b[p]
  BY <1>1, <1>3
<1>5. n = Len(b) => SubSeq(b, 1, n) = b
  BY <1>3, <1>4, SeqEqual
<1> QED
  BY <1>3, <1>4, <1>5

\* Two payloads are the same for n bytes.
SameTo(b, c, n) == \A i \in 1..n : c[i] = b[i]

(* What a payload shows at a place, its beginning shows too if it reaches   *)
(* that far.                                                                *)
LEMMA ShownEarly ==
  ASSUME NEW f \in Forms, NEW b, NEW c, NEW n \in Nat, SameTo(b, c, n),
         NEW p \in Nat, p + HeadSize(f) <= n
  PROVE  Key(c, f, p) = Key(b, f, p) /\ Size(c, f, p) = Size(b, f, p)
<1>1. \A i \in 1..n : c[i] = b[i]
  BY DEF SameTo
<1>2. n \in Nat
  OBVIOUS
<1>3. CASE f = "tlv"
  <2>1. p + 1 \in 1..n /\ p + 2 \in 1..n
    BY <1>2, <1>3 DEF HeadSize
  <2> QED
    BY <1>1, <1>3, <2>1 DEF Key, Size
<1>4. CASE f # "tlv"
  <2>1. p + 1 \in 1..n /\ p + 2 \in 1..n /\ p + 2 + 1 \in 1..n /\ p + 2 + 2 \in 1..n
    BY <1>2, <1>4 DEF HeadSize
  <2> QED
    BY <1>1, <1>4, <2>1 DEF Key, Size, Big16
<1> QED
  BY <1>3, <1>4

(* Read from the start, the items are the entries, in their order. *)
LEMMA ReadsEntries ==
  ASSUME NEW entries, NEW b, NEW at, Reading(entries, b, at)
  PROVE  /\ Len(items) \in 0..Len(entries)
         /\ \A i \in 1..Len(items) : items[i] = ItemOf(entries, at, i)
         /\ verdict \in {"items", "whole"} => pos = at[Len(items) + 1]
<1> DEFINE n == Len(entries)
           k == Len(items)
<1>1. PICK m \in 0..Len(b) : buf = SubSeq(b, 1, m)
  BY DEF Reading
<1>2. /\ form \in Forms /\ items \in Seq(Item) /\ k \in Nat /\ pos \in Nat /\ n \in Nat
      /\ b \in Seq(Byte) /\ Len(b) \in Nat /\ m \in Nat
      /\ at \in [1..(n + 1) -> Nat] /\ at[1] = ItemsStart(form) /\ at[n + 1] = Len(b)
  BY <1>1, LenProperties DEF Reading, ReaderInv, ReaderTypeOK, Lists, Listable
<1>3. /\ buf \in Seq(Byte) /\ Len(buf) = m
      /\ \A p \in 1..m : buf[p] = b[p]
  BY <1>1, <1>2, PrefixShape
<1>4. HeadSize(form) \in {2, 4}
  BY <1>2, Sizes
<1> DEFINE Same(i) == i \in 1..n /\ items[i] = ItemOf(entries, at, i)
                       /\ EndOf(items, i, form) = at[i + 1]
<1>5. ASSUME NEW i \in 1..k, i # 1 => Same(i - 1)
      PROVE  Same(i)
  <2>1. i \in Nat /\ items[i] \in Item /\ items[i].value \in Seq(Byte) /\ Len(items[i].value) \in Nat
        /\ items[i].at \in Nat
    <3>1. i \in Nat /\ items[i] \in Item
      BY <1>2
    <3> QED
      BY <3>1, LenProperties DEF Item
  <2>2. PICK e : e = items[i]
    OBVIOUS
  <2>3. /\ e.at = EndOf(items, i - 1, form) /\ e.at + HeadSize(form) + Len(e.value) <= m
        /\ e.key = Key(buf, form, e.at) /\ e.size = Size(buf, form, e.at)
        /\ e.value = SubSeq(buf, e.at + HeadSize(form) + 1, e.at + HeadSize(form) + Len(e.value))
        /\ Len(e.value) = Carried(buf, form, e.at)
    BY <1>3, <2>2 DEF Reading, ReaderInv, SideBySide
  <2>4. e \in Item /\ e.value \in Seq(Byte) /\ Len(e.value) \in Nat /\ e.at \in Nat
    BY <2>1, <2>2
  <2>5. i \in 1..(n + 1) /\ e.at = at[i]
    <3>1. CASE i = 1
      <4>1. EndOf(items, i - 1, form) = ItemsStart(form)
        BY <3>1 DEF EndOf
      <4> QED
        BY <1>2, <2>3, <3>1, <4>1
    <3>2. CASE i # 1
      <4>1. i - 1 \in 1..n /\ EndOf(items, i - 1, form) = at[i - 1 + 1]
        BY <1>5, <3>2
      <4>2. i - 1 + 1 = i /\ i \in 1..(n + 1)
        BY <1>2, <2>1, <4>1
      <4> QED
        BY <2>3, <4>1, <4>2
    <3> QED
      BY <3>1, <3>2
  <2>50. PICK h, d, p : h = HeadSize(form) /\ d = Len(e.value) /\ p = at[i]
    OBVIOUS
  <2>51. p \in Nat /\ h \in Nat /\ d \in Nat /\ p + h + d <= m
    <3>1. p = e.at
      BY <2>5, <2>50
    <3>2. h \in Nat
      BY <1>4, <2>50
    <3> QED
      BY <2>3, <2>4, <2>50, <3>1, <3>2
  <2>52. p + h <= m
    BY <1>2, <2>51, LessWithout
  <2>6. i \in 1..n
    <3>1. CASE i = n + 1
      BY <1>2, <1>4, <2>3, <2>4, <2>5, <3>1
    <3> QED
      BY <1>2, <2>5, <3>1
  <2>7. PICK x : x = entries[i]
    OBVIOUS
  <2>8. /\ at[i + 1] = at[i] + HeadSize(form) + Len(x.value) /\ at[i + 1] <= Len(b)
        /\ Key(b, form, at[i]) = x.key /\ Size(b, form, at[i]) = x.size
        /\ \A j \in 1..Len(x.value) : b[at[i] + HeadSize(form) + j] = x.value[j]
    BY <2>6, <2>7 DEF Reading, Lists, Shows
  <2>9. x.value \in Seq(Byte) /\ Len(x.value) = (IF form = "get request" THEN 0 ELSE x.size)
    BY <2>6, <2>7 DEF Reading, Listable, OnWire
  <2>10. e.key = x.key /\ e.size = x.size
    <3>1. PICK f, c : f = form /\ c = buf
      OBVIOUS
    <3>2. p + HeadSize(f) <= m /\ f \in Forms /\ SameTo(b, c, m)
      BY <1>2, <1>3, <2>50, <2>52, <3>1 DEF SameTo
    <3>3. Key(c, f, p) = Key(b, f, p) /\ Size(c, f, p) = Size(b, f, p)
      BY <1>2, <2>51, <3>2, ShownEarly
    <3>4. e.at = p /\ p = at[i]
      BY <2>5, <2>50
    <3> QED
      BY <2>3, <2>8, <3>1, <3>3, <3>4
  <2>11. Len(e.value) = Len(x.value)
    BY <2>3, <2>5, <2>9, <2>10 DEF Carried
  <2>12. e.value = x.value
    <3> DEFINE from == at[i] + HeadSize(form)
    <3>1. from \in Nat /\ from + Len(e.value) <= m
      BY <2>50, <2>51
    <3>2. e.value = SubSeq(buf, from + 1, from + Len(e.value))
      BY <2>3, <2>5
    <3>3. \A j \in 1..Len(x.value) : b[from + j] = x.value[j]
      BY <2>8
    <3> HIDE DEF from
    <3>4. \A j \in 1..Len(e.value) : e.value[j] = buf[from + j]
      <4>1. \A j \in (from + 1)..(from + Len(e.value)) : buf[j] \in Byte
        BY <1>2, <1>3, <2>4, <3>1
      <4>2. \A j \in 1..(from + Len(e.value) - (from + 1) + 1) :
              SubSeq(buf, from + 1, from + Len(e.value))[j] = buf[from + 1 + j - 1]
        BY <2>4, <3>1, <4>1, SubSeqProperties
      <4>3. from + Len(e.value) - (from + 1) + 1 = Len(e.value)
        BY <2>4, <3>1
      <4>4. \A j \in 1..Len(e.value) : from + 1 + j - 1 = from + j
        BY <2>4, <3>1
      <4> QED
        BY <3>2, <4>2, <4>3, <4>4
    <3>5. \A j \in 1..Len(e.value) : from + j \in 1..m
      BY <1>2, <2>4, <3>1
    <3>6. \A j \in 1..Len(e.value) : e.value[j] = x.value[j]
      BY <1>3, <2>11, <3>3, <3>4, <3>5
    <3> QED
      BY <2>4, <2>9, <2>11, <3>6, SeqEqual
  <2>13. e = ItemOf(entries, at, i)
    BY <2>4, <2>5, <2>7, <2>10, <2>12 DEF Item, ItemOf
  <2>14. EndOf(items, i, form) = at[i + 1]
    BY <2>1, <2>2, <2>5, <2>8, <2>11 DEF EndOf
  <2> QED
    BY <2>2, <2>6, <2>13, <2>14
<1>6. \A i \in 1..k : Same(i)
  <2> DEFINE N == {i \in Nat : i \in 1..k => Same(i)}
  <2> HIDE DEF Same
  <2>1. 0 \in N /\ N \in SUBSET Nat
    OBVIOUS
  <2>2. ASSUME NEW l \in Nat, l \in 1..k => Same(l), l + 1 \in 1..k
        PROVE  Same(l + 1)
    <3>1. PICK i \in 1..k : i = l + 1 /\ l = i - 1
      BY <2>2
    <3>2. i # 1 => l \in 1..k
      BY <1>2, <3>1
    <3> QED
      BY <1>5, <2>2, <3>1, <3>2
  <2>3. ASSUME NEW l \in N
        PROVE  l + 1 \in N
    <3>1. l \in Nat /\ l + 1 \in Nat /\ (l \in 1..k => Same(l))
      OBVIOUS
    <3>2. l + 1 \in 1..k => Same(l + 1)
      BY <2>2, <3>1
    <3> QED
      BY <3>1, <3>2
  <2>4. \A i \in Nat : i \in N
    <3> HIDE DEF N
    <3> QED
      BY <2>1, <2>3, EveryNumber
  <2> QED
    BY <1>2, <2>4
<1>7. k \in 0..n
  <2>1. k = 0 \/ k \in 1..k
    BY <1>2
  <2>2. k # 0 => k \in 1..n
    BY <1>6, <2>1
  <2> QED
    BY <1>2, <2>2
<1>8. verdict \in {"items", "whole"} => pos = at[k + 1]
  <2>1. SUFFICES ASSUME verdict \in {"items", "whole"}
                 PROVE  pos = at[k + 1]
    OBVIOUS
  <2>2. pos = EndOf(items, k, form)
    BY <2>1 DEF Reading, ReaderInv, Promise
  <2>3. CASE k = 0
    BY <1>2, <2>2, <2>3 DEF EndOf
  <2>4. CASE k # 0
    <3>1. k \in 1..k
      BY <1>2, <2>4
    <3> QED
      BY <1>6, <2>2, <3>1
  <2> QED
    BY <2>3, <2>4
<1> QED
  BY <1>6, <1>7, <1>8

\* What Reading says of its parts.
LEMMA ReadingShape ==
  ASSUME NEW entries, NEW b, NEW at, Reading(entries, b, at)
  PROVE  /\ form \in Forms /\ items \in Seq(Item) /\ Len(items) \in Nat /\ pos \in Nat /\ left \in Nat
         /\ Len(entries) \in Nat /\ b \in Seq(Byte) /\ Len(b) \in Nat
         /\ buf \in Seq(Byte) /\ Len(buf) \in Nat /\ Len(buf) <= Len(b)
         /\ \A p \in 1..Len(buf) : buf[p] = b[p]
         /\ Len(buf) = Len(b) => buf = b
         /\ at \in [1..(Len(entries) + 1) -> Nat]
         /\ at[1] = ItemsStart(form) /\ at[Len(entries) + 1] = Len(b) /\ at[1] <= Len(b)
         /\ HeadSize(form) \in {2, 4} /\ ItemsStart(form) \in Nat /\ Skipped(form) \in Nat
         /\ Counted(form) => ItemsStart(form) = Skipped(form) + 2
<1>1. PICK m \in 0..Len(b) : buf = SubSeq(b, 1, m)
  BY DEF Reading
<1>2. /\ form \in Forms /\ items \in Seq(Item) /\ Len(items) \in Nat /\ pos \in Nat /\ left \in Nat
      /\ Len(entries) \in Nat /\ b \in Seq(Byte) /\ Len(b) \in Nat /\ m \in Nat
      /\ at \in [1..(Len(entries) + 1) -> Nat] /\ at[1] = ItemsStart(form)
      /\ at[Len(entries) + 1] = Len(b)
  BY <1>1, LenProperties DEF Reading, ReaderInv, ReaderTypeOK, Lists, Listable
<1>3. /\ buf \in Seq(Byte) /\ Len(buf) = m
      /\ \A p \in 1..m : buf[p] = b[p]
      /\ m = Len(b) => buf = b
  BY <1>1, <1>2, PrefixShape
<1>4. /\ HeadSize(form) \in {2, 4} /\ ItemsStart(form) \in Nat /\ Skipped(form) \in Nat
      /\ Counted(form) => ItemsStart(form) = Skipped(form) + 2
  BY <1>2, Sizes
<1>5. at[1] <= Len(b)
  <2>1. CASE Len(entries) = 0
    BY <1>2, <2>1
  <2>2. CASE Len(entries) # 0
    <3>1. 1 \in 1..Len(entries) /\ 1 + 1 = 2
      BY <1>2, <2>2
    <3>2. /\ at[2] = at[1] + HeadSize(form) + Len(entries[1].value) /\ at[2] <= Len(b)
          /\ Len(entries[1].value) \in Nat
      BY <3>1, LenProperties DEF Reading, Lists, Listable, OnWire
    <3>3. PICK p, h, c : p = at[1] /\ h = HeadSize(form) /\ c = Len(entries[1].value)
      OBVIOUS
    <3>4. p \in Nat
      <4>1. 1 \in 1..(Len(entries) + 1)
        BY <1>2
      <4> QED
        BY <1>2, <3>3, <4>1
    <3>5. h \in Nat /\ c \in Nat /\ p + h + c <= Len(b)
      BY <1>4, <3>2, <3>3
    <3>6. p <= Len(b)
      BY <1>2, <3>4, <3>5, LessWithout
    <3> QED
      BY <3>3, <3>6
  <2> QED
    BY <2>1, <2>2
<1> QED
  BY <1>2, <1>3, <1>4, <1>5

(* The next entry, if there is one, is where the reader is. *)
LEMMA NextEntry ==
  ASSUME NEW entries, NEW b, NEW at, Reading(entries, b, at),
         verdict \in {"items", "whole"}, Len(items) < Len(entries),
         NEW c, c = Len(entries[Len(items) + 1].value)
  PROVE  /\ c \in Nat /\ pos + HeadSize(form) + c <= Len(b)
         /\ pos + HeadSize(form) <= Len(b)
         /\ buf = b => Carried(buf, form, pos) = c
<1> DEFINE k == Len(items)
<1>1. /\ Len(entries) \in Nat /\ k \in Nat /\ pos \in Nat /\ Len(b) \in Nat /\ pos = at[k + 1]
      /\ HeadSize(form) \in {2, 4} /\ at \in [1..(Len(entries) + 1) -> Nat]
  BY ReadingShape, ReadsEntries
<1>2. PICK i \in 1..Len(entries) : i = k + 1
  BY <1>1
<1>3. /\ at[i + 1] = at[i] + HeadSize(form) + c /\ at[i + 1] <= Len(b)
      /\ Key(b, form, at[i]) = entries[i].key /\ Size(b, form, at[i]) = entries[i].size
  BY <1>2 DEF Reading, Lists, Shows
<1>4. c \in Nat /\ c = (IF form = "get request" THEN 0 ELSE entries[i].size)
  <2>1. OnWire(form, entries[i]) /\ c = Len(entries[i].value)
    BY <1>2 DEF Reading, Listable
  <2> QED
    BY <2>1, LenProperties DEF OnWire
<1>5. pos = at[i]
  BY <1>1, <1>2
<1>6. pos + HeadSize(form) + c <= Len(b)
  BY <1>3, <1>5
<1>7. pos + HeadSize(form) <= Len(b)
  <2>1. pos \in Nat /\ HeadSize(form) \in Nat /\ Len(b) \in Nat
    BY <1>1
  <2>2. c \in Nat
    BY <1>4
  <2> QED
    BY <1>6, <2>1, <2>2, LessWithout
<1>8. buf = b => Carried(buf, form, pos) = c
  BY <1>3, <1>4, <1>5 DEF Carried
<1> QED
  BY <1>4, <1>6, <1>7, <1>8

(* A counted payload that was read to its end was there to its end; any     *)
(* payload that was all there and was read to its end was read in full.     *)
LEMMA ReadsAll ==
  ASSUME NEW entries, NEW b, NEW at, Reading(entries, b, at),
         verdict = "whole", Counted(form) \/ buf = b
  PROVE  Len(items) = Len(entries) /\ buf = b
<1> DEFINE k == Len(items)
           n == Len(entries)
<1>1. /\ form \in Forms /\ k \in Nat /\ pos \in Nat /\ left \in Nat /\ n \in Nat
      /\ b \in Seq(Byte) /\ Len(b) \in Nat /\ Len(buf) \in Nat /\ Len(buf) <= Len(b)
      /\ \A p \in 1..Len(buf) : buf[p] = b[p]
      /\ Len(buf) = Len(b) => buf = b
      /\ at \in [1..(n + 1) -> Nat] /\ at[n + 1] = Len(b)
      /\ HeadSize(form) \in {2, 4} /\ ItemsStart(form) \in Nat /\ Skipped(form) \in Nat
      /\ Counted(form) => ItemsStart(form) = Skipped(form) + 2
  BY ReadingShape
<1>2. k \in 0..n /\ pos = at[k + 1]
  BY ReadsEntries
<1>3. pos <= Len(buf) /\ (IF Counted(form) THEN left = 0 ELSE pos = Len(buf))
  BY DEF Reading, ReaderInv, InPayload, Promise
<1>4. CASE Counted(form)
  <2>1. ItemsStart(form) <= Len(buf)
    <3>1. CASE k = 0
      <4>1. pos = at[1] /\ at[1] = ItemsStart(form)
        BY <1>2, <3>1, ReadingShape
      <4> QED
        BY <1>3, <4>1
    <3>2. CASE k # 0
      <4>1. 1 \in 1..k /\ 1 - 1 = 0
        BY <1>1, <3>2
      <4>2. items[1].at = ItemsStart(form) /\ items[1].at + HeadSize(form) + Len(items[1].value) <= Len(buf)
        BY <4>1 DEF Reading, ReaderInv, SideBySide, EndOf
      <4>3. Len(items[1].value) \in Nat
        <5>1. items[1] \in Item
          BY <4>1, ReadingShape
        <5> QED
          BY <5>1, LenProperties DEF Item
      <4>4. ItemsStart(form) \in Nat /\ HeadSize(form) \in Nat
        BY <1>1
      <4> QED
        BY <1>1, <4>2, <4>3, <4>4, LessWithout
    <3> QED
      BY <3>1, <3>2
  <2>2. Big16(buf, Skipped(form)) = Big16(b, Skipped(form))
    <3>1. Skipped(form) + 1 \in 1..Len(buf) /\ Skipped(form) + 2 \in 1..Len(buf)
      BY <1>1, <1>4, <2>1
    <3> QED
      BY <1>1, <3>1 DEF Big16
  <2>3. k + left = n
    BY <1>4, <2>2 DEF Reading, ReaderInv, Promise, Lists
  <2>4. k = n
    BY <1>1, <1>3, <1>4, <2>3
  <2> QED
    BY <1>1, <1>2, <1>3, <2>4
<1>5. CASE ~Counted(form)
  <2>1. buf = b /\ pos = Len(b)
    BY <1>3, <1>5
  <2>2. CASE k < n
    <3>1. PICK c : c = Len(entries[k + 1].value)
      OBVIOUS
    <3>2. c \in Nat /\ pos + HeadSize(form) <= Len(b)
      BY <2>2, <3>1, NextEntry
    <3> QED
      BY <1>1, <2>1, <3>2
  <2> QED
    BY <1>1, <1>2, <2>1, <2>2
<1> QED
  BY <1>4, <1>5

(* Of a payload that is all there, nothing is missed. *)
LEMMA NothingMissed ==
  ASSUME NEW entries, NEW b, NEW at, Reading(entries, b, at), buf = b,
         verdict \in {"start", "items", "whole"}, [ReaderNext]_reader
  PROVE  verdict' \in {"start", "items", "whole"}
<1>1. /\ Len(items) \in Nat /\ Len(entries) \in Nat /\ pos \in Nat /\ left \in Nat /\ Len(b) \in Nat
      /\ HeadSize(form) \in {2, 4} /\ ItemsStart(form) <= Len(b)
      /\ Counted(form) => ItemsStart(form) = Skipped(form) + 2
      /\ Len(items) \in 0..Len(entries)
      /\ at[Len(entries) + 1] = Len(b)
      /\ verdict = "items" => pos = at[Len(items) + 1]
  BY ReadingShape, ReadsEntries
<1>2. CASE TooShort
  <2>1. Counted(form) /\ Len(b) < Skipped(form) + 2
    BY <1>2 DEF TooShort
  <2>2. ItemsStart(form) = Skipped(form) + 2 /\ ItemsStart(form) <= Len(b)
    BY <1>1, <2>1
  <2>3. Skipped(form) \in Nat
    BY ReadingShape
  <2> QED
    BY <1>1, <2>1, <2>2, <2>3
<1>3. ASSUME verdict = "items", More
      PROVE  HeadFits /\ ValueFits
  <2>1. Len(items) < Len(entries)
    <3>1. CASE Counted(form)
      <4>1. Len(items) + left = Len(entries)
        BY <1>3, <3>1 DEF Reading, ReaderInv, Promise, Lists
      <4> QED
        BY <1>1, <1>3, <3>1, <4>1 DEF More
    <3>2. CASE ~Counted(form)
      <4>1. pos < Len(b)
        BY <1>3, <3>2 DEF More
      <4> QED
        BY <1>1, <1>3, <4>1
    <3> QED
      BY <3>1, <3>2
  <2>2. PICK c : c = Len(entries[Len(items) + 1].value)
    OBVIOUS
  <2>3. /\ c \in Nat /\ pos + HeadSize(form) + c <= Len(b)
        /\ pos + HeadSize(form) <= Len(b) /\ Carried(buf, form, pos) = c
    BY <1>3, <2>1, <2>2, NextEntry
  <2> QED
    BY <2>3 DEF HeadFits, ValueFits
<1>4. CASE HeadCut \/ ValueCut
  BY <1>3, <1>4 DEF HeadCut, ValueCut
<1>5. CASE ReadCount \/ ReadItem \/ AllRead \/ UNCHANGED reader
  BY <1>5 DEF ReadCount, ReadItem, AllRead, reader
<1> QED
  BY <1>2, <1>4, <1>5 DEF ReaderNext

-----------------------------------------------------------------------------
(* What the two sides send. *)

\* The offsets in play are finitely many numbers.
LEMMA Offsets ==
  ASSUME NEW S \in SUBSET (DOMAIN Table \cup DOMAIN Unknown)
  PROVE  /\ S \in SUBSET Word /\ S \in SUBSET Nat /\ IsFiniteSet(S)
         /\ Cardinality(S) \in Nat /\ Cardinality(S) \in Word
         /\ \A i \in 1..Cardinality(S) : Nth(S, i) \in S
         /\ \A i, j \in 1..Cardinality(S) : Nth(S, i) = Nth(S, j) => i = j
         /\ \A o \in S : \E i \in 1..Cardinality(S) : Nth(S, i) = o
<1> DEFINE B == Base * Base
<1>0. B \in Nat /\ Word = 0..(B - 1)
  BY ByteAssumption DEF Word
<1> HIDE DEF B
<1>1. Word \in SUBSET Nat /\ IsFiniteSet(Word)
  <2>1. Word \in SUBSET Nat /\ IsFiniteSet(0..(B - 1))
    BY <1>0, FS_Interval
  <2> QED
    BY <1>0, <2>1
<1>2. S \in SUBSET Word /\ DOMAIN Table \cup DOMAIN Unknown \in SUBSET Word
  BY TableAssumption
<1>3. S \in SUBSET Nat /\ IsFiniteSet(S) /\ IsFiniteSet(DOMAIN Table \cup DOMAIN Unknown)
  <2>1. IsFiniteSet(S) /\ IsFiniteSet(DOMAIN Table \cup DOMAIN Unknown)
    BY <1>1, <1>2, FS_Subset
  <2> QED
    BY <1>1, <1>2, <2>1
<1>4. Cardinality(S) \in Nat /\ Cardinality(S) <= Cardinality(DOMAIN Table \cup DOMAIN Unknown)
  BY <1>3, FS_Subset, FS_CardinalityType
<1>5. Cardinality(S) \in Word
  <2>1. Cardinality(DOMAIN Table \cup DOMAIN Unknown) \in Word
    BY TableAssumption
  <2> QED
    BY <1>0, <1>4, <2>1
<1>6. /\ \A k \in 1..Cardinality(S) : Nth(S, k) \in S /\ Rank(S, Nth(S, k)) = k
      /\ \A i \in S : Rank(S, i) \in 1..Cardinality(S) /\ Nth(S, Rank(S, i)) = i
  BY <1>3, NthOfNumbers
<1>7. \A i, j \in 1..Cardinality(S) : Nth(S, i) = Nth(S, j) => i = j
  BY <1>6
<1>8. \A o \in S : \E i \in 1..Cardinality(S) : Nth(S, i) = o
  BY <1>6
<1> QED
  BY <1>1, <1>2, <1>3, <1>4, <1>5, <1>6, <1>7, <1>8

\* A value padded has the length it was padded to.
LEMMA PaddedShape ==
  ASSUME NEW v \in Seq(Byte), NEW n \in Nat
  PROVE  Padded(v, n) \in Seq(Byte) /\ Len(Padded(v, n)) = n
<1>1. 0 \in Byte
  BY ByteAssumption DEF Byte
<1>2. ASSUME NEW i \in 1..n
      PROVE  (IF i <= Len(v) THEN v[i] ELSE 0) \in Byte
  <2>1. Len(v) \in Nat
    BY LenProperties
  <2>2. CASE i <= Len(v)
    <3>1. i \in 1..Len(v)
      BY <2>1, <2>2
    <3> QED
      BY <2>2, <3>1, ElementOfSeq
  <2>3. CASE ~(i <= Len(v))
    BY <1>1, <2>3
  <2> QED
    BY <2>2, <2>3
<1> QED
  BY <1>2 DEF Padded

(* A get asks for each parameter once, by its offset and length. *)
LEMMA GetRequestLists ==
  ASSUME NEW asked \in SUBSET DOMAIN Table
  PROVE  /\ Listable("get request", GetRequest(asked))
         /\ Len(GetRequest(asked)) = Cardinality(asked)
         /\ \A i \in 1..Cardinality(asked) :
              /\ GetRequest(asked)[i].key = Nth(asked, i)
              /\ GetRequest(asked)[i].size = Table[Nth(asked, i)]
<1>1. /\ Cardinality(asked) \in Nat /\ Cardinality(asked) \in Word /\ asked \in SUBSET Word
      /\ \A i \in 1..Cardinality(asked) : Nth(asked, i) \in asked
  BY Offsets
<1>2. Len(GetRequest(asked)) = Cardinality(asked)
  BY <1>1 DEF GetRequest
<1>3. ASSUME NEW i \in 1..Cardinality(asked)
      PROVE  /\ GetRequest(asked)[i].key = Nth(asked, i)
             /\ GetRequest(asked)[i].size = Table[Nth(asked, i)]
             /\ OnWire("get request", GetRequest(asked)[i])
  <2>1. PICK o, e : o = Nth(asked, i) /\ e = GetRequest(asked)[i]
    OBVIOUS
  <2>2. o \in DOMAIN Table /\ o \in Word /\ Table[o] \in Word
    BY <1>1, <2>1, TableAssumption
  <2>3. e = [key |-> o, size |-> Table[o], value |-> <<>>]
    BY <2>1 DEF GetRequest
  <2>4. e.key = o /\ e.size = Table[o] /\ OnWire("get request", e)
    BY <2>2, <2>3 DEF OnWire
  <2> QED
    BY <2>1, <2>4
<1>4. Listable("get request", GetRequest(asked))
  BY <1>1, <1>2, <1>3 DEF Listable
<1>5. \A i \in 1..Cardinality(asked) :
        /\ GetRequest(asked)[i].key = Nth(asked, i)
        /\ GetRequest(asked)[i].size = Table[Nth(asked, i)]
  BY <1>3
<1> QED
  BY <1>2, <1>4, <1>5

(* A set sends each value once, padded to its parameter's length. *)
LEMMA SetRequestLists ==
  ASSUME NEW values, DOMAIN values \in SUBSET DOMAIN Table,
         \A o \in DOMAIN values : values[o] \in Seq(Byte)
  PROVE  /\ Listable("set request", SetRequest(values))
         /\ Len(SetRequest(values)) = Cardinality(DOMAIN values)
         /\ \A i \in 1..Cardinality(DOMAIN values) :
              LET o == Nth(DOMAIN values, i)
              IN  /\ o \in DOMAIN values /\ SetRequest(values)[i].key = o
                  /\ SetRequest(values)[i].value = Padded(values[o], Table[o])
<1> DEFINE D == DOMAIN values
           n == Cardinality(D)
<1>1. n \in Nat /\ n \in Word /\ D \in SUBSET Word /\ \A i \in 1..n : Nth(D, i) \in D
  BY Offsets
<1>2. Len(SetRequest(values)) = n
  BY <1>1 DEF SetRequest
<1>3. ASSUME NEW i \in 1..n
      PROVE  LET o == Nth(D, i)
             IN  /\ o \in D /\ SetRequest(values)[i].key = o
                 /\ SetRequest(values)[i].value = Padded(values[o], Table[o])
                 /\ OnWire("set request", SetRequest(values)[i])
  <2>1. PICK o : o = Nth(D, i)
    OBVIOUS
  <2>2. o \in D /\ o \in Word /\ Table[o] \in Word /\ values[o] \in Seq(Byte)
    BY <1>1, <2>1, TableAssumption
  <2>3. Table[o] \in Nat
    BY <2>2, ByteAssumption DEF Word
  <2>4. Padded(values[o], Table[o]) \in Seq(Byte) /\ Len(Padded(values[o], Table[o])) = Table[o]
    BY <2>2, <2>3, PaddedShape
  <2>5. SetRequest(values)[i] = Entry(o, Padded(values[o], Table[o]))
    BY <2>1 DEF SetRequest
  <2> QED
    BY <2>1, <2>2, <2>4, <2>5 DEF OnWire, Entry
<1> QED
  BY <1>1, <1>2, <1>3 DEF Listable

\* The two parts of a GetData reply.
Held(asked) ==
  [i \in 1..Cardinality(asked) |->
     Entry(Nth(asked, i), Padded(mem[Nth(asked, i)], Table[Nth(asked, i)]))]
Added == [i \in 1..Cardinality(DOMAIN Unknown) |->
            LET o == Nth(DOMAIN Unknown, i) IN Entry(o, Unknown[o])]

\* Of a request only the offsets and lengths matter.
LEMMA ReplyParts ==
  ASSUME NEW asked \in SUBSET DOMAIN Table, NEW r, Len(r) = Cardinality(asked),
         \A i \in 1..Cardinality(asked) : r[i].key = Nth(asked, i) /\ r[i].size = Table[Nth(asked, i)]
  PROVE  GetReply(r) = Held(asked) \o Added
<1> DEFINE A == [i \in 1..Len(r) |-> Entry(r[i].key, Padded(mem[r[i].key], r[i].size))]
<1>1. ASSUME NEW i \in 1..Cardinality(asked)
      PROVE  Entry(r[i].key, Padded(mem[r[i].key], r[i].size)) =
               Entry(Nth(asked, i), Padded(mem[Nth(asked, i)], Table[Nth(asked, i)]))
  OBVIOUS
<1>2. A = Held(asked)
  BY <1>1 DEF Held
<1> HIDE DEF A
<1>3. GetReply(r) = A \o Added
  BY DEF GetReply, Added, A
<1> QED
  BY <1>2, <1>3

(* The parameters asked for, as the device holds them, can be sent. *)
LEMMA HeldShape ==
  ASSUME NEW asked \in SUBSET DOMAIN Table, mem \in [DOMAIN Table -> Seq(Byte)]
  PROVE  /\ Held(asked) \in Seq([key : Word, size : Word, value : Seq(Byte)])
         /\ Len(Held(asked)) = Cardinality(asked)
         /\ \A i \in 1..Cardinality(asked) :
              /\ Held(asked)[i].key = Nth(asked, i)
              /\ Held(asked)[i].value = Padded(mem[Nth(asked, i)], Table[Nth(asked, i)])
              /\ OnWire("get reply", Held(asked)[i])
<1>1. /\ Cardinality(asked) \in Nat /\ asked \in SUBSET Word
      /\ \A i \in 1..Cardinality(asked) : Nth(asked, i) \in asked
  BY Offsets
<1>2. ASSUME NEW i \in 1..Cardinality(asked)
      PROVE  /\ Held(asked)[i].key = Nth(asked, i)
             /\ Held(asked)[i].value = Padded(mem[Nth(asked, i)], Table[Nth(asked, i)])
             /\ OnWire("get reply", Held(asked)[i])
             /\ Held(asked)[i] \in [key : Word, size : Word, value : Seq(Byte)]
  <2>1. PICK o, e : o = Nth(asked, i) /\ e = Held(asked)[i]
    OBVIOUS
  <2>2. o \in DOMAIN Table /\ o \in Word /\ Table[o] \in Word /\ mem[o] \in Seq(Byte)
    BY <1>1, <2>1, TableAssumption
  <2>3. Table[o] \in Nat
    BY <2>2, ByteAssumption DEF Word
  <2>4. PICK v : v = Padded(mem[o], Table[o])
    OBVIOUS
  <2>5. v \in Seq(Byte) /\ Len(v) = Table[o]
    BY <2>2, <2>3, <2>4, PaddedShape
  <2>6. e = [key |-> o, size |-> Len(v), value |-> v]
    BY <2>1, <2>4 DEF Held, Entry
  <2>7. /\ e.key = o /\ e.value = v /\ OnWire("get reply", e)
        /\ e \in [key : Word, size : Word, value : Seq(Byte)]
    BY <2>2, <2>5, <2>6 DEF OnWire
  <2> QED
    BY <2>1, <2>4, <2>7
<1>3. Len(Held(asked)) = Cardinality(asked)
      /\ Held(asked) \in Seq([key : Word, size : Word, value : Seq(Byte)])
  <2> DEFINE T == [key : Word, size : Word, value : Seq(Byte)]
  <2> PICK n, h : n = Cardinality(asked) /\ h = Held(asked)
    OBVIOUS
  <2>1. n \in Nat /\ \A i \in 1..n : h[i] \in T
    BY <1>1, <1>2
  <2>2. h = [i \in 1..n |-> h[i]]
    BY DEF Held
  <2> HIDE DEF T
  <2>3. h \in Seq(T) /\ Len(h) = n
    BY <2>1, <2>2
  <2> QED
    BY <2>3 DEF T
<1> QED
  BY <1>2, <1>3

(* What the device adds can be sent. *)
LEMMA AddedShape ==
  LET m == Cardinality(DOMAIN Unknown)
  IN  /\ Added \in Seq([key : Word, size : Word, value : Seq(Byte)]) /\ Len(Added) = m
      /\ \A i \in 1..m :
           /\ Added[i].key = Nth(DOMAIN Unknown, i)
           /\ Added[i].value = Unknown[Nth(DOMAIN Unknown, i)]
           /\ OnWire("get reply", Added[i])
<1> DEFINE D == DOMAIN Unknown
           m == Cardinality(D)
           T == [key : Word, size : Word, value : Seq(Byte)]
<1>1. m \in Nat /\ D \in SUBSET Word /\ \A i \in 1..m : Nth(D, i) \in D
  BY Offsets
<1>2. ASSUME NEW i \in 1..m
      PROVE  /\ Added[i].key = Nth(D, i) /\ Added[i].value = Unknown[Nth(D, i)]
             /\ OnWire("get reply", Added[i]) /\ Added[i] \in T
  <2>1. PICK o, e : o = Nth(D, i) /\ e = Added[i]
    OBVIOUS
  <2>2. o \in D /\ o \in Word /\ Unknown[o] \in Seq(Byte) /\ Len(Unknown[o]) \in Word
    BY <1>1, <2>1, TableAssumption
  <2>3. PICK v : v = Unknown[o]
    OBVIOUS
  <2>4. e = [key |-> o, size |-> Len(v), value |-> v]
    BY <2>1, <2>3 DEF Added, Entry
  <2>5. e.key = o /\ e.value = v /\ OnWire("get reply", e) /\ e \in T
    BY <2>2, <2>3, <2>4 DEF OnWire
  <2> QED
    BY <2>1, <2>3, <2>5
<1>3. Len(Added) = m /\ Added \in Seq(T)
  <2> PICK n, h : n = m /\ h = Added
    OBVIOUS
  <2>1. n \in Nat /\ \A i \in 1..n : h[i] \in T
    BY <1>1, <1>2
  <2>2. h = [i \in 1..n |-> h[i]]
    BY DEF Added
  <2> HIDE DEF T, m
  <2>3. h \in Seq(T) /\ Len(h) = n
    BY <2>1, <2>2
  <2> QED
    BY <2>3
<1> QED
  BY <1>2, <1>3

(* What is asked and what is added do not overlap, and their count fits in *)
(* two bytes.                                                              *)
LEMMA SizesApart ==
  ASSUME NEW asked \in SUBSET DOMAIN Table
  PROVE  /\ Cardinality(asked) \in Nat /\ Cardinality(DOMAIN Unknown) \in Nat
         /\ Cardinality(asked) + Cardinality(DOMAIN Unknown) \in Word
<1> DEFINE U == asked \cup DOMAIN Unknown
<1>1. /\ U \in SUBSET (DOMAIN Table \cup DOMAIN Unknown)
      /\ DOMAIN Unknown \in SUBSET (DOMAIN Table \cup DOMAIN Unknown)
      /\ asked \in SUBSET (DOMAIN Table \cup DOMAIN Unknown)
  OBVIOUS
<1>2. Cardinality(U) \in Word
  <2> HIDE DEF U
  <2> QED
    BY <1>1, Offsets
<1>3. /\ IsFiniteSet(asked) /\ Cardinality(asked) \in Nat
      /\ IsFiniteSet(DOMAIN Unknown) /\ Cardinality(DOMAIN Unknown) \in Nat
  BY <1>1, Offsets
<1>4. asked \cap DOMAIN Unknown = {}
  BY TableAssumption
<1>5. Cardinality(U) = Cardinality(asked) + Cardinality(DOMAIN Unknown)
  <2>1. Cardinality(U) = Cardinality(asked) + Cardinality(DOMAIN Unknown)
                         - Cardinality(asked \cap DOMAIN Unknown)
    BY <1>3, FS_Union
  <2>2. Cardinality(asked \cap DOMAIN Unknown) = 0
    BY <1>4, FS_EmptySet
  <2> HIDE DEF U
  <2> QED
    BY <1>3, <2>1, <2>2
<1> QED
  BY <1>2, <1>3, <1>5

\* A GetData reply as it should be: what was asked, then what is added.
GoodReply(g, asked, n, m) ==
  /\ Listable("get reply", g) /\ n \in Nat /\ m \in Nat /\ Len(g) = n + m
  /\ \A i \in 1..n : /\ g[i].key = Nth(asked, i)
                     /\ g[i].value = Padded(mem[Nth(asked, i)], Table[Nth(asked, i)])
  /\ \A i \in 1..m : /\ g[n + i].key = Nth(DOMAIN Unknown, i)
                     /\ g[n + i].value = Unknown[Nth(DOMAIN Unknown, i)]

(* The device's reply to a get is one as it should be. *)
LEMMA ReplyShape ==
  ASSUME NEW asked \in SUBSET DOMAIN Table, mem \in [DOMAIN Table -> Seq(Byte)],
         NEW g, g = Held(asked) \o Added,
         NEW n, n = Cardinality(asked), NEW m, m = Cardinality(DOMAIN Unknown)
  PROVE  GoodReply(g, asked, n, m)
<1> DEFINE T == [key : Word, size : Word, value : Seq(Byte)]
<1>1. n \in Nat /\ m \in Nat /\ n + m \in Word
  BY SizesApart
<1>2. PICK h, a : h = Held(asked) /\ a = Added
  OBVIOUS
<1>3. /\ h \in Seq(T) /\ Len(h) = n
      /\ \A i \in 1..n : /\ h[i].key = Nth(asked, i)
                         /\ h[i].value = Padded(mem[Nth(asked, i)], Table[Nth(asked, i)])
                         /\ OnWire("get reply", h[i])
  BY <1>2, HeldShape
<1>4. /\ a \in Seq(T) /\ Len(a) = m
      /\ \A i \in 1..m : /\ a[i].key = Nth(DOMAIN Unknown, i)
                         /\ a[i].value = Unknown[Nth(DOMAIN Unknown, i)]
                         /\ OnWire("get reply", a[i])
  BY <1>2, AddedShape
<1>5. g = h \o a
  BY <1>2
<1>6. /\ Len(g) = n + m /\ \A i \in 1..n : g[i] = h[i]
      /\ \A i \in 1..m : g[n + i] = a[i]
  <2> HIDE DEF T
  <2>1. h \in Seq(T) /\ a \in Seq(T)
    BY <1>3, <1>4
  <2>2. /\ Begins(h, h \o a) /\ Len(h \o a) = Len(h) + Len(a)
        /\ \A p \in 1..Len(a) : (h \o a)[Len(h) + p] = a[p]
    BY <2>1, Joined
  <2>3. \A p \in 1..Len(h) : g[p] = h[p]
    BY <1>5, <2>2 DEF Begins
  <2>4. Len(h) = n /\ Len(a) = m
    BY <1>3, <1>4
  <2> QED
    BY <1>5, <2>2, <2>3, <2>4
<1>7. \A i \in 1..(n + m) : OnWire("get reply", g[i])
  <2> SUFFICES ASSUME NEW i \in 1..(n + m)
               PROVE  OnWire("get reply", g[i])
    OBVIOUS
  <2>1. CASE i <= n
    <3>1. i \in 1..n
      BY <1>1, <2>1
    <3> QED
      BY <1>3, <1>6, <3>1
  <2>2. CASE ~(i <= n)
    <3>1. PICK j \in 1..m : i = n + j
      <4>1. i - n \in 1..m /\ i = n + (i - n)
        BY <1>1, <2>2
      <4> QED
        BY <4>1
    <3> QED
      BY <1>4, <1>6, <3>1
  <2> QED
    BY <2>1, <2>2
<1>8. Listable("get reply", g)
  <2>1. Len(g) \in Nat /\ Len(g) \in Word
    BY <1>1, <1>6
  <2>2. \A i \in 1..Len(g) : OnWire("get reply", g[i])
    BY <1>6, <1>7
  <2> QED
    BY <2>1, <2>2 DEF Listable
<1>9. \A i \in 1..n : /\ g[i].key = Nth(asked, i)
                      /\ g[i].value = Padded(mem[Nth(asked, i)], Table[Nth(asked, i)])
  BY <1>3, <1>6
<1>10. \A i \in 1..m : /\ g[n + i].key = Nth(DOMAIN Unknown, i)
                       /\ g[n + i].value = Unknown[Nth(DOMAIN Unknown, i)]
  BY <1>4, <1>6
<1> QED
  BY <1>1, <1>6, <1>8, <1>9, <1>10 DEF GoodReply

\* What a device tells of itself.
Said(entries) == [i \in 1..Len(entries) |-> TLV(entries[i][1], entries[i][2])]

\* As much of a value as a length byte can announce.
LEMMA AnnouncedShape ==
  ASSUME NEW v \in Seq(Byte)
  PROVE  /\ Announced(v) \in Seq(Byte) /\ Len(Announced(v)) \in Byte /\ Len(v) \in Nat
         /\ Len(v) < Base => Announced(v) = v
         /\ ~(Len(v) < Base) => Len(Announced(v)) = Base - 1
<1>1. PICK n : n = IF Len(v) < Base THEN Len(v) ELSE Base - 1
  OBVIOUS
<1>2. Len(v) \in Nat /\ n \in 0..Len(v) /\ n \in Byte
  <2>1. Len(v) \in Nat
    BY LenProperties
  <2> QED
    BY <1>1, <2>1, ByteAssumption DEF Byte
<1>3. SubSeq(v, 1, n) \in Seq(Byte) /\ Len(SubSeq(v, 1, n)) = n /\ (n = Len(v) => SubSeq(v, 1, n) = v)
  BY <1>2, PrefixShape
<1> QED
  BY <1>1, <1>2, <1>3 DEF Announced

(* What a device says of itself, cut to what one byte can announce, can be *)
(* sent.                                                                   *)
LEMMA SaidShape ==
  ASSUME NEW entries \in Telling
  PROVE  /\ Listable("tlv", Said(entries)) /\ Len(Said(entries)) = Len(entries) /\ Len(entries) \in Nat
         /\ TLVs(entries) = Payload("tlv", Said(entries))
         /\ \A i \in 1..Len(entries) :
              /\ Said(entries)[i].key = entries[i][1]
              /\ Said(entries)[i].value = Announced(entries[i][2])
              /\ Said(entries)[i].size = Len(Announced(entries[i][2]))
<1>1. Len(entries) \in Nat
  BY LenProperties DEF Telling
<1>2. ASSUME NEW i \in 1..Len(entries)
      PROVE  /\ Said(entries)[i].key = entries[i][1]
             /\ Said(entries)[i].value = Announced(entries[i][2])
             /\ Said(entries)[i].size = Len(Announced(entries[i][2]))
             /\ OnWire("tlv", Said(entries)[i])
  <2>1. PICK e, k, v : e = Said(entries)[i] /\ k = entries[i][1] /\ v = Announced(entries[i][2])
    OBVIOUS
  <2>2. entries[i] \in Byte \X Seq(Byte)
    BY <1>1, ElementOfSeq DEF Telling
  <2>3. k \in Byte /\ v \in Seq(Byte) /\ Len(v) \in Byte
    BY <2>1, <2>2, AnnouncedShape
  <2>4. e = [key |-> k, size |-> Len(v), value |-> v]
    BY <2>1 DEF Said, TLV, Entry, Announced
  <2>5. e.key = k /\ e.value = v /\ e.size = Len(v) /\ OnWire("tlv", e)
    BY <2>3, <2>4 DEF OnWire
  <2> QED
    BY <2>1, <2>5
<1>3. Len(Said(entries)) = Len(entries)
  BY <1>1 DEF Said
<1>4. Listable("tlv", Said(entries))
  BY <1>1, <1>2, <1>3 DEF Listable, Counted
<1>5. TLVs(entries) = Payload("tlv", Said(entries))
  BY DEF TLVs, Said
<1> QED
  BY <1>1, <1>2, <1>3, <1>4, <1>5

-----------------------------------------------------------------------------
(* What the client makes of what it has read. *)

(* One number is the greatest and the least of itself. *)
LEMMA OnlyOne ==
  ASSUME NEW i \in Nat
  PROVE  Max({i}) = i /\ Min({i}) = i
<1>1. i >= i /\ i <= i
  OBVIOUS
<1>2. \A x \in {i} : x = i
  OBVIOUS
<1>3. \E x \in {i} : \A y \in {i} : x >= y
  BY <1>1
<1>4. \E x \in {i} : \A y \in {i} : x <= y
  BY <1>1
<1>5. Max({i}) \in {i}
  BY <1>3, Zenon DEF Max
<1>6. Min({i}) \in {i}
  BY <1>4, Zenon DEF Min
<1> QED
  BY <1>2, <1>5, <1>6

\* A text ends after l bytes.
EndsAt(v, l) == l \in 0..Len(v) /\ (\A i \in 1..l : v[i] # 0) /\ (l = Len(v) \/ v[l + 1] = 0)

(* Every list of bytes, read as a text, ends somewhere. *)
LEMMA EndsSomewhere ==
  ASSUME NEW v \in Seq(Byte)
  PROVE  \E l \in 0..Len(v) : EndsAt(v, l)
<1> DEFINE I == {i \in 1..Len(v) : v[i] = 0}
<1>1. Len(v) \in Nat
  BY LenProperties
<1>2. CASE I = {}
  <2>1. \A i \in 1..Len(v) : v[i] # 0
    BY <1>2
  <2>2. Len(v) \in 0..Len(v)
    BY <1>1
  <2> QED
    BY <2>1, <2>2 DEF EndsAt
<1>3. CASE I # {}
  <2>1. I \in SUBSET Nat
    BY <1>1
  <2>2. PICK x \in I : \A y \in I : x <= y
    <3> HIDE DEF I
    <3> QED
      BY <1>3, <2>1, LeastOf
  <2>3. x \in 1..Len(v) /\ v[x] = 0
    BY <2>2
  <2>4. x - 1 \in 0..Len(v) /\ (x - 1) + 1 = x
    BY <1>1, <2>3
  <2>5. ASSUME NEW i \in 1..(x - 1)
        PROVE  v[i] # 0
    <3>1. i \in 1..Len(v) /\ ~(x <= i)
      BY <1>1, <2>3
    <3> QED
      BY <2>2, <3>1
  <2> QED
    BY <2>3, <2>4, <2>5 DEF EndsAt
<1> QED
  BY <1>2, <1>3

\* There it is cut.
LEMMA CutAtZero ==
  ASSUME NEW v \in Seq(Byte), NEW l, EndsAt(v, l)
  PROVE  UpToZero(v) = SubSeq(v, 1, l)
<1>1. Len(v) \in Nat /\ l \in 0..Len(v)
  BY LenProperties DEF EndsAt
<1>2. CASE l = Len(v)
  <2>1. 0 \notin {v[i] : i \in 1..Len(v)}
    BY <1>2 DEF EndsAt
  <2>2. SubSeq(v, 1, l) = v
    BY <1>1, <1>2, PrefixShape
  <2> QED
    BY <2>1, <2>2 DEF UpToZero
<1>3. CASE l # Len(v)
  <2> DEFINE I == {i \in 1..Len(v) : v[i] = 0}
             k == l + 1
  <2>1. k \in 1..Len(v) /\ k \in Nat /\ k - 1 = l
    BY <1>1, <1>3
  <2>2. v[k] = 0
    BY <1>3 DEF EndsAt
  <2>3. ASSUME NEW i \in I PROVE k <= i
    <3>1. i \in 1..Len(v) /\ v[i] = 0
      OBVIOUS
    <3>2. i \notin 1..l
      BY <3>1 DEF EndsAt
    <3> QED
      BY <1>1, <3>1, <3>2
  <2>4. k \in I /\ \A x \in I : x \in Nat
    BY <1>1, <2>1, <2>2
  <2>5. Min(I) = k
    <3> HIDE DEF I, k
    <3>1. \A x \in I : (\A y \in I : x <= y) => x = k
      BY <2>1, <2>3, <2>4
    <3>2. Min(I) \in I /\ \A y \in I : Min(I) <= y
      <4>1. \E x \in I : \A y \in I : x <= y
        BY <2>3, <2>4
      <4> QED
        BY <4>1, Zenon DEF Min
    <3> QED
      BY <3>1, <3>2
  <2>6. SelectInSeq(v, LAMBDA b : b = 0) = k
    <3>1. I # {}
      BY <2>4
    <3>2. SelectInSeq(v, LAMBDA b : b = 0) = IF I # {} THEN Min(I) ELSE 0
      BY DEF SelectInSeq
    <3> QED
      BY <2>5, <3>1, <3>2
  <2>7. 0 \in {v[i] : i \in 1..Len(v)}
    BY <2>1, <2>2
  <2>8. UpToZero(v) = SubSeq(v, 1, k - 1)
    <3> HIDE DEF k
    <3> QED
      BY <2>6, <2>7 DEF UpToZero
  <2> QED
    BY <2>1, <2>8
<1> QED
  BY <1>2, <1>3

(* A text that fits says the same after it was padded: a number, an address *)
(* all of it, any other text up to its first zero.                          *)
LEMMA TextOfPadded ==
  ASSUME NEW v \in Seq(Byte), NEW n \in Nat, FitsIn(v, n)
  PROVE  Text(Padded(v, n)) = Meant(v, n) /\ Meant(v, n) \in Seq(Byte)
<1>1. PICK p : p = Padded(v, n)
  OBVIOUS
<1>2. p \in Seq(Byte) /\ Len(p) = n /\ Len(v) \in Nat
  BY <1>1, PaddedShape, LenProperties
<1>3. \A i \in 1..n : p[i] = IF i <= Len(v) THEN v[i] ELSE 0
  BY <1>1 DEF Padded
<1>4. CASE n \in {1, 2, 4}
  <2>1. Len(v) = n
    BY <1>4 DEF FitsIn
  <2>2. \A i \in 1..Len(p) : p[i] = v[i]
    BY <1>2, <1>3, <2>1
  <2>3. p = v
    BY <1>2, <2>1, <2>2, SeqEqual
  <2> QED
    BY <1>1, <1>2, <1>4, <2>3 DEF Text, Meant
<1>5. CASE n \notin {1, 2, 4}
  <2>1. Len(v) <= n
    BY <1>5 DEF FitsIn
  <2>2. PICK l \in 0..Len(v) : EndsAt(v, l)
    BY EndsSomewhere
  <2>3. \A i \in 1..l : i \in 1..n /\ p[i] = v[i]
    BY <1>2, <1>3, <2>1
  <2>4. EndsAt(p, l)
    <3>1. l \in 0..Len(p) /\ \A i \in 1..l : p[i] # 0
      BY <1>2, <2>1, <2>2, <2>3 DEF EndsAt
    <3>2. l = Len(p) \/ p[l + 1] = 0
      <4>1. CASE l = Len(v)
        <5>1. l = n \/ (l + 1 \in 1..n /\ ~(l + 1 <= Len(v)))
          BY <1>2, <2>1, <4>1
        <5> QED
          BY <1>2, <1>3, <5>1
      <4>2. CASE l # Len(v)
        <5>1. l + 1 \in 1..n /\ l + 1 <= Len(v)
          BY <1>2, <2>1, <4>2
        <5>2. v[l + 1] = 0
          BY <2>2, <4>2 DEF EndsAt
        <5> QED
          BY <1>3, <5>1, <5>2
      <4> QED
        BY <4>1, <4>2
    <3> QED
      BY <3>1, <3>2 DEF EndsAt
  <2>5. PICK a, b : a = SubSeq(v, 1, l) /\ b = SubSeq(p, 1, l)
    OBVIOUS
  <2>6. a \in Seq(Byte) /\ Len(a) = l /\ \A i \in 1..l : a[i] = v[i]
    BY <2>5, PrefixShape
  <2>7. b \in Seq(Byte) /\ Len(b) = l /\ \A i \in 1..l : b[i] = p[i]
    <3>1. l \in 0..Len(p)
      BY <2>4 DEF EndsAt
    <3> QED
      BY <1>2, <2>5, <3>1, PrefixShape
  <2>8. \A i \in 1..l : b[i] = a[i]
    BY <2>3, <2>6, <2>7
  <2>9. b = a
    BY <2>6, <2>7, <2>8, SeqEqual
  <2>10. UpToZero(v) = a /\ UpToZero(p) = b
    BY <1>2, <2>2, <2>4, <2>5, CutAtZero
  <2>11. Text(p) = UpToZero(p) /\ Meant(v, n) = UpToZero(v)
    BY <1>2, <1>5 DEF Text, Meant
  <2> QED
    BY <1>1, <2>6, <2>9, <2>10, <2>11
<1> QED
  BY <1>4, <1>5

\* The keys of these items differ.
Apart(its) == \A i, j \in 1..Len(its) : its[i].key = its[j].key => i = j

(* Where no key comes twice, each item is the only one of its key. *)
LEMMA KeyPlaces ==
  ASSUME NEW its, Len(its) \in Nat, Apart(its), NEW i \in 1..Len(its)
  PROVE  WithKey(its, its[i].key) = {i} /\ Max({i}) = i /\ Min({i}) = i
<1>1. i \in Nat
  OBVIOUS
<1>2. WithKey(its, its[i].key) = {i}
  BY DEF WithKey, Apart
<1> QED
  BY <1>1, <1>2, OnlyOne

\* A function that gives the items' values by their keys.
ByKey(l, its) ==
  /\ l = [k \in DOMAIN l |-> l[k]]
  /\ DOMAIN l = {its[i].key : i \in 1..Len(its)}
  /\ \A i \in 1..Len(its) : l[its[i].key] = its[i].value

(* Then each value is the one of its item. *)
LEMMA LatestOfApart ==
  ASSUME NEW its, Len(its) \in Nat, Apart(its), NEW l, l = Latest(its, 1..Len(its))
  PROVE  ByKey(l, its)
<1>1. /\ l = [k \in DOMAIN l |-> l[k]]
      /\ DOMAIN l = {its[i].key : i \in 1..Len(its)}
  BY DEF Latest
<1>2. ASSUME NEW i \in 1..Len(its)
      PROVE  l[its[i].key] = its[i].value
  <2>1. PICK k : k = its[i].key
    OBVIOUS
  <2>2. l[k] = its[Max((1..Len(its)) \cap WithKey(its, k))].value
    BY <2>1 DEF Latest
  <2>3. WithKey(its, k) = {i} /\ Max({i}) = i
    BY <2>1, KeyPlaces
  <2>4. (1..Len(its)) \cap {i} = {i}
    OBVIOUS
  <2> QED
    BY <2>1, <2>2, <2>3, <2>4
<1> QED
  BY <1>1, <1>2 DEF ByKey

\* What there is to learn: what was asked, as the device holds it, and what it adds.
AllOf(asked) ==
  [o \in asked \cup DOMAIN Unknown |->
     IF o \in asked THEN Text(Padded(mem[o], Table[o])) ELSE Unknown[o]]

SameEntries(its, g) ==
  Len(its) = Len(g) /\ \A i \in 1..Len(g) : its[i].key = g[i].key /\ its[i].value = g[i].value

\* What a get learns of the items of a whole reply.
LEMMA GetDataIsTrue ==
  ASSUME NEW asked \in SUBSET DOMAIN Table, mem \in [DOMAIN Table -> Seq(Byte)],
         NEW g, g = Held(asked) \o Added, NEW its, SameEntries(its, g)
  PROVE  GetData(its) = AllOf(asked)
<1> Len(its) = Len(g) /\ \A i \in 1..Len(g) : its[i].key = g[i].key /\ its[i].value = g[i].value
  BY DEF SameEntries
<1>1. PICK n, m : n = Cardinality(asked) /\ m = Cardinality(DOMAIN Unknown)
  OBVIOUS
<1>0. GoodReply(g, asked, n, m)
  BY <1>1, ReplyShape
<1>2. n \in Nat /\ m \in Nat /\ Len(its) = n + m
  BY <1>0 DEF GoodReply
<1>3. \A i \in 1..n : /\ its[i].key = Nth(asked, i)
                      /\ its[i].value = Padded(mem[Nth(asked, i)], Table[Nth(asked, i)])
  <2>1. \A i \in 1..n : /\ g[i].key = Nth(asked, i)
                        /\ g[i].value = Padded(mem[Nth(asked, i)], Table[Nth(asked, i)])
    BY <1>0 DEF GoodReply
  <2>2. \A i \in 1..n : i \in 1..Len(g)
    BY <1>2
  <2> QED
    BY <2>1, <2>2
<1>4. \A i \in 1..m : /\ its[n + i].key = Nth(DOMAIN Unknown, i)
                      /\ its[n + i].value = Unknown[Nth(DOMAIN Unknown, i)]
  <2>1. \A i \in 1..m : /\ g[n + i].key = Nth(DOMAIN Unknown, i)
                        /\ g[n + i].value = Unknown[Nth(DOMAIN Unknown, i)]
    BY <1>0 DEF GoodReply
  <2>2. \A i \in 1..m : n + i \in 1..Len(g)
    BY <1>2
  <2> QED
    BY <2>1, <2>2
<1>5. /\ \A i \in 1..n : Nth(asked, i) \in asked
      /\ \A i, j \in 1..n : Nth(asked, i) = Nth(asked, j) => i = j
      /\ \A o \in asked : \E i \in 1..n : Nth(asked, i) = o
  BY <1>1, Offsets
<1>6. /\ \A i \in 1..m : Nth(DOMAIN Unknown, i) \in DOMAIN Unknown
      /\ \A i, j \in 1..m : Nth(DOMAIN Unknown, i) = Nth(DOMAIN Unknown, j) => i = j
      /\ \A o \in DOMAIN Unknown : \E i \in 1..m : Nth(DOMAIN Unknown, i) = o
  BY <1>1, Offsets
<1>7. asked \cap DOMAIN Unknown = {} /\ DOMAIN Table \cap DOMAIN Unknown = {}
  BY TableAssumption
<1>8. \A i \in 1..Len(its) : i \in 1..n \/ \E j \in 1..m : i = n + j
  <2> SUFFICES ASSUME NEW i \in 1..Len(its), i \notin 1..n
               PROVE  \E j \in 1..m : i = n + j
    OBVIOUS
  <2>1. i - n \in 1..m /\ i = n + (i - n)
    BY <1>2
  <2> QED
    BY <2>1
<1>9. Apart(its)
  <2> SUFFICES ASSUME NEW i \in 1..Len(its), NEW j \in 1..Len(its), its[i].key = its[j].key
               PROVE  i = j
    BY DEF Apart
  <2>1. CASE i \in 1..n /\ j \in 1..n
    BY <1>3, <1>5, <2>1
  <2>2. CASE i \in 1..n /\ j \notin 1..n
    <3>1. PICK b \in 1..m : j = n + b
      BY <1>8, <2>2
    <3> QED
      BY <1>3, <1>4, <1>5, <1>6, <1>7, <2>2, <3>1
  <2>3. CASE i \notin 1..n /\ j \in 1..n
    <3>1. PICK b \in 1..m : i = n + b
      BY <1>8, <2>3
    <3> QED
      BY <1>3, <1>4, <1>5, <1>6, <1>7, <2>3, <3>1
  <2>4. CASE i \notin 1..n /\ j \notin 1..n
    <3>1. PICK a \in 1..m, b \in 1..m : i = n + a /\ j = n + b
      BY <1>8, <2>4
    <3> QED
      BY <1>4, <1>6, <3>1
  <2> QED
    BY <2>1, <2>2, <2>3, <2>4
<1>10. PICK l : l = Latest(its, 1..Len(its))
  OBVIOUS
<1>11. /\ DOMAIN l = {its[i].key : i \in 1..Len(its)}
       /\ \A i \in 1..Len(its) : l[its[i].key] = its[i].value
  <2>1. Len(its) \in Nat
    BY <1>2
  <2>2. ByKey(l, its)
    BY <1>9, <1>10, <2>1, LatestOfApart
  <2> QED
    BY <2>2 DEF ByKey
<1>12. ASSUME NEW o \in asked
       PROVE  o \in DOMAIN l /\ l[o] = Padded(mem[o], Table[o])
  <2>1. PICK i \in 1..n : Nth(asked, i) = o
    BY <1>5
  <2>2. i \in 1..Len(its)
    BY <1>2
  <2> QED
    BY <1>3, <1>11, <2>1, <2>2
<1>13. ASSUME NEW o \in DOMAIN Unknown
       PROVE  o \in DOMAIN l /\ l[o] = Unknown[o]
  <2>1. PICK i \in 1..m : Nth(DOMAIN Unknown, i) = o
    BY <1>6
  <2>2. n + i \in 1..Len(its)
    BY <1>2
  <2> QED
    BY <1>4, <1>11, <2>1, <2>2
<1>14. DOMAIN l = asked \cup DOMAIN Unknown
  <2>1. ASSUME NEW i \in 1..Len(its)
        PROVE  its[i].key \in asked \cup DOMAIN Unknown
    <3>1. CASE i \in 1..n
      BY <1>3, <1>5, <3>1
    <3>2. CASE i \notin 1..n
      <4>1. PICK j \in 1..m : i = n + j
        BY <1>8, <3>2
      <4> QED
        BY <1>4, <1>6, <4>1
    <3> QED
      BY <3>1, <3>2
  <2> QED
    BY <1>11, <1>12, <1>13, <2>1
<1>15. GetData(its) = [k \in DOMAIN l |-> IF k \in DOMAIN Table THEN Text(l[k]) ELSE l[k]]
  BY <1>10 DEF GetData
<1>16. ASSUME NEW o \in asked \cup DOMAIN Unknown
       PROVE  (IF o \in DOMAIN Table THEN Text(l[o]) ELSE l[o]) =
                IF o \in asked THEN Text(Padded(mem[o], Table[o])) ELSE Unknown[o]
  BY <1>7, <1>12, <1>13
<1> QED
  BY <1>14, <1>15, <1>16 DEF AllOf

\* Items are the first of what a device tells.
Hears(its, entries) ==
  /\ Len(its) \in 0..Len(entries)
  /\ \A i \in 1..Len(its) :
       /\ its[i].key = entries[i][1] /\ its[i].value = Announced(entries[i][2])
       /\ its[i].size = Len(Announced(entries[i][2]))

\* What was told, of a learnt value by its type.
ToldBy(t, entries) ==
  \A k \in DOMAIN t : \E i \in 1..Len(entries) : entries[i][1] = k /\ t[k] = Announced(entries[i][2])

(* The places of a list are as many as its items. *)
LEMMA CountTo ==
  ASSUME NEW n \in Nat
  PROVE  IsFiniteSet(1..n) /\ Cardinality(1..n) = n
BY FS_Interval

(* Of a device that says each thing once, the client learns what it heard, *)
(* one value for each.                                                     *)
LEMMA HeardIsTold ==
  ASSUME NEW entries \in Telling, Distinct(entries), NEW its, Hears(its, entries),
         NEW l, l = Latest(its, 1..Len(its))
  PROVE  ToldBy(l, entries) /\ Cardinality(DOMAIN l) = Len(its)
<1> PICK n : n = Len(its)
  OBVIOUS
<1>1. Len(entries) \in Nat /\ n \in Nat /\ n <= Len(entries) /\ \A i \in 1..n : i \in 1..Len(entries)
  <2>1. Len(entries) \in Nat
    BY LenProperties DEF Telling
  <2>2. n \in 0..Len(entries)
    BY DEF Hears
  <2> QED
    BY <2>1, <2>2
<1>2. Apart(its)
  BY <1>1 DEF Apart, Hears, Distinct
<1>3. /\ DOMAIN l = {its[i].key : i \in 1..n}
      /\ \A i \in 1..n : l[its[i].key] = its[i].value
  <2>1. Len(its) \in Nat
    BY <1>1
  <2>2. ByKey(l, its)
    BY <1>2, <2>1, LatestOfApart
  <2> QED
    BY <2>2 DEF ByKey
<1>4. ToldBy(l, entries)
  <2> SUFFICES ASSUME NEW k \in DOMAIN l
               PROVE  \E i \in 1..Len(entries) : entries[i][1] = k /\ l[k] = Announced(entries[i][2])
    BY DEF ToldBy
  <2>1. PICK i \in 1..n : k = its[i].key
    BY <1>3
  <2>2. i \in 1..Len(entries) /\ entries[i][1] = k /\ l[k] = Announced(entries[i][2])
    BY <1>1, <1>3, <2>1 DEF Hears
  <2> QED
    BY <2>2
<1>5. Cardinality(DOMAIN l) = n
  <2> DEFINE f == [i \in 1..n |-> its[i].key]
  <2>1. f \in Bijection(1..n, DOMAIN l)
    <3>1. f \in [1..n -> DOMAIN l]
      BY <1>3
    <3>2. \A i, j \in 1..n : f[i] = f[j] => i = j
      BY <1>2 DEF Apart
    <3>3. \A k \in DOMAIN l : \E i \in 1..n : f[i] = k
      BY <1>3
    <3> HIDE DEF f
    <3>4. f \in Injection(1..n, DOMAIN l)
      BY <3>1, <3>2 DEF Injection, IsInjective
    <3>5. f \in Surjection(1..n, DOMAIN l)
      BY <3>1, <3>3 DEF Surjection
    <3> QED
      BY <3>4, <3>5 DEF Bijection
  <2>2. IsFiniteSet(1..n) /\ Cardinality(1..n) = n
    <3>1. n \in Nat
      BY <1>1
    <3> QED
      BY <3>1, CountTo
  <2> HIDE DEF f
  <2>3. ExistsBijection(1..n, DOMAIN l)
    BY <2>1 DEF ExistsBijection
  <2> QED
    BY <2>2, <2>3, FS_Bijection
<1> QED
  BY <1>4, <1>5

\* Addresses are values of four bytes, as all of get_ip's are.
LEMMA HeardAddresses ==
  ASSUME NEW entries \in Telling, \A i \in 1..Len(entries) : Len(entries[i][2]) = 4,
         NEW its, Hears(its, entries)
  PROVE  Addresses(its) = Latest(its, 1..Len(its))
<1>1. Len(entries) \in Nat
  BY LenProperties DEF Telling
<1>2. ASSUME NEW i \in 1..Len(its)
      PROVE  its[i].size = 4
  <2>1. i \in 1..Len(entries)
    BY <1>1 DEF Hears
  <2>2. PICK v : v = entries[i][2]
    OBVIOUS
  <2>3. v \in Seq(Byte) /\ Len(v) = 4
    BY <1>1, <2>1, <2>2, ElementOfSeq DEF Telling
  <2>4. 4 < Base
    BY SizeAssumption, ByteAssumption
  <2>5. Announced(v) = v
    BY <2>3, <2>4, AnnouncedShape
  <2> QED
    BY <2>2, <2>3, <2>5 DEF Hears
<1>3. {i \in 1..Len(its) : its[i].size = 4} = 1..Len(its)
  BY <1>2
<1> QED
  BY <1>3 DEF Addresses

\* Of one thing told, the first is all there is.
TheOne(t, e, its, places) ==
  /\ ToldBy(t, <<e>>)
  /\ places = {} => t = <<>>
  /\ places # {} => 1 \in places /\ its[1].size = Len(Announced(e[2]))

(* Of the one thing told, the client learns it or nothing. *)
LEMMA HeardOne ==
  ASSUME NEW e \in Byte \X Seq(Byte), NEW its, Hears(its, <<e>>),
         NEW places \in SUBSET (1..Len(its)), NEW t, t = First(its, places)
  PROVE  TheOne(t, e, its, places)
<1>1. Len(<<e>>) = 1 /\ <<e>>[1] = e
  OBVIOUS
<1>2. Len(its) \in 0..1
  BY <1>1 DEF Hears
<1>3. CASE places = {}
  <2>1. t = <<>>
    BY <1>3 DEF First
  <2>2. \A k \in DOMAIN t : FALSE
    BY <2>1
  <2> QED
    BY <1>3, <2>1, <2>2 DEF ToldBy, TheOne
<1>4. CASE places # {}
  <2>1. Len(its) = 1 /\ places = {1}
    <3>1. PICK p \in places : TRUE
      BY <1>4
    <3>2. Len(its) = 1
      BY <1>2, <3>1
    <3>3. \A q \in places : q = 1
      BY <3>2
    <3> QED
      BY <1>4, <3>2, <3>3
  <2>2. Min(places) = 1
    BY <2>1, OnlyOne
  <2>3. its[1].key = e[1] /\ its[1].value = Announced(e[2]) /\ its[1].size = Len(Announced(e[2]))
    BY <1>1, <2>1 DEF Hears
  <2>4. t = [k \in {e[1]} |-> Announced(e[2])]
    BY <1>4, <2>2, <2>3 DEF First
  <2>5. ToldBy(t, <<e>>)
    BY <1>1, <2>4 DEF ToldBy
  <2> QED
    BY <1>4, <2>1, <2>3, <2>5 DEF TheOne
<1> QED
  BY <1>3, <1>4

-----------------------------------------------------------------------------
(* A payload on its way: sent, cut, read. *)

\* The reader reads a payload built of these entries.
ReadOf(f, entries) == form = f /\ \E at : Reading(entries, Payload(f, entries), at)

\* All of it is there, and nothing of it is missed.
Complete(b) == buf = b /\ verdict \in {"start", "items", "whole"}

(* A payload that has just arrived has been read correctly, as yet. *)
LEMMA ReadFromStarts ==
  ASSUME NEW b \in Seq(Byte), NEW f \in Forms, ReadFrom(b, f)
  PROVE  ReaderInv'
<1>1. /\ buf' = b /\ form' = f /\ pos' = 0 /\ left' = 0 /\ items' = <<>> /\ verdict' = "start"
  BY DEF ReadFrom
<1>2. HeadSize(f) \in {2, 4} /\ Len(b) \in Nat
  BY Sizes, LenProperties
<1>3. ReaderTypeOK'
  BY <1>1 DEF ReaderTypeOK
<1>4. InPayload'
  BY <1>1, <1>2 DEF InPayload
<1>5. SideBySide'
  BY <1>1 DEF SideBySide
<1>6. Promise'
  BY <1>1 DEF Promise
<1> QED
  BY <1>3, <1>4, <1>5, <1>6 DEF ReaderInv

\* A payload sent is read from the start, as far as it came.
LEMMA SentIsRead ==
  ASSUME NEW f \in Forms, NEW entries, Listable(f, entries),
         NEW b, b = Payload(f, entries), NEW n \in 0..Len(b), ReadFrom(SubSeq(b, 1, n), f)
  PROVE  ReadOf(f, entries)' /\ (n = Len(b) => Complete(b)')
<1>1. PICK at : Lists(f, entries, b, at)
  BY PayloadLists
<1>2. b \in Seq(Byte)
  BY <1>1 DEF Lists
<1>3. SubSeq(b, 1, n) \in Seq(Byte) /\ (n = Len(b) => SubSeq(b, 1, n) = b)
  BY <1>2, PrefixShape
<1>4. ReaderInv'
  BY <1>3, ReadFromStarts
<1>5. form' = f /\ buf' = SubSeq(b, 1, n) /\ verdict' = "start"
  BY DEF ReadFrom
<1>6. Reading(entries, b, at)'
  BY <1>1, <1>4, <1>5 DEF Reading
<1> QED
  BY <1>3, <1>5, <1>6 DEF ReadOf, Complete

(* Reading leaves the payload as it is. *)
LEMMA ReaderLeaves ==
  ASSUME [ReaderNext]_reader
  PROVE  buf' = buf /\ form' = form
BY DEF ReaderNext, ReadCount, TooShort, ReadItem, HeadCut, ValueCut, AllRead, EndsEarly, reader

\* Reading on.
LEMMA ReadsOn ==
  ASSUME NEW f, NEW entries, NEW b, b = Payload(f, entries), ReadOf(f, entries), [ReaderNext]_reader
  PROVE  ReadOf(f, entries)' /\ (Complete(b) => Complete(b)')
<1>1. PICK at : Reading(entries, b, at)
  BY DEF ReadOf
<1>2. buf' = buf /\ form' = form /\ form = f
  BY ReaderLeaves DEF ReadOf
<1>3. ReaderInv'
  BY <1>1, ReaderKeeps DEF Reading
<1>4. Reading(entries, b, at)'
  BY <1>1, <1>2, <1>3 DEF Reading
<1>5. Complete(b) => verdict' \in {"start", "items", "whole"}
  BY <1>1, NothingMissed DEF Complete
<1> QED
  BY <1>2, <1>4, <1>5 DEF ReadOf, Complete

\* What has been read when the reader is done.
LEMMA ReadSoFar ==
  ASSUME NEW f, NEW entries, NEW b, b = Payload(f, entries), ReadOf(f, entries)
  PROVE  /\ ReaderInv /\ form = f /\ Len(items) \in 0..Len(entries) /\ Len(entries) \in Nat
         /\ \A i \in 1..Len(items) :
              /\ items[i].key = entries[i].key /\ items[i].size = entries[i].size
              /\ items[i].value = entries[i].value
         /\ verdict = "whole" /\ (Counted(f) \/ buf = b) =>
              Len(items) = Len(entries) /\ buf = b
<1>1. PICK at : Reading(entries, b, at)
  BY DEF ReadOf
<1>2. form = f /\ ReaderInv /\ Len(entries) \in Nat
  BY <1>1 DEF ReadOf, Reading, Listable
<1>3. /\ Len(items) \in 0..Len(entries)
      /\ \A i \in 1..Len(items) : items[i] = ItemOf(entries, at, i)
  BY <1>1, ReadsEntries
<1>4. ASSUME NEW i \in 1..Len(items)
      PROVE  /\ items[i].key = entries[i].key /\ items[i].size = entries[i].size
             /\ items[i].value = entries[i].value
  <2>1. PICK e : e = entries[i]
    OBVIOUS
  <2>2. items[i] = [at |-> at[i], key |-> e.key, size |-> e.size, value |-> e.value]
    BY <1>3, <2>1 DEF ItemOf
  <2> QED
    BY <2>1, <2>2
<1>5. verdict = "whole" /\ (Counted(f) \/ buf = b) => Len(items) = Len(entries) /\ buf = b
  BY <1>1, <1>2, ReadsAll
<1> QED
  BY <1>2, <1>3, <1>4, <1>5

\* The two broken replies: one promises more items than two bytes hold, the
\* other a value that is longer than what follows.
Unreadable(b) ==
  /\ form = "get reply" /\ b \in Seq(Byte)
  /\ \/ Len(b) <= 2 /\ (Len(b) = 2 => Big16(b, 0) # 0)
     \/ Len(b) <= 6 /\ (Len(b) >= 2 => Big16(b, 0) = 1) /\ (Len(b) = 6 => Big16(b, 4) # 0)

(* The sizes of a GetData reply. *)
LEMMA ReplySizes ==
  /\ HeadSize("get reply") = 4 /\ Counted("get reply") /\ Skipped("get reply") = 0
  /\ ItemsStart("get reply") = 2 /\ Strict("get reply")
BY DEF HeadSize, Counted, Skipped, ItemsStart, Strict

(* A reply that is unreadable is never taken. *)
LEMMA UnreadableIsRefused ==
  ASSUME ReaderInv, Unreadable(buf)
  PROVE  verdict \notin {"whole", "cut"}
<1>1. /\ form = "get reply" /\ pos \in Nat /\ Len(items) \in Nat /\ Len(buf) \in Nat /\ left \in Nat
      /\ items \in Seq(Item) /\ buf \in Seq(Byte)
  BY LenProperties DEF Unreadable, ReaderInv, ReaderTypeOK
<1>2. /\ HeadSize(form) = 4 /\ Counted(form) /\ Skipped(form) = 0 /\ ItemsStart(form) = 2 /\ Strict(form)
  BY <1>1, ReplySizes
<1>a. PICK l, x, y : l = Len(buf) /\ x = Big16(buf, 0) /\ y = Big16(buf, 4)
  OBVIOUS
<1>0. /\ l \in Nat
      /\ \/ l <= 2 /\ (l = 2 => x # 0)
         \/ l <= 6 /\ (l >= 2 => x = 1) /\ (l = 6 => y # 0)
  <2>1. \/ Len(buf) <= 2 /\ (Len(buf) = 2 => Big16(buf, 0) # 0)
        \/ Len(buf) <= 6 /\ (Len(buf) >= 2 => Big16(buf, 0) = 1) /\ (Len(buf) = 6 => Big16(buf, 4) # 0)
    BY DEF Unreadable
  <2>2. Len(buf) \in Nat
    BY <1>1
  <2> QED
    BY <1>a, <2>1, <2>2
<1>3. verdict # "cut"
  BY <1>2 DEF ReaderInv, Promise
<1>4. ASSUME verdict = "whole"
      PROVE  FALSE
  <2>1. Len(items) = Big16(buf, 0)
    BY <1>2, <1>4, InvGivesProperty DEF ReadsWhatIsThere, TakenWhole, Unreadable
  <2>2. pos <= Len(buf) /\ pos = EndOf(items, Len(items), form)
    BY <1>4 DEF ReaderInv, InPayload, Promise
  <2>3. CASE Len(items) = 0
    <3>1. pos = 2
      BY <1>2, <2>2, <2>3 DEF EndOf
    <3>2. x = 0 /\ l >= 2
      BY <1>a, <1>1, <2>1, <2>2, <2>3, <3>1
    <3> QED
      BY <1>0, <3>2
  <2>4. CASE Len(items) # 0
    <3>1. 1 \in 1..Len(items) /\ items[1] \in Item
      <4>1. 1 \in 1..Len(items)
        <5>1. Len(items) \in Nat
          BY <1>1
        <5> QED
          BY <2>4, <5>1
      <4> QED
        BY <1>1, <4>1, ElementOfSeq
    <3>2. PICK e : e = items[1]
      OBVIOUS
    <3>3. /\ e.at = EndOf(items, 1 - 1, form) /\ e.at + HeadSize(form) + Len(e.value) <= Len(buf)
          /\ Len(e.value) = Carried(buf, form, e.at)
      BY <3>1, <3>2 DEF ReaderInv, SideBySide
    <3>4. e.at = 2
      BY <1>2, <3>3 DEF EndOf
    <3>5. Carried(buf, form, 2) = y
      <4>1. Carried(buf, form, 2) = Big16(buf, 2 + 2)
        BY <1>1 DEF Carried, Size
      <4>2. 2 + 2 = 4
        OBVIOUS
      <4> QED
        BY <1>a, <4>1, <4>2
    <3>7. Len(e.value) = y /\ y \in Nat /\ 2 + 4 + y <= l
      <4>1. e.value \in Seq(Byte)
        BY <3>1, <3>2 DEF Item
      <4>2. Len(e.value) \in Nat
        BY <4>1, LenProperties
      <4> QED
        BY <1>a, <1>2, <3>3, <3>4, <3>5, <4>2
    <3> QED
      BY <1>0, <3>7
  <2> QED
    BY <2>3, <2>4
<1> QED
  BY <1>3, <1>4

\* What an answer leaves in the client's buffer.
LEMMA AnswerArrives ==
  ASSUME NEW m, NEW b, NEW f, Answers(m, b, f), b \in Seq(Byte)
  PROVE  /\ method' = m /\ UNCHANGED <<ex, outcome, taken>>
         /\ step' = IF ex.stranger THEN "over" ELSE "client"
         /\ \E k \in 0..Len(b) :
              /\ ReadFrom(SubSeq(b, 1, k), f)
              /\ ex.fault # "cut" /\ Len(b) <= Buffer => k = Len(b)
<1>1. PICK n \in 0..Len(b) :
        /\ n = Len(b) \/ ex.fault = "cut"
        /\ ReadFrom(SubSeq(b, 1, IF n < Buffer THEN n ELSE Buffer), f)
  BY DEF Answers
<1>2. Len(b) \in Nat /\ Buffer \in Nat
  BY LenProperties, SizeAssumption
<1>3. PICK k : k = IF n < Buffer THEN n ELSE Buffer
  OBVIOUS
<1>4. k \in 0..Len(b)
  BY <1>1, <1>2, <1>3
<1>5. n = Len(b) /\ Len(b) <= Buffer => k = Len(b)
  BY <1>1, <1>2, <1>3
<1>6. ReadFrom(SubSeq(b, 1, k), f)
  BY <1>1, <1>3
<1>7. /\ method' = m /\ UNCHANGED <<ex, outcome, taken>>
      /\ step' = IF ex.stranger THEN "over" ELSE "client"
  BY DEF Answers
<1> QED
  BY <1>1, <1>4, <1>5, <1>6, <1>7

(* Whatever is answered, the reading of it starts correctly. *)
LEMMA AnswerKeepsReader ==
  ASSUME NEW m, NEW b \in Seq(Byte), NEW f \in Forms, Answers(m, b, f)
  PROVE  ReaderInv'
<1>1. PICK k \in 0..Len(b) : ReadFrom(SubSeq(b, 1, k), f)
  BY AnswerArrives
<1>2. SubSeq(b, 1, k) \in Seq(Byte)
  BY <1>1, PrefixShape
<1> QED
  BY <1>1, <1>2, ReadFromStarts

\* An answer that lists entries.
LEMMA AnswerIsRead ==
  ASSUME NEW m, NEW f \in Forms, NEW entries, Listable(f, entries),
         NEW b, b = Payload(f, entries), Answers(m, b, f)
  PROVE  /\ b \in Seq(Byte) /\ ReadOf(f, entries)'
         /\ ex.fault # "cut" /\ Len(b) <= Buffer => Complete(b)'
<1>1. b \in Seq(Byte)
  BY PayloadLists DEF Lists
<1>2. PICK k \in 0..Len(b) : /\ ReadFrom(SubSeq(b, 1, k), f)
                             /\ ex.fault # "cut" /\ Len(b) <= Buffer => k = Len(b)
  BY <1>1, AnswerArrives
<1>3. ReadOf(f, entries)' /\ (k = Len(b) => Complete(b)')
  BY <1>2, SentIsRead
<1> QED
  BY <1>1, <1>2, <1>3

(* The numbers of the broken replies. *)
LEMMA OneAndNone ==
  0 \in Nat /\ 1 \in Nat /\ 1000 \in Nat /\ 1 % (Base * Base) = 1
<1>1. Base * Base \in Nat \ {0} /\ 1 < Base * Base
  BY ByteAssumption
<1> QED
  BY <1>1, Divided

\* Three words on end.
IsWord(x) == x \in Seq(Byte) /\ Len(x) = 2

JoinOf(a, b, c) ==
  /\ c \in Seq(Byte) /\ Len(c) = Len(a) + Len(b)
  /\ \A p \in 1..Len(a) : c[p] = a[p]
  /\ \A p \in 1..Len(b) : c[Len(a) + p] = b[p]

(* JoinOf is what concatenation does. *)
LEMMA JoinIs ==
  ASSUME NEW a \in Seq(Byte), NEW b \in Seq(Byte), NEW c, c = a \o b
  PROVE  JoinOf(a, b, c)
BY JoinedBytes DEF JoinOf

FromTo(b, x, z) ==
  /\ b \in Seq(Byte) /\ Len(b) = 6
  /\ b[1] = x[1] /\ b[2] = x[2] /\ b[5] = z[1] /\ b[6] = z[2]

(* Three words in a row: the first and the last lie at either end. *)
LEMMA ThreeWords ==
  ASSUME NEW x, NEW y, NEW z, IsWord(x), IsWord(y), IsWord(z)
  PROVE  FromTo((x \o y) \o z, x, z)
<1>1. PICK c : c = x \o y
  OBVIOUS
<1>2. PICK b : b = c \o z
  OBVIOUS
<1>3. x \in Seq(Byte) /\ y \in Seq(Byte) /\ z \in Seq(Byte)
  BY DEF IsWord
<1>4. JoinOf(x, y, c)
  BY <1>1, <1>3, JoinIs
<1>5. c \in Seq(Byte)
  BY <1>4 DEF JoinOf
<1>6. JoinOf(c, z, b)
  BY <1>2, <1>3, <1>5, JoinIs
<1>7. \A d : JoinOf(x, y, d) => Len(d) = 4 /\ d[1] = x[1] /\ d[2] = x[2]
  BY DEF JoinOf, IsWord
<1>8. \A d, e : JoinOf(d, z, e) /\ Len(d) = 4 =>
        /\ e \in Seq(Byte) /\ Len(e) = 6 /\ e[1] = d[1] /\ e[2] = d[2]
        /\ e[5] = z[1] /\ e[6] = z[2]
  <2>1. SUFFICES ASSUME NEW d, NEW e, JoinOf(d, z, e), Len(d) = 4
                 PROVE  /\ e \in Seq(Byte) /\ Len(e) = 6 /\ e[1] = d[1] /\ e[2] = d[2]
                        /\ e[5] = z[1] /\ e[6] = z[2]
    OBVIOUS
  <2>2. /\ e \in Seq(Byte) /\ Len(e) = 4 + 2 /\ \A p \in 1..4 : e[p] = d[p]
        /\ \A p \in 1..2 : e[4 + p] = z[p]
    BY <2>1 DEF JoinOf, IsWord
  <2>3. e[4 + 1] = z[1] /\ e[4 + 2] = z[2] /\ e[1] = d[1] /\ e[2] = d[2]
    BY <2>2
  <2> QED
    BY <2>2, <2>3
<1>9. \A d, e : JoinOf(x, y, d) /\ JoinOf(d, z, e) => FromTo(e, x, z)
  BY <1>7, <1>8 DEF FromTo
<1>10. FromTo(b, x, z)
  BY <1>4, <1>6, <1>9
<1> QED
  BY <1>1, <1>2, <1>10

\* What the broken replies say.
Oversized(b) == b \in Seq(Byte) /\ Len(b) = 2 /\ b[1] * Base + b[2] # 0
Exceeding(b) ==
  b \in Seq(Byte) /\ Len(b) = 6 /\ b[1] * Base + b[2] = 1 /\ b[5] * Base + b[6] # 0

(* Bytes16 is a word that tells its number. *)
LEMMA WordIs ==
  ASSUME NEW n \in Nat, NEW w, w = Bytes16(n)
  PROVE  IsWord(w) /\ w[1] * Base + w[2] = n % (Base * Base)
BY WordBytes DEF IsWord

(* A reply that only announces 65535 items. *)
LEMMA OversizedCount == Oversized(NoItems)
<1>1. PICK n : n = Base * Base - 1
  OBVIOUS
<1>2. n \in Nat /\ n \in Word /\ n # 0
  <2>1. Base * Base \in Nat /\ Base * Base > 1
    BY ByteAssumption
  <2> QED
    BY <1>1, <2>1 DEF Word
<1>3. /\ Bytes16(n) \in Seq(Byte) /\ Len(Bytes16(n)) = 2
      /\ Bytes16(n)[1] * Base + Bytes16(n)[2] = n
  BY <1>2, WordBytes
<1> QED
  BY <1>1, <1>2, <1>3 DEF Oversized, NoItems

(* A reply of one item that announces 1000 bytes and has none. *)
LEMMA LengthExceeds == Exceeding(NoValue)
<1>1. PICK x, y, z : x = Bytes16(1) /\ y = Bytes16(0) /\ z = Bytes16(1000)
  OBVIOUS
<1>2. IsWord(x) /\ x[1] * Base + x[2] = 1
  BY <1>1, WordIs, OneAndNone
<1>3. IsWord(y)
  BY <1>1, WordIs, OneAndNone
<1>4. IsWord(z) /\ z[1] * Base + z[2] # 0
  BY <1>1, WordIs, OneAndNone, SizeAssumption
<1>5. FromTo((x \o y) \o z, x, z)
  BY <1>2, <1>3, <1>4, ThreeWords
<1>6. \A c : FromTo(c, x, z) => Exceeding(c)
  BY <1>2, <1>4 DEF FromTo, Exceeding
<1>7. Exceeding((x \o y) \o z)
  BY <1>5, <1>6
<1> QED
  BY <1>1, <1>7 DEF NoValue

\* The beginning of a broken reply cannot be read.
LEMMA BeginsUnreadable ==
  ASSUME NEW b, Oversized(b) \/ Exceeding(b), NEW k \in 0..Len(b),
         NEW c \in Seq(Byte), Len(c) = k, \A p \in 1..k : c[p] = b[p]
  PROVE  \/ Len(c) <= 2 /\ (Len(c) = 2 => Big16(c, 0) # 0)
         \/ Len(c) <= 6 /\ (Len(c) >= 2 => Big16(c, 0) = 1) /\ (Len(c) = 6 => Big16(c, 4) # 0)
<1>1. Big16(c, 0) = c[1] * Base + c[2] /\ Big16(c, 4) = c[5] * Base + c[6]
  <2>1. 0 + 1 = 1 /\ 0 + 2 = 2 /\ 4 + 1 = 5 /\ 4 + 2 = 6
    OBVIOUS
  <2> QED
    BY <2>1 DEF Big16
<1>2. CASE Oversized(b)
  <2>1. k \in 0..2 /\ b[1] * Base + b[2] # 0
    BY <1>2 DEF Oversized
  <2>2. k = 2 => c[1] = b[1] /\ c[2] = b[2]
    BY <2>1
  <2> QED
    BY <1>1, <2>1, <2>2
<1>3. CASE Exceeding(b)
  <2>1. k \in 0..6 /\ b[1] * Base + b[2] = 1 /\ b[5] * Base + b[6] # 0
    BY <1>3 DEF Exceeding
  <2>2. k >= 2 => c[1] = b[1] /\ c[2] = b[2]
    BY <2>1
  <2>3. k = 6 => c[5] = b[5] /\ c[6] = b[6]
    BY <2>1
  <2> QED
    BY <1>1, <2>1, <2>2, <2>3
<1> QED
  BY <1>2, <1>3

(* What a broken device answers to a get cannot be read, however little of *)
(* it arrives.                                                             *)
LEMMA BrokenIsUnreadable ==
  ASSUME NEW its, NEW m, NEW b, b = FaultyGetReply(its), Answers(m, b, "get reply"),
         ex.fault \in {"oversized count", "length exceeds payload"}
  PROVE  ReaderInv' /\ Unreadable(buf)'
<1>1. Oversized(b) \/ Exceeding(b)
  <2>1. CASE ex.fault = "oversized count"
    <3>1. b = NoItems
      BY <2>1 DEF FaultyGetReply
    <3> QED
      BY <3>1, OversizedCount
  <2>2. CASE ex.fault = "length exceeds payload"
    <3>1. b = NoValue
      BY <2>2 DEF FaultyGetReply
    <3> QED
      BY <3>1, LengthExceeds
  <2> QED
    BY <2>1, <2>2
<1>2. b \in Seq(Byte) /\ "get reply" \in Forms
  BY <1>1 DEF Forms, Oversized, Exceeding
<1>3. ReaderInv'
  BY <1>2, AnswerKeepsReader
<1>4. PICK k \in 0..Len(b) : ReadFrom(SubSeq(b, 1, k), "get reply")
  BY <1>2, AnswerArrives
<1>5. PICK c : c = SubSeq(b, 1, k)
  OBVIOUS
<1>6. c \in Seq(Byte) /\ Len(c) = k /\ \A p \in 1..k : c[p] = b[p]
  BY <1>2, <1>5, PrefixShape
<1>7. \/ Len(c) <= 2 /\ (Len(c) = 2 => Big16(c, 0) # 0)
      \/ Len(c) <= 6 /\ (Len(c) >= 2 => Big16(c, 0) = 1) /\ (Len(c) = 6 => Big16(c, 4) # 0)
  BY <1>1, <1>6, BeginsUnreadable
<1>8. buf' = c /\ form' = "get reply"
  BY <1>4, <1>5 DEF ReadFrom
<1> QED
  BY <1>3, <1>6, <1>7, <1>8 DEF Unreadable

-----------------------------------------------------------------------------
(* The inductive invariant of an exchange. *)

\* What the client is to read, by what it asked.
Teller ==
  IF ex.refused THEN <<Message>>
  ELSE IF ex.op = "discover" THEN Discovery ELSE IF ex.op = "get ip" THEN Network ELSE <<UUID>>
GetAnswered == ex.op = "get" /\ ~ex.refused
OwedForm == IF GetAnswered THEN "get reply" ELSE "tlv"
Owed == IF GetAnswered THEN Held(ex.asked) \o Added ELSE Said(Teller)
Broken == GetAnswered /\ ex.fault \in {"oversized count", "length exceeds payload"}

AskedForm == IF ex.op = "set" THEN "set request" ELSE "get request"
AskedFor == IF ex.op = "set" THEN SetRequest(ex.values) ELSE GetRequest(ex.asked)

(* The device reads the request, the client the reply. *)
RequestPart ==
  step = "device" /\ ex.op \in {"get", "set"} =>
    /\ ReadOf(AskedForm, AskedFor)
    /\ ~ex.stranger => Complete(Payload(AskedForm, AskedFor))

ReplyPart ==
  step = "client" =>
    /\ ~ex.stranger /\ method \in {"ok", "error", "unknown"}
    /\ method = "error" <=> ex.refused
    /\ method = "unknown" => ex.op = "get" /\ ex.fault = "unknown method"
    /\ ~(ex.op = "set" /\ ~ex.refused) =>
         IF Broken THEN Unreadable(buf)
         ELSE /\ ReadOf(OwedForm, Owed)
              /\ ex.fault # "cut" /\ Len(Payload(OwedForm, Owed)) <= Buffer =>
                   Complete(Payload(OwedForm, Owed))

WireTypeOK ==
  /\ ex \in Exchanges /\ mem \in [DOMAIN Table -> Seq(Byte)]
  /\ step \in {"ask", "device", "client", "over"}

WireInv == WireTypeOK /\ ReaderInv /\ RequestPart /\ ReplyPart /\ TakenIsTrue

(* An exchange is one of those considered. *)
LEMMA ExShape ==
  ASSUME ex \in Exchanges
  PROVE  /\ ex.op \in Operations /\ ex.asked \in SUBSET DOMAIN Table
         /\ DOMAIN ex.values \in SUBSET DOMAIN Table
         /\ \A o \in DOMAIN ex.values : ex.values[o] \in Seq(Byte) /\ FitsIn(ex.values[o], Table[o])
         /\ ex.stranger \in BOOLEAN /\ ex.refused \in BOOLEAN /\ ex.fault \in Faults
         /\ ~(ex.op = "discover" /\ ex.refused)
BY ExchangeAssumption

(* All that a device may say are lists of a type and bytes. *)
LEMMA Tellings ==
  /\ <<Message>> \in Telling /\ <<UUID>> \in Telling /\ Discovery \in Telling /\ Network \in Telling
  /\ Teller \in Telling
<1>1. <<Message>> \in Telling /\ <<UUID>> \in Telling /\ Discovery \in Telling /\ Network \in Telling
  BY DeviceAssumption DEF Telling
<1> QED
  BY <1>1 DEF Teller

(* What is owed can be sent. *)
LEMMA OwedShape ==
  ASSUME WireTypeOK
  PROVE  OwedForm \in Forms /\ Listable(OwedForm, Owed)
<1>1. ex.asked \in SUBSET DOMAIN Table /\ mem \in [DOMAIN Table -> Seq(Byte)]
  BY ExShape DEF WireTypeOK
<1>2. CASE GetAnswered
  <2>1. PICK g : g = Held(ex.asked) \o Added
    OBVIOUS
  <2>2. GoodReply(g, ex.asked, Cardinality(ex.asked), Cardinality(DOMAIN Unknown))
    BY <1>1, <2>1, ReplyShape
  <2>3. OwedForm = "get reply" /\ Owed = g
    BY <1>2, <2>1 DEF OwedForm, Owed
  <2> QED
    BY <2>2, <2>3 DEF GoodReply, Forms
<1>3. CASE ~GetAnswered
  <2>1. Listable("tlv", Said(Teller))
    BY Tellings, SaidShape
  <2>2. OwedForm = "tlv" /\ Owed = Said(Teller)
    BY <1>3 DEF OwedForm, Owed
  <2> QED
    BY <2>1, <2>2 DEF Forms
<1> QED
  BY <1>2, <1>3

(* What is asked can be sent. *)
LEMMA AskedShape ==
  ASSUME WireTypeOK
  PROVE  AskedForm \in Forms /\ Listable(AskedForm, AskedFor)
<1>1. /\ ex.asked \in SUBSET DOMAIN Table /\ DOMAIN ex.values \in SUBSET DOMAIN Table
      /\ \A o \in DOMAIN ex.values : ex.values[o] \in Seq(Byte)
  BY ExShape DEF WireTypeOK
<1>2. Listable("get request", GetRequest(ex.asked))
  BY <1>1, GetRequestLists
<1>3. Listable("set request", SetRequest(ex.values))
  BY <1>1, SetRequestLists
<1> QED
  BY <1>2, <1>3 DEF AskedForm, AskedFor, Forms

\* The size of the reply to a get.
LEMMA ReplySizeIs ==
  ASSUME WireTypeOK
  PROVE  ReplySize = Len(Payload("get reply", Held(ex.asked) \o Added))
<1>1. ex.asked \in SUBSET DOMAIN Table
  BY ExShape DEF WireTypeOK
<1>2. GetReply(GetRequest(ex.asked)) = Held(ex.asked) \o Added
  <2>1. PICK r : r = GetRequest(ex.asked)
    OBVIOUS
  <2>2. /\ Len(r) = Cardinality(ex.asked)
        /\ \A i \in 1..Cardinality(ex.asked) :
             r[i].key = Nth(ex.asked, i) /\ r[i].size = Table[Nth(ex.asked, i)]
    BY <1>1, <2>1, GetRequestLists
  <2>3. GetReply(r) = Held(ex.asked) \o Added
    BY <1>1, <2>2, ReplyParts
  <2> QED
    BY <2>1, <2>3
<1> QED
  BY <1>2 DEF ReplySize

-----------------------------------------------------------------------------
\* What is said when the call returns is true.
Truly(o, t) ==
  /\ ex.op = "get" /\ o = "ok" =>
       t = [p \in ex.asked \cup DOMAIN Unknown |->
              IF p \in ex.asked THEN Text(Padded(mem[p], Table[p])) ELSE Unknown[p]]
  /\ ex.op = "get" /\ o = "failed" =>
       t = <<>> /\ (ex.refused \/ ex.fault # "none" \/ ReplySize > Buffer)
  /\ ex.op = "discover" =>
       ToldBy(t, Discovery) /\ (Uncut => Cardinality(DOMAIN t) = Len(Discovery))
  /\ ex.op = "get ip" /\ o = "ok" =>
       ToldBy(t, Network) /\ (Uncut => Cardinality(DOMAIN t) = Len(Network))
  /\ ex.op = "get uuid" /\ o = "ok" => ToldBy(t, <<UUID>>) /\ Len(UUID[2]) = UUIDSize
  /\ o = "failed" /\ method = "error" => ToldBy(t, <<Message>>)

(* A call that returns what is true leaves TakenIsTrue true. *)
LEMMA Concluding ==
  ASSUME NEW o, NEW t, Concludes(o, t), Truly(o, t)
  PROVE  TakenIsTrue'
<1>1. /\ outcome' = o /\ taken' = t /\ ex' = ex /\ mem' = mem /\ method' = method
      /\ verdict' = verdict
  BY DEF Concludes, reader
<1>2. ReplySize' = ReplySize
  BY <1>1 DEF ReplySize, GetReply
<1>3. Uncut' = Uncut
  BY <1>1 DEF Uncut
<1>4. \A e : Told(e)' <=> ToldBy(t, e)
  BY <1>1 DEF Told, ToldBy
<1> QED
  BY <1>1, <1>2, <1>3, <1>4 DEF TakenIsTrue, Truly

(* Nothing learnt is nothing false. *)
LEMMA NothingTold == \A e : ToldBy(<<>>, e)
BY DEF ToldBy

\* What is heard of what is told.
LEMMA HearsSaid ==
  ASSUME NEW entries \in Telling, NEW b, b = Payload("tlv", Said(entries)), ReadOf("tlv", Said(entries))
  PROVE  /\ Hears(items, entries)
         /\ verdict = "whole" /\ buf = b => Len(items) = Len(entries)
<1>1. PICK s : s = Said(entries)
  OBVIOUS
<1>2. /\ Len(items) \in 0..Len(s)
      /\ \A i \in 1..Len(items) :
           items[i].key = s[i].key /\ items[i].size = s[i].size /\ items[i].value = s[i].value
      /\ verdict = "whole" /\ buf = b => Len(items) = Len(s)
  BY <1>1, ReadSoFar
<1>3. /\ Len(s) = Len(entries) /\ Len(entries) \in Nat
      /\ \A i \in 1..Len(entries) :
           /\ s[i].key = entries[i][1] /\ s[i].value = Announced(entries[i][2])
           /\ s[i].size = Len(Announced(entries[i][2]))
  BY <1>1, SaidShape
<1>4. \A i \in 1..Len(items) : i \in 1..Len(entries)
  BY <1>2, <1>3
<1>5. Hears(items, entries)
  BY <1>2, <1>3, <1>4 DEF Hears
<1> QED
  BY <1>2, <1>3, <1>5

-----------------------------------------------------------------------------
(* The client: what is said when the call returns is true. *)

(* A client that does not read the reply learns nothing. *)
LEMMA KnowsAtOnce ==
  ASSUME WireInv, ClientKnowsAtOnce
  PROVE  TakenIsTrue'
<1>1. PICK o, t : o = (IF method = "ok" THEN "ok" ELSE "failed") /\ t = <<>>
  OBVIOUS
<1>2. Concludes(o, t) /\ step = "client" /\ ~ClientReads
  BY <1>1 DEF ClientKnowsAtOnce
<1>3. /\ method \in {"ok", "error", "unknown"} /\ (method = "error" <=> ex.refused)
      /\ method = "unknown" => ex.op = "get" /\ ex.fault = "unknown method"
  BY <1>2 DEF WireInv, ReplyPart
<1>4. \/ ex.op = "set" /\ method = "ok"
      \/ method = "unknown"
      \/ ex.op = "get" /\ method = "error"
  BY <1>2 DEF ClientReads
<1>5. \A e : ToldBy(t, e)
  BY <1>1, NothingTold
<1>6. Truly(o, t)
  BY <1>1, <1>3, <1>4, <1>5 DEF Truly
<1> QED
  BY <1>2, <1>6, Concluding

\* What the client has before it when it reads a reply.
LEMMA BeforeTheClient ==
  ASSUME WireInv, ClientReads
  PROVE  /\ method \in {"ok", "error"} /\ (method = "error" <=> ex.refused)
         /\ ~(ex.op = "set" /\ ~ex.refused) /\ ~(ex.op = "get" /\ ex.refused)
         /\ Broken => Unreadable(buf)
         /\ ~Broken => /\ ReadOf(OwedForm, Owed)
                       /\ ex.fault # "cut" /\ Len(Payload(OwedForm, Owed)) <= Buffer =>
                            Complete(Payload(OwedForm, Owed))
<1>1. /\ step = "client" /\ ~(ex.op = "set" /\ method = "ok") /\ method # "unknown"
      /\ ~(ex.op = "get" /\ method = "error")
  BY DEF ClientReads
<1>2. method \in {"ok", "error", "unknown"} /\ (method = "error" <=> ex.refused)
  BY <1>1 DEF WireInv, ReplyPart
<1>3. ex.refused \in BOOLEAN
  BY ExShape DEF WireInv, WireTypeOK
<1>4. ~(ex.op = "set" /\ ~ex.refused) /\ ~(ex.op = "get" /\ ex.refused)
  BY <1>1, <1>2, <1>3
<1> QED
  BY <1>1, <1>2, <1>4 DEF WireInv, ReplyPart

(* A client refuses a GetData reply only if it was broken, cut or too      *)
(* long.                                                                   *)
LEMMA Refuses ==
  ASSUME WireInv, ClientRefuses
  PROVE  TakenIsTrue'
<1>1. PICK o, t : o = "failed" /\ t = <<>>
  OBVIOUS
<1>2. Concludes(o, t) /\ verdict = "refused" /\ ClientReads
  BY <1>1 DEF ClientRefuses
<1>3. form = "get reply"
  BY <1>2 DEF WireInv, ReaderInv, Promise, Strict
<1>4. \A e : ToldBy(t, e)
  BY <1>1, NothingTold
<1>5. GetAnswered
  <2>1. CASE Broken
    BY <2>1 DEF Broken
  <2>2. CASE ~Broken
    <3>1. form = OwedForm
      BY <1>2, <2>2, BeforeTheClient DEF ReadOf
    <3> QED
      BY <1>3, <3>1 DEF OwedForm
  <2> QED
    BY <2>1, <2>2
<1>6. ex.fault # "none" \/ ReplySize > Buffer
  <2>1. SUFFICES ASSUME ex.fault = "none"
                 PROVE  ReplySize > Buffer
    OBVIOUS
  <2>2. ~Broken
    BY <2>1 DEF Broken
  <2>3. OwedForm = "get reply" /\ Owed = Held(ex.asked) \o Added
    BY <1>5 DEF OwedForm, Owed
  <2>4. PICK b : b = Payload(OwedForm, Owed)
    OBVIOUS
  <2>5. ReplySize = Len(b)
    BY <2>3, <2>4, ReplySizeIs DEF WireInv
  <2>6. ~Complete(b)
    BY <1>2 DEF Complete
  <2>7. ~(Len(b) <= Buffer)
    BY <1>2, <2>1, <2>2, <2>4, <2>6, BeforeTheClient
  <2>8. Len(b) \in Nat /\ Buffer \in Nat
    <3>1. b \in Seq(Byte)
      <4>1. Listable(OwedForm, Owed) /\ OwedForm \in Forms
        BY OwedShape DEF WireInv
      <4> QED
        BY <2>4, <4>1, PayloadLists DEF Lists
    <3> QED
      BY <3>1, LenProperties, SizeAssumption
  <2> QED
    BY <2>5, <2>7, <2>8
<1>7. Truly(o, t)
  <2>1. ex.op = "get" /\ ~ex.refused
    BY <1>5 DEF GetAnswered
  <2> QED
    BY <1>1, <1>4, <1>6, <2>1 DEF Truly
<1> QED
  BY <1>2, <1>7, Concluding

(* Of a GetData reply the client learns all that was asked and what was    *)
(* added.                                                                  *)
LEMMA TakesGet ==
  ASSUME WireInv, ClientTakes, ex.op = "get"
  PROVE  TakenIsTrue'
<1>1. PICK o, t : o = "ok" /\ t = GetData(items)
  OBVIOUS
<1>2. ClientReads /\ verdict \in {"whole", "cut"}
  BY DEF ClientTakes
<1>3. ex.refused \in BOOLEAN /\ ex.asked \in SUBSET DOMAIN Table
      /\ mem \in [DOMAIN Table -> Seq(Byte)]
  BY ExShape DEF WireInv, WireTypeOK
<1>4. method = "ok" /\ GetAnswered /\ (Broken => Unreadable(buf))
      /\ (~Broken => ReadOf(OwedForm, Owed))
  BY <1>2, <1>3, BeforeTheClient DEF GetAnswered
<1>5. Concludes(o, t)
  BY <1>1, <1>4 DEF ClientTakes
<1>6. ~Broken
  BY <1>2, <1>4, UnreadableIsRefused DEF WireInv
<1>7. PICK g : g = Held(ex.asked) \o Added
  OBVIOUS
<1>8. ReadOf("get reply", g)
  BY <1>4, <1>6, <1>7 DEF OwedForm, Owed
<1>9. verdict = "whole" /\ Counted("get reply")
  BY <1>2, <1>8, ReplySizes DEF WireInv, ReaderInv, Promise, ReadOf
<1>10. Len(items) = Len(g) /\ \A i \in 1..Len(items) : items[i].key = g[i].key /\ items[i].value = g[i].value
  BY <1>8, <1>9, ReadSoFar
<1>11. PICK its : its = items
  OBVIOUS
<1>12. GetData(its) = AllOf(ex.asked)
  <2>1. PICK asked : asked = ex.asked
    OBVIOUS
  <2>2. asked \in SUBSET DOMAIN Table /\ g = Held(asked) \o Added
    BY <1>3, <1>7, <2>1
  <2>3. SameEntries(its, g)
    BY <1>10, <1>11 DEF SameEntries
  <2>4. GetData(its) = AllOf(asked)
    BY <1>3, <2>2, <2>3, GetDataIsTrue
  <2> QED
    BY <2>1, <2>4
<1>13. Truly(o, t)
  BY <1>1, <1>4, <1>11, <1>12 DEF Truly, AllOf
<1> QED
  BY <1>5, <1>13, Concluding

\* The reply of a device that tells, as far as it came.
LEMMA Heard ==
  ASSUME WireInv, ClientReads, ex.op # "get"
  PROVE  /\ Hears(items, Teller)
         /\ Len(TLVs(Teller)) <= Buffer /\ Uncut => Len(items) = Len(Teller)
<1>1. ~GetAnswered /\ ~Broken
  BY DEF GetAnswered, Broken
<1>2. OwedForm = "tlv" /\ Owed = Said(Teller)
  BY <1>1 DEF OwedForm, Owed
<1>3. PICK e, b : e = Teller /\ b = Payload("tlv", Said(e))
  OBVIOUS
<1>4. /\ ReadOf("tlv", Said(e))
      /\ ex.fault # "cut" /\ Len(b) <= Buffer => Complete(b)
  BY <1>1, <1>2, <1>3, BeforeTheClient
<1>5. e \in Telling
  BY <1>3, Tellings
<1>6. /\ Hears(items, e) /\ (verdict = "whole" /\ buf = b => Len(items) = Len(e))
  BY <1>3, <1>4, <1>5, HearsSaid
<1>7. TLVs(e) = b
  BY <1>3, <1>5, SaidShape
<1>8. Len(b) <= Buffer /\ Uncut => Len(items) = Len(e)
  BY <1>4, <1>6 DEF Uncut, Complete
<1> QED
  BY <1>3, <1>6, <1>7, <1>8

(* The items of a key have places. *)
LEMMA WithKeyPlaces ==
  ASSUME NEW its, NEW k
  PROVE  WithKey(its, k) \in SUBSET (1..Len(its))
BY DEF WithKey

(* Of a refusal the client learns the message. *)
LEMMA TakesRefusal ==
  ASSUME WireInv, ClientTakes, ex.op # "get", ex.refused
  PROVE  TakenIsTrue'
<1>1. PICK o, t : o = "failed" /\ t = FirstMessage(items)
  OBVIOUS
<1>2. ClientReads /\ method = "error" /\ ex.op # "discover"
  BY BeforeTheClient, ExShape DEF ClientTakes, WireInv, WireTypeOK
<1>3. Concludes(o, t)
  BY <1>1, <1>2 DEF ClientTakes
<1>4. Teller = <<Message>>
  BY DEF Teller
<1>5. PICK its : its = items
  OBVIOUS
<1>6. Hears(its, <<Message>>)
  BY <1>2, <1>4, <1>5, Heard
<1>7. t = First(its, WithKey(its, Message[1]))
  BY <1>1, <1>5 DEF FirstMessage
<1>8. Message \in Byte \X Seq(Byte)
  BY DeviceAssumption
<1>9. ToldBy(t, <<Message>>)
  <2>1. PICK places : places = WithKey(its, Message[1])
    OBVIOUS
  <2>2. places \in SUBSET (1..Len(its)) /\ t = First(its, places)
    BY <1>7, <2>1, WithKeyPlaces
  <2> QED
    BY <1>6, <1>8, <2>2, HeardOne DEF TheOne
<1>10. Truly(o, t)
  BY <1>1, <1>2, <1>9 DEF Truly
<1> QED
  BY <1>3, <1>10, Concluding

(* Of a discovery reply the client learns what the device said. *)
LEMMA TakesDiscovery ==
  ASSUME WireInv, ClientTakes, ex.op = "discover", ~ex.refused
  PROVE  TakenIsTrue'
<1>1. PICK o, t : o = "ok" /\ t = Latest(items, 1..Len(items))
  OBVIOUS
<1>2. ClientReads /\ method = "ok"
  BY BeforeTheClient DEF ClientTakes
<1>3. Concludes(o, t)
  BY <1>1, <1>2 DEF ClientTakes
<1>4. Teller = Discovery /\ Len(TLVs(Discovery)) <= Buffer
  BY RoomAssumption DEF Teller
<1>5. PICK its : its = items
  OBVIOUS
<1>6. Hears(its, Discovery) /\ (Uncut => Len(its) = Len(Discovery))
  BY <1>2, <1>4, <1>5, Heard
<1>7. ToldBy(t, Discovery) /\ Cardinality(DOMAIN t) = Len(its)
  <2>1. t = Latest(its, 1..Len(its))
    BY <1>1, <1>5
  <2>2. Discovery \in Telling /\ Distinct(Discovery)
    BY DeviceAssumption
  <2> QED
    BY <1>6, <2>1, <2>2, HeardIsTold
<1>8. Truly(o, t)
  BY <1>1, <1>2, <1>6, <1>7 DEF Truly
<1> QED
  BY <1>3, <1>8, Concluding

(* Of a get_ip reply the client learns the addresses the device said. *)
LEMMA TakesNetwork ==
  ASSUME WireInv, ClientTakes, ex.op = "get ip", ~ex.refused
  PROVE  TakenIsTrue'
<1>1. PICK o, t : o = "ok" /\ t = Addresses(items)
  OBVIOUS
<1>2. ClientReads /\ method = "ok"
  BY BeforeTheClient DEF ClientTakes
<1>3. Concludes(o, t)
  BY <1>1, <1>2 DEF ClientTakes
<1>4. Teller = Network /\ Len(TLVs(Network)) <= Buffer
  BY RoomAssumption DEF Teller
<1>5. PICK its : its = items
  OBVIOUS
<1>6. Hears(its, Network) /\ (Uncut => Len(its) = Len(Network))
  BY <1>2, <1>4, <1>5, Heard
<1>7. ToldBy(t, Network) /\ Cardinality(DOMAIN t) = Len(its)
  <2>1. /\ Network \in Telling /\ Distinct(Network)
        /\ \A i \in 1..Len(Network) : Len(Network[i][2]) = 4
    BY DeviceAssumption
  <2>2. Addresses(its) = Latest(its, 1..Len(its))
    BY <1>6, <2>1, HeardAddresses
  <2>3. t = Latest(its, 1..Len(its))
    BY <1>1, <1>5, <2>2
  <2> QED
    BY <1>6, <2>1, <2>3, HeardIsTold
<1>8. Truly(o, t)
  BY <1>1, <1>2, <1>6, <1>7 DEF Truly
<1> QED
  BY <1>3, <1>8, Concluding

\* A value cut to what a length byte can tell is longer than an identity.
LEMMA NoLongUUID ==
  ASSUME NEW v \in Seq(Byte), Len(Announced(v)) = UUIDSize
  PROVE  Len(v) = UUIDSize
<1>1. UUIDSize # Base - 1
  BY SizeAssumption, ByteAssumption
<1>2. ~(Len(v) < Base) => Len(Announced(v)) = Base - 1
  BY AnnouncedShape
<1>3. Len(v) < Base => Announced(v) = v
  BY AnnouncedShape
<1> QED
  BY <1>1, <1>2, <1>3

(* Of a get_uuid reply the client learns the UUID, and only one of the     *)
(* right length.                                                           *)
LEMMA TakesUUID ==
  ASSUME WireInv, ClientTakes, ex.op = "get uuid", ~ex.refused
  PROVE  TakenIsTrue'
<1>1. PICK t : t = FirstUUID(items)
  OBVIOUS
<1>2. PICK o : o = IF t = <<>> THEN "failed" ELSE "ok"
  OBVIOUS
<1>3. ClientReads /\ method = "ok"
  BY BeforeTheClient DEF ClientTakes
<1>4. Concludes(o, t)
  BY <1>1, <1>2, <1>3 DEF ClientTakes
<1>5. Teller = <<UUID>>
  BY DEF Teller
<1>6. PICK its : its = items
  OBVIOUS
<1>7. Hears(its, <<UUID>>)
  BY <1>3, <1>5, <1>6, Heard
<1>8. PICK places : places = {i \in WithKey(its, UUID[1]) : its[i].size = UUIDSize}
  OBVIOUS
<1>9. places \in SUBSET (1..Len(its)) /\ t = First(its, places)
  BY <1>1, <1>6, <1>8, WithKeyPlaces DEF FirstUUID
<1>10. UUID \in Byte \X Seq(Byte)
  BY DeviceAssumption
<1>11. /\ ToldBy(t, <<UUID>>) /\ (places = {} => t = <<>>)
       /\ places # {} => 1 \in places /\ its[1].size = Len(Announced(UUID[2]))
  <2>1. TheOne(t, UUID, its, places)
    BY <1>7, <1>9, <1>10, HeardOne
  <2> QED
    BY <2>1 DEF TheOne
<1>12. o = "ok" => Len(UUID[2]) = UUIDSize
  <2>1. SUFFICES ASSUME o = "ok"
                 PROVE  Len(UUID[2]) = UUIDSize
    OBVIOUS
  <2>2. places # {}
    BY <1>2, <1>11, <2>1
  <2>3. UUIDSize = Len(Announced(UUID[2]))
    BY <1>8, <1>11, <2>2
  <2>4. UUID[2] \in Seq(Byte)
    BY <1>10
  <2> QED
    BY <2>3, <2>4, NoLongUUID
<1>13. Truly(o, t)
  BY <1>2, <1>3, <1>11, <1>12 DEF Truly
<1> QED
  BY <1>4, <1>13, Concluding

(* Whatever was asked, what is learnt is true. *)
LEMMA Takes ==
  ASSUME WireInv, ClientTakes
  PROVE  TakenIsTrue'
<1>1. ClientReads
  BY DEF ClientTakes
<1>2. ex.op \in Operations /\ ex.refused \in BOOLEAN
  BY ExShape DEF WireInv, WireTypeOK
<1>3. CASE ex.op = "get"
  BY <1>3, TakesGet
<1>4. CASE ex.op # "get" /\ ex.refused
  BY <1>4, TakesRefusal
<1>5. CASE ex.op # "get" /\ ~ex.refused
  <2>1. ex.op \in {"discover", "get ip", "get uuid"}
    BY <1>1, <1>2, <1>5, BeforeTheClient DEF Operations
  <2> QED
    BY <1>5, <2>1, TakesDiscovery, TakesNetwork, TakesUUID
<1> QED
  BY <1>2, <1>3, <1>4, <1>5

-----------------------------------------------------------------------------
(* The device: a set comes to what was meant. *)

\* The device's memory once the texts at these offsets are in.
After(values, sent) ==
  [o \in DOMAIN Table |-> IF o \in sent THEN Meant(values[o], Table[o]) ELSE mem[o]]
Sent(named, n) == {Nth(named, i) : i \in 1..n}

\* The items of a set request, as many as came.
ItemsOfSet(its, values) ==
  /\ Len(its) \in 0..Cardinality(DOMAIN values)
  /\ \A i \in 1..Len(its) :
       its[i].key = Nth(DOMAIN values, i) /\
       its[i].value = Padded(values[Nth(DOMAIN values, i)], Table[Nth(DOMAIN values, i)])

(* Applied in their order, the items of a set leave the very texts that    *)
(* were sent.                                                              *)
LEMMA AppliedIs ==
  ASSUME NEW values, DOMAIN values \in SUBSET DOMAIN Table,
         \A o \in DOMAIN values : values[o] \in Seq(Byte) /\ FitsIn(values[o], Table[o]),
         NEW its, ItemsOfSet(its, values)
  PROVE  Applied(its) = After(values, Sent(DOMAIN values, Len(its)))
<1> DEFINE D == DOMAIN values
<1>1. PICK n : n = Len(its)
  OBVIOUS
<1>2. /\ Cardinality(D) \in Nat /\ \A i \in 1..Cardinality(D) : Nth(D, i) \in D
      /\ \A i, j \in 1..Cardinality(D) : Nth(D, i) = Nth(D, j) => i = j
  BY Offsets
<1>3. /\ n \in Nat /\ n <= Cardinality(D) /\ \A i \in 1..n : i \in 1..Cardinality(D)
  <2>1. n \in 0..Cardinality(D)
    BY <1>1 DEF ItemsOfSet
  <2> QED
    BY <1>2, <2>1
<1>4. \A i \in 1..n : its[i].key = Nth(D, i) /\ its[i].value = Padded(values[Nth(D, i)], Table[Nth(D, i)])
  BY <1>1 DEF ItemsOfSet
<1>5. Apart(its)
  BY <1>1, <1>2, <1>3, <1>4 DEF Apart
<1>6. ASSUME NEW o \in DOMAIN Table
      PROVE  (IF WithKey(its, o) = {} THEN mem[o] ELSE Text(its[Max(WithKey(its, o))].value))
               = IF o \in Sent(D, n) THEN Meant(values[o], Table[o]) ELSE mem[o]
  <2>1. CASE o \in Sent(D, n)
    <3>1. PICK i \in 1..n : o = Nth(D, i)
      BY <2>1 DEF Sent
    <3>2. its[i].key = o /\ its[i].value = Padded(values[o], Table[o]) /\ o \in D
      BY <1>2, <1>3, <1>4, <3>1
    <3>3. i \in 1..Len(its) /\ Len(its) \in Nat
      BY <1>1, <1>3
    <3>4. WithKey(its, o) = {i} /\ Max({i}) = i
      BY <1>5, <3>2, <3>3, KeyPlaces
    <3>5. Table[o] \in Nat
      BY TableAssumption, ByteAssumption DEF Word
    <3>6. Text(Padded(values[o], Table[o])) = Meant(values[o], Table[o])
      <4>1. values[o] \in Seq(Byte) /\ FitsIn(values[o], Table[o])
        BY <3>2
      <4> QED
        BY <3>5, <4>1, TextOfPadded
    <3>7. {i} # {}
      OBVIOUS
    <3> QED
      BY <2>1, <3>2, <3>4, <3>6, <3>7
  <2>2. CASE o \notin Sent(D, n)
    <3>1. WithKey(its, o) = {}
      BY <1>1, <1>4, <2>2 DEF WithKey, Sent
    <3> QED
      BY <2>2, <3>1
  <2> QED
    BY <2>1, <2>2
<1> QED
  BY <1>1, <1>6 DEF Applied, After

\* What a set request that was read comes to.
LEMMA SetComesTo ==
  ASSUME WireInv, DeviceSets
  PROVE  \E n \in 0..Cardinality(DOMAIN ex.values) :
           /\ n = Cardinality(DOMAIN ex.values) \/ ex.stranger
           /\ mem' = After(ex.values, Sent(DOMAIN ex.values, n))
           /\ ex.fault = "none" => buf' = Bytes16(n)
           /\ mem' \in [DOMAIN Table -> Seq(Byte)]
<1>1. /\ step = "device" /\ ex.op = "set" /\ ~ex.refused /\ verdict \in {"whole", "cut"}
      /\ mem' = Applied(items) /\ Answers("ok", Bytes16(Len(items)), "get reply")
  BY DEF DeviceSets, DeviceReads
<1>2. PICK values, its : values = ex.values /\ its = items
  OBVIOUS
<1>3. /\ DOMAIN values \in SUBSET DOMAIN Table
      /\ \A o \in DOMAIN values : values[o] \in Seq(Byte) /\ FitsIn(values[o], Table[o])
      /\ mem \in [DOMAIN Table -> Seq(Byte)] /\ ex.stranger \in BOOLEAN
  BY <1>2, ExShape DEF WireInv, WireTypeOK
<1>4. PICK s, b : s = SetRequest(values) /\ b = Payload("set request", s)
  OBVIOUS
<1>5. AskedForm = "set request" /\ AskedFor = s
  BY <1>1, <1>2, <1>4 DEF AskedForm, AskedFor
<1>6. ReadOf("set request", s) /\ (~ex.stranger => Complete(b))
  BY <1>1, <1>4, <1>5 DEF WireInv, RequestPart
<1>7. /\ Len(s) = Cardinality(DOMAIN values)
      /\ \A i \in 1..Cardinality(DOMAIN values) :
           /\ s[i].key = Nth(DOMAIN values, i)
           /\ s[i].value = Padded(values[Nth(DOMAIN values, i)], Table[Nth(DOMAIN values, i)])
  BY <1>3, <1>4, SetRequestLists
<1>8. /\ Len(its) \in 0..Len(s) /\ Len(s) \in Nat
      /\ \A i \in 1..Len(its) : its[i].key = s[i].key /\ its[i].value = s[i].value
      /\ verdict = "whole" => Len(its) = Len(s)
  <2>1. Counted("set request")
    BY DEF Counted
  <2> QED
    BY <1>2, <1>4, <1>6, <2>1, ReadSoFar
<1>9. PICK n : n = Len(its)
  OBVIOUS
<1>10. n \in 0..Cardinality(DOMAIN values) /\ n \in Nat
  BY <1>7, <1>8, <1>9
<1>11. n = Cardinality(DOMAIN values) \/ ex.stranger
  BY <1>1, <1>6, <1>7, <1>8, <1>9 DEF Complete
<1>12. ItemsOfSet(its, values)
  <2>1. \A i \in 1..Len(its) : i \in 1..Cardinality(DOMAIN values)
    BY <1>7, <1>8
  <2> QED
    BY <1>7, <1>8, <2>1 DEF ItemsOfSet
<1>13. mem' = After(values, Sent(DOMAIN values, n))
  <2>1. Applied(its) = After(values, Sent(DOMAIN values, Len(its)))
    BY <1>3, <1>12, AppliedIs
  <2> QED
    BY <1>1, <1>2, <1>9, <2>1
<1>14. mem' \in [DOMAIN Table -> Seq(Byte)]
  <2>1. \A i \in 1..n : Nth(DOMAIN values, i) \in DOMAIN values
    <3>1. \A i \in 1..Cardinality(DOMAIN values) : Nth(DOMAIN values, i) \in DOMAIN values
      BY <1>3, Offsets
    <3> QED
      BY <1>7, <1>8, <1>9, <3>1
  <2>2. Sent(DOMAIN values, n) \in SUBSET DOMAIN values
    BY <2>1 DEF Sent
  <2>3. ASSUME NEW o \in DOMAIN values
        PROVE  Meant(values[o], Table[o]) \in Seq(Byte)
    <3>1. o \in DOMAIN Table /\ values[o] \in Seq(Byte) /\ FitsIn(values[o], Table[o])
      BY <1>3
    <3>2. Table[o] \in Nat
      BY <3>1, TableAssumption, ByteAssumption DEF Word
    <3> QED
      BY <3>1, <3>2, TextOfPadded
  <2>4. \A o \in DOMAIN Table :
          (IF o \in Sent(DOMAIN values, n) THEN Meant(values[o], Table[o]) ELSE mem[o]) \in Seq(Byte)
    BY <1>3, <2>2, <2>3
  <2> QED
    BY <1>13, <2>4 DEF After
<1>15. ex.fault = "none" => buf' = Bytes16(n)
  <2>1. SUFFICES ASSUME ex.fault = "none"
                 PROVE  buf' = Bytes16(n)
    OBVIOUS
  <2>2. PICK w : w = Bytes16(n)
    OBVIOUS
  <2>3. w \in Seq(Byte) /\ Len(w) = 2
    BY <1>10, <2>2, WordBytes
  <2>4. Answers("ok", w, "get reply")
    BY <1>1, <1>2, <1>9, <2>2
  <2>5. PICK k \in 0..Len(w) : /\ ReadFrom(SubSeq(w, 1, k), "get reply")
                               /\ ex.fault # "cut" /\ Len(w) <= Buffer => k = Len(w)
    BY <2>3, <2>4, AnswerArrives
  <2>6. k = Len(w)
    <3>1. ex.fault # "cut"
      BY <2>1
    <3>2. Len(w) <= Buffer
      BY <2>3, SizeAssumption
    <3> QED
      BY <2>5, <3>1, <3>2
  <2>7. SubSeq(w, 1, k) = w
    BY <2>3, <2>6, PrefixShape
  <2> QED
    BY <2>2, <2>5, <2>7 DEF ReadFrom
<1> QED
  BY <1>2, <1>10, <1>11, <1>13, <1>14, <1>15

-----------------------------------------------------------------------------
(* Every step keeps the invariant. *)

(* Before anything is sent. *)
LEMMA WireStarts ==
  ASSUME Init
  PROVE  WireInv
<1>1. ReaderInv
  <2>1. buf \in Seq(Byte) /\ ReaderInit
    BY DEF Init, ReaderInit, Forms
  <2> QED
    BY <2>1, ReaderStarts
<1>2. WireTypeOK
  BY TableAssumption DEF Init, WireTypeOK
<1>3. RequestPart /\ ReplyPart /\ TakenIsTrue
  BY DEF Init, RequestPart, ReplyPart, TakenIsTrue
<1> QED
  BY <1>1, <1>2, <1>3 DEF WireInv

\* Once the request is read, or before it is sent, nothing is said of it.
LEMMA AsksKeeps ==
  ASSUME WireInv, Asks
  PROVE  WireInv'
<1>1. /\ step' = "device" /\ UNCHANGED <<ex, mem, method, outcome, taken>>
  BY DEF Asks
<1>2. PICK f, b : f = AskedForm /\ b = Request
  OBVIOUS
<1>3. PICK n \in 0..Len(b) : (n = Len(b) \/ ex.stranger) /\ ReadFrom(SubSeq(b, 1, n), f)
  BY <1>2 DEF Asks, AskedForm
<1>4. f \in Forms /\ Listable(f, AskedFor)
  BY <1>2, AskedShape DEF WireInv
<1>5. ex.op \in {"get", "set"} => b = Payload(f, AskedFor)
  BY <1>2 DEF Request, AskedForm, AskedFor
<1>6. b \in Seq(Byte)
  <2>1. CASE ex.op \in {"get", "set"}
    <3>1. PICK e : e = AskedFor
      OBVIOUS
    <3>2. b = Payload(f, e) /\ f \in Forms /\ Listable(f, e)
      BY <1>4, <1>5, <2>1, <3>1
    <3>3. PICK at : Lists(f, e, Payload(f, e), at)
      BY <3>2, PayloadLists
    <3>4. Payload(f, e) \in Seq(Byte)
      BY <3>3 DEF Lists
    <3> QED
      BY <3>2, <3>4
  <2>2. CASE ex.op \notin {"get", "set"}
    <3>1. b = <<>>
      BY <1>2, <2>2 DEF Request
    <3>2. <<>> \in Seq(Byte)
      OBVIOUS
    <3> QED
      BY <3>1, <3>2
  <2> QED
    BY <2>1, <2>2
<1>7. ReaderInv'
  <2>1. SubSeq(b, 1, n) \in Seq(Byte)
    BY <1>6, PrefixShape
  <2> QED
    BY <1>3, <1>4, <2>1, ReadFromStarts
<1>8. WireTypeOK'
  BY <1>1 DEF WireInv, WireTypeOK
<1>9. RequestPart'
  <2>1. SUFFICES ASSUME ex.op \in {"get", "set"}
                 PROVE  (/\ ReadOf(AskedForm, AskedFor)
                         /\ ~ex.stranger => Complete(Payload(AskedForm, AskedFor)))'
    BY <1>1 DEF RequestPart
  <2>2. PICK e : e = AskedFor
    OBVIOUS
  <2>3. AskedForm' = f /\ AskedFor' = e
    BY <1>1, <1>2, <2>2 DEF AskedForm, AskedFor
  <2>4. b = Payload(f, e) /\ Listable(f, e)
    BY <1>4, <1>5, <2>1, <2>2
  <2>5. ReadOf(f, e)' /\ (n = Len(b) => Complete(b)')
    BY <1>3, <1>4, <2>4, SentIsRead
  <2>6. ~ex'.stranger => n = Len(b)
    BY <1>1, <1>3
  <2>7. ReadOf(AskedForm, AskedFor)'
    BY <2>3, <2>5 DEF ReadOf, Reading
  <2>8. ~ex'.stranger => Complete(Payload(AskedForm, AskedFor))'
    BY <2>3, <2>4, <2>5, <2>6 DEF Complete
  <2> QED
    BY <2>7, <2>8
<1>10. ReplyPart' /\ TakenIsTrue'
  BY <1>1 DEF ReplyPart, TakenIsTrue
<1> QED
  BY <1>7, <1>8, <1>9, <1>10 DEF WireInv

\* Reading changes nothing else, and goes on with the same payload.
LEMMA ReadingKeeps ==
  ASSUME WireInv, [ReaderNext]_reader, UNCHANGED exchange
  PROVE  WireTypeOK' /\ ReaderInv' /\ RequestPart' /\ ReplyPart'
<1>1. UNCHANGED <<ex, step, mem, method, outcome, taken>>
  BY DEF exchange
<1>2. ReaderInv'
  BY ReaderKeeps DEF WireInv
<1>3. WireTypeOK'
  BY <1>1 DEF WireInv, WireTypeOK
<1>4. AskedForm' = AskedForm /\ AskedFor' = AskedFor
  BY <1>1 DEF AskedForm, AskedFor
<1>5. OwedForm' = OwedForm /\ Owed' = Owed /\ (Broken' <=> Broken)
  BY <1>1 DEF OwedForm, Owed, Held, Teller, GetAnswered, Broken
<1>6. ASSUME NEW f, NEW e, ReadOf(f, e)
      PROVE  ReadOf(f, e)' /\ (Complete(Payload(f, e)) => Complete(Payload(f, e))')
  <2>1. PICK b : b = Payload(f, e)
    OBVIOUS
  <2>2. ReadOf(f, e)' /\ (Complete(b) => Complete(b)')
    BY <1>6, <2>1, ReadsOn
  <2> QED
    BY <2>1, <2>2
<1>7. RequestPart'
  <2>1. SUFFICES ASSUME step = "device", ex.op \in {"get", "set"}
                 PROVE  (/\ ReadOf(AskedForm, AskedFor)
                         /\ ~ex.stranger => Complete(Payload(AskedForm, AskedFor)))'
    BY <1>1 DEF RequestPart
  <2>2. PICK f, e : f = AskedForm /\ e = AskedFor
    OBVIOUS
  <2>3. ReadOf(f, e) /\ (~ex.stranger => Complete(Payload(f, e)))
    BY <2>1, <2>2 DEF WireInv, RequestPart
  <2>4. ReadOf(f, e)' /\ (~ex.stranger => Complete(Payload(f, e))')
    BY <1>6, <2>3
  <2>5. AskedForm' = f /\ AskedFor' = e
    BY <1>4, <2>2
  <2> QED
    BY <1>1, <2>4, <2>5 DEF ReadOf, Reading, Complete
<1>8. ReplyPart'
  <2>1. SUFFICES ASSUME step = "client"
                 PROVE  ReplyPart'
    BY <1>1 DEF ReplyPart
  <2>2. PICK f, e : f = OwedForm /\ e = Owed
    OBVIOUS
  <2>3. OwedForm' = f /\ Owed' = e
    BY <1>5, <2>2
  <2>4. buf' = buf /\ form' = form
    BY ReaderLeaves
  <2>5. /\ ~ex.stranger /\ method \in {"ok", "error", "unknown"}
        /\ method = "error" <=> ex.refused
        /\ method = "unknown" => ex.op = "get" /\ ex.fault = "unknown method"
    BY <2>1 DEF WireInv, ReplyPart
  <2>6. ~(ex.op = "set" /\ ~ex.refused) /\ Broken => Unreadable(buf)'
    BY <2>1, <2>4 DEF WireInv, ReplyPart, Unreadable
  <2>7. ~(ex.op = "set" /\ ~ex.refused) /\ ~Broken =>
          /\ ReadOf(f, e)'
          /\ ex.fault # "cut" /\ Len(Payload(f, e)) <= Buffer => Complete(Payload(f, e))'
    <3>1. ~(ex.op = "set" /\ ~ex.refused) /\ ~Broken =>
            /\ ReadOf(f, e)
            /\ ex.fault # "cut" /\ Len(Payload(f, e)) <= Buffer => Complete(Payload(f, e))
      BY <2>1, <2>2 DEF WireInv, ReplyPart
    <3> QED
      BY <1>6, <3>1
  <2>8. ~(ex'.op = "set" /\ ~ex'.refused) =>
          IF Broken' THEN Unreadable(buf)'
          ELSE /\ ReadOf(OwedForm, Owed)'
               /\ ex'.fault # "cut" /\ Len(Payload(OwedForm', Owed')) <= Buffer =>
                    Complete(Payload(OwedForm, Owed))'
    BY <1>1, <1>5, <2>3, <2>6, <2>7 DEF ReadOf, Reading, Complete
  <2> QED
    BY <1>1, <2>5, <2>8 DEF ReplyPart
<1> QED
  BY <1>2, <1>3, <1>7, <1>8

\* Whatever a device answers, its request is behind it and the client's call is not over.
LEMMA AnswerMovesOn ==
  ASSUME WireTypeOK, NEW m, NEW b, NEW f, Answers(m, b, f), mem' \in [DOMAIN Table -> Seq(Byte)]
  PROVE  WireTypeOK' /\ RequestPart' /\ TakenIsTrue'
<1>1. /\ method' = m /\ UNCHANGED <<ex, outcome, taken>>
      /\ step' = IF ex.stranger THEN "over" ELSE "client"
  BY DEF Answers
<1>2. WireTypeOK'
  BY <1>1 DEF WireTypeOK
<1>3. RequestPart'
  BY <1>1 DEF RequestPart
<1>4. TakenIsTrue'
  BY <1>1 DEF TakenIsTrue
<1> QED
  BY <1>2, <1>3, <1>4

\* A reply that lists what is owed is read as what is owed.
LEMMA AnswerIsOwed ==
  ASSUME WireTypeOK, mem' = mem, NEW m, NEW b, b = Payload(OwedForm, Owed), Answers(m, b, OwedForm)
  PROVE  /\ ReaderInv' /\ ReadOf(OwedForm, Owed)'
         /\ ex'.fault # "cut" /\ Len(Payload(OwedForm', Owed')) <= Buffer =>
              Complete(Payload(OwedForm, Owed))'
<1>1. UNCHANGED ex
  BY DEF Answers
<1>2. OwedForm' = OwedForm /\ Owed' = Owed
  BY <1>1 DEF OwedForm, Owed, Held, Teller, GetAnswered
<1>3. PICK f, e : f = OwedForm /\ e = Owed
  OBVIOUS
<1>4. f \in Forms /\ Listable(f, e) /\ b = Payload(f, e) /\ Answers(m, b, f)
  BY <1>3, OwedShape
<1>5. /\ b \in Seq(Byte) /\ ReadOf(f, e)'
      /\ ex.fault # "cut" /\ Len(b) <= Buffer => Complete(b)'
  BY <1>4, AnswerIsRead
<1>6. ReaderInv'
  BY <1>4, <1>5, AnswerKeepsReader
<1>7. OwedForm' = f /\ Owed' = e
  BY <1>2, <1>3
<1>8. ReadOf(OwedForm, Owed)'
  BY <1>5, <1>7 DEF ReadOf, Reading
<1>9. ex'.fault # "cut" /\ Len(Payload(OwedForm', Owed')) <= Buffer =>
        Complete(Payload(OwedForm, Owed))'
  BY <1>1, <1>4, <1>5, <1>7 DEF Complete
<1> QED
  BY <1>6, <1>8, <1>9

\* What the client finds when a reply that lists what is owed has arrived.
LEMMA OwedArrives ==
  ASSUME WireTypeOK, mem' = mem, NEW m, NEW b, b = Payload(OwedForm, Owed), Answers(m, b, OwedForm),
         m \in {"ok", "error", "unknown"}, m = "error" <=> ex.refused,
         m = "unknown" => ex.op = "get" /\ ex.fault = "unknown method", ~Broken
  PROVE  ReaderInv' /\ ReplyPart'
<1>1. /\ method' = m /\ UNCHANGED ex
      /\ step' = IF ex.stranger THEN "over" ELSE "client"
  BY DEF Answers
<1>2. ~Broken'
  BY <1>1 DEF Broken, GetAnswered
<1>3. /\ ReaderInv' /\ ReadOf(OwedForm, Owed)'
      /\ ex'.fault # "cut" /\ Len(Payload(OwedForm', Owed')) <= Buffer =>
           Complete(Payload(OwedForm, Owed))'
  BY AnswerIsOwed
<1>4. ReplyPart'
  BY <1>1, <1>2, <1>3 DEF ReplyPart
<1> QED
  BY <1>3, <1>4

(* A refusal tells the message. *)
LEMMA DeviceRefusesKeeps ==
  ASSUME WireInv, DeviceRefuses
  PROVE  WireInv'
<1>1. ex.refused /\ mem' = mem
  BY DEF DeviceRefuses
<1>2. OwedForm = "tlv" /\ Owed = Said(<<Message>>) /\ ~Broken
  BY <1>1 DEF OwedForm, Owed, GetAnswered, Teller, Broken
<1>3. TLVs(<<Message>>) = Payload("tlv", Said(<<Message>>))
  BY Tellings, SaidShape
<1>4. PICK b : b = TLVs(<<Message>>)
  OBVIOUS
<1>5. b = Payload(OwedForm, Owed) /\ Answers("error", b, OwedForm)
  BY <1>2, <1>3, <1>4 DEF DeviceRefuses
<1>6. WireTypeOK
  BY DEF WireInv
<1>7. ReaderInv' /\ ReplyPart'
  BY <1>1, <1>2, <1>5, <1>6, OwedArrives
<1>8. mem' \in [DOMAIN Table -> Seq(Byte)]
  BY <1>1, <1>6 DEF WireTypeOK
<1>9. WireTypeOK' /\ RequestPart' /\ TakenIsTrue'
  BY <1>5, <1>6, <1>8, AnswerMovesOn
<1> QED
  BY <1>7, <1>9 DEF WireInv

(* Asked for itself, the device tells what it owes. *)
LEMMA DeviceTellsKeeps ==
  ASSUME WireInv, DeviceTells
  PROVE  WireInv'
<1>1. ~ex.refused /\ mem' = mem /\ ex.op \notin {"get", "set"}
  BY DEF DeviceTells
<1>2. OwedForm = "tlv" /\ Owed = Said(Teller) /\ ~Broken
  BY <1>1 DEF OwedForm, Owed, GetAnswered, Broken
<1>3. TLVs(Teller) = Payload("tlv", Said(Teller))
  BY Tellings, SaidShape
<1>4. PICK b : b = TLVs(Teller)
  OBVIOUS
<1>5. b = CASE ex.op = "discover" -> TLVs(Discovery)
            [] ex.op = "get ip"   -> TLVs(Network)
            [] OTHER              -> TLVs(<<UUID>>)
  BY <1>1, <1>4 DEF Teller
<1>6. b = Payload(OwedForm, Owed) /\ Answers("ok", b, OwedForm)
  BY <1>2, <1>3, <1>4, <1>5 DEF DeviceTells
<1>7. WireTypeOK
  BY DEF WireInv
<1>8. ReaderInv' /\ ReplyPart'
  BY <1>1, <1>2, <1>6, <1>7, OwedArrives
<1>9. mem' \in [DOMAIN Table -> Seq(Byte)]
  BY <1>1, <1>7 DEF WireTypeOK
<1>10. WireTypeOK' /\ RequestPart' /\ TakenIsTrue'
  BY <1>6, <1>7, <1>9, AnswerMovesOn
<1> QED
  BY <1>8, <1>10 DEF WireInv

(* The acknowledgement of a set is read by nobody. *)
LEMMA DeviceSetsKeeps ==
  ASSUME WireInv, DeviceSets
  PROVE  WireInv'
<1>1. step = "device" /\ ex.op = "set" /\ ~ex.refused
  BY DEF DeviceSets, DeviceReads
<1>2. PICK b : b = Bytes16(Len(items))
  OBVIOUS
<1>3. Answers("ok", b, "get reply")
  BY <1>2 DEF DeviceSets
<1>4. WireTypeOK /\ ReaderInv
  BY DEF WireInv
<1>5. b \in Seq(Byte)
  <2>1. items \in Seq(Item)
    BY <1>4 DEF ReaderInv, ReaderTypeOK
  <2>2. Len(items) \in Nat
    BY <2>1
  <2> QED
    BY <1>2, <2>2, WordBytes
<1>6. ReaderInv'
  BY <1>3, <1>5, AnswerKeepsReader DEF Forms
<1>7. mem' \in [DOMAIN Table -> Seq(Byte)]
  BY SetComesTo
<1>8. WireTypeOK' /\ RequestPart' /\ TakenIsTrue'
  BY <1>3, <1>4, <1>7, AnswerMovesOn
<1>9. ReplyPart'
  BY <1>1, <1>3 DEF Answers, ReplyPart
<1> QED
  BY <1>6, <1>8, <1>9 DEF WireInv

\* A function on 1..k is a list of its values.
LEMMA ListOf ==
  ASSUME NEW k \in Nat, NEW h, NEW T, h = [i \in 1..k |-> h[i]], \A i \in 1..k : h[i] \in T
  PROVE  h \in Seq(T) /\ Len(h) = k
OBVIOUS

\* The items of a request read so far are the parameters it asks for.
ItemsOfGet(its, asked) ==
  /\ Len(its) \in 0..Cardinality(asked)
  /\ \A i \in 1..Len(its) : its[i].key = Nth(asked, i) /\ its[i].size = Table[Nth(asked, i)]

\* The values of the parameters of a request that arrived, cut anywhere, can be sent.
LEMMA AnyReplyLists ==
  ASSUME NEW asked \in SUBSET DOMAIN Table, mem \in [DOMAIN Table -> Seq(Byte)],
         NEW its, ItemsOfGet(its, asked)
  PROVE  Listable("get reply", GetReply(its))
<1>1. PICK n, m, k : /\ n = Cardinality(asked) /\ m = Cardinality(DOMAIN Unknown)
                     /\ k = Len(its)
  OBVIOUS
<1>2. n \in Nat /\ m \in Nat /\ n + m \in Word /\ k \in 0..n
  BY <1>1, SizesApart DEF ItemsOfGet
<1>3. PICK h, a, g : /\ h = [i \in 1..k |-> Entry(its[i].key, Padded(mem[its[i].key], its[i].size))]
                     /\ a = Added /\ g = h \o a
  OBVIOUS
<1>4. GetReply(its) = g
  BY <1>1, <1>3 DEF GetReply, Added
<1>5. ASSUME NEW i \in 1..k
      PROVE  OnWire("get reply", h[i])
  <2>1. i \in 1..Cardinality(asked)
    BY <1>1, <1>2
  <2>2. h[i] = Entry(Nth(asked, i), Padded(mem[Nth(asked, i)], Table[Nth(asked, i)]))
    BY <1>1, <1>3 DEF ItemsOfGet
  <2>3. h[i] = Held(asked)[i]
    BY <2>1, <2>2 DEF Held
  <2>4. OnWire("get reply", Held(asked)[i])
    BY <2>1, HeldShape
  <2> QED
    BY <2>3, <2>4
<1> DEFINE T == {h[i] : i \in 1..k} \cup {a[i] : i \in 1..m}
<1>6. h \in Seq(T) /\ Len(h) = k
  <2>1. h = [i \in 1..k |-> h[i]] /\ \A i \in 1..k : h[i] \in T
    BY <1>3
  <2> HIDE DEF T
  <2> QED
    BY <1>2, <2>1, ListOf
<1>7. a \in Seq(T) /\ Len(a) = m
  <2>1. a = [i \in 1..m |-> a[i]]
    BY <1>1, <1>3 DEF Added
  <2>2. \A i \in 1..m : a[i] \in T
    OBVIOUS
  <2> HIDE DEF T
  <2> QED
    BY <1>2, <2>1, <2>2, ListOf
<1>71. \A i \in 1..m : OnWire("get reply", a[i])
  <2>1. \A i \in 1..Cardinality(DOMAIN Unknown) : OnWire("get reply", Added[i])
    BY AddedShape
  <2> QED
    BY <1>1, <1>3, <2>1
<1>8. /\ Len(g) = k + m /\ \A i \in 1..k : g[i] = h[i]
      /\ \A i \in 1..m : g[k + i] = a[i]
  <2> HIDE DEF T
  <2>1. g = h \o a
    BY <1>3
  <2>2. k \in Nat /\ m \in Nat
    BY <1>2
  <2>3. h \in Seq(T) /\ Len(h) = k /\ a \in Seq(T) /\ Len(a) = m
    BY <1>6, <1>7
  <2>4. /\ Begins(h, h \o a) /\ Len(h \o a) = Len(h) + Len(a)
        /\ \A p \in 1..Len(a) : (h \o a)[Len(h) + p] = a[p]
    BY <2>3, Joined
  <2>5. \A p \in 1..Len(h) : g[p] = h[p]
    BY <2>1, <2>4 DEF Begins
  <2>6. Len(g) = k + m /\ \A i \in 1..m : g[k + i] = a[i]
    BY <2>1, <2>3, <2>4
  <2> QED
    BY <2>3, <2>5, <2>6
<1>9. \A i \in 1..Len(g) : OnWire("get reply", g[i])
  <2>1. ASSUME NEW i \in 1..(k + m), i > k
        PROVE  OnWire("get reply", g[i])
    <3>1. PICK j : j = i - k
      OBVIOUS
    <3>2. j \in 1..m /\ i = k + j
      BY <1>2, <2>1, <3>1
    <3> QED
      BY <1>71, <1>8, <3>2
  <2>2. \A i \in 1..(k + m) : i > k \/ i \in 1..k
    BY <1>2
  <2> QED
    BY <1>5, <1>8, <2>1, <2>2
<1>10. Len(g) \in Nat /\ Len(g) \in Word
  <2>1. Len(g) = k + m
    BY <1>8
  <2> QED
    BY <1>2, <2>1, ByteAssumption DEF Word
<1> QED
  BY <1>4, <1>9, <1>10 DEF Listable

(* A device that has read a get knows what was asked, all of it if the     *)
(* client sent it.                                                         *)
LEMMA DeviceKnows ==
  ASSUME WireInv, step = "device", ex.op = "get", verdict \in {"whole", "cut"}
  PROVE  /\ ItemsOfGet(items, ex.asked)
         /\ ex.stranger \/ Len(items) = Cardinality(ex.asked)
<1>1. ex.asked \in SUBSET DOMAIN Table
  BY ExShape DEF WireInv, WireTypeOK
<1>2. PICK r, b : r = GetRequest(ex.asked) /\ b = Payload("get request", r)
  OBVIOUS
<1>3. /\ Len(r) = Cardinality(ex.asked)
      /\ \A i \in 1..Cardinality(ex.asked) :
           r[i].key = Nth(ex.asked, i) /\ r[i].size = Table[Nth(ex.asked, i)]
  BY <1>1, <1>2, GetRequestLists
<1>4. ReadOf("get request", r) /\ (~ex.stranger => Complete(b))
  <2>1. AskedForm = "get request" /\ AskedFor = r
    BY <1>2 DEF AskedForm, AskedFor
  <2> QED
    BY <1>2, <2>1 DEF WireInv, RequestPart
<1>5. /\ Len(items) \in 0..Len(r) /\ Len(r) \in Nat
      /\ \A i \in 1..Len(items) :
           items[i].key = r[i].key /\ items[i].size = r[i].size
      /\ verdict = "whole" /\ buf = b => Len(items) = Len(r)
  BY <1>2, <1>4, ReadSoFar
<1>6. ItemsOfGet(items, ex.asked)
  BY <1>3, <1>5 DEF ItemsOfGet
<1>7. ex.stranger \/ Len(items) = Cardinality(ex.asked)
  BY <1>3, <1>4, <1>5 DEF Complete
<1> QED
  BY <1>6, <1>7

(* Asked for parameters, the device answers what it owes, or what cannot   *)
(* be read.                                                                *)
LEMMA DeviceGetsKeeps ==
  ASSUME WireInv, DeviceGets
  PROVE  WireInv'
<1>1. /\ ex.op = "get" /\ ~ex.refused /\ step = "device" /\ mem' = mem
      /\ verdict \in {"whole", "cut"}
  BY DEF DeviceGets, DeviceReads
<1>2. PICK m, b : /\ m = IF ex.fault = "unknown method" THEN "unknown" ELSE "ok"
                  /\ b = FaultyGetReply(items)
  OBVIOUS
<1>3. Answers(m, b, "get reply")
  BY <1>2 DEF DeviceGets
<1>4. WireTypeOK /\ ex.asked \in SUBSET DOMAIN Table /\ mem \in [DOMAIN Table -> Seq(Byte)]
  BY ExShape DEF WireInv, WireTypeOK
<1>5. GetAnswered /\ OwedForm = "get reply" /\ Owed = Held(ex.asked) \o Added
  BY <1>1 DEF GetAnswered, OwedForm, Owed
<1>6. ReaderInv' /\ ReplyPart'
  <2>1. CASE Broken
    <3>1. ex.fault \in {"oversized count", "length exceeds payload"}
      BY <2>1 DEF Broken
    <3>2. m = "ok"
      <4>1. ex.fault # "unknown method"
        BY <3>1
      <4> QED
        BY <1>2, <4>1
    <3>3. ReaderInv' /\ Unreadable(buf)'
      <4>1. PICK s : s = items
        OBVIOUS
      <4>2. b = FaultyGetReply(s)
        BY <1>2, <4>1
      <4> QED
        BY <1>3, <3>1, <4>2, BrokenIsUnreadable
    <3>4. UNCHANGED ex /\ method' = "ok" /\ step' = IF ex.stranger THEN "over" ELSE "client"
      BY <1>3, <3>2 DEF Answers
    <3>5. Broken'
      BY <2>1, <3>4 DEF Broken, GetAnswered
    <3> QED
      BY <1>1, <3>3, <3>4, <3>5 DEF ReplyPart
  <2>2. CASE ~Broken
    <3>1. b = Payload("get reply", GetReply(items))
      BY <1>2, <1>5, <2>2 DEF Broken, FaultyGetReply
    <3>2. /\ ItemsOfGet(items, ex.asked)
          /\ ex.stranger \/ Len(items) = Cardinality(ex.asked)
      BY <1>1, DeviceKnows
    <3>3. CASE ex.stranger
      <4>1. PICK s : s = items
        OBVIOUS
      <4>2. Listable("get reply", GetReply(items))
        <5>1. ItemsOfGet(s, ex.asked)
          BY <3>2, <4>1
        <5> QED
          BY <1>4, <4>1, <5>1, AnyReplyLists
      <4>3. PICK e : e = GetReply(items)
        OBVIOUS
      <4>4. b = Payload("get reply", e) /\ Listable("get reply", e)
        BY <3>1, <4>2, <4>3
      <4>5. b \in Seq(Byte)
        BY <1>3, <4>4, AnswerIsRead DEF Forms
      <4>6. ReaderInv'
        BY <1>3, <4>5, AnswerKeepsReader DEF Forms
      <4>7. step' = "over"
        BY <1>3, <3>3 DEF Answers
      <4> QED
        BY <4>6, <4>7 DEF ReplyPart
    <3>4. CASE ~ex.stranger
      <4>1. GetReply(items) = Held(ex.asked) \o Added
        BY <1>4, <3>2, <3>4, ReplyParts DEF ItemsOfGet
      <4>2. b = Payload(OwedForm, Owed) /\ Answers(m, b, OwedForm)
        BY <1>3, <1>5, <3>1, <4>1
      <4>3. /\ m \in {"ok", "error", "unknown"} /\ m # "error"
            /\ m = "unknown" => ex.op = "get" /\ ex.fault = "unknown method"
        BY <1>1, <1>2
      <4> QED
        BY <1>1, <1>4, <2>2, <4>2, <4>3, OwedArrives
    <3> QED
      BY <3>3, <3>4
  <2> QED
    BY <2>1, <2>2
<1>7. mem' \in [DOMAIN Table -> Seq(Byte)]
  BY <1>1, <1>4
<1>8. WireTypeOK' /\ RequestPart' /\ TakenIsTrue'
  BY <1>3, <1>4, <1>7, AnswerMovesOn
<1> QED
  BY <1>6, <1>8 DEF WireInv

-----------------------------------------------------------------------------
(* Together. *)

\* When the call returns, only what it returns changes.
LEMMA ConcludingKeeps ==
  ASSUME WireInv, NEW o, NEW t, Concludes(o, t)
  PROVE  WireTypeOK' /\ ReaderInv' /\ RequestPart' /\ ReplyPart'
<1>1. /\ step' = "over" /\ ex' = ex /\ mem' = mem
      /\ UNCHANGED <<buf, form, pos, left, items, verdict>>
  BY DEF Concludes, reader
<1>2. WireTypeOK'
  BY <1>1 DEF WireInv, WireTypeOK
<1>3. ReaderInv'
  BY <1>1, ReaderKeeps DEF WireInv, reader
<1>4. RequestPart' /\ ReplyPart'
  BY <1>1 DEF RequestPart, ReplyPart
<1> QED
  BY <1>2, <1>3, <1>4

(* However the call returns, what it says is true. *)
LEMMA ClientKeeps ==
  ASSUME WireInv, ClientKnowsAtOnce \/ ClientRefuses \/ ClientTakes
  PROVE  WireInv'
<1>1. \E o, t : Concludes(o, t)
  <2>1. CASE ClientKnowsAtOnce
    BY <2>1 DEF ClientKnowsAtOnce
  <2>2. CASE ClientRefuses
    BY <2>2 DEF ClientRefuses
  <2>3. CASE ClientTakes
    <3>1. CASE method = "error"
      BY <2>3, <3>1 DEF ClientTakes
    <3>2. CASE method # "error"
      BY <2>3, <3>2 DEF ClientTakes
    <3> QED
      BY <3>1, <3>2
  <2> QED
    BY <2>1, <2>2, <2>3
<1>2. PICK o, t : Concludes(o, t)
  BY <1>1
<1>3. WireTypeOK' /\ ReaderInv' /\ RequestPart' /\ ReplyPart'
  BY <1>2, ConcludingKeeps
<1>4. TakenIsTrue'
  BY KnowsAtOnce, Refuses, Takes
<1> QED
  BY <1>3, <1>4 DEF WireInv

\* While a payload is read, or nothing happens, no call returns.
LEMMA ReadsKeeps ==
  ASSUME WireInv, Reads \/ UNCHANGED vars
  PROVE  WireInv'
<1>1. [ReaderNext]_reader /\ UNCHANGED exchange
  BY DEF Reads, vars, exchange, reader
<1>2. WireTypeOK' /\ ReaderInv' /\ RequestPart' /\ ReplyPart'
  BY <1>1, ReadingKeeps
<1>3. TakenIsTrue'
  <2>1. CASE Reads
    <3>1. step \in {"device", "client"} /\ step' = step
      BY <2>1 DEF Reads, DeviceReads, ClientReads, exchange
    <3> QED
      BY <3>1 DEF TakenIsTrue
  <2>2. CASE UNCHANGED vars
    <3>1. UNCHANGED <<ex, step, mem, method, outcome, taken, verdict>>
      BY <2>2 DEF vars
    <3>2. ReplySize' = ReplySize /\ (Uncut' <=> Uncut) /\ \A e : Told(e)' <=> Told(e)
      BY <3>1 DEF ReplySize, GetReply, Uncut, Told
    <3>3. TakenIsTrue
      BY DEF WireInv
    <3> QED
      BY <3>1, <3>2, <3>3 DEF TakenIsTrue
  <2> QED
    BY <2>1, <2>2
<1> QED
  BY <1>2, <1>3 DEF WireInv

(* Every step keeps the invariant. *)
LEMMA WireKeeps ==
  ASSUME WireInv, [Next]_vars
  PROVE  WireInv'
<1>1. CASE Asks
  BY <1>1, AsksKeeps
<1>2. CASE Reads \/ UNCHANGED vars
  BY <1>2, ReadsKeeps
<1>3. CASE DeviceRefuses
  BY <1>3, DeviceRefusesKeeps
<1>4. CASE DeviceGets
  BY <1>4, DeviceGetsKeeps
<1>5. CASE DeviceSets
  BY <1>5, DeviceSetsKeeps
<1>6. CASE DeviceTells
  BY <1>6, DeviceTellsKeeps
<1>7. CASE ClientKnowsAtOnce \/ ClientRefuses \/ ClientTakes
  BY <1>7, ClientKeeps
<1> QED
  BY <1>1, <1>2, <1>3, <1>4, <1>5, <1>6, <1>7 DEF Next

(* The invariant holds in every exchange. *)
LEMMA WireHolds == Spec => []WireInv
<1>1. Init => WireInv
  BY WireStarts
<1>2. WireInv /\ [Next]_vars => WireInv'
  BY WireKeeps
<1> QED
  BY <1>1, <1>2, PTL DEF Spec

(* The device, too, reads requests that other software cut anywhere, and    *)
(* the client replies the device broke, without looking past their end, and *)
(* a GetData reply is taken whole or not at all.                            *)
THEOREM ExchangeReadsTrue == Spec => []ReadsWhatIsThere
<1>1. WireInv => ReadsWhatIsThere
  BY InvGivesProperty DEF WireInv
<1> QED
  BY <1>1, WireHolds, PTL

(* What the client has learnt when its call returns is what the device said *)
(* of itself: after a get every parameter asked for, as the device holds    *)
(* it, or nothing and a reason; after the other operations no value that    *)
(* was cut, and all of them if nothing was.                                 *)
THEOREM TakenTrue == Spec => []TakenIsTrue
<1>1. WireInv => TakenIsTrue
  BY DEF WireInv
<1> QED
  BY <1>1, WireHolds, PTL

\* What one step does to the device's memory.
SetStep ==
  step = "device" /\ step' # "device" =>
    IF ex.op # "set" \/ ex.refused THEN mem' = mem
    ELSE \E n \in 0..Cardinality(DOMAIN ex.values) :
           /\ n = Cardinality(DOMAIN ex.values) \/ ex.stranger
           /\ mem' = After(ex.values, Sent(DOMAIN ex.values, n))
           /\ ex.fault = "none" => buf' = Bytes16(n)

(* Every step does to the memory what SetIsWhole says. *)
LEMMA SetsWhole ==
  ASSUME WireInv, [Next]_vars
  PROVE  SetStep
<1>1. SUFFICES ASSUME step = "device", step' # "device"
               PROVE  SetStep
  BY DEF SetStep
<1>2. CASE DeviceSets
  <2>1. ex.op = "set" /\ ~ex.refused
    BY <1>2 DEF DeviceSets, DeviceReads
  <2> QED
    BY <1>2, <2>1, SetComesTo DEF SetStep
<1>3. CASE DeviceRefuses \/ DeviceGets \/ DeviceTells
  <2>1. mem' = mem /\ (ex.op # "set" \/ ex.refused)
    BY <1>3 DEF DeviceRefuses, DeviceGets, DeviceTells, DeviceReads
  <2> QED
    BY <2>1 DEF SetStep
<1>4. CASE Asks \/ Reads \/ UNCHANGED vars \/ ClientKnowsAtOnce \/ ClientRefuses \/ ClientTakes
  BY <1>1, <1>4 DEF Asks, Reads, exchange, vars, ClientKnowsAtOnce, ClientRefuses, ClientTakes, ClientReads
<1> QED
  BY <1>2, <1>3, <1>4 DEF Next

(* A set is carried out as the client meant it, all of it: the device then  *)
(* reads back the very texts that were sent, the rest is untouched, and it  *)
(* acknowledges their number; no other request changes what it holds.       *)
THEOREM SetWhole == Spec => SetIsWhole
<1>1. ASSUME WireInv, [Next]_vars
      PROVE  [step = "device" /\ step' # "device" =>
                IF ex.op # "set" \/ ex.refused THEN mem' = mem
                ELSE LET named == DOMAIN ex.values
                         sent(n) == {Nth(named, i) : i \in 1..n}
                     IN \E n \in 0..Cardinality(named) :
                       /\ n = Cardinality(named) \/ ex.stranger
                       /\ mem' = [o \in DOMAIN Table |->
                                    IF o \in sent(n) THEN Meant(ex.values[o], Table[o])
                                    ELSE mem[o]]
                       /\ ex.fault = "none" => buf' = Bytes16(n)]_vars
  BY <1>1, SetsWhole DEF SetStep, After, Sent
<1> QED
  BY <1>1, WireHolds, PTL DEF Spec, SetIsWhole

=============================================================================
