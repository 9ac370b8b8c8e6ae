-------------------------- MODULE ModbusCollectProofs --------------------------
(***************************************************************************)
(* Proofs about ModbusCollect, the optimizer it starts with                *)
(* (TagOptimizer) and the library that speaks to its devices (ModbusLink), *)
(* for every table of tags, any number of other users of the line, any     *)
(* devices and any calls.                                                  *)
(*                                                                         *)
(* The optimizer: LoadInv is the loop invariant: the requests before the   *)
(* last one, and the last one with the length it will get, read the        *)
(* registers of the tags that the loop has passed.  It needs the last      *)
(* request to end where the tag before it ended, and its length not to     *)
(* overflow the two bytes it is stored in.                                 *)
(*                                                                         *)
(* The line: nobody uses it before init_collect has initialised its mutex, *)
(* so only an unlock by a thread that does not hold the mutex can let two  *)
(* threads in, and that is what `taken' remembers.                         *)
(*                                                                         *)
(* The samples: the tables are those of the optimizer, and nobody reads    *)
(* them before they are loaded.  Every register of a request belongs to a  *)
(* tag as wide as its values, so if no two tags share a register the tag   *)
(* cha_biao finds is that one.                                             *)
(*                                                                         *)
(* The alarm: on a regular line every answer is uploaded to its last       *)
(* value, which clears the alarm it would otherwise belie.                 *)
(*                                                                         *)
(* The average: the buffer of the filter is the last N values, turned: it  *)
(* begins at m_i and goes around.  A sequence that is turned keeps its sum *)
(* (SameSum), and nothing changes the buffer before the next upload.       *)
(*                                                                         *)
(* The library (ModbusLink): a call finds the line quiet unless one before *)
(* it returned too early, so all that is under way during it is its own    *)
(* query or the one answer to that.  Over a serial line the CRC lets only  *)
(* that whole frame pass; over TCP nothing looks at the frame's end, and   *)
(* it is the quantity check that leaves no byte behind: an answer that is  *)
(* at least as long as awaited and has the right quantity is exactly that  *)
(* long, whatever the function and the data type.                          *)
(*                                                                         *)
(* What is read (ValuesInv): what is known of a table is so or is Unknown; *)
(* a write makes what it will change Unknown before it is sent, so no late *)
(* query can belie it, and known again only when its own answer says it is *)
(* done.  The answer under way is what the device would say now, and what  *)
(* one side packs the other unpacks (UnpackedIsPacked, RegisterBytes); an  *)
(* answer of the awaited length has the values of the call, even that of a *)
(* device which packs differently (BitsInBytes).                           *)
(***************************************************************************)
EXTENDS ModbusCollect, ModbusLink, FiniteSetTheorems, WellFoundedInduction, TLAPS

-----------------------------------------------------------------------------
(* The optimizer. *)

(* Neighbouring spans make one span. *)
LEMMA SpanSum ==
    ASSUME NEW d, NEW f, NEW a \in Int, NEW m \in Nat, NEW n \in Nat
    PROVE  Span(d, f, a, m) \cup Span(d, f, a + m, n) = Span(d, f, a, m + n)
<1>1. \A x : x \in a..(a + m + n - 1) <=> x \in a..(a + m - 1) \/ x \in (a + m)..(a + m + n - 1)
  OBVIOUS
<1>2. a + (m + n) - 1 = a + m + n - 1
  OBVIOUS
<1>3. QED
  BY <1>1, <1>2 DEF Span

(* One tag more. *)
LEMMA OneMore ==
    ASSUME NEW s, NEW n \in Nat
    PROVE  RegistersTo(s, n + 1) = RegistersTo(s, n) \cup Reg(s[n + 1])
<1>1. 1..(n + 1) = (1..n) \cup {n + 1}
  OBVIOUS
<1>2. QED
  BY <1>1 DEF RegistersTo

(* Only the first n tags count. *)
LEMMA SameFirst ==
    ASSUME NEW s, NEW u, NEW n \in Nat, \A q \in 1..n : s[q] = u[q]
    PROVE  RegistersTo(s, n) = RegistersTo(u, n)
BY DEF RegistersTo

(* The numbers. *)
LEMMA Limit == MAX_DATE_LEN \in Nat /\ MAX_DATE_LEN > 0
BY LenAssumption

LEMMA InWord == \A n \in Int : n \in Word <=> 0 <= n /\ n <= 65535
BY DEF Word

LEMMA WordIsNat == Word \subseteq Nat
BY DEF Word

LEMMA InQuantity == \A n : n \in Quantity <=> n \in Int /\ 0 <= n /\ n + MAX_DATE_LEN <= 65535
BY Limit DEF Quantity

LEMMA QuantityIsWord == Quantity \subseteq Word
BY InWord, InQuantity, Limit

LEMMA NoOverflow ==
    ASSUME NEW n \in Nat, n < MAX_DATE_LEN, NEW q \in Quantity
    PROVE  n + q \in Word
BY InWord, InQuantity, Limit

LEMMA TwoBytes ==
    ASSUME NEW n \in Word
    PROVE  n % 65536 = n
<1>1. \A w \in Nat : w <= 65535 => w % 65536 = w
  OBVIOUS
<1>2. n \in Nat /\ n <= 65535
  BY WordIsNat, InWord
<1>3. QED
  BY <1>1, <1>2

(* What Sized and After do to a request. *)
LEMMA SizedRequest ==
    ASSUME NEW t \in Request, NEW n \in Word
    PROVE  /\ Sized(t, n) \in Request
           /\ Sized(t, n).slave = t.slave /\ Sized(t, n).fun = t.fun /\ Sized(t, n).addr = t.addr
           /\ Sized(t, n).quantity = n
<1>1. Sized(t, n) = [t EXCEPT !.quantity = n]
  BY TwoBytes DEF Sized
<1>2. QED
  BY <1>1 DEF Request

LEMMA AfterTag ==
    ASSUME NEW p \in Tag, NEW t \in Tag
    PROVE  After(p, t) \in Tag
BY DEF After, Tag

(* What WithLength does to a list of requests. *)
LEMMA LengthWritten ==
    ASSUME NEW s \in Seq(Request), s # <<>>, NEW n \in Word
    PROVE  /\ WithLength(s, n) \in Seq(Request)
           /\ Len(WithLength(s, n)) = Len(s)
           /\ \A q \in 1..(Len(s) - 1) : WithLength(s, n)[q] = s[q]
           /\ WithLength(s, n)[Len(s)] = Sized(s[Len(s)], n)
<1>1. Len(s) \in DOMAIN s /\ s[Len(s)] \in Request
  OBVIOUS
<1>2. Sized(s[Len(s)], n) \in Request
  BY <1>1, SizedRequest
<1>3. WithLength(s, n) = [s EXCEPT ![Len(s)] = Sized(s[Len(s)], n)]
  BY DEF WithLength
<1>4. QED
  BY <1>1, <1>2, <1>3

(* A tag is a request. *)
LEMMA TagIsRequest == Tag \subseteq Request
<1>1. Quantity \subseteq Word
  BY QuantityIsWord
<1>2. ASSUME NEW t \in Tag
      PROVE  t \in Request
  BY <1>1 DEF Tag, Request
<1>3. QED
  BY <1>2

(* The numbers of a request. *)
LEMMA RequestNumbers ==
    ASSUME NEW t \in Request
    PROVE  t.quantity \in Word /\ t.quantity \in Nat /\ t.addr \in Nat
<1>1. t.quantity \in Word /\ t.addr \in Word
  BY DEF Request
<1>2. QED
  BY <1>1, WordIsNat

LEMMA TagNumbers ==
    ASSUME NEW t \in Tag
    PROVE  t.quantity \in Quantity /\ t.quantity \in Nat /\ t.addr \in Nat /\ t \in Request
<1>1. t.quantity \in Quantity /\ t \in Request
  BY TagIsRequest DEF Tag
<1>2. QED
  BY <1>1, RequestNumbers

(* The loop has not passed any tag but the first. *)
LEMMA InitLoadInv == LoadInit => LoadInv
<1> SUFFICES ASSUME LoadInit PROVE LoadInv
  OBVIOUS
<1>1. Serial \in Seq(Tag) /\ j = 2 /\ stage = "load"
  BY TablesAssumption DEF LoadInit
<1>2. CASE Serial = <<>>
  <2>1. OptSerial = <<>> /\ pre = Nothing /\ nDataLen = pre.quantity
    BY <1>2 DEF LoadInit
  <2>2. 0 \in Byte /\ 0 \in Word /\ 0 \in Quantity
    BY LenAssumption DEF Byte, Word, Quantity
  <2>3. Nothing \in Tag /\ Nothing.quantity = 0
    BY <2>2 DEF Nothing, Tag
  <2>4. LoadTypeOK
    BY <1>1, <1>2, <2>1, <2>2, <2>3 DEF LoadTypeOK
  <2>5. ReadBound
    BY <2>1 DEF ReadBound
  <2>6. QED
    BY <1>1, <1>2, <2>1, <2>4, <2>5 DEF LoadInv
<1>3. CASE Serial # <<>>
  <2>1. OptSerial = <<Serial[1]>> /\ pre = Serial[1] /\ nDataLen = pre.quantity
    BY <1>3 DEF LoadInit
  <2>2. 1 \in DOMAIN Serial /\ Serial[1] \in Tag /\ Len(Serial) \in Nat /\ Len(Serial) >= 1
    BY <1>1, <1>3
  <2>3. pre \in Request /\ pre.quantity \in Word /\ pre.quantity \in Nat
    BY <2>1, <2>2, TagNumbers, RequestNumbers
  <2>4. /\ OptSerial \in Seq(Request) /\ Len(OptSerial) = 1 /\ DOMAIN OptSerial = {1}
        /\ OptSerial[1] = pre
    BY <2>1, <2>3
  <2>5. LoadTypeOK
    BY <1>1, <2>1, <2>2, <2>3, <2>4 DEF LoadTypeOK
  <2>6. Single => nDataLen = 1
    BY <2>1, <2>2 DEF Single
  <2>7. 1 <= MAX_DATE_LEN
    BY LenAssumption
  <2>8. ReadBound
    BY <2>1, <2>4, <2>6, <2>7 DEF ReadBound
  <2>9. RegistersTo(OptSerial, 0) = {}
    BY DEF RegistersTo
  <2>10. RegistersTo(Serial, 1) = Reg(Serial[1])
    BY DEF RegistersTo
  <2>11. LastRequest
    BY <1>1, <2>1, <2>2, <2>3, <2>4, <2>6, <2>7, <2>9, <2>10 DEF LastRequest, Reg
  <2>12. QED
    BY <1>1, <1>3, <2>5, <2>8, <2>11 DEF LoadInv
<1>4. QED
  BY <1>2, <1>3

(* What holds while a tag is left. *)
LEMMA LoopBody ==
    ASSUME LoadInv, Loading
    PROVE  /\ Serial \in Seq(Tag) /\ OptSerial \in Seq(Request) /\ pre \in Tag /\ nDataLen \in Word
           /\ LastRequest /\ OptSerial # <<>>
           /\ j \in 2..Len(Serial) /\ Len(Serial) \in Nat /\ Serial[j] \in Tag
           /\ stage = "load"
           /\ RegistersTo(Serial, j) = RegistersTo(Serial, j - 1) \cup Reg(Serial[j])
<1>1. /\ Serial \in Seq(Tag) /\ OptSerial \in Seq(Request) /\ pre \in Tag /\ nDataLen \in Word
      /\ j \in 2..(Len(Serial) + 2)
  BY DEF LoadInv, LoadTypeOK
<1>2. Len(Serial) \in Nat /\ j \in 2..Len(Serial) /\ stage = "load"
  BY <1>1 DEF Loading
<1>3. Serial # <<>> /\ Serial[j] \in Tag
  BY <1>1, <1>2
<1>4. LastRequest
  BY <1>3 DEF LoadInv
<1>5. OptSerial # <<>>
  BY <1>1, <1>4 DEF LastRequest
<1>6. j - 1 \in Nat /\ (j - 1) + 1 = j
  BY <1>2
<1>7. RegistersTo(Serial, j) = RegistersTo(Serial, j - 1) \cup Reg(Serial[j])
  BY <1>6, OneMore
<1>8. QED
  BY <1>1, <1>2, <1>3, <1>4, <1>5, <1>7

(* A tag joins the last request: its registers follow those of the request. *)
LEMMA MergeStep ==
    ASSUME LoadInv, Merge
    PROVE  LoadInv'
<1> DEFINE n == Len(OptSerial)
           r == OptSerial[n]
           cur == Serial[j]
           grown == nDataLen + cur.quantity
<1>1. Loading /\ Serial' = Serial /\ stage' = stage /\ j' = j + 1
  BY DEF Merge
<1>2. nDataLen' = grown /\ pre' = After(pre, cur) /\ Merges(cur)
  BY DEF Merge
<1>3. /\ Serial \in Seq(Tag) /\ OptSerial \in Seq(Request) /\ pre \in Tag /\ nDataLen \in Word
      /\ LastRequest /\ OptSerial # <<>>
      /\ j \in 2..Len(Serial) /\ Len(Serial) \in Nat /\ cur \in Tag
      /\ stage = "load"
      /\ RegistersTo(Serial, j) = RegistersTo(Serial, j - 1) \cup Reg(cur)
  BY <1>1, LoopBody
<1>4. /\ cur.slave = pre.slave /\ cur.fun = pre.fun /\ cur.addr = pre.addr + pre.quantity
      /\ nDataLen < MAX_DATE_LEN
  BY <1>2 DEF Merges
<1>5. cur.quantity \in Quantity /\ cur.quantity \in Nat /\ nDataLen \in Nat
  BY <1>3, TagNumbers, WordIsNat
<1>6. grown \in Word
  BY <1>4, <1>5, NoOverflow
<1>7. /\ pre' \in Tag /\ pre'.slave = pre.slave /\ pre'.fun = pre.fun
      /\ pre'.addr = cur.addr /\ pre'.quantity = cur.quantity
  BY <1>2, <1>3, AfterTag DEF After
<1>8. n \in Nat /\ n >= 1 /\ r \in Request /\ r.addr \in Nat
  <2>1. n \in Nat /\ n >= 1 /\ r \in Request
    BY <1>3
  <2>2. QED
    BY <2>1, RequestNumbers
<1>9. /\ r.slave = pre.slave /\ r.fun = pre.fun
      /\ r.addr + nDataLen = pre.addr + pre.quantity
  BY <1>3 DEF LastRequest
<1>10. RegistersTo(OptSerial, n - 1) \cup Span(r.slave, r.fun, r.addr, nDataLen)
         = RegistersTo(Serial, j - 1)
  BY <1>3 DEF LastRequest
<1>11. /\ OptSerial' \in Seq(Request) /\ Len(OptSerial') = n
       /\ \A q \in 1..(n - 1) : OptSerial'[q] = OptSerial[q]
       /\ j = Len(Serial) => OptSerial'[n] = Sized(r, grown)
       /\ j # Len(Serial) => OptSerial'[n] = r
  <2>1. CASE j = Len(Serial)
    <3>1. OptSerial' = WithLength(OptSerial, grown)
      BY <1>2, <2>1 DEF Merge
    <3>2. QED
      BY <1>3, <1>6, <2>1, <3>1, LengthWritten
  <2>2. CASE j # Len(Serial)
    <3>1. OptSerial' = OptSerial
      BY <2>2 DEF Merge
    <3>2. QED
      BY <1>3, <2>2, <3>1
  <2>3. QED
    BY <2>1, <2>2
<1> HIDE DEF n, r, cur, grown
<1>12. /\ Sized(r, grown).slave = r.slave /\ Sized(r, grown).fun = r.fun
       /\ Sized(r, grown).addr = r.addr /\ Sized(r, grown).quantity = grown
  BY <1>6, <1>8, SizedRequest
<1>13. /\ OptSerial'[n].slave = r.slave /\ OptSerial'[n].fun = r.fun /\ OptSerial'[n].addr = r.addr
       /\ j = Len(Serial) => OptSerial'[n].quantity = grown
  BY <1>11, <1>12
<1>14. Span(r.slave, r.fun, r.addr, grown) = Span(r.slave, r.fun, r.addr, nDataLen) \cup Reg(cur)
  <2>1. Span(r.slave, r.fun, r.addr, nDataLen) \cup Span(r.slave, r.fun, r.addr + nDataLen, cur.quantity)
          = Span(r.slave, r.fun, r.addr, nDataLen + cur.quantity)
    BY <1>5, <1>8, SpanSum
  <2>2. Span(r.slave, r.fun, r.addr + nDataLen, cur.quantity) = Reg(cur)
    BY <1>4, <1>9 DEF Reg
  <2>3. QED
    BY <2>1, <2>2 DEF grown
<1>15. RegistersTo(OptSerial', n - 1) = RegistersTo(OptSerial, n - 1)
  <2>1. n - 1 \in Nat
    BY <1>8
  <2>2. QED
    BY <1>11, <2>1, SameFirst
<1>16. RegistersTo(OptSerial', n - 1) \cup Span(r.slave, r.fun, r.addr, grown) = RegistersTo(Serial, j)
  <2>1. RegistersTo(Serial, j) = RegistersTo(Serial, j - 1) \cup Reg(cur)
    BY <1>3
  <2>2. QED
    BY <1>10, <1>14, <1>15, <2>1
<1>17. Single' = Single /\ (Single => grown <= MAX_DATE_LEN)
  <2>1. Single' = Single
    BY <1>1 DEF Single
  <2>2. Single => cur.quantity = 1
    BY <1>3 DEF Single, cur
  <2>3. QED
    BY <1>4, <1>5, <2>1, <2>2, Limit DEF grown
<1>18. LastRequest'
  <2>1. (j + 1) - 1 = j /\ j + 1 <= Len(Serial) + 1 /\ (j + 1 > Len(Serial) => j = Len(Serial))
    BY <1>3
  <2>2. r.addr + grown = cur.addr + cur.quantity
    <3>1. cur.addr = r.addr + nDataLen
      BY <1>4, <1>9
    <3>2. QED
      BY <1>5, <1>8, <3>1 DEF grown
  <2>3. Len(OptSerial') = n /\ n > 0
    BY <1>8, <1>11
  <2>4. j' <= Len(Serial') + 1 /\ j' - 1 = j
    BY <1>1, <2>1
  <2>5. /\ OptSerial'[n].slave = pre'.slave /\ OptSerial'[n].fun = pre'.fun
        /\ OptSerial'[n].addr + nDataLen' = pre'.addr + pre'.quantity
    BY <1>2, <1>7, <1>9, <1>13, <2>2
  <2>6. RegistersTo(OptSerial', n - 1)
          \cup Span(OptSerial'[n].slave, OptSerial'[n].fun, OptSerial'[n].addr, nDataLen')
          = RegistersTo(Serial', j' - 1)
    BY <1>1, <1>2, <1>13, <1>16, <2>4
  <2>7. j' > Len(Serial') => OptSerial'[n].quantity = nDataLen'
    BY <1>1, <1>2, <1>13, <2>1
  <2>8. Single' => nDataLen' <= MAX_DATE_LEN
    BY <1>2, <1>17
  <2>9. QED
    BY <2>3, <2>4, <2>5, <2>6, <2>7, <2>8 DEF LastRequest
<1>19. LoadTypeOK'
  <2>1. j + 1 \in 2..(Len(Serial) + 2)
    BY <1>3
  <2>2. QED
    BY <1>1, <1>2, <1>3, <1>6, <1>7, <1>11, <2>1 DEF LoadTypeOK
<1>20. ReadBound'
  <2> SUFFICES ASSUME Single, NEW q \in DOMAIN OptSerial'
               PROVE  OptSerial'[q].quantity <= MAX_DATE_LEN
    BY <1>17 DEF ReadBound
  <2>1. DOMAIN OptSerial' = 1..n /\ DOMAIN OptSerial = 1..n
    BY <1>3, <1>11 DEF n
  <2>2. q \in 1..(n - 1) \/ q = n
    BY <1>8, <2>1
  <2>3. OptSerial[q].quantity <= MAX_DATE_LEN
    BY <2>1 DEF LoadInv, ReadBound
  <2>4. CASE q \in 1..(n - 1)
    BY <1>11, <2>3, <2>4
  <2>5. CASE q = n
    <3>1. OptSerial'[n].quantity = grown \/ OptSerial'[n].quantity = r.quantity
      BY <1>11, <1>13
    <3>2. r.quantity <= MAX_DATE_LEN
      BY <2>3, <2>5 DEF r
    <3>3. QED
      BY <1>17, <2>5, <3>1, <3>2
  <2>6. QED
    BY <2>2, <2>4, <2>5
<1>21. QED
  BY <1>1, <1>3, <1>18, <1>19, <1>20 DEF LoadInv

(* The last request is closed, and the tag starts the next one. *)
LEMMA RequestStep ==
    ASSUME LoadInv, NextRequest
    PROVE  LoadInv'
<1> DEFINE n == Len(OptSerial)
           r == OptSerial[n]
           cur == Serial[j]
           closed == WithLength(OptSerial, nDataLen)
<1>1. /\ Loading /\ Serial' = Serial /\ stage' = stage /\ j' = j + 1
      /\ OptSerial' = Append(closed, cur) /\ pre' = cur /\ nDataLen' = cur.quantity
  BY DEF NextRequest, Complete
<1>2. /\ Serial \in Seq(Tag) /\ OptSerial \in Seq(Request) /\ pre \in Tag /\ nDataLen \in Word
      /\ LastRequest /\ OptSerial # <<>>
      /\ j \in 2..Len(Serial) /\ Len(Serial) \in Nat /\ cur \in Tag
      /\ stage = "load"
  BY <1>1, LoopBody
<1>3. RegistersTo(Serial, j) = RegistersTo(Serial, j - 1) \cup Reg(cur)
  BY <1>1, LoopBody
<1>4. /\ closed \in Seq(Request) /\ Len(closed) = n
      /\ \A q \in 1..(n - 1) : closed[q] = OptSerial[q]
      /\ closed[n] = Sized(r, nDataLen)
  BY <1>2, LengthWritten
<1>5. n \in Nat /\ n >= 1 /\ r \in Request
  BY <1>2
<1>6. RegistersTo(OptSerial, n - 1) \cup Span(r.slave, r.fun, r.addr, nDataLen)
        = RegistersTo(Serial, j - 1)
  BY <1>2 DEF LastRequest
<1>7. cur \in Request /\ cur.quantity \in Word
  BY <1>2, TagNumbers, RequestNumbers
<1>8. Single => nDataLen <= MAX_DATE_LEN /\ cur.quantity = 1
  BY <1>2 DEF LastRequest, Single
<1>9. \A q \in 1..n : Single => OptSerial[q].quantity <= MAX_DATE_LEN
  BY <1>2 DEF LoadInv, ReadBound
<1> HIDE DEF n, r, cur, closed
<1>10. /\ OptSerial' \in Seq(Request) /\ Len(OptSerial') = n + 1
       /\ \A q \in 1..n : OptSerial'[q] = closed[q]
       /\ OptSerial'[n + 1] = cur
  BY <1>1, <1>4, <1>5, <1>7
<1>11. closed[n].quantity = nDataLen /\ Reg(closed[n]) = Span(r.slave, r.fun, r.addr, nDataLen)
  <2>1. /\ Sized(r, nDataLen).slave = r.slave /\ Sized(r, nDataLen).fun = r.fun
        /\ Sized(r, nDataLen).addr = r.addr /\ Sized(r, nDataLen).quantity = nDataLen
    BY <1>2, <1>5, SizedRequest
  <2>2. QED
    BY <1>4, <2>1 DEF Reg
<1>12. RegistersTo(OptSerial', n) = RegistersTo(Serial, j - 1)
  <2>1. RegistersTo(OptSerial', n) = RegistersTo(closed, n)
    BY <1>5, <1>10, SameFirst
  <2>2. n - 1 \in Nat /\ (n - 1) + 1 = n
    BY <1>5
  <2>3. RegistersTo(closed, n) = RegistersTo(closed, n - 1) \cup Reg(closed[n])
    BY <2>2, OneMore
  <2>4. RegistersTo(closed, n - 1) = RegistersTo(OptSerial, n - 1)
    BY <1>4, <2>2, SameFirst
  <2>5. QED
    BY <1>6, <1>11, <2>1, <2>3, <2>4
<1>13. Single' = Single
  BY <1>1 DEF Single
<1>14. LastRequest'
  <2>1. j' <= Len(Serial') + 1 /\ j' - 1 = j
    BY <1>1, <1>2
  <2>2. Len(OptSerial') = n + 1 /\ n + 1 > 0 /\ (n + 1) - 1 = n
    BY <1>5, <1>10
  <2>3. RegistersTo(OptSerial', n) \cup Span(cur.slave, cur.fun, cur.addr, nDataLen')
          = RegistersTo(Serial', j' - 1)
    BY <1>1, <1>3, <1>12, <2>1 DEF Reg
  <2>4. OptSerial'[n + 1] = cur /\ pre' = cur /\ nDataLen' = cur.quantity
    BY <1>1, <1>10
  <2>5. Single' => nDataLen' <= MAX_DATE_LEN
    BY <1>1, <1>8, <1>13, Limit
  <2>6. QED
    BY <2>1, <2>2, <2>3, <2>4, <2>5 DEF LastRequest
<1>15. LoadTypeOK'
  <2>1. j + 1 \in 2..(Len(Serial) + 2)
    BY <1>2
  <2>2. QED
    BY <1>1, <1>2, <1>7, <1>10, <2>1 DEF LoadTypeOK, cur
<1>16. ReadBound'
  <2> SUFFICES ASSUME Single, NEW q \in DOMAIN OptSerial'
               PROVE  OptSerial'[q].quantity <= MAX_DATE_LEN
    BY <1>13 DEF ReadBound
  <2>1. q \in 1..(n - 1) \/ q = n \/ q = n + 1
    BY <1>5, <1>10
  <2>2. CASE q \in 1..(n - 1)
    <3>1. q \in 1..n
      BY <1>5, <2>2
    <3>2. OptSerial'[q] = OptSerial[q]
      BY <1>4, <1>10, <2>2, <3>1
    <3>3. QED
      BY <1>9, <3>1, <3>2
  <2>3. CASE q = n
    <3>1. OptSerial'[n] = closed[n]
      BY <1>5, <1>10
    <3>2. QED
      BY <1>8, <1>11, <2>3, <3>1
  <2>4. CASE q = n + 1
    BY <1>8, <1>10, <2>4, Limit
  <2>5. QED
    BY <2>1, <2>2, <2>3, <2>4
<1>17. QED
  BY <1>1, <1>2, <1>14, <1>15, <1>16 DEF LoadInv

(* The other steps leave the lists alone. *)
LEMMA StageStep ==
    ASSUME LoadInv, UnknownType \/ WideQuits \/ Loaded \/ UNCHANGED loadVars
    PROVE  LoadInv'
<1>1. UNCHANGED <<Serial, OptSerial, j, pre, nDataLen>>
  BY DEF UnknownType, WideQuits, Loaded, loadVars
<1>2. /\ stage' \in {"load", "loaded", "quit"}
      /\ stage' = "loaded" => j > Len(Serial)
  BY DEF LoadInv, LoadTypeOK, UnknownType, WideQuits, Loaded, loadVars
<1>3. LoadTypeOK'
  BY <1>1, <1>2 DEF LoadInv, LoadTypeOK
<1>4. LastRequest' = LastRequest /\ ReadBound' = ReadBound
  BY <1>1 DEF LastRequest, ReadBound, Single
<1>5. QED
  BY <1>1, <1>2, <1>3, <1>4 DEF LoadInv

(* The optimizer keeps its loop invariant (LoadTagList, 2443-2596), for     *)
(* every list of tags and every limit.                                      *)
THEOREM OptimizerInvariant == LoadSpec => []LoadInv
<1>1. LoadInit => LoadInv
  BY InitLoadInv
<1>2. LoadInv /\ [LoadNext]_loadVars => LoadInv'
  BY MergeStep, RequestStep, StageStep DEF LoadNext
<1>3. QED
  BY <1>1, <1>2, PTL DEF LoadSpec

(* When the loop has ended the requests read the registers of all tags, and *)
(* no others: the last request has got its length.                          *)
LEMMA LoadedCovers == LoadInv => Covered
<1> SUFFICES ASSUME LoadInv, stage = "loaded"
             PROVE  Registers(OptSerial) = Registers(Serial)
  BY DEF Covered
<1>1. /\ Serial \in Seq(Tag) /\ OptSerial \in Seq(Request) /\ nDataLen \in Word
      /\ j > Len(Serial) /\ Len(Serial) \in Nat /\ j \in Nat
  BY DEF LoadInv, LoadTypeOK
<1>2. CASE Serial = <<>>
  BY <1>2 DEF LoadInv
<1>3. CASE Serial # <<>>
  <2> DEFINE n == Len(OptSerial)
             r == OptSerial[n]
  <2>1. LastRequest
    BY <1>3 DEF LoadInv
  <2>2. n \in Nat /\ n >= 1 /\ r.quantity = nDataLen
    BY <1>1, <2>1 DEF LastRequest
  <2>3. RegistersTo(OptSerial, n - 1) \cup Span(r.slave, r.fun, r.addr, nDataLen)
          = RegistersTo(Serial, j - 1)
    BY <2>1 DEF LastRequest
  <2>4. j - 1 = Len(Serial)
    BY <1>1, <2>1 DEF LastRequest
  <2>5. n - 1 \in Nat /\ (n - 1) + 1 = n
    BY <2>2
  <2> HIDE DEF n, r
  <2>6. RegistersTo(OptSerial, n) = RegistersTo(OptSerial, n - 1) \cup Reg(OptSerial[n])
    BY <2>5, OneMore
  <2>7. Reg(OptSerial[n]) = Span(r.slave, r.fun, r.addr, nDataLen)
    BY <2>2 DEF Reg, r
  <2>8. RegistersTo(OptSerial, n) = RegistersTo(Serial, Len(Serial))
    BY <2>3, <2>4, <2>6, <2>7
  <2>9. QED
    BY <2>8 DEF Registers, n
<1>4. QED
  BY <1>2, <1>3

(* LoadTagList forgets no register of the tags it joins, and asks for none  *)
(* that no tag has, whatever the table (collect.cpp 2535-2594).             *)
THEOREM EveryRegisterCovered == LoadSpec => []Covered
BY OptimizerInvariant, LoadedCovers, PTL

(* Requests of one-register tags stay within MAX_DATE_LEN                   *)
(* (collect.cpp 2536).                                                      *)
THEOREM RequestsBounded == LoadSpec => []ReadBound
<1>1. LoadInv => ReadBound
  BY DEF LoadInv
<1>2. QED
  BY <1>1, OptimizerInvariant, PTL

(* What LoadTagList makes of the tags reads every register of theirs, no    *)
(* other one, and one-register tags in requests within MAX_DATE_LEN.        *)
THEOREM TableOptimized == LoadSpec => []Optimized
BY EveryRegisterCovered, RequestsBounded, PTL DEF Optimized

-----------------------------------------------------------------------------
(* The tag has register a of the request, with a value as wide. *)
Serves(t, r, a) ==
    /\ t.slave = r.slave /\ t.fun = r.fun /\ Bits(t.type) = Bits(r.type)
    /\ a \in t.addr..(t.addr + t.quantity - 1)

(* The request is one of a device with tags, and one of them has each of    *)
(* its n registers.                                                         *)
Backed(s, r, n) ==
    /\ \E m \in DOMAIN s : s[m].slave = r.slave
    /\ \A a \in r.addr..(r.addr + n - 1) : \E m \in DOMAIN s : Serves(s[m], r, a)

(* The optimizer joins only tags whose values are as wide as those before.  *)
WidthInv ==
    Serial # <<>> =>
        LET n == Len(OptSerial)
        IN  /\ OptSerial[n].type = pre.type
            /\ \A q \in 1..(n - 1) : Backed(Serial, OptSerial[q], OptSerial[q].quantity)
            /\ Backed(Serial, OptSerial[n], nDataLen)

(* Every value of a request is decoded as wide as the tag it belongs to. *)
RunsBacked ==
    stage = "loaded" =>
        \A q \in DOMAIN OptSerial : Backed(Serial, OptSerial[q], OptSerial[q].quantity)

(* A request that gets its length has the device, function, address and     *)
(* type it had.                                                             *)
LEMMA SizedAlike ==
    ASSUME NEW t \in Request, NEW n \in Word, NEW s, NEW m \in Nat
    PROVE  /\ Sized(t, n).type = t.type /\ Sized(t, n).addr = t.addr
           /\ Backed(s, Sized(t, n), m) <=> Backed(s, t, m)
<1>1. Sized(t, n) = [t EXCEPT !.quantity = n]
  BY TwoBytes DEF Sized
<1>2. /\ Sized(t, n).slave = t.slave /\ Sized(t, n).fun = t.fun
      /\ Sized(t, n).addr = t.addr /\ Sized(t, n).type = t.type
  BY <1>1 DEF Request
<1>3. QED
  BY <1>2 DEF Backed, Serves

(* A tag has its own registers. *)
LEMMA TagBacked ==
    ASSUME NEW s, NEW m \in DOMAIN s
    PROVE  Backed(s, s[m], s[m].quantity)
BY DEF Backed, Serves

(* A run and the tag that continues it. *)
LEMMA BackedSum ==
    ASSUME NEW s, NEW r, NEW n \in Nat, NEW m \in DOMAIN s, r.addr \in Nat,
           s[m].slave = r.slave, s[m].fun = r.fun, Bits(s[m].type) = Bits(r.type),
           s[m].addr = r.addr + n, s[m].quantity \in Nat, Backed(s, r, n)
    PROVE  Backed(s, r, n + s[m].quantity)
<1> SUFFICES ASSUME NEW a \in r.addr..(r.addr + (n + s[m].quantity) - 1)
             PROVE  \E l \in DOMAIN s : Serves(s[l], r, a)
  BY DEF Backed
<1>1. CASE a < r.addr + n
  <2>1. a \in r.addr..(r.addr + n - 1)
    BY <1>1
  <2>2. QED
    BY <2>1 DEF Backed
<1>2. CASE a >= r.addr + n
  <2>1. a \in s[m].addr..(s[m].addr + s[m].quantity - 1)
    BY <1>2
  <2>2. QED
    BY <2>1 DEF Serves
<1>3. QED
  BY <1>1, <1>2

(* The first request is the first tag. *)
LEMMA InitWidthInv == LoadInit => WidthInv
<1> SUFFICES ASSUME LoadInit, Serial # <<>> PROVE WidthInv
  BY DEF WidthInv
<1>1. Serial \in Seq(Tag)
  BY TablesAssumption DEF LoadInit
<1>2. OptSerial = <<Serial[1]>> /\ pre = Serial[1] /\ nDataLen = pre.quantity
  BY DEF LoadInit
<1>3. 1 \in DOMAIN Serial /\ Len(OptSerial) = 1 /\ OptSerial[1] = Serial[1]
  BY <1>1, <1>2
<1>4. QED
  BY <1>2, <1>3, TagBacked DEF WidthInv

(* A tag joins a run of its width. *)
LEMMA MergeWidth ==
    ASSUME LoadInv, WidthInv, Merge
    PROVE  WidthInv'
<1> DEFINE n == Len(OptSerial)
           r == OptSerial[n]
           cur == Serial[j]
           grown == nDataLen + cur.quantity
<1>1. /\ Loading /\ Serial' = Serial /\ nDataLen' = grown
      /\ pre' = After(pre, cur) /\ Merges(cur)
  BY DEF Merge
<1>2. /\ Serial \in Seq(Tag) /\ OptSerial \in Seq(Request) /\ pre \in Tag /\ nDataLen \in Word
      /\ LastRequest /\ OptSerial # <<>> /\ j \in DOMAIN Serial /\ cur \in Tag
  BY <1>1, LoopBody
<1>3. n \in Nat /\ n >= 1 /\ n \in DOMAIN OptSerial /\ r \in Request /\ r.addr \in Nat
  <2>1. n \in Nat /\ n >= 1 /\ n \in DOMAIN OptSerial /\ r \in Request
    BY <1>2
  <2>2. QED
    BY <2>1, RequestNumbers
<1>4. cur.quantity \in Quantity /\ cur.quantity \in Nat /\ nDataLen \in Nat /\ grown \in Nat
  BY <1>2, TagNumbers, WordIsNat
<1>5. grown \in Word
  BY <1>1, <1>4, NoOverflow DEF Merges
<1>6. /\ r.type = pre.type
      /\ \A q \in 1..(n - 1) : Backed(Serial, OptSerial[q], OptSerial[q].quantity)
      /\ Backed(Serial, r, nDataLen)
  <2>1. Serial # <<>>
    BY <1>2
  <2>2. QED
    BY <2>1 DEF WidthInv
<1>7. /\ cur.slave = r.slave /\ cur.fun = r.fun /\ Bits(cur.type) = Bits(r.type)
      /\ cur.addr = r.addr + nDataLen
  BY <1>1, <1>2, <1>6 DEF Merges, LastRequest
<1>8. Backed(Serial, r, grown)
  BY <1>2, <1>3, <1>4, <1>6, <1>7, BackedSum
<1>9. pre'.type = r.type
  BY <1>1, <1>6 DEF After
<1>10. OptSerial' = OptSerial \/ OptSerial' = WithLength(OptSerial, grown)
  BY <1>1 DEF Merge
<1>11. /\ Len(OptSerial') = n
       /\ \A q \in 1..(n - 1) : OptSerial'[q] = OptSerial[q]
       /\ OptSerial'[n] = r \/ OptSerial'[n] = Sized(r, grown)
  BY <1>2, <1>5, <1>10, LengthWritten
<1> HIDE DEF n, r, cur, grown
<1>12. OptSerial'[n].type = r.type /\ Backed(Serial, OptSerial'[n], grown)
  BY <1>3, <1>4, <1>5, <1>8, <1>11, SizedAlike
<1>13. QED
  BY <1>1, <1>6, <1>9, <1>11, <1>12 DEF WidthInv

(* A tag that starts a run is one of its width. *)
LEMMA RequestWidth ==
    ASSUME LoadInv, WidthInv, NextRequest
    PROVE  WidthInv'
<1> DEFINE n == Len(OptSerial)
           r == OptSerial[n]
           cur == Serial[j]
           closed == WithLength(OptSerial, nDataLen)
<1>1. /\ Loading /\ Serial' = Serial /\ OptSerial' = Append(closed, cur)
      /\ pre' = cur /\ nDataLen' = cur.quantity
  BY DEF NextRequest, Complete
<1>2. /\ OptSerial \in Seq(Request) /\ OptSerial # <<>> /\ nDataLen \in Word
      /\ Serial \in Seq(Tag) /\ j \in DOMAIN Serial /\ cur \in Request
  BY <1>1, LoopBody, TagNumbers
<1>3. n \in Nat /\ n >= 1 /\ r \in Request /\ nDataLen \in Nat
  BY <1>2, WordIsNat
<1>4. /\ closed \in Seq(Request) /\ Len(closed) = n
      /\ \A q \in 1..(n - 1) : closed[q] = OptSerial[q]
      /\ closed[n] = Sized(r, nDataLen)
  BY <1>2, LengthWritten
<1>5. /\ \A q \in 1..(n - 1) : Backed(Serial, OptSerial[q], OptSerial[q].quantity)
      /\ Backed(Serial, r, nDataLen)
  <2>1. Serial # <<>>
    BY <1>2
  <2>2. QED
    BY <2>1 DEF WidthInv
<1>6. Backed(Serial, cur, cur.quantity)
  BY <1>2, TagBacked
<1> HIDE DEF n, r, cur, closed
<1>7. /\ Len(OptSerial') = n + 1
      /\ \A q \in 1..n : OptSerial'[q] = closed[q]
      /\ OptSerial'[n + 1] = cur
  BY <1>1, <1>2, <1>3, <1>4
<1>8. Backed(Serial, closed[n], closed[n].quantity)
  BY <1>2, <1>3, <1>4, <1>5, SizedAlike, SizedRequest
<1>9. \A q \in 1..n : Backed(Serial, OptSerial'[q], OptSerial'[q].quantity)
  <2> SUFFICES ASSUME NEW q \in 1..n
               PROVE  Backed(Serial, OptSerial'[q], OptSerial'[q].quantity)
    OBVIOUS
  <2>1. CASE q = n
    BY <1>3, <1>7, <1>8, <2>1
  <2>2. CASE q # n
    <3>1. q \in 1..(n - 1)
      BY <1>3, <2>2
    <3>2. OptSerial'[q] = OptSerial[q]
      BY <1>4, <1>7, <3>1
    <3>3. QED
      BY <1>5, <3>1, <3>2
  <2>3. QED
    BY <2>1, <2>2
<1>10. (n + 1) - 1 = n
  BY <1>3
<1>11. QED
  BY <1>1, <1>6, <1>7, <1>9, <1>10 DEF WidthInv

(* The widths are kept by every step of the loop. *)
LEMMA WidthStep == LoadInv /\ WidthInv /\ [LoadNext]_loadVars => WidthInv'
<1> SUFFICES ASSUME LoadInv, WidthInv, [LoadNext]_loadVars PROVE WidthInv'
  OBVIOUS
<1>1. CASE UnknownType \/ WideQuits \/ Loaded \/ UNCHANGED loadVars
  BY <1>1 DEF UnknownType, WideQuits, Loaded, loadVars, WidthInv
<1>2. QED
  BY <1>1, MergeWidth, RequestWidth DEF LoadNext

(* When the loop has ended the last request has its length too. *)
LEMMA LoadedBacked == LoadInv /\ WidthInv => RunsBacked
<1> SUFFICES ASSUME LoadInv, WidthInv, stage = "loaded", NEW q \in DOMAIN OptSerial
             PROVE  Backed(Serial, OptSerial[q], OptSerial[q].quantity)
  BY DEF RunsBacked
<1>1. OptSerial \in Seq(Request) /\ Serial \in Seq(Tag) /\ j > Len(Serial)
  BY DEF LoadInv, LoadTypeOK
<1>2. Serial # <<>>
  BY <1>1 DEF LoadInv
<1>3. LastRequest
  BY <1>2 DEF LoadInv
<1>4. OptSerial[Len(OptSerial)].quantity = nDataLen
  BY <1>1, <1>3 DEF LastRequest
<1>5. q = Len(OptSerial) \/ q \in 1..(Len(OptSerial) - 1)
  BY <1>1
<1>6. QED
  BY <1>2, <1>4, <1>5 DEF WidthInv

(* Each register of an optimized request belongs to a tag of the same       *)
(* device and function whose values are as wide as the request decodes them *)
(* (the comparisons of collect.cpp 2535-2536), for every table.             *)
THEOREM WidthsAgree == LoadSpec => []RunsBacked
<1>1. LoadInit => LoadInv /\ WidthInv
  BY InitLoadInv, InitWidthInv
<1>2. LoadInv /\ WidthInv /\ [LoadNext]_loadVars => LoadInv' /\ WidthInv'
  BY MergeStep, RequestStep, StageStep, WidthStep DEF LoadNext
<1>3. QED
  BY <1>1, <1>2, LoadedBacked, PTL DEF LoadSpec

-----------------------------------------------------------------------------
(* The line. *)

USE UsersAssumption

(* The invariant of the line. *)
LineInv ==
    /\ user \in [Users -> {"idle", "lock", "use"}]
    /\ pc \in {"none", "create"} => \A u \in Users : user[u] = "idle"
    /\ pc \in {"none", "create", "top", "lock", "read", "push", "unlock", "exit"}
    /\ taken \in BOOLEAN
    /\ OneOnPort

(* At first nobody uses the line. *)
LEMMA InitLineInv == Init => LineInv
BY DEF Init, LineInv, OneOnPort

(* The collecting thread locks the line when it is free, and unlocks it as  *)
(* its holder or takes it away from somebody.                              *)
LEMMA CollectLineStep ==
    ASSUME LineInv, Collect
    PROVE  LineInv'
<1> USE DEF LineInv, OneOnPort, At, lineVars
<1>1. CASE Top
  BY <1>1 DEF Top
<1>2. CASE Lock
  BY <1>2 DEF Lock, LockPort
<1>3. CASE ReadFailed \/ ReadTooMuch \/ ReadOk
  BY <1>3 DEF ReadFailed, ReadTooMuch, ReadOk
<1>4. CASE Push \/ Pushed
  BY <1>4 DEF Push, Pushing, Pushed
<1>5. CASE NoTag \/ Unlock
  <2>1. /\ pc \in {"push", "unlock"} /\ pc' = "top"
        /\ UnlockPort("collect") /\ UNCHANGED user
    BY <1>5 DEF NoTag, Pushing, Unlock
  <2>2. QED
    BY <2>1 DEF UnlockPort
<1>6. QED
  BY <1>1, <1>2, <1>3, <1>4, <1>5 DEF Collect

(* Loading, starting and ending.  init_collect makes the mutex free while   *)
(* nobody but the operator can hold it.                                     *)
LEMMA StartLineStep ==
    ASSUME LineInv,
           Load \/ LoadQuits \/ CreateCmd \/ InitCollect \/ CreateCollect \/ IoMissing \/ Exit
    PROVE  LineInv'
<1> USE DEF LineInv, OneOnPort, lineVars, collectVars
<1>1. CASE Load \/ LoadQuits \/ CreateCmd \/ IoMissing \/ Exit
  BY <1>1 DEF Load, LoadQuits, CreateCmd, IoMissing, Exit
<1>2. CASE InitCollect
  BY <1>2 DEF InitCollect
<1>3. CASE CreateCollect
  BY <1>3 DEF CreateCollect
<1>4. QED
  BY <1>1, <1>2, <1>3

(* The operator, who may free a line that somebody else has locked. *)
LEMMA CmdLineStep ==
    ASSUME LineInv, Cmd
    PROVE  LineInv'
<1> USE DEF LineInv, OneOnPort, lineVars, collectVars
<1>1. CASE CmdLock \/ CmdReload
  BY <1>1 DEF CmdLock, CmdReload
<1>2. CASE CmdLocked
  BY <1>2 DEF CmdLocked, LockPort
<1>3. CASE CmdFree
  BY <1>3 DEF CmdFree, UnlockPort
<1>4. QED
  BY <1>1, <1>2, <1>3 DEF Cmd

(* The other users. *)
LEMMA UserLineStep ==
    ASSUME LineInv, NEW u \in Users, UserWants(u) \/ UserLock(u) \/ UserUnlock(u)
    PROVE  LineInv'
<1> USE DEF LineInv, OneOnPort, lineVars, collectVars, UserStep
<1>1. CASE UserWants(u)
  BY <1>1 DEF UserWants
<1>2. CASE UserLock(u)
  BY <1>2 DEF UserLock, LockPort
<1>3. CASE UserUnlock(u)
  BY <1>3 DEF UserUnlock, UnlockPort
<1>4. QED
  BY <1>1, <1>2, <1>3

(* Every step keeps the invariant of the line. *)
LEMMA LineStep == LineInv /\ [Next]_vars => LineInv'
<1> SUFFICES ASSUME LineInv, [Next]_vars PROVE LineInv'
  OBVIOUS
<1>1. CASE UNCHANGED vars
  BY <1>1 DEF vars, collectVars, lineVars, LineInv, OneOnPort
<1>2. CASE Next
  BY <1>2, CollectLineStep, StartLineStep, CmdLineStep, UserLineStep DEF Next
<1>3. QED
  BY <1>1, <1>2

(* Unless somebody frees a line that another thread has locked, or locks it *)
(* before init_collect, a serial line has one user at a time (the mutexes   *)
(* of collect.cpp around every use of the port).                            *)
THEOREM OneUserPerLine == Spec => []OneOnPort
<1>1. LineInv => OneOnPort
  BY DEF LineInv
<1>2. QED
  BY <1>1, InitLineInv, LineStep, PTL DEF Spec

-----------------------------------------------------------------------------
(* The tables that main loads are those of the optimizer. *)
TablesInv == LoadInv /\ WidthInv

(* Nothing is changed in them once they are loaded, and nobody reads them   *)
(* before.  `i' is the number of a request while the thread is in its loop. *)
Loop == {"top", "lock", "read", "push", "unlock"}

StartInv ==
    /\ cmd # "none" => stage = "loaded"
    /\ pc # "none" => cmd # "none"
    /\ pc \in Loop => OptSerial # <<>>
    /\ i \in Nat /\ i >= 1 /\ k \in Nat
    /\ stage # "loaded" => i = 1
    /\ OptSerial # <<>> => i <= Len(OptSerial)

(* The steps of the optimizer are those of its specification. *)
LEMMA TablesStep == TablesInv /\ [Next]_vars => TablesInv'
<1> SUFFICES ASSUME TablesInv, [Next]_vars PROVE TablesInv'
  OBVIOUS
<1>1. CASE Load \/ LoadQuits
  <2>1. [LoadNext]_loadVars
    BY <1>1 DEF Load, LoadQuits
  <2>2. QED
    BY <2>1, MergeStep, RequestStep, StageStep, WidthStep DEF TablesInv, LoadNext
<1>2. ASSUME UNCHANGED loadVars PROVE TablesInv'
  <2>1. [LoadNext]_loadVars
    BY <1>2
  <2>2. QED
    BY <2>1, MergeStep, RequestStep, StageStep, WidthStep DEF TablesInv, LoadNext
<1>3. Collect => UNCHANGED loadVars
  BY DEF Collect, Top, Lock, ReadFailed, ReadTooMuch, ReadOk, Push, NoTag, Pushed, Unlock
<1>4. Cmd => UNCHANGED loadVars
  BY DEF Cmd, CmdLock, CmdLocked, CmdFree, CmdReload
<1>5. \A u \in Users : UserWants(u) \/ UserLock(u) \/ UserUnlock(u) => UNCHANGED loadVars
  BY DEF UserWants, UserLock, UserUnlock, UserStep
<1>6. CreateCmd \/ InitCollect \/ CreateCollect \/ IoMissing \/ Exit => UNCHANGED loadVars
  BY DEF CreateCmd, InitCollect, CreateCollect, IoMissing, Exit
<1>7. vars' = vars => UNCHANGED loadVars
  BY DEF vars
<1>8. QED
  BY <1>1, <1>2, <1>3, <1>4, <1>5, <1>6, <1>7 DEF Next

(* The number of the next request. *)
LEMMA NextIndex ==
    ASSUME NEW n \in Nat, NEW m \in Nat, n >= 1, m >= 1, n <= m
    PROVE  (n % m) + 1 \in 1..m
<1>1. n % m \in 0..(m - 1)
  BY SMT
<1>2. QED
  BY <1>1

LEMMA StartStep == TablesInv /\ StartInv /\ [Next]_vars => StartInv'
<1> SUFFICES ASSUME TablesInv, StartInv, [Next]_vars PROVE StartInv'
  OBVIOUS
<1> USE DEF StartInv, Loop, collectVars, loadVars, At
<1>1. OptSerial \in Seq(Request)
  BY DEF TablesInv, LoadInv, LoadTypeOK
<1>2. CASE Load
  <2>1. CASE stage = "load"
    <3>1. OptSerial' \in Seq(Request)
      BY TablesStep DEF TablesInv, LoadInv, LoadTypeOK
    <3>2. UNCHANGED <<pc, i, k, cmd>>
      BY <1>2 DEF Load
    <3>3. pc = "none" /\ cmd = "none" /\ i = 1
      BY <2>1
    <3>4. OptSerial' # <<>> => Len(OptSerial') >= 1
      BY <3>1
    <3>5. QED
      BY <3>2, <3>3, <3>4
  <2>2. QED
    BY <1>2, <2>1 DEF Load, LoadNext, UnknownType, Merge, NextRequest, WideQuits, Loaded, Loading, Complete
<1>3. CASE LoadQuits \/ CreateCmd \/ InitCollect \/ CreateCollect \/ IoMissing \/ Exit
  BY <1>3 DEF LoadQuits, CreateCmd, InitCollect, CreateCollect, IoMissing, Exit
<1>4. CASE Unlock
  <2>1. pc = "unlock" /\ pc' = "top" /\ i' = (i % Len(OptSerial)) + 1
        /\ UNCHANGED <<loadVars, k, cmd>>
    BY <1>4 DEF Unlock
  <2>2. Len(OptSerial) \in Nat /\ Len(OptSerial) >= 1
    BY <1>1, <2>1
  <2>3. i' \in 1..Len(OptSerial)
    BY <2>1, <2>2, NextIndex
  <2>4. QED
    BY <2>1, <2>2, <2>3
<1>5. CASE NoTag
  BY <1>1, <1>5 DEF NoTag, Pushing
<1>6. CASE Top \/ Lock
  BY <1>6 DEF Top, Lock
<1>7. CASE ReadFailed \/ ReadTooMuch \/ ReadOk \/ Push \/ Pushed
  <2>1. /\ pc \in Loop /\ pc' \in Loop /\ k' \in {k, 0, k + 1}
        /\ UNCHANGED <<loadVars, i, cmd>>
    BY <1>7 DEF ReadFailed, ReadTooMuch, ReadOk, Push, Pushing, Pushed
  <2>2. QED
    BY <2>1
<1>8. CASE Cmd
  BY <1>8 DEF Cmd, CmdLock, CmdLocked, CmdFree, CmdReload
<1>9. ASSUME NEW u \in Users, UserWants(u) \/ UserLock(u) \/ UserUnlock(u)
      PROVE  StartInv'
  BY <1>9 DEF UserWants, UserLock, UserUnlock, UserStep
<1>10. CASE UNCHANGED vars
  BY <1>10 DEF vars
<1>11. QED
  BY <1>2, <1>3, <1>4, <1>5, <1>6, <1>7, <1>8, <1>9, <1>10 DEF Next, Collect

(* A set of indices that is not empty has a least one, so cha_biao finds    *)
(* the first of the tags that match.                                        *)
LEMMA LeastIndex ==
    ASSUME NEW T, T \subseteq Nat, T # {}
    PROVE  \E x \in T : \A y \in T : x <= y
<1>1. PICK x \in T : \A y \in T : ~ (<<y, x>> \in OpToRel(<, Nat))
  BY NatLessThanWellFounded, WFMin
<1>2. ASSUME NEW y \in T PROVE x <= y
  <2>1. y \in Nat /\ x \in Nat
    OBVIOUS
  <2>2. ~ (y < x)
    BY <1>1, <2>1 DEF OpToRel
  <2>3. QED
    BY <2>1, <2>2
<1>3. QED
  BY <1>2

LEMMA MatchFound ==
    ASSUME Matches # {}, Serial \in Seq(Tag)
    PROVE  Match \in Matches /\ Match \in DOMAIN Serial /\ Match # 0
<1>1. Matches \subseteq DOMAIN Serial /\ DOMAIN Serial = 1..Len(Serial) /\ Len(Serial) \in Nat
  BY DEF Matches
<1>2. \E x \in Matches : \A y \in Matches : x <= y
  BY <1>1, LeastIndex
<1>3. Match \in Matches
  BY <1>2 DEF Match
<1>4. QED
  BY <1>1, <1>3

(* What the sample uploaded last says: its tag has a register of the        *)
(* request it was read by, and its value is what that register held, cut to *)
(* the width of the request and cast to the type of the tag.                *)
SampleOf(t, r) ==
    /\ t.slave = r.slave /\ t.fun = r.fun
    /\ t.addr \in r.addr..(r.addr + r.quantity - 1)
    /\ t.fun = 3 /\ ~Averaging(r) =>
          sample.value = Scaled(sample.tag,
                            Cast(t.type, (word + t.addr) % Values[Width(r.fun, r.type)]))

SampleInv ==
    sample # NoSample =>
        /\ pc \in {"push", "unlock", "top"}
        /\ stage = "loaded"
        /\ sample.request \in DOMAIN OptSerial /\ sample.tag \in DOMAIN Serial
        /\ SampleOf(Serial[sample.tag], OptSerial[sample.request])

(* A sample is that of a matching tag. *)
LEMMA PushSample ==
    ASSUME TablesInv, StartInv, Push
    PROVE  SampleInv'
<1>1. /\ Serial \in Seq(Tag) /\ OptSerial \in Seq(Request)
      /\ pc = "push" /\ pc' = "push" /\ stage = "loaded" /\ i \in DOMAIN OptSerial
      /\ k \in Nat /\ k < Request0.quantity /\ Matches # {}
      /\ UNCHANGED <<loadVars, word>>
  BY DEF TablesInv, LoadInv, LoadTypeOK, StartInv, Loop, Push, Pushing, At
<1>2. PICK m \in DOMAIN Serial : m = Match /\ m \in Matches
  BY <1>1, MatchFound
<1>3. PICK r \in Request : r = Request0
  BY <1>1 DEF Request0
<1>4. /\ sample'.tag = m /\ sample'.request = i
      /\ ~Averaging(r) => sample'.value = Value
  BY <1>2, <1>3 DEF Push
<1>5. Serial[m].slave = r.slave /\ Serial[m].fun = r.fun /\ Serial[m].addr = r.addr + k
  BY <1>2, <1>3 DEF Matches
<1>6. r.addr \in Nat /\ r.quantity \in Nat
  BY RequestNumbers
<1>7. Serial[m].addr \in r.addr..(r.addr + r.quantity - 1)
  BY <1>1, <1>3, <1>5, <1>6
<1>8. Serial[m].fun = 3 /\ ~Averaging(r) =>
        sample'.value = Scaled(m, Cast(Serial[m].type,
            (word + Serial[m].addr) % Values[Width(r.fun, r.type)]))
  BY <1>2, <1>3, <1>4, <1>5 DEF Value, Holding, Register
<1>9. /\ pc' = "push" /\ stage' = "loaded" /\ word' = word
      /\ sample'.request \in DOMAIN OptSerial' /\ sample'.tag \in DOMAIN Serial'
      /\ OptSerial'[sample'.request] = r /\ Serial'[sample'.tag] = Serial[m]
  BY <1>1, <1>3, <1>4 DEF loadVars, Request0
<1>10. SampleOf(Serial[sample.tag], OptSerial[sample.request])'
  BY <1>4, <1>5, <1>7, <1>8, <1>9 DEF SampleOf
<1>11. QED
  BY <1>9, <1>10 DEF SampleInv

(* The other steps end a sample, or leave it and what it was made of. *)
LEMMA SampleStep == TablesInv /\ StartInv /\ SampleInv /\ [Next]_vars => SampleInv'
<1> SUFFICES ASSUME TablesInv, StartInv, SampleInv, [Next]_vars PROVE SampleInv'
  OBVIOUS
<1>1. CASE Top
  BY <1>1 DEF Top, SampleInv
<1>2. CASE Lock \/ ReadFailed \/ ReadTooMuch \/ ReadOk
  <2>1. pc \in {"lock", "read"} /\ sample' = sample
    BY <1>2 DEF Lock, ReadFailed, ReadTooMuch, ReadOk, At, outVars
  <2>2. QED
    BY <2>1 DEF SampleInv
<1>3. CASE Push
  BY <1>3, PushSample
<1>4. CASE NoTag \/ Pushed \/ Unlock
  <2>1. /\ pc' \in {"unlock", "top"}
        /\ UNCHANGED <<loadVars, sample, word>>
    BY <1>4 DEF NoTag, Pushed, Unlock, outVars
  <2>2. QED
    BY <2>1 DEF SampleInv, SampleOf, loadVars
<1>5. CASE Load \/ LoadQuits \/ CreateCmd \/ InitCollect \/ CreateCollect
  <2>1. pc \in {"none", "create"} \/ stage # "loaded" \/ UNCHANGED <<loadVars, pc>>
    BY <1>5 DEF LoadQuits, CreateCmd, InitCollect, CreateCollect, Load, LoadNext, UnknownType,
         Merge, NextRequest, WideQuits, Loaded, Loading, Complete, collectVars
  <2>2. UNCHANGED <<sample, word>>
    BY <1>5 DEF LoadQuits, CreateCmd, InitCollect, CreateCollect, Load, outVars
  <2>3. QED
    BY <2>1, <2>2 DEF SampleInv, SampleOf, loadVars
<1>6. CASE IoMissing \/ Exit \/ Cmd
  <2>1. UNCHANGED <<loadVars, pc, sample, word>>
    BY <1>6 DEF IoMissing, Exit, Cmd, CmdLock, CmdLocked, CmdFree, CmdReload, collectVars, outVars
  <2>2. QED
    BY <2>1 DEF SampleInv, SampleOf, loadVars
<1>7. ASSUME NEW u \in Users, UserWants(u) \/ UserLock(u) \/ UserUnlock(u)
      PROVE  SampleInv'
  <2>1. UNCHANGED <<loadVars, pc, sample, word>>
    BY <1>7 DEF UserWants, UserLock, UserUnlock, UserStep, collectVars, outVars
  <2>2. QED
    BY <2>1 DEF SampleInv, SampleOf, loadVars
<1>8. CASE UNCHANGED vars
  BY <1>8 DEF vars, collectVars, outVars, SampleInv, SampleOf, loadVars
<1>9. QED
  BY <1>1, <1>2, <1>3, <1>4, <1>5, <1>6, <1>7, <1>8 DEF Next, Collect

(* If no two tags have a register in common, the tag of a sample is the one *)
(* that the optimizer has compared the width of.                            *)
LEMMA SampleWidth ==
    ASSUME TablesInv, SampleInv, Disjoint, sample # NoSample
    PROVE  LET t == Serial[sample.tag]
               r == OptSerial[sample.request]
           IN  t \in Tag /\ SampleOf(t, r) /\ Bits(t.type) = Bits(r.type)
<1> DEFINE t == Serial[sample.tag]
           r == OptSerial[sample.request]
<1>1. /\ sample.request \in DOMAIN OptSerial /\ sample.tag \in DOMAIN Serial
      /\ stage = "loaded" /\ SampleOf(t, r)
  BY DEF SampleInv
<1>2. Serial \in Seq(Tag)
  BY DEF TablesInv, LoadInv, LoadTypeOK
<1>3. t \in Tag /\ t.addr \in Nat /\ t.quantity \in Nat
  BY <1>1, <1>2, TagNumbers
<1>4. Backed(Serial, r, r.quantity)
  BY <1>1, LoadedBacked DEF TablesInv, RunsBacked
<1>5. PICK m \in DOMAIN Serial : Serves(Serial[m], r, t.addr)
  BY <1>1, <1>4 DEF Backed, SampleOf
<1>6. <<t.slave, t.fun, t.addr>> \in Reg(Serial[m])
  BY <1>1, <1>5 DEF Serves, SampleOf, Reg, Span
<1>7. t.addr \in t.addr..(t.addr + t.quantity - 1)
  BY <1>1, <1>3 DEF Disjoint
<1>8. <<t.slave, t.fun, t.addr>> \in Reg(t)
  BY <1>7 DEF Reg, Span
<1>9. m = sample.tag
  BY <1>1, <1>6, <1>8 DEF Disjoint
<1>10. Bits(t.type) = Bits(r.type)
  BY <1>5, <1>9 DEF Serves
<1>11. QED
  BY <1>1, <1>3, <1>10

(* Hence it is decoded as wide as it is, and its value is its register's. *)
LEMMA SampleTrue == TablesInv /\ SampleInv => SameWidth /\ ValueOfTag
<1> SUFFICES ASSUME TablesInv, SampleInv, Disjoint, sample # NoSample
             PROVE  SameWidth /\ ValueOfTag
  BY DEF SameWidth, ValueOfTag
<1> DEFINE t == Serial[sample.tag]
           r == OptSerial[sample.request]
<1>1. SampleOf(t, r) /\ Bits(t.type) = Bits(r.type)
  BY SampleWidth
<1>2. Width(r.fun, r.type) = Width(t.fun, t.type)
  BY <1>1 DEF Width, SampleOf
<1>3. Averaging(t) <=> Averaging(r)
  BY <1>1 DEF Averaging, SampleOf
<1>4. t.fun = 3 /\ ~Averaging(t) =>
          sample.value = Scaled(sample.tag, Cast(t.type, Register(t, t.addr)))
  BY <1>1, <1>2, <1>3 DEF SampleOf, Register
<1>5. QED
  BY <1>1, <1>4 DEF SameWidth, ValueOfTag

-----------------------------------------------------------------------------
(* On a regular line the alarm names a device that did not answer, except   *)
(* while the values of its next answer are uploaded.                        *)
AlarmInv ==
    /\ pc = "none" => alarm = 0
    /\ answered \in [{Serial[n].slave : n \in DOMAIN Serial} -> BOOLEAN]
    /\ Regular => \/ alarm = 0
                  \/ ~answered[alarm]
                  \/ pc = "push" /\ Holding /\ alarm = Request0.slave

(* Every request is one of a device that has tags. *)
LEMMA RequestOfDevice ==
    ASSUME TablesInv, StartInv, pc \in Loop
    PROVE  /\ stage = "loaded"
           /\ Request0 \in Request
           /\ Backed(Serial, Request0, Request0.quantity)
           /\ Request0.slave \in {Serial[n].slave : n \in DOMAIN Serial}
<1>1. stage = "loaded" /\ OptSerial \in Seq(Request) /\ i \in DOMAIN OptSerial
  BY DEF StartInv, Loop, TablesInv, LoadInv, LoadTypeOK
<1>2. Backed(Serial, Request0, Request0.quantity)
  BY <1>1, LoadedBacked DEF TablesInv, RunsBacked, Request0
<1>3. QED
  BY <1>1, <1>2 DEF Backed, Request0

(* On a regular line a tag begins at every register of a request, and no    *)
(* answer is too long.                                                      *)
LEMMA RegularAnswer ==
    ASSUME TablesInv, StartInv, Regular, pc \in Loop
    PROVE  Fits /\ ~NoTag
<1>1. Fits
  BY DEF StartInv, Loop, TablesInv, LoadInv, LoadTypeOK, Regular, Fits, Request0
<1>2. ASSUME NoTag PROVE FALSE
  <2>1. Backed(Serial, Request0, Request0.quantity)
    BY RequestOfDevice
  <2>2. k \in Nat /\ k < Request0.quantity /\ Matches = {}
    BY <1>2 DEF NoTag, Pushing, StartInv
  <2>3. Request0.addr \in Nat /\ Request0.quantity \in Nat
    BY RequestOfDevice, RequestNumbers
  <2>4. Request0.addr + k \in Request0.addr..(Request0.addr + Request0.quantity - 1)
    BY <2>2, <2>3
  <2>5. PICK m \in DOMAIN Serial : Serves(Serial[m], Request0, Request0.addr + k)
    BY <2>1, <2>4 DEF Backed
  <2>6. Serial \in Seq(Tag) /\ Serial[m].quantity = 1
    BY DEF Regular, Single, TablesInv, LoadInv, LoadTypeOK
  <2>7. Serial[m].addr \in Nat
    BY <2>6, TagNumbers
  <2>8. Serial[m].addr = Request0.addr + k
    BY <2>2, <2>3, <2>5, <2>6, <2>7 DEF Serves
  <2>9. m \in Matches
    BY <2>5, <2>8 DEF Matches, Serves
  <2>10. QED
    BY <2>2, <2>9
<1>3. QED
  BY <1>1, <1>2

(* What a request that failed, was answered, or has been uploaded does to   *)
(* the alarm.                                                               *)
LEMMA AlarmCollect ==
    ASSUME TablesInv, StartInv, AlarmInv, Collect
    PROVE  AlarmInv'
<1>1. UNCHANGED loadVars /\ Regular' = Regular /\ pc \in Loop /\ pc' # "none"
  <2>1. UNCHANGED loadVars /\ pc \in Loop /\ pc' # "none"
    BY DEF Collect, Top, Lock, ReadFailed, ReadTooMuch, ReadOk, Push, NoTag, Pushing, Pushed, Unlock,
           At, Loop
  <2>2. Regular' = Regular
    BY <2>1 DEF Regular, Single, Disjoint, Reg, Span, loadVars
  <2>3. QED
    BY <2>1, <2>2
<1>2. Request0.slave \in {Serial[n].slave : n \in DOMAIN Serial}
  BY <1>1, RequestOfDevice
<1>3. CASE Top \/ Lock \/ Unlock
  <2>1. UNCHANGED <<alarm, answered>> /\ pc # "push"
    BY <1>3 DEF Top, Lock, Unlock, At, outVars
  <2>2. QED
    BY <1>1, <2>1 DEF AlarmInv, loadVars
<1>4. CASE Push
  <2>1. UNCHANGED <<alarm, answered, pc, i>>
    BY <1>4 DEF Push
  <2>2. QED
    BY <1>1, <2>1 DEF AlarmInv, loadVars, Holding, Request0
<1>5. CASE NoTag
  <2>1. ~Regular
    BY <1>1, <1>5, RegularAnswer
  <2>2. UNCHANGED answered
    BY <1>5 DEF NoTag, outVars
  <2>3. QED
    BY <1>1, <2>1, <2>2 DEF AlarmInv, loadVars
<1>6. CASE ReadTooMuch
  <2>1. ~Regular
    BY <1>1, <1>6, RegularAnswer DEF ReadTooMuch
  <2>2. answered' = [answered EXCEPT ![Request0.slave] = TRUE] \/ answered' = answered
    BY <1>6 DEF ReadTooMuch, Answered
  <2>3. QED
    BY <1>1, <2>1, <2>2 DEF AlarmInv, loadVars
<1>7. CASE ReadFailed
  <2>1. pc = "read" /\ pc' = "unlock"
    BY <1>7 DEF ReadFailed, At
  <2>2. CASE Holding
    <3>1. /\ alarm' \in {alarm, Request0.slave}
          /\ answered' = [answered EXCEPT ![Request0.slave] = FALSE]
      BY <1>7, <2>2 DEF ReadFailed, RaiseAlarm, Answered
    <3>2. answered'[Request0.slave] = FALSE
      BY <1>2, <3>1 DEF AlarmInv
    <3>3. \A d : d # Request0.slave => answered'[d] = answered[d]
      BY <3>1 DEF AlarmInv
    <3>4. answered' \in [{Serial[n].slave : n \in DOMAIN Serial} -> BOOLEAN]
      BY <3>1 DEF AlarmInv
    <3>5. Regular => alarm' = 0 \/ ~answered'[alarm']
      <4>1. CASE alarm' = Request0.slave
        BY <3>2, <4>1
      <4>2. CASE alarm' # Request0.slave
        <5>1. alarm' = alarm /\ answered'[alarm] = answered[alarm]
          BY <3>1, <3>3, <4>2
        <5>2. QED
          BY <2>1, <5>1 DEF AlarmInv
      <4>3. QED
        BY <4>1, <4>2
    <3>6. QED
      BY <1>1, <2>1, <3>4, <3>5 DEF AlarmInv, loadVars
  <2>3. CASE ~Holding
    <3>1. UNCHANGED <<alarm, answered>>
      BY <1>7, <2>3 DEF ReadFailed, RaiseAlarm, Answered
    <3>2. QED
      BY <1>1, <2>1, <3>1 DEF AlarmInv, loadVars
  <2>4. QED
    BY <2>2, <2>3
<1>8. CASE ReadOk
  <2>1. pc = "read" /\ pc' = "push" /\ UNCHANGED <<alarm, i>>
    BY <1>8 DEF ReadOk, At
  <2>2. Holding' = Holding /\ Request0' = Request0
    BY <1>1, <2>1 DEF Holding, Request0, loadVars
  <2>3. CASE Holding
    <3>1. answered' = [answered EXCEPT ![Request0.slave] = TRUE]
      BY <1>8, <2>3 DEF ReadOk, Answered
    <3>2. \A d : d # Request0.slave => answered'[d] = answered[d]
      BY <3>1 DEF AlarmInv
    <3>3. answered' \in [{Serial[n].slave : n \in DOMAIN Serial} -> BOOLEAN]
      BY <3>1 DEF AlarmInv
    <3>4. Regular => alarm = 0 \/ ~answered'[alarm] \/ alarm = Request0.slave
      <4>1. CASE alarm # Request0.slave
        <5>1. answered'[alarm] = answered[alarm]
          BY <3>2, <4>1
        <5>2. QED
          BY <2>1, <5>1 DEF AlarmInv
      <4>2. QED
        BY <4>1
    <3>5. QED
      BY <1>1, <2>1, <2>2, <2>3, <3>3, <3>4 DEF AlarmInv, loadVars
  <2>4. CASE ~Holding
    <3>1. answered' = answered
      BY <1>8, <2>4 DEF ReadOk, Answered
    <3>2. QED
      BY <1>1, <2>1, <3>1 DEF AlarmInv, loadVars
  <2>5. QED
    BY <2>3, <2>4
<1>9. CASE Pushed
  <2>1. /\ alarm' = IF Holding THEN 0 ELSE alarm
        /\ answered' = answered /\ pc' = "unlock"
    BY <1>9 DEF Pushed
  <2>2. QED
    BY <1>1, <2>1 DEF AlarmInv, loadVars
<1>10. QED
  BY <1>3, <1>4, <1>5, <1>6, <1>7, <1>8, <1>9 DEF Collect

(* The others leave the alarm alone, and what it says. *)
LEMMA AlarmStep == TablesInv /\ StartInv /\ AlarmInv /\ [Next]_vars => AlarmInv'
<1> SUFFICES ASSUME TablesInv, StartInv, AlarmInv, [Next]_vars PROVE AlarmInv'
  OBVIOUS
<1>1. CASE Collect
  BY <1>1, AlarmCollect
<1>2. CASE Load
  <2>1. Serial' = Serial /\ UNCHANGED <<alarm, answered, pc>>
    BY <1>2 DEF Load, LoadNext, UnknownType, Merge, NextRequest, WideQuits, Loaded, Complete,
                collectVars, outVars
  <2>2. stage # "loaded"
    BY <1>2 DEF Load, LoadNext, UnknownType, Merge, NextRequest, WideQuits, Loaded, Loading, Complete
  <2>3. alarm = 0
    BY <2>2 DEF StartInv, AlarmInv
  <2>4. QED
    BY <2>1, <2>3 DEF AlarmInv
<1>3. CASE InitCollect \/ CreateCollect
  <2>1. UNCHANGED <<loadVars, alarm, answered>> /\ pc # "push" /\ pc' # "none"
    BY <1>3 DEF InitCollect, CreateCollect, outVars
  <2>2. Regular' = Regular
    BY <2>1 DEF Regular, Single, Disjoint, Reg, Span, loadVars
  <2>3. QED
    BY <2>1, <2>2 DEF AlarmInv, loadVars
<1>4. ASSUME UNCHANGED <<loadVars, collectVars, alarm, answered>> PROVE AlarmInv'
  <2>1. Regular' = Regular
    BY <1>4 DEF Regular, Single, Disjoint, Reg, Span, loadVars
  <2>2. Holding' = Holding /\ Request0' = Request0
    BY <1>4 DEF Holding, Request0, loadVars, collectVars
  <2>3. QED
    BY <1>4, <2>1, <2>2 DEF AlarmInv, loadVars, collectVars
<1>5. CASE LoadQuits \/ CreateCmd \/ IoMissing \/ Exit \/ Cmd
  BY <1>4, <1>5 DEF LoadQuits, CreateCmd, IoMissing, Exit, Cmd, CmdLock, CmdLocked, CmdFree, CmdReload,
                    outVars
<1>6. ASSUME NEW u \in Users, UserWants(u) \/ UserLock(u) \/ UserUnlock(u)
      PROVE  AlarmInv'
  BY <1>4, <1>6 DEF UserWants, UserLock, UserUnlock, UserStep, outVars
<1>7. CASE UNCHANGED vars
  BY <1>4, <1>7 DEF vars, outVars
<1>8. QED
  BY <1>1, <1>2, <1>3, <1>5, <1>6, <1>7 DEF Next

(* Everything together. *)
CollectInv == TablesInv /\ StartInv /\ SampleInv /\ AlarmInv

LEMMA InitCollectInv == Init => CollectInv
<1> SUFFICES ASSUME Init PROVE CollectInv
  OBVIOUS
<1>1. LoadInit
  BY DEF Init
<1>2. TablesInv /\ OptSerial \in Seq(Request)
  BY <1>1, InitLoadInv, InitWidthInv DEF TablesInv, LoadInv, LoadTypeOK
<1>3. StartInv
  BY <1>1, <1>2 DEF Init, StartInv, Loop, LoadInit
<1>4. SampleInv
  BY DEF Init, SampleInv
<1>5. AlarmInv
  BY DEF Init, AlarmInv
<1>6. QED
  BY <1>2, <1>3, <1>4, <1>5 DEF CollectInv

LEMMA CollectInvStep == CollectInv /\ [Next]_vars => CollectInv'
BY TablesStep, StartStep, SampleStep, AlarmStep DEF CollectInv

(* The tables of a running collector are what the optimizer promises: every *)
(* register of the tags is asked for and no other one, and one-register tags *)
(* in requests within MAX_DATE_LEN.                                         *)
THEOREM CollectorTables == Spec => []Optimized
<1>1. CollectInv => Optimized
  BY LoadedCovers DEF CollectInv, TablesInv, LoadInv, Optimized
<1>2. QED
  BY <1>1, InitCollectInv, CollectInvStep, PTL DEF Spec

(* A sample is uploaded for a tag that is as wide as it was decoded, with   *)
(* the value of the tag's register, and on a regular line the alarm names a *)
(* device that did not answer when it was asked last (thread_modbus_collect *)
(* and cha_biao after LoadTagList), for every table and any devices.        *)
THEOREM UploadsAreTrue == Spec => []UploadsTrue
<1>1. CollectInv => UploadsTrue
  <2> SUFFICES ASSUME CollectInv PROVE UploadsTrue
    OBVIOUS
  <2>1. SameWidth /\ ValueOfTag
    BY SampleTrue DEF CollectInv
  <2>2. Regular => AlarmOfSilent
    BY DEF CollectInv, AlarmInv, AlarmOfSilent
  <2>3. QED
    BY <2>1, <2>2 DEF UploadsTrue
<1>2. QED
  BY <1>1, InitCollectInv, CollectInvStep, PTL DEF Spec

-----------------------------------------------------------------------------
(* The average. *)

(* The first values of a sequence, one after the other: t[n] is the sum of  *)
(* the first n.                                                             *)
Sums(t, s) == t[0] = 0 /\ \A n \in 1..Len(s) : t[n] = t[n - 1] + s[n]

(* A set of numbers with 0 and, with each but the last, the next.           *)
LEMMA CountedUp ==
    ASSUME NEW b \in Nat, NEW S, 0 \in S, \A n \in 0..b : n \in S /\ n < b => n + 1 \in S
    PROVE  \A n \in 0..b : n \in S
<1> DEFINE T == {n \in Nat : n <= b /\ n \notin S}
<1>1. SUFFICES ASSUME T # {} PROVE FALSE
  OBVIOUS
<1>2. PICK n \in T : \A y \in T : ~(<<y, n>> \in OpToRel(<, Nat))
  <2>1. T \subseteq Nat
    OBVIOUS
  <2>2. QED
    BY <1>1, <2>1, NatLessThanWellFounded, WFMin
<1>3. n # 0
  OBVIOUS
<1>4. n - 1 \in Nat /\ n - 1 < n
  BY <1>3
<1>5. n - 1 \notin T
  BY <1>2, <1>4 DEF OpToRel
<1>6. n - 1 \in S /\ n - 1 \in 0..b /\ n - 1 < b
  BY <1>4, <1>5
<1>7. (n - 1) + 1 = n
  OBVIOUS
<1>8. QED
  BY <1>6, <1>7

(* The recursion has a solution, built from the first value on, and the sum *)
(* of the sequence is its last.                                             *)
LEMMA SumIs ==
    ASSUME NEW s \in Seq(Int)
    PROVE  \E t : Sums(t, s) /\ SumOf(s) = t[Len(s)] /\ \A n \in 0..Len(s) : t[n] \in Int
<1> DEFINE L == Len(s)
           F(m, t) == [n \in 0..m |-> IF n = 0 THEN 0 ELSE t[n - 1] + s[n]]
           S == {m \in 0..L : \E t : t = F(m, t)}
<1>0. L \in Nat
  OBVIOUS
<1>1. 0 \in S
  <2> DEFINE t == [n \in 0..0 |-> 0]
  <2>1. t = F(0, t)
    OBVIOUS
  <2> HIDE DEF t, F
  <2>2. QED
    BY <1>0, <2>1
<1>2. ASSUME NEW m \in 0..L, m \in S, m < L PROVE m + 1 \in S
  <2>1. PICK t : t = F(m, t)
    BY <1>2
  <2> DEFINE u == [n \in 0..(m + 1) |-> IF n = m + 1 THEN t[m] + s[m + 1] ELSE t[n]]
  <2>2. m + 1 \in 0..L /\ m \in Nat
    BY <1>0, <1>2
  <2>3. ASSUME NEW n \in 0..(m + 1) PROVE u[n] = IF n = 0 THEN 0 ELSE u[n - 1] + s[n]
    <3>1. CASE n = m + 1
      <4>1. n - 1 = m /\ n # 0 /\ m \in 0..(m + 1) /\ m # m + 1
        BY <2>2, <3>1
      <4>2. QED
        BY <3>1, <4>1
    <3>2. CASE n # m + 1
      <4>1. n \in 0..m /\ (n # 0 => n - 1 \in 0..(m + 1) /\ n - 1 # m + 1)
        BY <2>2, <3>2
      <4>2. t[n] = IF n = 0 THEN 0 ELSE t[n - 1] + s[n]
        BY <2>1, <4>1
      <4>3. QED
        BY <3>2, <4>1, <4>2
    <3>3. QED
      BY <3>1, <3>2
  <2>4. u = F(m + 1, u)
    BY <2>3
  <2> HIDE DEF u, F
  <2>5. QED
    BY <2>2, <2>4
<1>3. L \in S
  <2> HIDE DEF S
  <2>1. \A n \in 0..L : n \in S
    BY <1>0, <1>1, <1>2, CountedUp
  <2>2. QED
    BY <1>0, <2>1
<1> DEFINE t == CHOOSE z : z = F(L, z)
<1>4. t = F(L, t)
  <2>1. PICK g : g = F(L, g)
    BY <1>3
  <2> HIDE DEF F
  <2>2. QED
    BY <2>1
<1>5. SumOf(s) = t[L]
  BY DEF SumOf
<1> HIDE DEF t
<1>6. \A n \in 0..L : t[n] = IF n = 0 THEN 0 ELSE t[n - 1] + s[n]
  BY <1>4
<1>7. Sums(t, s)
  <2>1. \A n \in 1..L : n \in 0..L /\ n # 0
    OBVIOUS
  <2>2. QED
    BY <1>0, <1>6, <2>1 DEF Sums
<1>8. \A n \in 0..L : t[n] \in Int
  <2> DEFINE U == {n \in 0..L : t[n] \in Int}
  <2>1. 0 \in U
    BY <1>0, <1>6
  <2>2. ASSUME NEW n \in 0..L, n \in U, n < L PROVE n + 1 \in U
    <3>1. n + 1 \in 0..L /\ n + 1 # 0 /\ (n + 1) - 1 = n /\ n + 1 \in 1..L
      BY <1>0, <2>2
    <3>2. t[n + 1] = t[n] + s[n + 1]
      BY <1>6, <3>1
    <3>3. s[n + 1] \in Int
      BY <3>1
    <3>4. QED
      BY <2>2, <3>1, <3>2, <3>3
  <2> HIDE DEF U
  <2>3. \A n \in 0..L : n \in U
    BY <1>0, <2>1, <2>2, CountedUp
  <2>4. QED
    BY <2>3 DEF U
<1>9. QED
  BY <1>5, <1>7, <1>8

(* One term more in a difference. *)
LEMMA TermMore ==
    ASSUME NEW a \in Int, NEW b \in Int, NEW c \in Int
    PROVE  (a - b) + c = (a + c) - b /\ \A e \in Int : (e - b + a) + c = e - b + (a + c)
OBVIOUS

(* A sequence that begins with another one behind its first m elements, and *)
(* ends with those, has the same sum.                                       *)
Turned(w, v, L, m) ==
    /\ Len(v) = L /\ Len(w) = L
    /\ \A n \in 1..(L - m) : w[n] = v[m + n]
    /\ \A n \in (L - m + 1)..L : w[n] = v[n - (L - m)]

LEMMA SameSum ==
    ASSUME NEW L \in Nat, NEW m \in 0..L, NEW v \in Seq(Int), NEW w \in Seq(Int), Turned(w, v, L, m)
    PROVE  SumOf(w) = SumOf(v)
<1>0. /\ Len(v) = L /\ Len(w) = L
      /\ \A n \in 1..(L - m) : w[n] = v[m + n]
      /\ \A n \in (L - m + 1)..L : w[n] = v[n - (L - m)]
  BY DEF Turned
<1>1. PICK t : Sums(t, v) /\ SumOf(v) = t[Len(v)] /\ \A n \in 0..Len(v) : t[n] \in Int
  BY SumIs
<1>2. PICK u : Sums(u, w) /\ SumOf(w) = u[Len(w)] /\ \A n \in 0..Len(w) : u[n] \in Int
  BY SumIs
<1> DEFINE V(n) == IF n <= L - m THEN t[m + n] - t[m] ELSE t[L] - t[m] + t[n - (L - m)]
           S == {n \in 0..L : u[n] = V(n)}
<1>3. /\ t[0] = 0 /\ u[0] = 0 /\ m \in 0..L /\ m \in Nat /\ L - m \in Nat
      /\ \A n \in 0..L : t[n] \in Int /\ u[n] \in Int
      /\ \A n \in 1..L : t[n] = t[n - 1] + v[n] /\ u[n] = u[n - 1] + w[n]
      /\ \A n \in 1..L : v[n] \in Int /\ w[n] \in Int
  BY <1>0, <1>1, <1>2 DEF Sums
<1>4. 0 \in S
  <2>1. 0 <= L - m /\ m + 0 = m /\ t[m] - t[m] = 0
    BY <1>3
  <2>2. QED
    BY <1>3, <2>1
<1>5. ASSUME NEW n \in 0..L, n \in S, n < L PROVE n + 1 \in S
  <2>1. n + 1 \in 0..L /\ n + 1 \in 1..L /\ (n + 1) - 1 = n /\ n \in Nat
    BY <1>5
  <2>2. u[n + 1] = u[n] + w[n + 1]
    BY <1>3, <2>1
  <2>3. u[n] = V(n)
    BY <1>5
  <2>4. CASE n + 1 <= L - m
    <3>1. /\ n <= L - m /\ n + 1 \in 1..(L - m) /\ m + (n + 1) \in 1..L /\ (m + (n + 1)) - 1 = m + n
          /\ m + n \in 0..L
      BY <1>3, <2>1, <2>4
    <3>2. w[n + 1] = v[m + (n + 1)] /\ t[m + (n + 1)] = t[m + n] + v[m + (n + 1)]
      BY <1>0, <1>3, <3>1
    <3>3. V(n) = t[m + n] - t[m] /\ V(n + 1) = t[m + (n + 1)] - t[m]
      BY <2>4, <3>1
    <3>4. t[m + n] \in Int /\ t[m] \in Int /\ v[m + (n + 1)] \in Int
      BY <1>3, <3>1
    <3> HIDE DEF V
    <3>5. u[n + 1] = V(n + 1)
      <4>1. u[n + 1] = (t[m + n] - t[m]) + v[m + (n + 1)]
        BY <2>2, <2>3, <3>2, <3>3
      <4>2. V(n + 1) = (t[m + n] + v[m + (n + 1)]) - t[m]
        BY <3>2, <3>3
      <4>3. (t[m + n] - t[m]) + v[m + (n + 1)] = (t[m + n] + v[m + (n + 1)]) - t[m]
        BY <3>4, TermMore
      <4>4. QED
        BY <4>1, <4>2, <4>3
    <3>6. QED
      BY <2>1, <3>5
  <2>5. CASE ~(n + 1 <= L - m)
    <3> DEFINE h == n - (L - m)
    <3>1. /\ h + 1 \in 1..L /\ h \in 0..L /\ (h + 1) - 1 = h /\ n + 1 \in (L - m + 1)..L
          /\ (n + 1) - (L - m) = h + 1
      BY <1>3, <2>1, <2>5
    <3>2. w[n + 1] = v[h + 1] /\ t[h + 1] = t[h] + v[h + 1]
      BY <1>0, <1>3, <3>1
    <3>3. V(n + 1) = t[L] - t[m] + t[h + 1]
      BY <2>5, <3>1
    <3>4. L \in 0..L /\ t[L] \in Int /\ t[m] \in Int /\ t[h] \in Int /\ v[h + 1] \in Int
      BY <1>3, <3>1
    <3>5. V(n) = t[L] - t[m] + t[h]
      <4>1. CASE n <= L - m
        <5>1. n = L - m /\ m + n = L /\ h = 0
          BY <1>3, <2>1, <2>5, <4>1
        <5>2. QED
          BY <1>3, <3>4, <4>1, <5>1
      <4>2. CASE ~(n <= L - m)
        BY <4>2
      <4>3. QED
        BY <4>1, <4>2
    <3> HIDE DEF V, h
    <3>6. u[n + 1] = V(n + 1)
      <4>1. u[n + 1] = (t[L] - t[m] + t[h]) + v[h + 1]
        BY <2>2, <2>3, <3>2, <3>5
      <4>2. V(n + 1) = t[L] - t[m] + (t[h] + v[h + 1])
        BY <3>2, <3>3
      <4>3. (t[L] - t[m] + t[h]) + v[h + 1] = t[L] - t[m] + (t[h] + v[h + 1])
        BY <3>4, TermMore
      <4>4. QED
        BY <4>1, <4>2, <4>3
    <3>7. QED
      BY <2>1, <3>6
  <2>6. QED
    BY <2>4, <2>5
<1>6. L \in S
  <2> HIDE DEF S
  <2>1. \A n \in 0..L : n \in S
    BY <1>4, <1>5, CountedUp
  <2>2. QED
    BY <2>1
<1>7. V(L) = t[L]
  <2>1. L \in 0..L /\ t[L] \in Int /\ t[m] \in Int
    BY <1>3
  <2>2. CASE L <= L - m
    <3>1. m = 0 /\ m + L = L
      BY <1>3, <2>2
    <3>2. QED
      BY <1>3, <2>1, <2>2, <3>1
  <2>3. CASE ~(L <= L - m)
    <3>1. L - (L - m) = m
      BY <1>3
    <3>2. QED
      BY <2>1, <2>3, <3>1
  <2>4. QED
    BY <2>2, <2>3
<1> HIDE DEF V
<1>8. QED
  BY <1>0, <1>1, <1>2, <1>6, <1>7

(* The values in the buffer are those seen last: until there are N, they    *)
(* stand from its beginning on; then they begin at m_i and go around.       *)
FilterInv ==
    /\ m_i \in 0..(N - 1) /\ seen \in Seq(Int) /\ Len(seen) <= N
    /\ m_value_buf = [n \in 0..(N - 1) |-> m_value_buf[n]]
    /\ Len(seen) < N => m_i = Len(seen) /\ \A n \in 1..Len(seen) : seen[n] = m_value_buf[n - 1]
    /\ Len(seen) = N =>
        /\ \A n \in 1..(N - m_i) : seen[n] = m_value_buf[m_i + n - 1]
        /\ \A n \in (N - m_i + 1)..N : seen[n] = m_value_buf[n - (N - m_i) - 1]

(* A sample of a tag that is averaged is the average of the buffer, which   *)
(* nothing has changed since.                                               *)
AverageInv ==
    /\ Serial \in Tables /\ word \in Nat
    /\ FilterInv
    /\ sample # NoSample /\ Averaging(Serial[sample.tag]) => sample.value = Average(m_value_buf)

(* What is seen after one value more. *)
LEMMA SeenLast ==
    ASSUME FilterInv, NEW x \in Int, Filter(x)
    PROVE  /\ seen' \in Seq(Int)
           /\ Len(seen) < N => /\ Len(seen') = Len(seen) + 1 /\ seen'[Len(seen) + 1] = x
                               /\ \A n \in 1..Len(seen) : seen'[n] = seen[n]
           /\ Len(seen) = N => /\ Len(seen') = N /\ seen'[N] = x
                               /\ \A n \in 1..(N - 1) : seen'[n] = seen[n + 1]
<1> DEFINE L == Len(seen)
           a == Append(seen, x)
<1>1. L \in Nat /\ N \in Nat /\ N > 0 /\ L <= N /\ seen \in Seq(Int)
  BY FilterAssumption DEF FilterInv
<1>2. a \in Seq(Int) /\ Len(a) = L + 1
  BY <1>1
<1>3. \A n \in 1..L : a[n] = seen[n]
  BY <1>1
<1>4. a[L + 1] = x
  BY <1>1
<1>5. seen' = LastN(a)
  BY DEF Filter
<1> HIDE DEF a
<1>6. CASE L < N
  <2>1. seen' = SubSeq(a, 1, L + 1)
    <3>1. ~(Len(a) > N)
      BY <1>1, <1>2, <1>6
    <3>2. LastN(a) = SubSeq(a, 1, Len(a))
      BY <3>1 DEF LastN
    <3>3. QED
      BY <1>2, <1>5, <3>2
  <2>2. seen' \in Seq(Int) /\ Len(seen') = L + 1
    BY <1>1, <1>2, <2>1
  <2>3. \A n \in 1..(L + 1) : seen'[n] = a[n]
    BY <1>1, <1>2, <2>1
  <2>4. \A n \in 1..L : n \in 1..(L + 1)
    BY <1>1
  <2>5. L + 1 \in 1..(L + 1) /\ L # N
    BY <1>1, <1>6
  <2>6. QED
    BY <1>3, <1>4, <2>2, <2>3, <2>4, <2>5
<1>7. CASE L = N
  <2>1. seen' = SubSeq(a, 2, N + 1)
    <3>1. Len(a) > N /\ Len(a) - N + 1 = 2 /\ Len(a) = N + 1
      BY <1>1, <1>2, <1>7
    <3>2. QED
      BY <1>5, <3>1 DEF LastN
  <2>2. seen' \in Seq(Int) /\ Len(seen') = N
    BY <1>1, <1>2, <1>7, <2>1
  <2>3. \A n \in 1..N : seen'[n] = a[n + 1]
    <3>1. \A n \in 1..N : seen'[n] = a[2 + n - 1]
      BY <1>1, <1>2, <1>7, <2>1
    <3>2. \A n \in 1..N : 2 + n - 1 = n + 1
      BY <1>1
    <3>3. QED
      BY <3>1, <3>2
  <2>4. \A n \in 1..(N - 1) : n \in 1..N /\ n + 1 \in 1..L
    BY <1>1, <1>7
  <2>5. N \in 1..N /\ ~(L < N)
    BY <1>1, <1>7
  <2>6. QED
    BY <1>3, <1>4, <1>7, <2>2, <2>3, <2>4, <2>5
<1>8. QED
  BY <1>1, <1>6, <1>7

LEMMA FilterStep ==
    ASSUME FilterInv, NEW x \in Int, Filter(x)
    PROVE  FilterInv'
<1> DEFINE L == Len(seen)
           b == m_value_buf
           c == m_value_buf'
           m == m_i
<1>1. L \in Nat /\ N \in Nat /\ N > 0 /\ L <= N /\ m \in 0..(N - 1) /\ m \in Nat
  BY FilterAssumption DEF FilterInv
<1>2. /\ c[m] = x /\ \A n \in 0..(N - 1) : n # m => c[n] = b[n]
      /\ c = [n \in 0..(N - 1) |-> c[n]]
  BY <1>1 DEF Filter, FilterInv
<1>3. m_i' = IF m + 1 = N THEN 0 ELSE m + 1
  <2>1. m_i' = (m + 1) % N
    BY DEF Filter
  <2>2. CASE m + 1 = N
    BY <1>1, <2>1, <2>2
  <2>3. CASE m + 1 < N
    BY <1>1, <2>1, <2>3
  <2>4. QED
    BY <1>1, <2>2, <2>3
<1>4. m_i' \in 0..(N - 1)
  BY <1>1, <1>3
<1>5. /\ seen' \in Seq(Int)
      /\ L < N => /\ Len(seen') = L + 1 /\ seen'[L + 1] = x
                  /\ \A n \in 1..L : seen'[n] = seen[n]
      /\ L = N => /\ Len(seen') = N /\ seen'[N] = x
                  /\ \A n \in 1..(N - 1) : seen'[n] = seen[n + 1]
  BY SeenLast
<1> HIDE DEF c
<1>6. CASE L < N
  <2>1. m = L /\ \A n \in 1..L : seen[n] = b[n - 1]
    BY <1>6 DEF FilterInv
  <2>2. Len(seen') = L + 1
    BY <1>5, <1>6
  <2>3. \A n \in 1..(L + 1) : seen'[n] = c[n - 1]
    <3>1. ASSUME NEW n \in 1..L PROVE seen'[n] = c[n - 1]
      <4>1. n - 1 \in 0..(N - 1) /\ n - 1 # m
        BY <1>1, <2>1, <1>6
      <4>2. c[n - 1] = b[n - 1]
        BY <1>2, <4>1
      <4>3. QED
        BY <1>5, <1>6, <2>1, <4>2
    <3>2. seen'[L + 1] = c[(L + 1) - 1]
      <4>1. (L + 1) - 1 = m
        BY <1>1, <2>1
      <4>2. QED
        BY <1>2, <1>5, <1>6, <4>1
    <3>3. \A n \in 1..(L + 1) : n \in 1..L \/ n = L + 1
      BY <1>1
    <3>4. QED
      BY <3>1, <3>2, <3>3
  <2>4. CASE m + 1 = N
    <3>1. m_i' = 0 /\ Len(seen') = N /\ ~(Len(seen') < N)
      BY <1>1, <1>3, <2>1, <2>2, <2>4
    <3>2. /\ \A n \in 1..(N - 0) : n \in 1..(L + 1) /\ 0 + n - 1 = n - 1
          /\ ~\E n \in (N - 0 + 1)..N : TRUE
      BY <1>1, <2>1, <2>4
    <3>3. QED
      BY <1>2, <1>4, <1>5, <2>3, <3>1, <3>2 DEF FilterInv, c
  <2>5. CASE m + 1 # N
    <3>1. m_i' = L + 1 /\ L + 1 < N /\ Len(seen') # N
      BY <1>1, <1>3, <2>1, <2>2, <2>5
    <3>2. QED
      BY <1>1, <1>2, <1>4, <1>5, <2>2, <2>3, <3>1 DEF FilterInv, c
  <2>6. QED
    BY <2>4, <2>5
<1>7. CASE L = N
  <2>1. Len(seen') = N /\ ~(Len(seen') < N) /\ Len(seen') <= N
    BY <1>1, <1>5, <1>7
  <2>2. /\ \A n \in 1..(N - m) : seen[n] = b[m + n - 1]
        /\ \A n \in (N - m + 1)..N : seen[n] = b[n - (N - m) - 1]
    BY <1>7 DEF FilterInv
  <2>3. /\ \A n \in 1..(N - 1) : seen'[n] = seen[n + 1]
        /\ seen'[N] = x
    BY <1>5, <1>7
  <2>4. CASE m + 1 = N
    <3>1. m_i' = 0
      BY <1>3, <2>4
    <3>2. \A n \in 1..N : seen'[n] = c[n - 1]
      <4>1. ASSUME NEW n \in 1..(N - 1) PROVE seen'[n] = c[n - 1]
        <5>1. n + 1 \in (N - m + 1)..N /\ (n + 1) - (N - m) - 1 = n - 1 /\ n - 1 \in 0..(N - 1) /\ n - 1 # m
          BY <1>1, <2>4
        <5>2. seen[n + 1] = b[n - 1]
          BY <2>2, <5>1
        <5>3. QED
          BY <1>2, <2>3, <5>1, <5>2
      <4>2. seen'[N] = c[N - 1]
        <5>1. N - 1 = m
          BY <1>1, <2>4
        <5>2. QED
          BY <1>2, <2>3, <5>1
      <4>3. \A n \in 1..N : n \in 1..(N - 1) \/ n = N
        BY <1>1
      <4>4. QED
        BY <4>1, <4>2, <4>3
    <3>3. /\ \A n \in 1..(N - 0) : n \in 1..N /\ 0 + n - 1 = n - 1
          /\ ~\E n \in (N - 0 + 1)..N : TRUE
      BY <1>1
    <3>4. QED
      BY <1>2, <1>4, <1>5, <2>1, <3>1, <3>2, <3>3 DEF FilterInv, c
  <2>5. CASE m + 1 # N
    <3>1. m_i' = m + 1 /\ m + 1 < N
      BY <1>1, <1>3, <2>5
    <3>2. \A n \in 1..(N - (m + 1)) : seen'[n] = c[(m + 1) + n - 1]
      <4>1. ASSUME NEW n \in 1..(N - (m + 1)) PROVE seen'[n] = c[(m + 1) + n - 1]
        <5>1. /\ n \in 1..(N - 1) /\ n + 1 \in 1..(N - m) /\ m + (n + 1) - 1 = (m + 1) + n - 1
              /\ (m + 1) + n - 1 \in 0..(N - 1) /\ (m + 1) + n - 1 # m
          BY <1>1
        <5>2. seen[n + 1] = b[(m + 1) + n - 1]
          <6>1. seen[n + 1] = b[m + (n + 1) - 1]
            BY <2>2, <5>1
          <6>2. QED
            BY <5>1, <6>1
        <5>3. QED
          BY <1>2, <2>3, <5>1, <5>2
      <4>2. QED
        BY <4>1
    <3>3. \A n \in (N - (m + 1) + 1)..N : seen'[n] = c[n - (N - (m + 1)) - 1]
      <4>1. ASSUME NEW n \in (N - (m + 1) + 1)..(N - 1) PROVE seen'[n] = c[n - (N - (m + 1)) - 1]
        <5>1. /\ n \in 1..(N - 1) /\ n + 1 \in (N - m + 1)..N /\ (n + 1) - (N - m) - 1 = n - (N - (m + 1)) - 1
              /\ n - (N - (m + 1)) - 1 \in 0..(N - 1) /\ n - (N - (m + 1)) - 1 # m
          BY <1>1, <3>1
        <5>2. seen[n + 1] = b[n - (N - (m + 1)) - 1]
          <6>1. seen[n + 1] = b[(n + 1) - (N - m) - 1]
            BY <2>2, <5>1
          <6>2. QED
            BY <5>1, <6>1
        <5>3. QED
          BY <1>2, <2>3, <5>1, <5>2
      <4>2. seen'[N] = c[N - (N - (m + 1)) - 1]
        <5>1. N - (N - (m + 1)) - 1 = m
          BY <1>1
        <5>2. QED
          BY <1>2, <2>3, <5>1
      <4>3. \A n \in (N - (m + 1) + 1)..N : n \in (N - (m + 1) + 1)..(N - 1) \/ n = N
        BY <1>1
      <4>4. QED
        BY <4>1, <4>2, <4>3
    <3>4. QED
      BY <1>2, <1>4, <1>5, <2>1, <3>1, <3>2, <3>3 DEF FilterInv, c
  <2>6. QED
    BY <2>4, <2>5
<1>8. QED
  BY <1>1, <1>6, <1>7

(* The value of a holding register is a number. *)
LEMMA ValueIsNumber ==
    ASSUME TablesInv, Serial \in Tables, word \in Nat, Request0 \in Request, k \in Nat,
           NEW m \in DOMAIN Serial, m = Match, Holding
    PROVE  Value \in Int
<1>1. Scaling[m].K \in Int /\ (Scaling[m].op = 4 => Scaling[m].K > 0)
  BY DevicesAssumption
<1>2. \A type : Values[Width(3, type)] \in Nat \ {0}
  BY ValuesAssumption DEF Width
<1>3. Request0.addr \in Nat
  BY RequestNumbers
<1> DEFINE x == Register(Request0, Request0.addr + k)
           n == Values[Width(3, Request0.type)]
           q == Values[Width(3, Serial[m].type)]
<1>4. n \in Nat \ {0} /\ q \in Nat \ {0}
  BY <1>2
<1>5. x \in Int
  <2>1. x = (word + (Request0.addr + k)) % n
    BY DEF Register, Holding
  <2>2. word + (Request0.addr + k) \in Nat
    BY <1>3
  <2> HIDE DEF x, n
  <2>3. QED
    BY <1>4, <2>1, <2>2
<1>6. Cast(Serial[m].type, x) \in Int
  <2> DEFINE y == x % q
  <2>1. y \in Int
    BY <1>4, <1>5
  <2>2. Cast(Serial[m].type, x) \in {y - q, y}
    BY DEF Cast
  <2> HIDE DEF y, q, x
  <2>3. QED
    BY <1>4, <2>1, <2>2
<1> DEFINE z == Cast(Serial[m].type, x)
<1>7. Value = Scaled(m, z)
  BY DEF Value
<1> HIDE DEF z, x, n, q
<1>8. z \in Int
  BY <1>6 DEF z
<1>9. CASE Scaling[m].op = 4
  <2>1. Scaling[m].K \in Nat \ {0}
    BY <1>1, <1>9
  <2>2. z \div Scaling[m].K \in Int
    BY <1>8, <2>1
  <2>3. Value = z \div Scaling[m].K
    BY <1>7, <1>9 DEF Scaled
  <2>4. QED
    BY <2>2, <2>3
<1>10. CASE Scaling[m].op # 4
  <2>1. Value \in {z, z + Scaling[m].K, z - Scaling[m].K, z * Scaling[m].K}
    BY <1>7, <1>10 DEF Scaled
  <2>2. QED
    BY <1>1, <1>8, <2>1
<1>11. QED
  BY <1>9, <1>10

(* The average is taken of a buffer with the new value in it. *)
LEMMA PushAverage ==
    ASSUME TablesInv, StartInv, AverageInv, Push
    PROVE  AverageInv'
<1>1. /\ pc = "push" /\ k \in Nat /\ Matches # {} /\ pc \in Loop
      /\ Serial' = Serial /\ word' = word
  BY DEF StartInv, Loop, Push, Pushing, At, loadVars
<1>2. Request0 \in Request
  BY <1>1, RequestOfDevice
<1>3. PICK m \in DOMAIN Serial : m = Match /\ m \in Matches
  <2>1. Serial \in Seq(Tag)
    BY TablesAssumption DEF AverageInv
  <2>2. QED
    BY <1>1, <2>1, MatchFound
<1>4. sample'.tag = m
  BY <1>3 DEF Push
<1>5. Averaging(Serial[m]) <=> Averaging(Request0)
  BY <1>3 DEF Averaging, Matches
<1>6. CASE Averaging(Request0)
  <2>1. Filter(Value) /\ sample'.value = Average(m_value_buf')
    BY <1>6 DEF Push
  <2>2. Holding
    BY <1>6 DEF Averaging, Holding
  <2>3. Value \in Int
    BY <1>1, <1>2, <1>3, <2>2, ValueIsNumber DEF AverageInv
  <2>4. FilterInv'
    BY <2>1, <2>3, FilterStep DEF AverageInv
  <2>5. Average(m_value_buf)' = Average(m_value_buf')
    BY DEF Average
  <2>6. QED
    BY <1>1, <2>1, <2>4, <2>5 DEF AverageInv
<1>7. CASE ~Averaging(Request0)
  <2>1. UNCHANGED filterVars
    BY <1>7 DEF Push
  <2>2. ~Averaging(Serial[sample.tag])'
    BY <1>1, <1>4, <1>5, <1>7 DEF Averaging
  <2>3. FilterInv'
    BY <2>1 DEF AverageInv, FilterInv, filterVars
  <2>4. QED
    BY <1>1, <2>2, <2>3 DEF AverageInv
<1>8. QED
  BY <1>6, <1>7

(* What a step that leaves all of it alone keeps. *)
LEMMA AverageKept ==
    ASSUME AverageInv, UNCHANGED <<Serial, filterVars>>, word' \in Nat, sample' \in {sample, NoSample}
    PROVE  AverageInv'
<1>1. FilterInv'
  BY DEF AverageInv, FilterInv, filterVars
<1>2. Average(m_value_buf)' = Average(m_value_buf)
  BY DEF Average, filterVars
<1>3. NoSample' = NoSample
  BY DEF NoSample
<1>4. QED
  BY <1>1, <1>2, <1>3 DEF AverageInv, Averaging

LEMMA AverageStep == CollectInv /\ AverageInv /\ [Next]_vars => AverageInv'
<1> SUFFICES ASSUME CollectInv, AverageInv, [Next]_vars PROVE AverageInv'
  OBVIOUS
<1>0. TablesInv /\ StartInv /\ word \in Nat
  BY DEF CollectInv, AverageInv
<1>1. CASE Push
  BY <1>0, <1>1, PushAverage
<1>2. CASE ReadOk
  <2>1. pc \in Loop /\ word' \in Readings[Request0.slave] /\ UNCHANGED <<Serial, sample, filterVars>>
    BY <1>2 DEF ReadOk, At, Loop, loadVars
  <2>2. PICK n \in DOMAIN Serial : Serial[n].slave = Request0.slave
    BY <1>0, <2>1, RequestOfDevice
  <2>3. Readings[Serial[n].slave] \subseteq Nat
    BY DevicesAssumption DEF AverageInv
  <2>4. QED
    BY <2>1, <2>2, <2>3, AverageKept
<1>3. CASE Top \/ Lock \/ ReadFailed \/ ReadTooMuch \/ NoTag \/ Pushed \/ Unlock
  <2>1. UNCHANGED <<Serial, word, filterVars>> /\ sample' \in {sample, NoSample}
    BY <1>3 DEF Top, Lock, ReadFailed, ReadTooMuch, NoTag, Pushed, Unlock, outVars, loadVars
  <2>2. QED
    BY <1>0, <2>1, AverageKept
<1>4. CASE Load \/ LoadQuits \/ CreateCmd \/ InitCollect \/ CreateCollect
  <2>1. UNCHANGED <<Serial, outVars>>
    BY <1>4 DEF LoadQuits, CreateCmd, InitCollect, CreateCollect, Load, LoadNext, UnknownType,
         Merge, NextRequest, WideQuits, Loaded, loadVars
  <2>2. QED
    BY <1>0, <2>1, AverageKept DEF outVars
<1>5. CASE IoMissing \/ Exit \/ Cmd
  <2>1. UNCHANGED <<Serial, outVars>>
    BY <1>5 DEF IoMissing, Exit, Cmd, CmdLock, CmdLocked, CmdFree, CmdReload, loadVars
  <2>2. QED
    BY <1>0, <2>1, AverageKept DEF outVars
<1>6. ASSUME NEW u \in Users, UserWants(u) \/ UserLock(u) \/ UserUnlock(u)
      PROVE  AverageInv'
  <2>1. UNCHANGED <<Serial, outVars>>
    BY <1>6 DEF UserWants, UserLock, UserUnlock, UserStep, loadVars
  <2>2. QED
    BY <1>0, <2>1, AverageKept DEF outVars
<1>7. CASE UNCHANGED vars
  <2>1. UNCHANGED <<Serial, outVars>>
    BY <1>7 DEF vars, loadVars
  <2>2. QED
    BY <1>0, <2>1, AverageKept DEF outVars
<1>8. QED
  BY <1>1, <1>2, <1>3, <1>4, <1>5, <1>6, <1>7 DEF Next, Collect

LEMMA InitAverageInv == Init => AverageInv
<1> SUFFICES ASSUME Init PROVE AverageInv
  OBVIOUS
<1>1. /\ Serial \in Tables /\ word = 0 /\ sample = NoSample
      /\ m_value_buf = [n \in 0..N-1 |-> Junk] /\ m_i = 0 /\ seen = <<>>
  BY DEF Init, LoadInit
<1>2. N \in Nat /\ N > 0 /\ seen \in Seq(Int) /\ Len(seen) = 0
  BY <1>1, FilterAssumption
<1>3. m_value_buf = [n \in 0..(N - 1) |-> m_value_buf[n]]
  BY <1>1
<1>4. FilterInv
  BY <1>1, <1>2, <1>3 DEF FilterInv
<1>5. QED
  BY <1>1, <1>4 DEF AverageInv

(* Once N values were seen, the buffer is the sequence of them, turned. *)
LEMMA AverageSeen ==
    ASSUME FilterInv, Len(seen) = N
    PROVE  Average(m_value_buf) = SumOf(seen) \div N
<1> DEFINE v == [n \in 1..N |-> m_value_buf[n - 1]]
<1>1. N \in Nat /\ N > 0 /\ m_i \in 0..(N - 1) /\ m_i \in 0..N /\ m_i \in Nat /\ seen \in Seq(Int)
  BY FilterAssumption DEF FilterInv
<1>2. /\ \A n \in 1..(N - m_i) : seen[n] = m_value_buf[m_i + n - 1]
      /\ \A n \in (N - m_i + 1)..N : seen[n] = m_value_buf[n - (N - m_i) - 1]
  BY DEF FilterInv
<1>3. \A n \in 1..N : seen[n] \in Int
  BY <1>1
<1>4. ASSUME NEW h \in 0..(N - 1) PROVE m_value_buf[h] \in Int
  <2>1. CASE h >= m_i
    <3>1. h - m_i + 1 \in 1..(N - m_i) /\ m_i + (h - m_i + 1) - 1 = h /\ h - m_i + 1 \in 1..N
      BY <1>1, <2>1
    <3>2. seen[h - m_i + 1] = m_value_buf[h]
      BY <1>2, <3>1
    <3>3. QED
      BY <1>3, <3>1, <3>2
  <2>2. CASE h < m_i
    <3>1. /\ h + (N - m_i) + 1 \in (N - m_i + 1)..N /\ (h + (N - m_i) + 1) - (N - m_i) - 1 = h
          /\ h + (N - m_i) + 1 \in 1..N
      BY <1>1, <2>2
    <3>2. seen[h + (N - m_i) + 1] = m_value_buf[h]
      BY <1>2, <3>1
    <3>3. QED
      BY <1>3, <3>1, <3>2
  <2>3. QED
    BY <1>1, <2>1, <2>2
<1>5. v \in Seq(Int) /\ Len(v) = N
  <2>1. \A n \in 1..N : n - 1 \in 0..(N - 1)
    BY <1>1
  <2>2. v \in [1..N -> Int]
    BY <1>4, <2>1
  <2> HIDE DEF v
  <2>3. QED
    BY <1>1, <2>2
<1>6. ~\E n \in 0..N-1 : m_value_buf[n] = Junk
  BY <1>4, FilterAssumption
<1>7. \A n \in 1..(N - m_i) : seen[n] = v[m_i + n]
  <2>1. \A n \in 1..(N - m_i) : m_i + n \in 1..N /\ (m_i + n) - 1 = m_i + n - 1
    BY <1>1
  <2>2. QED
    BY <1>2, <2>1
<1>8. \A n \in (N - m_i + 1)..N : seen[n] = v[n - (N - m_i)]
  <2>1. \A n \in (N - m_i + 1)..N : n - (N - m_i) \in 1..N
    BY <1>1
  <2>2. QED
    BY <1>2, <2>1
<1>9. Average(m_value_buf) = SumOf(v) \div N
  BY <1>6 DEF Average
<1> HIDE DEF v
<1>10. Turned(seen, v, N, m_i)
  BY <1>5, <1>7, <1>8 DEF Turned
<1>11. SumOf(seen) = SumOf(v)
  BY <1>1, <1>5, <1>10, SameSum
<1>12. QED
  BY <1>9, <1>11

(* The value uploaded for the only averaged tag of a line is the average of *)
(* what was read of it the last N times (the moving average of              *)
(* thread_modbus_collect), for every N and any readings.                    *)
THEOREM AveragesAreTrue == Spec => []AverageOfTag
<1>1. CollectInv /\ AverageInv => AverageOfTag
  <2> SUFFICES ASSUME CollectInv, AverageInv, sample # NoSample, OnlyAveraged(sample.tag), Len(seen) = N
               PROVE  sample.value = SumOf(seen) \div N
    BY DEF AverageOfTag
  <2>1. sample.tag \in DOMAIN Serial
    BY DEF CollectInv, SampleInv
  <2>2. Averaging(Serial[sample.tag])
    BY <2>1 DEF OnlyAveraged
  <2>3. QED
    BY <2>2, AverageSeen DEF AverageInv
<1>2. CollectInv /\ AverageInv /\ [Next]_vars => CollectInv' /\ AverageInv'
  BY CollectInvStep, AverageStep
<1>3. Init => CollectInv /\ AverageInv
  BY InitCollectInv, InitAverageInv
<1>4. QED
  BY <1>1, <1>2, <1>3, PTL DEF Spec

-----------------------------------------------------------------------------
(* The library. *)

(* The shape of an answer to the call: an exception, what was read, or the   *)
(* echo of a write.                                                          *)
OwnShape(f) ==
    \/ /\ f.fun = call.fun + 128 /\ call.fun # FC_REPORT_SLAVE_ID
       /\ f.length = ExceptionLength
    \/ /\ f.fun = call.fun /\ f.fun \in ReadsBits
       /\ f.length = 2 + Len(f.data) + Around
    \/ /\ f.fun = call.fun /\ f.fun \in ReadsRegisters
       /\ Len(f.data) = 2 * call.nb /\ f.length = 2 + Len(f.data) + Around
    \/ /\ f.fun = call.fun /\ f.fun \in WritesOne \cup WritesMany
       /\ f.length = 5 + Around

(* A piece of it that reached the master; over TCP it comes as a whole.      *)
OwnAnswer(p) ==
    /\ p.n \in Nat /\ p.n > 0 /\ p.skip = 0
    /\ p.f.fresh
    /\ com = "TCP" => p.n = p.f.length /\ OwnShape(p.f)

(* All that is under way is the query of the call or the answer to it.       *)
AloneUnderWay ==
    /\ \A s \in Slaves : inbox[s] # <<>> =>
          s = call.slave /\ inbox[s] = <<Query(call)>> /\ inbuf = <<>>
    /\ inbuf # <<>> => inbuf = <<inbuf[1]>> /\ OwnAnswer(inbuf[1])

NothingUnderWay == inbuf = <<>> /\ \A s \in Slaves : inbox[s] = <<>>

(* What the variables are. *)
LinkKinds ==
    /\ waiting \in BOOLEAN /\ late \in BOOLEAN
    /\ inbox = [s \in Slaves |-> inbox[s]]
    /\ com \in Coms /\ calls \in Programs /\ call \in calls
    /\ com = "TCP" => \A c \in calls : c.via = "modbus"

(* Between the calls nothing is under way, and during a call only its own    *)
(* query or answer, as long as none has returned early.                      *)
StepOrder ==
    ~late =>
        /\ ~waiting => NothingUnderWay
        /\ waiting /\ call.slave # MODBUS_BROADCAST_ADDRESS => AloneUnderWay
        /\ ~waiting /\ result.ok => result.fresh

LinkInv == LinkKinds /\ OnlyWholeAccepted /\ StepOrder

(* A sequence without elements, and one of m. *)
LEMMA NoElements == ASSUME NEW f, f = [n \in 1 .. 0 |-> f[n]] PROVE f = <<>>
<1>1. f \in [1 .. 0 -> {}]
  OBVIOUS
<1>2. f \in Seq({}) /\ Len(f) = 0
  BY <1>1
<1>3. QED
  BY <1>2

LEMMA LengthOf == ASSUME NEW m \in Nat, NEW f, f = [n \in 1 .. m |-> f[n]] PROVE Len(f) = m
<1> DEFINE S == {f[n] : n \in 1 .. m}
<1>1. f \in [1 .. m -> S]
  OBVIOUS
<1>2. f \in Seq(S) /\ DOMAIN f = 1 .. m
  BY <1>1
<1>3. QED
  BY <1>2

(* The bytes of an empty buffer, and of one piece. *)
LEMMA NoBytes == ASSUME inbuf = <<>> PROVE Total = 0
<1> DEFINE F(g) == [n \in 0 .. Len(inbuf) |-> IF n = 0 THEN 0 ELSE g[n - 1] + inbuf[n].n]
           z == [n \in 0 .. 0 |-> 0]
<1>1. Len(inbuf) = 0
  OBVIOUS
<1>2. z = F(z)
  BY <1>1
<1>3. BytesUpto = CHOOSE g : g = F(g)
  BY DEF BytesUpto
<1>4. BytesUpto = F(BytesUpto)
  <2> HIDE DEF F, z
  <2> QED
  BY <1>2, <1>3
<1>5. QED
  BY <1>1, <1>4 DEF Total

LEMMA BytesOfOne ==
    ASSUME NEW p, inbuf = <<p>>, p.n \in Nat
    PROVE  Total = p.n /\ BytesUpto[1] = p.n
<1> DEFINE F(g) == [n \in 0 .. Len(inbuf) |-> IF n = 0 THEN 0 ELSE g[n - 1] + inbuf[n].n]
           z == [n \in 0 .. 1 |-> IF n = 0 THEN 0 ELSE p.n]
<1>1. Len(inbuf) = 1 /\ inbuf[1] = p
  OBVIOUS
<1>2. z = F(z)
  <2>1. \A n \in 0 .. 1 : n = 0 \/ n = 1
    OBVIOUS
  <2>2. \A n \in 0 .. 1 : (IF n = 0 THEN 0 ELSE p.n) = (IF n = 0 THEN 0 ELSE z[n - 1] + inbuf[n].n)
    BY <1>1, <2>1
  <2>3. QED
    BY <1>1, <2>2
<1>3. BytesUpto = CHOOSE g : g = F(g)
  BY DEF BytesUpto
<1>4. BytesUpto = F(BytesUpto)
  <2> HIDE DEF F, z
  <2> QED
  BY <1>2, <1>3
<1>5. BytesUpto[0] = 0 /\ BytesUpto[1] = BytesUpto[0] + p.n
  BY <1>1, <1>4
<1>6. QED
  BY <1>1, <1>5 DEF Total

(* When one piece is taken, nothing rests. *)
LEMMA NothingRests ==
    ASSUME NEW p, inbuf = <<p>>, p.n \in Nat
    PROVE  Rest(p.n) = <<>>
<1> DEFINE gone == {n \in DOMAIN inbuf : BytesUpto[n] <= p.n}
<1>1. gone = {1}
  <2>1. DOMAIN inbuf = {1}
    OBVIOUS
  <2>2. BytesUpto[1] <= p.n
    BY BytesOfOne
  <2>3. QED
    BY <2>1, <2>2
<1>2. Cardinality(gone) = 1
  BY <1>1, FS_Singleton
<1>3. Len(inbuf) = 1
  OBVIOUS
<1>4. Len(inbuf) - Cardinality(gone) = 0
  BY <1>2, <1>3
<1>5. Rest(p.n) = [n \in 1 .. Len(inbuf) - Cardinality(gone) |-> Rest(p.n)[n]]
  BY DEF Rest
<1> HIDE DEF gone
<1>6. Rest(p.n) = [n \in 1 .. 0 |-> Rest(p.n)[n]]
  BY <1>4, <1>5
<1>7. QED
  BY <1>6, NoElements

(* The lengths around a frame. *)
LEMMA Numbers ==
    ASSUME com \in Coms
    PROVE  /\ com = "RTU" => Around = 3 /\ ChecksumLength = 2 /\ HeaderLength = 1
           /\ com = "TCP" => Around = 7 /\ ChecksumLength = 0 /\ HeaderLength = 7
           /\ com \in {"RTU", "TCP"}
BY ComsAssumption DEF Around, ChecksumLength, HeaderLength

(* Bytes, widths and calls are numbers. *)
LEMMA BytesAreNat == ASSUME NEW nb \in Nat PROVE BytesOf(nb) \in Nat
BY DEF BytesOf

LEMMA WidthTimes ==
    ASSUME NEW type, NEW nb \in Nat
    PROVE  ValueWidth(type) \in {1, 2, 4} /\ ValueWidth(type) * nb \in Nat
<1>1. ValueWidth(type) \in {1, 2, 4}
  BY DEF ValueWidth
<1>2. QED
  BY <1>1

LEMMA CallsAreCalls ==
    ASSUME calls \in Programs, NEW c \in calls
    PROVE  c.fun \in ModbusFunctions /\ c.nb \in Nat /\ c.type \in Nat
BY CallsAssumption

(* Something is always awaited. *)
LEMMA SomethingAwaited ==
    ASSUME com \in Coms, calls \in Programs, call \in calls, Total \in Nat
    PROVE  Awaited \in Nat /\ Awaited > 0
<1> DEFINE L == ResponseLength(call)
<1>1. L = -1 \/ (L \in Nat /\ L > 0)
  <2>1. call.nb \in Nat /\ call.fun \in ModbusFunctions
    BY CallsAreCalls
  <2>2. Around \in Nat /\ BytesOf(call.nb) \in Nat /\ ValueWidth(call.type) * call.nb \in Nat
    BY <2>1, Numbers, BytesAreNat, WidthTimes
  <2>3. \/ L = 7 \/ L = 2 + call.nb + Around \/ L = 2 + BytesOf(call.nb) + Around
        \/ L = 2 + ValueWidth(call.type) * call.nb + Around
        \/ L = -1 \/ L = 5 + Around
    BY DEF ResponseLength, ResponseLengthRPC3FxC, MSG_LENGTH_UNDEFINED
  <2> HIDE DEF L
  <2>4. QED
    BY <2>1, <2>2, <2>3
<1>2. UndefinedLength \in Nat /\ UndefinedLength > 0
  <2>1. \A fun : QueryHeaderLength(fun) \in {0, 1, 4, 5}
    BY DEF QueryHeaderLength
  <2>2. HeaderLength \in Nat /\ QueryDataLength \in Nat
    BY Numbers DEF QueryDataLength
  <2>3. \E h \in {0, 1, 4, 5} :
           UndefinedLength \in {HeaderLength + 1, Total + 1, HeaderLength + 1 + h + QueryDataLength}
    BY <2>1 DEF UndefinedLength
  <2>4. QED
    BY <2>2, <2>3
<1>3. Awaited = UndefinedLength \/ (Awaited = L /\ L # -1)
  BY DEF Awaited, MSG_LENGTH_UNDEFINED
<1> HIDE DEF L
<1>4. QED
  BY <1>1, <1>2, <1>3

(* A function reads bits, reads registers, writes or asks for the id. *)
LEMMA FunctionKinds ==
    /\ ModbusFunctions = {FC_REPORT_SLAVE_ID} \cup ReadsBits \cup ReadsRegisters \cup WritesOne \cup WritesMany
    /\ FC_REPORT_SLAVE_ID \notin ReadsBits \cup ReadsRegisters \cup WritesOne \cup WritesMany
    /\ \A fun \in ReadsBits : fun \notin ReadsRegisters \cup WritesOne \cup WritesMany
    /\ \A fun \in ReadsRegisters : fun \notin WritesOne \cup WritesMany
BY DEF ModbusFunctions, ReadsBits, ReadsRegisters, WritesOne, WritesMany, FC_REPORT_SLAVE_ID, FC_READ_COIL_STATUS,
       FC_READ_INPUT_STATUS, FC_READ_HOLDING_REGISTERS, FC_READ_INPUT_REGISTERS, FC_FORCE_SINGLE_COIL,
       FC_PRESET_SINGLE_REGISTER, FC_FORCE_MULTIPLE_COILS, FC_PRESET_MULTIPLE_REGISTERS

(* What a query asks for. *)
LEMMA QueryOf ==
    ASSUME calls \in Programs, NEW c \in calls
    PROVE  /\ Query(c).fun \in ModbusFunctions /\ Query(c).nb \in Nat
           /\ Query(c).fresh /\ Query(c).slave = c.slave
           /\ c.via = "modbus" => Query(c).fun = c.fun /\ Query(c).nb = c.nb
<1>1. c.fun \in ModbusFunctions /\ c.nb \in Nat
  BY CallsAreCalls
<1>2. CASE c.via = "LD_B10_220"
  BY <1>2 DEF Query, QueryLD_B10_220, ModbusFunctions, FC_READ_INPUT_REGISTERS
<1>3. CASE c.via # "LD_B10_220"
  BY <1>1, <1>3 DEF Query
<1>4. QED
  BY <1>2, <1>3

(* The lengths of what a device reads. *)
LEMMA LengthsRead ==
    ASSUME NEW s, NEW q, q.nb \in Nat
    PROVE  /\ Len(Entries(s, q)) = q.nb
           /\ Len(PackBits(Entries(s, q))) = BytesOf(q.nb)
           /\ Len(WordBytes(Entries(s, q))) = 2 * q.nb
<1>1. Len(Entries(s, q)) = q.nb
  <2>1. Entries(s, q) = [n \in 1 .. q.nb |-> Entries(s, q)[n]]
    BY DEF Entries
  <2>2. QED
    BY <2>1, LengthOf
<1> DEFINE e == Entries(s, q)
<1> HIDE DEF e
<1>2. Len(e) = q.nb
  BY <1>1 DEF e
<1>3. Len(PackBits(e)) = BytesOf(q.nb)
  <2>1. PackBits(e) = [b \in 1 .. BytesOf(Len(e)) |-> PackBits(e)[b]]
    BY DEF PackBits
  <2>2. PackBits(e) = [b \in 1 .. BytesOf(q.nb) |-> PackBits(e)[b]]
    BY <1>2, <2>1
  <2>3. QED
    BY <2>2, LengthOf, BytesAreNat
<1>4. Len(WordBytes(e)) = 2 * q.nb
  <2>1. WordBytes(e) = [n \in 1 .. 2 * Len(e) |-> WordBytes(e)[n]]
    BY DEF WordBytes
  <2>2. WordBytes(e) = [n \in 1 .. 2 * q.nb |-> WordBytes(e)[n]]
    BY <1>2, <2>1
  <2>3. 2 * q.nb \in Nat
    OBVIOUS
  <2>4. QED
    BY <2>2, <2>3, LengthOf
<1>5. QED
  BY <1>1, <1>3, <1>4 DEF e

(* What a device answers. *)
LEMMA AnswerOf ==
    ASSUME com \in Coms, NEW s, NEW q, q.fun \in ModbusFunctions, q.nb \in Nat, q.fresh
    PROVE  LET f == Answer(s, q)
           IN  /\ f.fresh /\ f.length \in Nat
               /\ \/ f.length = ChecksumLength
                  \/ /\ f.fun = q.fun + 128 /\ q.fun # FC_REPORT_SLAVE_ID
                     /\ f.length = ExceptionLength
                  \/ /\ f.fun = q.fun /\ f.fun \in ReadsBits
                     /\ f.length = 2 + Len(f.data) + Around
                  \/ /\ f.fun = q.fun /\ f.fun \in ReadsRegisters
                     /\ Len(f.data) = 2 * q.nb /\ f.length = 2 + Len(f.data) + Around
                  \/ /\ f.fun = q.fun /\ f.fun \in WritesOne \cup WritesMany
                     /\ f.length = 5 + Around
<1> DEFINE f == Answer(s, q)
<1>0. Around \in Nat /\ ChecksumLength \in Nat /\ ExceptionLength \in Nat
  BY Numbers DEF ExceptionLength
<1>1. CASE q.fun = FC_REPORT_SLAVE_ID
  <2>1. f = EmptyFrame(q)
    <3>1. q.fun \notin ReadsBits \cup ReadsRegisters \cup WritesOne \cup WritesMany
      BY <1>1, FunctionKinds
    <3>2. QED
      BY <1>1, <3>1 DEF Answer
  <2>2. LET e == EmptyFrame(q) IN e.fresh /\ e.length = ChecksumLength
    BY DEF EmptyFrame, Frame
  <2>3. QED
    BY <1>0, <2>1, <2>2
<1>2. \A code : LET e == ExceptionFrame(q, code)
               IN e.fresh /\ e.length \in Nat /\ e.fun = q.fun + 128 /\ e.length = ExceptionLength
  BY <1>0 DEF ExceptionFrame, Frame
<1>3. CASE q.fun # FC_REPORT_SLAVE_ID /\ ~InTable(q)
  <2>1. f = ExceptionFrame(q, ILLEGAL_DATA_ADDRESS)
    BY <1>3 DEF Answer
  <2>2. QED
    BY <1>2, <1>3, <2>1
<1>4. CASE q.fun \in ReadsBits \cup ReadsRegisters /\ InTable(q)
  <2>1. f = ReadFrame(s, q)
    <3>1. q.fun # FC_REPORT_SLAVE_ID
      BY <1>4, FunctionKinds
    <3>2. q.fun \notin WritesOne \cup WritesMany
      BY <1>4, FunctionKinds
    <3>3. QED
      BY <1>4, <3>1, <3>2 DEF Answer
  <2>2. f.fun = q.fun /\ f.fresh /\ f.length = 2 + Len(f.data) + Around
    BY <2>1 DEF ReadFrame, Frame
  <2>3. CASE q.fun \in ReadsBits
    <3>1. f.data \in {Entries(s, q), PackBits(Entries(s, q))}
      BY <2>1, <2>3 DEF ReadFrame, Frame
    <3>2. Len(f.data) \in Nat
      BY <3>1, LengthsRead, BytesAreNat
    <3> HIDE DEF f
    <3>3. f.length \in Nat
      BY <1>0, <2>2, <3>2
    <3>4. QED
      BY <2>2, <2>3, <3>3 DEF f
  <2>4. CASE q.fun \in ReadsRegisters
    <3>1. q.fun \notin ReadsBits
      BY <2>4, FunctionKinds
    <3>2. f.data = WordBytes(Entries(s, q))
      BY <2>1, <3>1 DEF ReadFrame, Frame
    <3>3. Len(f.data) = 2 * q.nb
      BY <3>2, LengthsRead
    <3> HIDE DEF f
    <3>4. f.length \in Nat
      BY <1>0, <2>2, <3>3
    <3>5. QED
      BY <2>2, <2>4, <3>3, <3>4 DEF f
  <2>5. QED
    BY <1>4, <2>3, <2>4
<1>5. CASE q.fun \in WritesOne \cup WritesMany /\ InTable(q)
  <2>1. f = EchoFrame(q) \/ f = ExceptionFrame(q, ILLEGAL_DATA_VALUE)
    BY <1>5, FunctionKinds DEF Answer
  <2>2. LET e == EchoFrame(q) IN e.fun = q.fun /\ e.fresh /\ e.length = 5 + Around /\ e.length \in Nat
    BY <1>0 DEF EchoFrame, Frame
  <2>3. QED
    BY <1>2, <1>5, <2>1, <2>2, FunctionKinds
<1>6. QED
  <2>1. q.fun \in {FC_REPORT_SLAVE_ID} \cup ReadsBits \cup ReadsRegisters \cup WritesOne \cup WritesMany
    BY FunctionKinds
  <2> HIDE DEF f
  <2>2. QED
    BY <1>1, <1>3, <1>4, <1>5, <2>1

(* In step, an answer that is accepted over TCP has the length awaited. *)
LEMMA AcceptedFits ==
    ASSUME com = "TCP", calls \in Programs, call \in calls, call.via = "modbus",
           NEW f, OwnShape(f), f.length \in Nat, f.length >= Awaited, TRUE \in Quantities(f)
    PROVE  f.length = Awaited
<1>1. call.fun \in ModbusFunctions /\ call.nb \in Nat
  BY CallsAreCalls
<1>2. Around = 7 /\ ExceptionLength = 9
  BY DEF Around, ExceptionLength, HeaderLength, ChecksumLength
<1>3. BytesOf(call.nb) \in Nat /\ ValueWidth(call.type) \in {1, 2, 4} /\ ValueWidth(call.type) * call.nb \in Nat
  BY <1>1, BytesAreNat, WidthTimes
<1>4. CASE call.fun \in ReadsBits
  <2>1. Awaited = 2 + BytesOf(call.nb) + Around
    <3>1. ResponseLength(call) = 2 + BytesOf(call.nb) + Around
      BY <1>4, FunctionKinds DEF ResponseLength
    <3>2. QED
      BY <1>2, <1>3, <3>1 DEF Awaited, MSG_LENGTH_UNDEFINED
  <2>2. CASE f.fun = call.fun + 128 /\ f.length = ExceptionLength
    BY <1>2, <1>3, <2>1, <2>2
  <2>3. CASE f.fun = call.fun /\ f.fun \in ReadsBits /\ f.length = 2 + Len(f.data) + Around
    <3>1. Len(f.data) = BytesOf(call.nb)
      BY <2>3, FunctionKinds DEF Quantities
    <3>2. QED
      BY <2>1, <2>3, <3>1
  <2>4. QED
    BY <1>4, <2>2, <2>3, FunctionKinds DEF OwnShape
<1>5. CASE call.fun \in ReadsRegisters
  <2>1. Awaited = 2 + ValueWidth(call.type) * call.nb + Around
    <3>1. ResponseLength(call) = 2 + ValueWidth(call.type) * call.nb + Around
      BY <1>5, FunctionKinds DEF ResponseLength
    <3>2. QED
      BY <1>2, <1>3, <3>1 DEF Awaited, MSG_LENGTH_UNDEFINED
  <2>2. CASE f.fun = call.fun + 128 /\ f.length = ExceptionLength
    BY <1>2, <1>3, <2>1, <2>2
  <2>3. CASE /\ f.fun = call.fun /\ f.fun \in ReadsRegisters
             /\ Len(f.data) = 2 * call.nb /\ f.length = 2 + Len(f.data) + Around
    <3>1. CASE call.type > 5
      <4>1. ValueWidth(call.type) = 2
        BY <3>1 DEF ValueWidth
      <4>2. QED
        BY <2>1, <2>3, <4>1
    <3>2. CASE ~(call.type > 5)
      <4>1. Len(f.data) \div ValueWidth(call.type) = call.nb
        BY <2>3, <3>2, FunctionKinds DEF Quantities
      <4>2. ValueWidth(call.type) * call.nb = 2 * call.nb
        <5> DEFINE w == ValueWidth(call.type)
        <5>1. w \in {1, 2, 4} /\ (2 * call.nb) \div w = call.nb
          BY <1>3, <2>3, <4>1
        <5> HIDE DEF w
        <5>2. w * call.nb = 2 * call.nb
          BY <1>1, <5>1
        <5>3. QED
          BY <5>2 DEF w
      <4>3. QED
        BY <2>1, <2>3, <4>2
    <3>3. QED
      BY <3>1, <3>2
  <2>4. QED
    BY <1>5, <2>2, <2>3, FunctionKinds DEF OwnShape
<1>6. CASE call.fun = FC_REPORT_SLAVE_ID
  BY <1>6, FunctionKinds DEF OwnShape
<1>7. CASE call.fun \in WritesOne \cup WritesMany
  <2>1. Awaited = 5 + Around
    <3>1. ResponseLength(call) = 5 + Around
      BY <1>7, FunctionKinds DEF ResponseLength
    <3>2. QED
      BY <1>2, <3>1 DEF Awaited, MSG_LENGTH_UNDEFINED
  <2>2. f.length = ExceptionLength \/ f.length = 5 + Around
    BY <1>7, FunctionKinds DEF OwnShape
  <2>3. QED
    BY <1>2, <2>1, <2>2
<1>8. QED
  BY <1>1, <1>4, <1>5, <1>6, <1>7, FunctionKinds

(* The frame of a result is the first piece, and nothing is left of it. *)
LEMMA AcceptedInStep ==
    ASSUME LinkKinds, AloneUnderWay, inbuf # <<>>,
           com = "RTU" => Whole(Awaited),
           com = "TCP" => TRUE \in Quantities(Head(inbuf).f), Total >= Awaited
    PROVE  Head(inbuf).f.fresh /\ Rest(Awaited) = <<>> /\ Head(inbuf).f.length = Awaited
<1> DEFINE p == inbuf[1]
<1>1. inbuf = <<p>> /\ OwnAnswer(p)
  BY DEF AloneUnderWay
<1>2. Head(inbuf) = p
  BY <1>1
<1>3. Total = p.n /\ p.n \in Nat
  BY <1>1, BytesOfOne DEF OwnAnswer
<1>4. Awaited = p.n
  <2>1. CASE com = "RTU"
    BY <1>2, <2>1 DEF Whole
  <2>2. CASE com = "TCP"
    <3>1. call.via = "modbus" /\ calls \in Programs /\ call \in calls
      BY <2>2 DEF LinkKinds
    <3>2. p.n = p.f.length /\ OwnShape(p.f)
      BY <1>1, <2>2 DEF OwnAnswer
    <3>3. p.f.length \in Nat /\ p.f.length >= Awaited /\ TRUE \in Quantities(p.f)
      BY <1>2, <1>3, <2>2, <3>2
    <3> HIDE DEF p
    <3>4. QED
      BY <2>2, <3>1, <3>2, <3>3, AcceptedFits
  <2>3. QED
    BY <2>1, <2>2, Numbers DEF LinkKinds
<1>5. p.f.length = Awaited
  <2>1. CASE com = "RTU"
    BY <1>2, <2>1 DEF Whole
  <2>2. CASE com = "TCP"
    BY <1>1, <1>4, <2>2 DEF OwnAnswer
  <2>3. QED
    BY <2>1, <2>2, Numbers DEF LinkKinds
<1>6. QED
  BY <1>1, <1>2, <1>3, <1>4, <1>5, NothingRests DEF OwnAnswer

(* Only a whole frame is accepted over a serial line, whatever came before. *)
LEMMA WholeKept ==
    ASSUME OnlyWholeAccepted, [LinkNext]_linkVars
    PROVE  OnlyWholeAccepted'
<1> USE DEF OnlyWholeAccepted
<1>1. ASSUME NEW c, Refuse(c) PROVE OnlyWholeAccepted'
  BY <1>1 DEF Refuse, NoResult
<1>2. ASSUME NEW c, Send(c) PROVE OnlyWholeAccepted'
  BY <1>2 DEF Send, NoResult
<1>3. ASSUME NEW c, NEW b, SendFails(c, b) PROVE OnlyWholeAccepted'
  BY <1>3 DEF SendFails, NoResult
<1>4. Fails => OnlyWholeAccepted'
  BY DEF Fails, Return, NoResult
<1>5. ASSUME NEW fresh, NEW len, NEW values, Accept(fresh, Whole(len), values), com' = com, ~CrcFails(len)
      PROVE  OnlyWholeAccepted'
  BY <1>5 DEF Accept, Return, CrcFails
<1>6. CASE Received
  <2>1. com' = com
    BY <1>6 DEF Received
  <2>2. CASE Fails
    BY <1>4, <2>2
  <2>3. CASE ~Fails
    <3>1. \E fresh, values : Accept(fresh, Whole(Awaited), values)
      BY <1>6, <2>3 DEF Received
    <3>2. ~CrcFails(Awaited)
      BY <1>6, <2>3 DEF Received
    <3>3. QED
      BY <1>5, <2>1, <3>1, <3>2
  <2>4. QED
    BY <2>2, <2>3
<1>7. CASE TimedOut
  <2>1. com' = com
    BY <1>7 DEF TimedOut
  <2>2. Fails \/ (~CrcFails(Total) /\ \E fresh, values : Accept(fresh, Whole(Total), values))
    BY <1>7 DEF TimedOut
  <2>3. QED
    BY <1>4, <1>5, <2>1, <2>2
<1>8. CASE FoundClosed
  BY <1>4, <1>8 DEF FoundClosed
<1>9. ASSUME NEW b, FoundReset(b) PROVE OnlyWholeAccepted'
  BY <1>4, <1>9 DEF FoundReset
<1>10. ASSUME NEW s, Serve(s) PROVE OnlyWholeAccepted'
  BY <1>10 DEF Serve
<1>11. ASSUME NEW s, QueryLost(s) PROVE OnlyWholeAccepted'
  BY <1>11 DEF QueryLost
<1>12. CASE PeerCloses
  BY <1>12 DEF PeerCloses
<1>13. CASE UNCHANGED linkVars
  BY <1>13 DEF linkVars
<1>14. QED
  BY <1>1, <1>2, <1>3, <1>6, <1>7, <1>8, <1>9, <1>10, <1>11, <1>12, <1>13 DEF LinkNext

(* Every step keeps the kinds of the variables. *)
LEMMA KindsKept ==
    ASSUME LinkKinds, [LinkNext]_linkVars
    PROVE  LinkKinds'
<1> USE DEF LinkKinds
<1>1. ASSUME NEW c \in calls, Refuse(c) PROVE LinkKinds'
  BY <1>1 DEF Refuse
<1>2. ASSUME NEW c \in calls, Send(c) PROVE LinkKinds'
  BY <1>2 DEF Send, Issue
<1>3. ASSUME NEW c \in calls, NEW b, SendFails(c, b) PROVE LinkKinds'
  BY <1>3 DEF SendFails, Issue
<1>4. ASSUME NEW r, Return(r), UNCHANGED <<com, calls, call, inbox>> PROVE LinkKinds'
  BY <1>4 DEF Return
<1>5. CASE Received
  <2>1. \E r : Return(r)
    BY <1>5 DEF Received, Accept, Fails
  <2>2. QED
    BY <1>4, <1>5, <2>1 DEF Received
<1>6. CASE TimedOut
  <2>1. \E r : Return(r)
    BY <1>6 DEF TimedOut, Accept, Fails
  <2>2. QED
    BY <1>4, <1>6, <2>1 DEF TimedOut
<1>7. CASE FoundClosed
  BY <1>4, <1>7 DEF FoundClosed, Fails
<1>8. ASSUME NEW b, FoundReset(b) PROVE LinkKinds'
  BY <1>4, <1>8 DEF FoundReset, Fails
<1>9. ASSUME NEW s \in Slaves, Serve(s) PROVE LinkKinds'
  BY <1>9 DEF Serve
<1>10. ASSUME NEW s \in Slaves, QueryLost(s) PROVE LinkKinds'
  BY <1>10 DEF QueryLost
<1>11. CASE PeerCloses
  BY <1>11 DEF PeerCloses
<1>12. CASE UNCHANGED linkVars
  BY <1>12 DEF linkVars
<1>13. QED
  BY <1>1, <1>2, <1>3, <1>5, <1>6, <1>7, <1>8, <1>9, <1>10, <1>11, <1>12 DEF LinkNext

(* A query is sent in step only when nothing is under way. *)
LEMMA IssuedAlone ==
    ASSUME LinkKinds, StepOrder, NEW c, Issue(c), ~late'
    PROVE  NothingUnderWay
BY DEF LinkKinds, StepOrder, Issue, UnderWay, NothingUnderWay

(* A query that is sent is then alone under way. *)
LEMMA SendKeeps ==
    ASSUME LinkKinds, StepOrder, NEW c \in calls, Send(c), ~late'
    PROVE  StepOrder'
<1>1. NothingUnderWay
  BY IssuedAlone DEF Send
<1>2. waiting' /\ call' = c /\ ~result'.ok
  BY DEF Send, Issue, NoResult
<1>3. inbuf' = <<>>
  <2>1. inbuf' = [n \in DOMAIN inbuf |-> inbuf'[n]]
    BY DEF Send
  <2>2. DOMAIN inbuf = 1 .. 0
    BY <1>1 DEF NothingUnderWay
  <2>3. QED
    BY <2>1, <2>2, NoElements
<1>4. ASSUME NEW s \in Slaves, c.slave # MODBUS_BROADCAST_ADDRESS, inbox'[s] # <<>>
      PROVE  s = c.slave /\ inbox'[s] = <<Query(c)>>
  <2> DEFINE olds == [n \in DOMAIN inbox[s] |-> Old(inbox[s][n])]
  <2>1. olds = <<>>
    <3>1. DOMAIN inbox[s] = 1 .. 0
      BY <1>1 DEF NothingUnderWay
    <3>2. olds = [n \in 1 .. 0 |-> olds[n]]
      BY <3>1
    <3> HIDE DEF olds
    <3>3. QED
      BY <3>2, NoElements
  <2>2. inbox'[s] = IF fd = "open" /\ ForMe(s, Query(c)) /\ Len(olds) < MaxPending
                    THEN Append(olds, Query(c)) ELSE olds
    BY DEF Send
  <2> HIDE DEF olds
  <2>3. ForMe(s, Query(c)) /\ inbox'[s] = Append(<<>>, Query(c))
    BY <1>4, <2>1, <2>2
  <2>4. Query(c).slave = c.slave
    BY QueryOf DEF LinkKinds
  <2>5. Append(<<>>, Query(c)) = <<Query(c)>>
    OBVIOUS
  <2>6. QED
    BY <1>4, <2>3, <2>4, <2>5 DEF ForMe
<1>5. c.slave # MODBUS_BROADCAST_ADDRESS => AloneUnderWay'
  BY <1>2, <1>3, <1>4 DEF AloneUnderWay, Query, QueryLD_B10_220, QueryData
<1>6. QED
  BY <1>2, <1>5 DEF StepOrder

(* One that cannot be sent leaves nothing under way. *)
LEMMA SendFailsKeeps ==
    ASSUME LinkKinds, StepOrder, NEW c, NEW b, SendFails(c, b), ~late'
    PROVE  StepOrder'
<1>1. NothingUnderWay
  BY IssuedAlone DEF SendFails
<1>2. inbuf' = <<>>
  BY DEF SendFails, Reconnect, Connect, ConnectRtu, ConnectTcp, RawInput
<1>3. NothingUnderWay' /\ ~waiting' /\ ~result'.ok
  BY <1>1, <1>2 DEF SendFails, Issue, NoResult, NothingUnderWay
<1>4. QED
  BY <1>3 DEF StepOrder

(* A call that returns in step was alone under way. *)
LEMMA ReturnsAlone ==
    ASSUME LinkKinds, StepOrder, waiting, NEW r, Return(r), ~late'
    PROVE  /\ AloneUnderWay /\ ~waiting' /\ result' = r
           /\ \A s \in Slaves : inbox[s] = <<>>
BY DEF LinkKinds, StepOrder, Return

(* So nothing is under way when it leaves the buffer empty, and its result   *)
(* is that of the one answer.                                                *)
LEMMA ReturnKeeps ==
    ASSUME LinkKinds, StepOrder, waiting, NEW r, Return(r), ~late',
           inbox' = inbox, inbuf' = <<>>, r.ok => r.fresh
    PROVE  StepOrder'
<1>1. ~waiting' /\ result' = r /\ NothingUnderWay'
  BY ReturnsAlone DEF NothingUnderWay
<1>2. QED
  BY <1>1 DEF StepOrder

(* A call that fails, and one that accepts the answer. *)
LEMMA FailsKeeps ==
    ASSUME LinkKinds, StepOrder, waiting, Fails, ~late', inbox' = inbox, inbuf' = <<>>
    PROVE  StepOrder'
<1>1. Return(NoResult) /\ ~NoResult.ok
  BY DEF Fails, NoResult
<1>2. QED
  BY <1>1, ReturnKeeps

LEMMA AcceptKeeps ==
    ASSUME LinkKinds, StepOrder, waiting, ~late', inbox' = inbox, inbuf' = <<>>,
           NEW fresh, NEW whole, NEW values, Accept(fresh, whole, values), fresh
    PROVE  StepOrder'
<1> DEFINE r == [ok |-> TRUE, fresh |-> fresh, whole |-> whole, values |-> values]
<1>1. Return(r) /\ r.fresh
  BY DEF Accept
<1> HIDE DEF r
<1>2. QED
  BY <1>1, ReturnKeeps

(* The answer has come. *)
LEMMA ReceivedKeeps ==
    ASSUME LinkKinds, StepOrder, Received, ~late'
    PROVE  StepOrder'
<1>1. waiting /\ inbox' = inbox
  BY DEF Received
<1>2. CASE Fails /\ inbuf' = Flushed
  BY <1>1, <1>2, FailsKeeps DEF Flushed
<1>3. CASE ~(Fails /\ inbuf' = Flushed)
  <2> DEFINE f == Head(inbuf).f
             glued == Head(inbuf).skip # 0
  <2>1. \E whole, values : Accept(f.fresh, whole, values)
    BY <1>3 DEF Received
  <2>2. Total >= Awaited /\ inbuf' = Rest(Awaited)
    BY <1>3 DEF Received
  <2>3. ~CrcFails(Awaited)
    BY <1>3 DEF Received
  <2>4. com = "TCP" /\ ~glued => TRUE \in Quantities(f)
    BY <1>3, <2>3 DEF Received
  <2>5. AloneUnderWay
    BY <1>1, <2>1, ReturnsAlone DEF Accept
  <2>6. inbuf # <<>>
    <3>1. SUFFICES ASSUME inbuf = <<>> PROVE FALSE
      OBVIOUS
    <3>2. Total = 0
      BY <3>1, NoBytes
    <3>3. Awaited \in Nat /\ Awaited > 0
      BY <3>2, SomethingAwaited DEF LinkKinds
    <3>4. QED
      BY <2>2, <3>2, <3>3
  <2>7. ~glued
    BY <2>5, <2>6 DEF AloneUnderWay, OwnAnswer
  <2>8. f.fresh /\ Rest(Awaited) = <<>>
    BY <2>2, <2>3, <2>4, <2>5, <2>6, <2>7, AcceptedInStep DEF CrcFails
  <2>9. QED
    BY <1>1, <2>1, <2>2, <2>8, AcceptKeeps
<1>4. QED
  BY <1>2, <1>3

(* It has not, or an exception has. *)
LEMMA TimedOutKeeps ==
    ASSUME LinkKinds, StepOrder, TimedOut, ~late'
    PROVE  StepOrder'
<1>1. waiting /\ inbox' = inbox /\ inbuf' = <<>>
  BY DEF TimedOut
<1>2. CASE Fails
  BY <1>1, <1>2, FailsKeeps
<1>3. CASE ~Fails
  <2>1. /\ ExceptionSized
        /\ \E whole, values : Accept(Head(inbuf).f.fresh, whole, values)
    BY <1>3 DEF TimedOut
  <2>2. AloneUnderWay
    BY <1>1, <2>1, ReturnsAlone DEF Accept
  <2>3. inbuf # <<>>
    <3>1. Total = 5
      BY <2>1 DEF ExceptionSized, ExceptionLength, Around, HeaderLength, ChecksumLength
    <3>2. QED
      BY <3>1, NoBytes
  <2>4. Head(inbuf).f.fresh
    BY <2>2, <2>3 DEF AloneUnderWay, OwnAnswer
  <2>5. QED
    BY <1>1, <2>1, <2>4, AcceptKeeps
<1>4. QED
  BY <1>2, <1>3

(* What arrives of an answer to the query under way. *)
LEMMA ArrivesOwn ==
    ASSUME LinkKinds, NEW s, NEW p \in Arriving(Answer(s, Query(call))), p.n # 0, p.n <= p.f.length
    PROVE  OwnAnswer(p)
<1> DEFINE f == Answer(s, Query(call))
           q == Query(call)
<1>1. /\ q.fun \in ModbusFunctions /\ q.nb \in Nat /\ q.fresh
      /\ call.via = "modbus" => q.fun = call.fun /\ q.nb = call.nb
  BY QueryOf DEF LinkKinds
<1> HIDE DEF q
<1>2. /\ f.fresh /\ f.length \in Nat
      /\ \/ f.length = ChecksumLength
         \/ /\ f.fun = q.fun + 128 /\ q.fun # FC_REPORT_SLAVE_ID
            /\ f.length = ExceptionLength
         \/ /\ f.fun = q.fun /\ f.fun \in ReadsBits
            /\ f.length = 2 + Len(f.data) + Around
         \/ /\ f.fun = q.fun /\ f.fun \in ReadsRegisters
            /\ Len(f.data) = 2 * q.nb /\ f.length = 2 + Len(f.data) + Around
         \/ /\ f.fun = q.fun /\ f.fun \in WritesOne \cup WritesMany
            /\ f.length = 5 + Around
  BY <1>1, AnswerOf DEF LinkKinds, q
<1> HIDE DEF f
<1>3. p.f = f /\ p.skip = 0 /\ p.n \in {f.length, ExceptionLength, 0}
  BY DEF Arriving, Piece, f
<1>4. com = "TCP" => p.n = f.length
  BY DEF Arriving, Piece, f
<1>5. p.n \in Nat /\ p.n > 0
  <2>1. ExceptionLength \in Nat
    BY Numbers DEF ExceptionLength, LinkKinds
  <2>2. QED
    BY <1>2, <1>3, <2>1
<1>6. ASSUME com = "TCP" PROVE OwnShape(f)
  <2>1. call.via = "modbus"
    BY <1>6 DEF LinkKinds
  <2>2. f.length # ChecksumLength
    BY <1>4, <1>5, <1>6 DEF ChecksumLength
  <2>3. QED
    BY <1>1, <1>2, <2>1, <2>2 DEF OwnShape
<1>7. QED
  BY <1>2, <1>3, <1>4, <1>5, <1>6 DEF OwnAnswer

(* A device answers. *)
LEMMA ServeKeeps ==
    ASSUME LinkKinds, StepOrder, NEW s \in Slaves, Serve(s), ~late'
    PROVE  StepOrder'
<1>1. ~late /\ waiting /\ waiting' = waiting /\ call' = call /\ com' = com
  BY DEF Serve, StepOrder, NothingUnderWay
<1>2. CASE call.slave = MODBUS_BROADCAST_ADDRESS
  BY <1>1, <1>2 DEF StepOrder
<1>3. CASE call.slave # MODBUS_BROADCAST_ADDRESS
  <2>1. AloneUnderWay /\ inbox[s] # <<>>
    BY <1>1, <1>3 DEF StepOrder, Serve
  <2>2. s = call.slave /\ inbox[s] = <<Query(call)>> /\ inbuf = <<>>
    BY <2>1 DEF AloneUnderWay
  <2>3. \A t \in Slaves : inbox'[t] = <<>>
    <3>1. inbox' = [inbox EXCEPT ![s] = Tail(inbox[s])] /\ Tail(inbox[s]) = <<>>
      BY <2>2 DEF Serve
    <3>2. \A t \in Slaves : t # s => inbox[t] = <<>>
      BY <2>1, <2>2 DEF AloneUnderWay
    <3>3. QED
      BY <3>1, <3>2 DEF LinkKinds
  <2>4. inbuf' # <<>> => inbuf' = <<inbuf'[1]>> /\ OwnAnswer(inbuf'[1])
    <3>1. Head(inbox[s]) = Query(call)
      BY <2>2
    <3>2. PICK p \in Arriving(Answer(s, Query(call))) : Arrives(p)
      BY <3>1 DEF Serve
    <3>3. CASE inbuf' = inbuf
      BY <2>2, <3>3
    <3>4. CASE inbuf' # inbuf
      <4>1. p.n # 0 /\ ~(p.n > p.f.length) /\ inbuf' = Append(<<>>, p)
        BY <2>2, <3>2, <3>4 DEF Arrives
      <4>2. p.n <= p.f.length
        <5> DEFINE f == Answer(s, Query(call))
        <5>1. f.length \in Nat /\ ExceptionLength \in Nat
          <6>1. Query(call).fun \in ModbusFunctions /\ Query(call).nb \in Nat /\ Query(call).fresh
            BY QueryOf DEF LinkKinds
          <6>2. QED
            BY <6>1, AnswerOf, Numbers DEF LinkKinds, ExceptionLength
        <5>2. p.f = f /\ p.n \in {f.length, ExceptionLength, 0}
          BY DEF Arriving, Piece
        <5> HIDE DEF f
        <5>3. QED
          BY <4>1, <5>1, <5>2
      <4>3. OwnAnswer(p)
        BY <4>1, <4>2, ArrivesOwn
      <4>4. inbuf' = <<p>>
        BY <4>1
      <4>5. QED
        BY <4>3, <4>4
    <3>5. QED
      BY <3>3, <3>4
  <2>5. AloneUnderWay'
    BY <1>1, <2>3, <2>4 DEF AloneUnderWay, OwnAnswer, OwnShape, Around, HeaderLength, ChecksumLength,
           ExceptionLength
  <2>6. QED
    BY <1>1, <2>5 DEF StepOrder
<1>4. QED
  BY <1>2, <1>3

(* A query or the connection is lost: less is under way. *)
LEMMA LostKeeps ==
    ASSUME LinkKinds, StepOrder, ~late', UNCHANGED <<com, waiting, call, inbuf, result, late>>,
           \A t \in Slaves : inbox'[t] \in {inbox[t], <<>>}
                           \/ (inbox[t] # <<>> /\ inbox'[t] = Tail(inbox[t]))
    PROVE  StepOrder'
<1>1. CASE ~waiting
  BY <1>1 DEF StepOrder, NothingUnderWay
<1>2. CASE waiting /\ call.slave = MODBUS_BROADCAST_ADDRESS
  BY <1>2 DEF StepOrder
<1>3. CASE waiting /\ call.slave # MODBUS_BROADCAST_ADDRESS
  <2>1. AloneUnderWay
    BY <1>3 DEF StepOrder
  <2>2. \A t \in Slaves : inbox'[t] \in {inbox[t], <<>>}
    <3>1. \A t \in Slaves : inbox[t] # <<>> => inbox[t] = <<Query(call)>>
      BY <2>1 DEF AloneUnderWay
    <3>2. Tail(<<Query(call)>>) = <<>>
      OBVIOUS
    <3>3. QED
      BY <3>1, <3>2
  <2>3. AloneUnderWay'
    BY <2>1, <2>2 DEF AloneUnderWay, OwnAnswer, OwnShape, Around, HeaderLength, ChecksumLength,
           ExceptionLength, Query, QueryLD_B10_220, QueryData
  <2>4. QED
    BY <1>3, <2>3 DEF StepOrder
<1>4. QED
  BY <1>1, <1>2, <1>3 DEF LinkKinds

(* Every step keeps the order. *)
LEMMA StepOrderKept ==
    ASSUME LinkKinds, StepOrder, [LinkNext]_linkVars
    PROVE  StepOrder'
<1> SUFFICES ASSUME ~late' PROVE StepOrder'
  BY DEF StepOrder
<1>1. ASSUME NEW c \in calls, Refuse(c) PROVE StepOrder'
  BY <1>1 DEF Refuse, StepOrder, NothingUnderWay, NoResult
<1>2. ASSUME NEW c \in calls, Send(c) PROVE StepOrder'
  BY <1>2, SendKeeps
<1>3. ASSUME NEW c \in calls, NEW b, SendFails(c, b) PROVE StepOrder'
  BY <1>3, SendFailsKeeps
<1>4. CASE Received
  BY <1>4, ReceivedKeeps
<1>5. CASE TimedOut
  BY <1>5, TimedOutKeeps
<1>6. CASE FoundClosed
  BY <1>6, FailsKeeps DEF FoundClosed
<1>7. ASSUME NEW b, FoundReset(b) PROVE StepOrder'
  <2>1. inbuf' = <<>>
    BY <1>7 DEF FoundReset, Reconnect, Connect, ConnectRtu, ConnectTcp, RawInput
  <2>2. QED
    BY <1>7, <2>1, FailsKeeps DEF FoundReset
<1>8. ASSUME NEW s \in Slaves, Serve(s) PROVE StepOrder'
  BY <1>8, ServeKeeps
<1>9. ASSUME NEW s \in Slaves, QueryLost(s) PROVE StepOrder'
  <2>1. \A t \in Slaves : inbox'[t] = inbox[t] \/ (inbox[t] # <<>> /\ inbox'[t] = Tail(inbox[t]))
    BY <1>9 DEF QueryLost, LinkKinds
  <2>2. QED
    BY <1>9, <2>1, LostKeeps DEF QueryLost
<1>10. CASE PeerCloses
  <2>1. \A t \in Slaves : inbox'[t] = <<>>
    BY <1>10 DEF PeerCloses
  <2>2. QED
    BY <1>10, <2>1, LostKeeps DEF PeerCloses
<1>11. CASE UNCHANGED linkVars
  BY <1>11, LostKeeps DEF linkVars
<1>12. QED
  BY <1>1, <1>2, <1>3, <1>4, <1>5, <1>6, <1>7, <1>8, <1>9, <1>10, <1>11 DEF LinkNext

(* The library starts in step. *)
LEMMA LinkInvInit == LinkInit => LinkInv
<1> SUFFICES ASSUME LinkInit PROVE LinkInv
  OBVIOUS
<1>1. call \in calls
  <2>1. calls # {}
    BY SlavesAssumption DEF LinkInit
  <2>2. QED
    BY <2>1 DEF LinkInit
<1>2. LinkKinds
  BY <1>1 DEF LinkInit, LinkKinds
<1>3. StepOrder /\ OnlyWholeAccepted
  BY DEF LinkInit, StepOrder, NothingUnderWay, OnlyWholeAccepted, NoResult
<1>4. QED
  BY <1>2, <1>3 DEF LinkInv

(* InStep: over a serial line only whole frames are accepted, and as long as *)
(* no call returned before its answer was there or lost, a call that         *)
(* succeeds has the answer to its own query, for every program of calls, any *)
(* devices, and both kinds of connection.                                    *)
THEOREM LinkInStep == LinkSpec => []InStep
<1>1. LinkInv /\ [LinkNext]_linkVars => LinkInv'
  BY WholeKept, KindsKept, StepOrderKept DEF LinkInv
<1>2. LinkInv => InStep
  BY DEF LinkInv, InStep, StepOrder
<1>3. QED
  BY <1>1, <1>2, LinkInvInit, PTL DEF LinkSpec

-----------------------------------------------------------------------------
(* What is written and read. *)

(* What the bits of a byte stand for. *)
LEMMA Weights ==
    /\ Weight[0] = 1 /\ Weight[1] = 2 /\ Weight[2] = 4 /\ Weight[3] = 8
    /\ Weight[4] = 16 /\ Weight[5] = 32 /\ Weight[6] = 64 /\ Weight[7] = 128
<1> DEFINE w == <<1, 2, 4, 8, 16, 32, 64, 128>>
<1>1. /\ w[0 + 1] = 1 /\ w[1 + 1] = 2 /\ w[2 + 1] = 4 /\ w[3 + 1] = 8
      /\ w[4 + 1] = 16 /\ w[5 + 1] = 32 /\ w[6 + 1] = 64 /\ w[7 + 1] = 128
  OBVIOUS
<1> HIDE DEF w
<1>2. \A shift \in 0 .. 7 : Weight[shift] = w[shift + 1]
  BY DEF Weight, w
<1>3. /\ 0 \in 0 .. 7 /\ 1 \in 0 .. 7 /\ 2 \in 0 .. 7 /\ 3 \in 0 .. 7
      /\ 4 \in 0 .. 7 /\ 5 \in 0 .. 7 /\ 6 \in 0 .. 7 /\ 7 \in 0 .. 7
  OBVIOUS
<1>4. QED
  BY <1>1, <1>2, <1>3

(* What is packed is found again, at the bit and the byte where it is looked *)
(* for.                                                                      *)
LEMMA PackedBit ==
    ASSUME NEW bits \in Seq(BitValues), NEW n \in 1 .. Len(bits)
    PROVE  BitAt(PackBits(bits)[1 + (n - 1) \div 8], (n - 1) % 8) = bits[n]
<1> DEFINE L == Len(bits)
           b == 1 + (n - 1) \div 8
           h == (n - 1) % 8
           Bit(x) == IF x > L THEN 0 ELSE bits[x]
           byte == Bit(8 * b - 7) + 2 * Bit(8 * b - 6) + 4 * Bit(8 * b - 5) + 8 * Bit(8 * b - 4)
                   + 16 * Bit(8 * b - 3) + 32 * Bit(8 * b - 2) + 64 * Bit(8 * b - 1) + 128 * Bit(8 * b)
<1>1. L \in Nat /\ \A x \in 1 .. L : bits[x] \in BitValues
  OBVIOUS
<1>2. b \in 1 .. BytesOf(L) /\ b \in Nat /\ b > 0
  BY <1>1 DEF BytesOf
<1>3. PackBits(bits)[b] = byte
  BY <1>2 DEF PackBits
<1>4. h \in 0 .. 7 /\ n = 8 * b - 7 + h /\ n \in 1 .. L
  BY <1>1
<1> HIDE DEF b, h, L
<1>5. ASSUME NEW x \in Nat, x > 0 PROVE Bit(x) \in BitValues
  <2>1. CASE x > L
    BY <2>1 DEF BitValues
  <2>2. CASE ~(x > L)
    <3>1. x \in 1 .. L
      BY <1>1, <1>5, <2>2
    <3>2. QED
      BY <1>1, <2>2, <3>1
  <2>3. QED
    BY <2>1, <2>2
<1>6. Bit(n) = bits[n]
  BY <1>1, <1>4
<1> HIDE DEF Bit
<1>7. /\ Bit(8 * b - 7) \in BitValues /\ Bit(8 * b - 6) \in BitValues /\ Bit(8 * b - 5) \in BitValues
      /\ Bit(8 * b - 4) \in BitValues /\ Bit(8 * b - 3) \in BitValues /\ Bit(8 * b - 2) \in BitValues
      /\ Bit(8 * b - 1) \in BitValues /\ Bit(8 * b) \in BitValues
  <2>1. /\ 8 * b - 7 \in Nat /\ 8 * b - 6 \in Nat /\ 8 * b - 5 \in Nat /\ 8 * b - 4 \in Nat
        /\ 8 * b - 3 \in Nat /\ 8 * b - 2 \in Nat /\ 8 * b - 1 \in Nat /\ 8 * b \in Nat
        /\ 8 * b - 7 > 0 /\ 8 * b - 6 > 0 /\ 8 * b - 5 > 0 /\ 8 * b - 4 > 0
        /\ 8 * b - 3 > 0 /\ 8 * b - 2 > 0 /\ 8 * b - 1 > 0 /\ 8 * b > 0
    BY <1>2
  <2>2. QED
    BY <1>5, <2>1
<1>8. /\ BitAt(byte, 0) = Bit(8 * b - 7) /\ BitAt(byte, 1) = Bit(8 * b - 6) /\ BitAt(byte, 2) = Bit(8 * b - 5)
      /\ BitAt(byte, 3) = Bit(8 * b - 4) /\ BitAt(byte, 4) = Bit(8 * b - 3) /\ BitAt(byte, 5) = Bit(8 * b - 2)
      /\ BitAt(byte, 6) = Bit(8 * b - 1) /\ BitAt(byte, 7) = Bit(8 * b)
  <2> DEFINE b0 == Bit(8 * b - 7) b1 == Bit(8 * b - 6) b2 == Bit(8 * b - 5) b3 == Bit(8 * b - 4)
             b4 == Bit(8 * b - 3) b5 == Bit(8 * b - 2) b6 == Bit(8 * b - 1) b7 == Bit(8 * b)
  <2>1. /\ b0 \in BitValues /\ b1 \in BitValues /\ b2 \in BitValues /\ b3 \in BitValues
        /\ b4 \in BitValues /\ b5 \in BitValues /\ b6 \in BitValues /\ b7 \in BitValues
    BY <1>7
  <2>2. byte = b0 + 2 * b1 + 4 * b2 + 8 * b3 + 16 * b4 + 32 * b5 + 64 * b6 + 128 * b7
    OBVIOUS
  <2> HIDE DEF byte, b0, b1, b2, b3, b4, b5, b6, b7
  <2>3. /\ BitAt(byte, 0) = b0 /\ BitAt(byte, 1) = b1 /\ BitAt(byte, 2) = b2 /\ BitAt(byte, 3) = b3
        /\ BitAt(byte, 4) = b4 /\ BitAt(byte, 5) = b5 /\ BitAt(byte, 6) = b6 /\ BitAt(byte, 7) = b7
    <3>1. /\ BitAt(byte, 0) = (byte \div 1) % 2 /\ BitAt(byte, 1) = (byte \div 2) % 2
          /\ BitAt(byte, 2) = (byte \div 4) % 2 /\ BitAt(byte, 3) = (byte \div 8) % 2
          /\ BitAt(byte, 4) = (byte \div 16) % 2 /\ BitAt(byte, 5) = (byte \div 32) % 2
          /\ BitAt(byte, 6) = (byte \div 64) % 2 /\ BitAt(byte, 7) = (byte \div 128) % 2
      <4>1. ~(0 > 7) /\ ~(1 > 7) /\ ~(2 > 7) /\ ~(3 > 7) /\ ~(4 > 7) /\ ~(5 > 7) /\ ~(6 > 7) /\ ~(7 > 7)
        OBVIOUS
      <4>2. QED
        BY <4>1, Weights DEF BitAt
    <3> USE DEF BitValues
    <3>2. (byte \div 1) % 2 = b0
      BY <2>1, <2>2
    <3>3. (byte \div 2) % 2 = b1
      BY <2>1, <2>2
    <3>4. (byte \div 4) % 2 = b2
      BY <2>1, <2>2
    <3>5. (byte \div 8) % 2 = b3
      BY <2>1, <2>2
    <3>6. (byte \div 16) % 2 = b4
      BY <2>1, <2>2
    <3>7. (byte \div 32) % 2 = b5
      BY <2>1, <2>2
    <3>8. (byte \div 64) % 2 = b6
      BY <2>1, <2>2
    <3>9. (byte \div 128) % 2 = b7
      BY <2>1, <2>2
    <3>10. QED
      BY <3>1, <3>2, <3>3, <3>4, <3>5, <3>6, <3>7, <3>8, <3>9
  <2>4. QED
    BY <2>3 DEF b0, b1, b2, b3, b4, b5, b6, b7
<1> HIDE DEF byte
<1>9. BitAt(byte, h) = Bit(n)
  <2>1. /\ h = 0 => n = 8 * b - 7
        /\ h = 1 => n = 8 * b - 6
        /\ h = 2 => n = 8 * b - 5
        /\ h = 3 => n = 8 * b - 4
        /\ h = 4 => n = 8 * b - 3
        /\ h = 5 => n = 8 * b - 2
        /\ h = 6 => n = 8 * b - 1
        /\ h = 7 => n = 8 * b
    BY <1>2, <1>4
  <2>2. h = 0 \/ h = 1 \/ h = 2 \/ h = 3 \/ h = 4 \/ h = 5 \/ h = 6 \/ h = 7
    BY <1>4
  <2>3. QED
    BY <1>8, <2>1, <2>2
<1>10. QED
  BY <1>3, <1>6, <1>9 DEF b, h

(* A sequence is what it is at each place. *)
LEMMA SameSequence ==
    ASSUME NEW S, NEW x \in Seq(S), NEW y, y = [n \in 1 .. Len(x) |-> y[n]], \A n \in 1 .. Len(x) : y[n] = x[n]
    PROVE  y = x
<1>1. x = [n \in 1 .. Len(x) |-> x[n]]
  OBVIOUS
<1>2. QED
  BY <1>1

LEMMA UnpackedIsPacked ==
    ASSUME NEW bits \in Seq(BitValues)
    PROVE  UnpackBits(PackBits(bits), Len(bits)) = bits
<1> DEFINE y == UnpackBits(PackBits(bits), Len(bits))
<1>1. y = [n \in 1 .. Len(bits) |-> y[n]]
  BY DEF UnpackBits
<1>2. \A n \in 1 .. Len(bits) : y[n] = bits[n]
  BY PackedBit DEF UnpackBits
<1> HIDE DEF y
<1>3. y = bits
  BY <1>1, <1>2, SameSequence
<1>4. QED
  BY <1>3 DEF y

(* Places and halves. *)
LEMMA Halves ==
    ASSUME NEW L \in Nat, NEW n \in 1 .. L
    PROVE  /\ 2 * L \in Nat /\ 2 * n \in Nat
           /\ 2 * n - 1 \in 1 .. (2 * L) /\ 2 * n \in 1 .. (2 * L)
           /\ (2 * n - 1) % 2 = 1 /\ (2 * n - 1 + 1) \div 2 = n
           /\ (2 * n) % 2 # 1 /\ (2 * n) \div 2 = n
OBVIOUS

(* Two neighbours in a sequence. *)
LEMMA TwoOf ==
    ASSUME NEW S, NEW w \in Seq(S), NEW e \in Nat, e \in 1 .. Len(w), e - 1 \in 1 .. Len(w)
    PROVE  LET u == SubSeq(w, e - 1, e) IN Len(u) = 2 /\ u[1] = w[e - 1] /\ u[2] = w[e]
<1>1. Len(SubSeq(w, e - 1, e)) = 2
  OBVIOUS
<1>2. \A m \in 1 .. 2 : SubSeq(w, e - 1, e)[m] = w[e - 1 + m - 1]
  OBVIOUS
<1>3. e - 1 + 1 - 1 = e - 1 /\ e - 1 + 2 - 1 = e /\ 1 \in 1 .. 2 /\ 2 \in 1 .. 2
  OBVIOUS
<1>4. SubSeq(w, e - 1, e)[1] = w[e - 1 + 1 - 1] /\ SubSeq(w, e - 1, e)[2] = w[e - 1 + 2 - 1]
  BY <1>2, <1>3
<1>5. QED
  BY <1>1, <1>3, <1>4

LEMMA RegisterNumber == ASSUME NEW x \in RegisterValues PROVE x \in Nat
BY DEF RegisterValues

LEMMA HighLow == ASSUME NEW x \in Nat PROVE 256 * (x \div 256) + (x % 256) = x
OBVIOUS

(* The two bytes of a register. *)
LEMMA RegisterBytes ==
    ASSUME NEW words \in Seq(RegisterValues), NEW n \in 1 .. Len(words)
    PROVE  /\ BigEndian(SubSeq(WordBytes(words), 2 * n - 1, 2 * n)) = words[n]
           /\ WordBytes(words)[2 * n] = words[n] % 256
<1> DEFINE L == Len(words)
           w == WordBytes(words)
           x == words[n]
<1>1. L \in Nat
  OBVIOUS
<1>2. x \in Nat
  <2>1. x \in RegisterValues
    OBVIOUS
  <2> HIDE DEF x
  <2>2. QED
    BY <2>1, RegisterNumber
<1>3. n \in 1 .. L
  OBVIOUS
<1>4. w = [m \in 1 .. 2 * L |-> IF m % 2 = 1 THEN words[(m + 1) \div 2] \div 256 ELSE words[m \div 2] % 256]
  BY DEF WordBytes
<1> HIDE DEF w, L
<1>5. /\ 2 * L \in Nat /\ 2 * n \in Nat
      /\ 2 * n - 1 \in 1 .. (2 * L) /\ 2 * n \in 1 .. (2 * L)
      /\ (2 * n - 1) % 2 = 1 /\ (2 * n - 1 + 1) \div 2 = n
      /\ (2 * n) % 2 # 1 /\ (2 * n) \div 2 = n
  BY <1>1, <1>3, Halves
<1>6. w[2 * n - 1] = x \div 256 /\ w[2 * n] = x % 256
  BY <1>4, <1>5
<1>7. w = [m \in 1 .. (2 * L) |-> w[m]]
  BY <1>4
<1>8. Len(w) = 2 * L
  BY <1>5, <1>7, LengthOf
<1> DEFINE S == {w[m] : m \in 1 .. (2 * L)}
<1>9. w \in Seq(S)
  <2>1. w \in [1 .. (2 * L) -> S]
    BY <1>7
  <2> HIDE DEF S
  <2>2. QED
    BY <1>5, <2>1
<1> DEFINE v == SubSeq(w, 2 * n - 1, 2 * n)
<1> HIDE DEF x, S
<1>10. Len(v) = 2 /\ v[1] = w[2 * n - 1] /\ v[2] = w[2 * n]
  <2> DEFINE e == 2 * n
  <2>1. e \in 1 .. Len(w) /\ e - 1 \in 1 .. Len(w) /\ e \in Nat
    BY <1>5, <1>8
  <2> HIDE DEF e
  <2>2. LET u == SubSeq(w, e - 1, e) IN Len(u) = 2 /\ u[1] = w[e - 1] /\ u[2] = w[e]
    BY <1>9, <2>1, TwoOf
  <2>3. QED
    BY <2>2 DEF e
<1> HIDE DEF v
<1>11. BigEndian(v) = 256 * v[1] + v[2]
  BY <1>10 DEF BigEndian
<1>12. 256 * (x \div 256) + (x % 256) = x
  BY <1>2, HighLow
<1>13. BigEndian(v) = x
  BY <1>6, <1>10, <1>11, <1>12
<1>14. QED
  BY <1>6, <1>13 DEF v, w, x

TableNames == {"coil", "input", "holding", "inreg"}
Addresses(t) == 0 .. (TableSize[t] - 1)
Kind(t) == IF t \in {"coil", "input"} THEN BitValues ELSE RegisterValues

(* What the devices store is what their tables may hold. *)
MappingInv ==
    /\ DOMAIN mapping = Slaves
    /\ \A s \in Slaves : DOMAIN mapping[s] = TableNames
    /\ \A s \in Slaves : \A t \in TableNames : mapping[s][t] \in [Addresses(t) -> Kind(t)]

(* What is known is so; nobody writes input registers. *)
KnownInv ==
    /\ DOMAIN known = Slaves
    /\ \A s \in Slaves : DOMAIN known[s] = TableNames
    /\ \A s \in Slaves : \A t \in TableNames :
          /\ DOMAIN known[s][t] = Addresses(t)
          /\ \A a \in Addresses(t) : \/ known[s][t][a] = mapping[s][t][a]
                                     \/ t # "inreg" /\ known[s][t][a] = Unknown

(* A query that may still reach a device writes to what is unknown. *)
Pending(tables, q) ==
    /\ {"fun", "addr", "nb", "data"} \subseteq DOMAIN q
    /\ Writes(q) => /\ Written(q) \in Seq(Kind(TableOf(q.fun)))
                    /\ \A a \in Addresses(TableOf(q.fun)) :
                          a - q.addr + 1 \in DOMAIN Written(q) => tables[TableOf(q.fun)][a] = Unknown

PendingInv ==
    \A s \in Slaves :
        /\ inbox[s] \in Seq({inbox[s][n] : n \in DOMAIN inbox[s]})
        /\ \A n \in DOMAIN inbox[s] : Pending(known[s], inbox[s][n])

(* The answer to a call is what the device says now, and what the call wrote *)
(* is in the tables.                                                         *)
Done(s, q) ==
    /\ inbuf[1].f = Answer(s, q)
    /\ Writes(q) => \A a \in Addresses(TableOf(q.fun)) :
          a - q.addr + 1 \in DOMAIN Written(q) => mapping[s][TableOf(q.fun)][a] = Written(q)[a - q.addr + 1]

DoneInv ==
    ~late /\ waiting /\ call.slave # MODBUS_BROADCAST_ADDRESS /\ inbuf # <<>> =>
        call.slave \in Slaves /\ \A s, q : s = call.slave /\ q = Query(call) => Done(s, q)

(* The tables. *)
LEMMA TablesOfFunctions ==
    /\ \A fun : TableOf(fun) \in TableNames
    /\ \A fun \in WritesOne \cup WritesMany : TableOf(fun) \in {"coil", "holding"} /\ TableOf(fun) # "inreg"
    /\ \A fun \in ReadsBits : Kind(TableOf(fun)) = BitValues
    /\ \A fun \in ReadsRegisters : Kind(TableOf(fun)) = RegisterValues
<1>1. \A fun : TableOf(fun) \in TableNames
  BY DEF TableOf, TableNames
<1>2. \A fun \in WritesOne \cup WritesMany : TableOf(fun) \in {"coil", "holding"} /\ TableOf(fun) # "inreg"
  BY DEF TableOf, WritesOne, WritesMany, FC_READ_COIL_STATUS, FC_READ_INPUT_STATUS, FC_READ_INPUT_REGISTERS,
         FC_FORCE_SINGLE_COIL, FC_PRESET_SINGLE_REGISTER, FC_FORCE_MULTIPLE_COILS, FC_PRESET_MULTIPLE_REGISTERS
<1>3. \A fun \in ReadsBits : TableOf(fun) \in {"coil", "input"}
  BY DEF TableOf, ReadsBits, FC_READ_COIL_STATUS, FC_READ_INPUT_STATUS, FC_READ_INPUT_REGISTERS,
         FC_FORCE_SINGLE_COIL, FC_FORCE_MULTIPLE_COILS
<1>4. \A fun \in ReadsRegisters : TableOf(fun) \in {"holding", "inreg"}
  BY DEF TableOf, ReadsRegisters, FC_READ_COIL_STATUS, FC_READ_INPUT_STATUS, FC_READ_INPUT_REGISTERS,
         FC_READ_HOLDING_REGISTERS, FC_FORCE_SINGLE_COIL, FC_FORCE_MULTIPLE_COILS
<1>5. QED
  BY <1>1, <1>2, <1>3, <1>4 DEF Kind

(* A query is a record, of the slave that is called. *)
LEMMA QueryRecord ==
    ASSUME NEW c
    PROVE  LET q == Query(c)
           IN  /\ {"fun", "addr", "nb", "data"} \subseteq DOMAIN q
               /\ q.slave = c.slave
               /\ c.via # "LD_B10_220" => /\ q.fun = c.fun /\ q.addr = c.addr /\ q.nb = c.nb
                                          /\ q.data = QueryData(c)
               /\ c.via = "LD_B10_220" => q.fun = FC_READ_INPUT_REGISTERS /\ q.addr = 0 /\ q.nb = 1
BY DEF Query, QueryLD_B10_220

(* The device finds the values in the query that the call has. *)
LEMMA QueryCarries ==
    ASSUME calls \in Programs, NEW c \in calls, Writes(Query(c))
    PROVE  /\ c.fun \in WritesOne \cup WritesMany
           /\ Query(c).fun = c.fun /\ Query(c).addr = c.addr
           /\ Written(Query(c)) = c.values
           /\ c.values \in Seq(Kind(TableOf(c.fun)))
<1> DEFINE q == Query(c)
<1>1. q.fun \in WritesOne \cup WritesMany /\ LegalValue(q)
  BY DEF Writes
<1>2. c.via # "LD_B10_220"
  <2>1. FC_READ_INPUT_REGISTERS \notin WritesOne \cup WritesMany
    BY FunctionKinds DEF ReadsRegisters
  <2>2. QED
    BY <1>1, <2>1, QueryRecord
<1>3. q.fun = c.fun /\ q.addr = c.addr /\ q.nb = c.nb /\ q.data = QueryData(c)
  BY <1>2, QueryRecord
<1> HIDE DEF q
<1> USE DEF FC_READ_COIL_STATUS, FC_READ_INPUT_STATUS, FC_READ_HOLDING_REGISTERS, FC_READ_INPUT_REGISTERS,
            FC_FORCE_SINGLE_COIL, FC_PRESET_SINGLE_REGISTER, FC_FORCE_MULTIPLE_COILS, FC_PRESET_MULTIPLE_REGISTERS
<1>4. Carries(c) /\ c.nb \in Nat
  BY CallsAssumption
<1>5. CASE c.fun = FC_FORCE_SINGLE_COIL
  <2>1. c.values = <<IF c.nb = 0 THEN 0 ELSE 1>>
    BY <1>4, <1>5 DEF Carries
  <2>2. Written(q) = c.values
    BY <1>3, <1>5, <2>1 DEF Written
  <2>3. Kind(TableOf(c.fun)) = BitValues
    BY <1>5 DEF Kind, TableOf
  <2>4. c.values \in Seq(BitValues)
    BY <2>1 DEF BitValues
  <2>5. QED
    BY <1>1, <1>3, <2>2, <2>3, <2>4 DEF q
<1>6. CASE c.fun = FC_PRESET_SINGLE_REGISTER
  <2>1. c.nb \in RegisterValues /\ c.values = <<c.nb>>
    BY <1>4, <1>6 DEF Carries
  <2>2. Written(q) = c.values
    BY <1>3, <1>6, <2>1 DEF Written
  <2>3. Kind(TableOf(c.fun)) = RegisterValues
    BY <1>6 DEF Kind, TableOf
  <2>4. c.values \in Seq(RegisterValues)
    BY <2>1
  <2>5. QED
    BY <1>1, <1>3, <2>2, <2>3, <2>4 DEF q
<1>7. CASE c.fun = FC_FORCE_MULTIPLE_COILS
  <2>1. c.values \in Seq(BitValues) /\ Len(c.values) = c.nb
    BY <1>4, <1>7 DEF Carries
  <2>2. q.data = PackBits(c.values)
    BY <1>3, <1>7 DEF QueryData
  <2>3. Written(q) = UnpackBits(q.data, q.nb)
    BY <1>3, <1>7 DEF Written
  <2>4. Written(q) = c.values
    BY <1>3, <2>1, <2>2, <2>3, UnpackedIsPacked
  <2>5. Kind(TableOf(c.fun)) = BitValues
    BY <1>7 DEF Kind, TableOf
  <2>6. QED
    BY <1>1, <1>3, <2>1, <2>4, <2>5 DEF q
<1>8. CASE c.fun = FC_PRESET_MULTIPLE_REGISTERS
  <2>1. c.values \in Seq(RegisterValues) /\ Len(c.values) = c.nb
    BY <1>4, <1>8 DEF Carries
  <2>2. q.data = WordBytes(c.values)
    BY <1>3, <1>8 DEF QueryData
  <2>3. Written(q) = [n \in 1 .. q.nb |-> BigEndian(SubSeq(q.data, 2 * n - 1, 2 * n))]
    BY <1>3, <1>8 DEF Written
  <2>4. Written(q) = c.values
    <3>1. q.nb = Len(c.values)
      BY <1>3, <2>1
    <3>2. \A n \in 1 .. Len(c.values) : Written(q)[n] = c.values[n]
      BY <2>1, <2>2, <2>3, <3>1, RegisterBytes
    <3>3. Written(q) = [n \in 1 .. Len(c.values) |-> Written(q)[n]]
      BY <2>3, <3>1
    <3>4. QED
      BY <2>1, <3>2, <3>3, SameSequence
  <2>5. Kind(TableOf(c.fun)) = RegisterValues
    BY <1>8 DEF Kind, TableOf
  <2>6. QED
    BY <1>1, <1>3, <2>1, <2>4, <2>5 DEF q
<1>9. QED
  BY <1>1, <1>3, <1>5, <1>6, <1>7, <1>8 DEF WritesOne, WritesMany

(* What is known after a call is sent or has returned. *)
LEMMA KnowingAt ==
    ASSUME KnownInv, NEW c, NEW confirmed, NEW s \in Slaves, NEW t \in TableNames
    PROVE  LET tables == Knowing(c, confirmed)[s]
           IN  /\ DOMAIN Knowing(c, confirmed) = Slaves
               /\ DOMAIN tables = TableNames
               /\ DOMAIN tables[t] = Addresses(t)
               /\ \A a \in Addresses(t) :
                     tables[t][a] =
                        IF /\ c.fun \in WritesOne \cup WritesMany /\ ForMe(s, c)
                           /\ t = TableOf(c.fun) /\ a - c.addr + 1 \in DOMAIN c.values
                        THEN IF confirmed /\ c.slave = s THEN c.values[a - c.addr + 1] ELSE Unknown
                        ELSE known[s][t][a]
<1>1. DOMAIN known = Slaves /\ DOMAIN known[s] = TableNames /\ DOMAIN known[s][t] = Addresses(t)
  BY DEF KnownInv
<1>2. CASE c.fun \notin WritesOne \cup WritesMany
  BY <1>1, <1>2 DEF Knowing
<1>3. CASE c.fun \in WritesOne \cup WritesMany
  <2> DEFINE u == TableOf(c.fun)
             new == [a \in DOMAIN known[s][u] |->
                        IF a - c.addr + 1 \notin DOMAIN c.values THEN known[s][u][a]
                        ELSE IF confirmed /\ c.slave = s THEN c.values[a - c.addr + 1] ELSE Unknown]
  <2>1. DOMAIN Knowing(c, confirmed) = Slaves
    BY <1>3 DEF Knowing
  <2>2. Knowing(c, confirmed)[s] = IF ForMe(s, c) THEN [known[s] EXCEPT ![u] = new] ELSE known[s]
    BY <1>3 DEF Knowing
  <2>3. CASE ~ForMe(s, c)
    BY <1>1, <1>3, <2>1, <2>2, <2>3
  <2>4. CASE ForMe(s, c)
    <3>1. Knowing(c, confirmed)[s] = [known[s] EXCEPT ![u] = new]
      BY <2>2, <2>4
    <3> HIDE DEF new
    <3>2. DOMAIN Knowing(c, confirmed)[s] = TableNames
      BY <1>1, <3>1
    <3>3. CASE t # u
      <4>1. Knowing(c, confirmed)[s][t] = known[s][t]
        BY <1>1, <3>1, <3>3
      <4>2. QED
        BY <1>1, <2>1, <3>2, <3>3, <4>1
    <3>4. CASE t = u
      <4>1. Knowing(c, confirmed)[s][t] = new
        BY <1>1, <3>1, <3>4
      <4>2. new = [a \in Addresses(t) |->
                        IF a - c.addr + 1 \notin DOMAIN c.values THEN known[s][t][a]
                        ELSE IF confirmed /\ c.slave = s THEN c.values[a - c.addr + 1] ELSE Unknown]
        BY <1>1, <3>4 DEF new
      <4>3. QED
        BY <1>3, <2>1, <2>4, <3>2, <3>4, <4>1, <4>2
    <3>5. QED
      BY <3>3, <3>4
  <2>5. QED
    BY <2>3, <2>4
<1>4. QED
  BY <1>2, <1>3

(* The same, for all tables at once. *)
LEMMA KnownLater ==
    ASSUME KnownInv, NEW c, NEW confirmed, known' = Knowing(c, confirmed)
    PROVE  \A s \in Slaves : \A t \in TableNames : \A a \in Addresses(t) :
              known'[s][t][a] =
                 IF /\ c.fun \in WritesOne \cup WritesMany /\ ForMe(s, c)
                    /\ t = TableOf(c.fun) /\ a - c.addr + 1 \in DOMAIN c.values
                 THEN IF confirmed /\ c.slave = s THEN c.values[a - c.addr + 1] ELSE Unknown
                 ELSE known[s][t][a]
BY KnowingAt

(* A query stays pending, also as an old one, while what it writes to is     *)
(* not known.                                                                *)
LEMMA StillPending ==
    ASSUME NEW tables, NEW later, NEW q, Pending(tables, q),
           \A t \in TableNames : \A a \in Addresses(t) : tables[t][a] = Unknown => later[t][a] = Unknown
    PROVE  Pending(later, q) /\ Pending(later, Old(q))
<1>1. {"fun", "addr", "nb", "data"} \subseteq DOMAIN q
  BY DEF Pending
<1>2. TableOf(q.fun) \in TableNames
  BY TablesOfFunctions
<1>3. Pending(later, q)
  BY <1>2 DEF Pending
<1> DEFINE o == Old(q)
<1>4. /\ {"fun", "addr", "nb", "data"} \subseteq DOMAIN o
      /\ o.fun = q.fun /\ o.addr = q.addr /\ o.nb = q.nb /\ o.data = q.data
  BY <1>1 DEF Old
<1> HIDE DEF o
<1>5. Writes(o) = Writes(q)
  BY <1>4 DEF Writes, InTable, LegalValue
<1>6. Written(o) = Written(q)
  BY <1>4 DEF Written
<1>7. Pending(later, o)
  BY <1>3, <1>4, <1>5, <1>6 DEF Pending
<1>8. QED
  BY <1>3, <1>7 DEF o

(* What is left of a sequence, and what is added. *)
LEMMA OwnElements == ASSUME NEW S, NEW x \in Seq(S) PROVE x \in Seq({x[n] : n \in DOMAIN x})
<1> DEFINE R == {x[n] : n \in 1 .. Len(x)}
<1>1. x \in [1 .. Len(x) -> S] /\ Len(x) \in Nat /\ DOMAIN x = 1 .. Len(x)
  OBVIOUS
<1>2. \A n \in 1 .. Len(x) : x[n] \in R
  OBVIOUS
<1> HIDE DEF R
<1>3. x \in [1 .. Len(x) -> R]
  BY <1>1, <1>2
<1>4. x \in Seq(R)
  BY <1>1, <1>3
<1>5. QED
  BY <1>1, <1>4 DEF R

(* A sequence without its first element. *)
LEMMA Shorter ==
    ASSUME NEW S, NEW x \in Seq(S), x # <<>>
    PROVE  /\ Head(x) = x[1] /\ 1 \in DOMAIN x
           /\ Tail(x) \in Seq({Tail(x)[n] : n \in DOMAIN Tail(x)})
           /\ \A n \in DOMAIN Tail(x) : n + 1 \in DOMAIN x /\ Tail(x)[n] = x[n + 1]
<1>1. Head(x) = x[1] /\ 1 \in DOMAIN x
  OBVIOUS
<1>2. Tail(x) \in Seq(S)
  OBVIOUS
<1>3. \A n \in DOMAIN Tail(x) : n + 1 \in DOMAIN x /\ Tail(x)[n] = x[n + 1]
  OBVIOUS
<1> DEFINE y == Tail(x)
<1> HIDE DEF y
<1>4. y \in Seq({y[n] : n \in DOMAIN y})
  <2>1. y \in Seq(S)
    BY <1>2 DEF y
  <2>2. QED
    BY <2>1, OwnElements
<1>5. QED
  BY <1>1, <1>3, <1>4 DEF y

(* And with one more. *)
LEMMA Longer ==
    ASSUME NEW S, NEW x \in Seq(S), NEW e
    PROVE  /\ Append(x, e) \in Seq({Append(x, e)[n] : n \in DOMAIN Append(x, e)})
           /\ \A n \in DOMAIN Append(x, e) : Append(x, e)[n] = e \/ (n \in DOMAIN x /\ Append(x, e)[n] = x[n])
<1> DEFINE y == Append(x, e)
<1>1. y \in Seq(S \cup {e})
  OBVIOUS
<1>2. \A n \in DOMAIN y : y[n] = e \/ (n \in DOMAIN x /\ y[n] = x[n])
  OBVIOUS
<1> HIDE DEF y
<1>3. y \in Seq({y[n] : n \in DOMAIN y})
  BY <1>1, OwnElements
<1>4. QED
  BY <1>2, <1>3 DEF y

(* What is awaited of a call. *)
LEMMA AwaitedOf ==
    ASSUME com \in Coms, calls \in Programs, call \in calls
    PROVE  /\ call.via = "LD_B10_220" => Awaited = 7
           /\ call.via = "RPC3FxC" /\ call.fun \in ReadsBits => Awaited = 2 + call.nb + Around
           /\ call.via = "modbus" /\ call.fun \in ReadsBits => Awaited = 2 + BytesOf(call.nb) + Around
           /\ call.via # "LD_B10_220" /\ call.fun \in ReadsRegisters =>
                 Awaited = 2 + ValueWidth(call.type) * call.nb + Around
           /\ call.via # "LD_B10_220" /\ call.fun \in WritesOne \cup WritesMany => Awaited = 5 + Around
<1>1. call.nb \in Nat /\ Around \in Nat /\ BytesOf(call.nb) \in Nat /\ ValueWidth(call.type) * call.nb \in Nat
  BY CallsAreCalls, Numbers, BytesAreNat, WidthTimes
<1>2. CASE call.via = "LD_B10_220"
  <2>1. ResponseLength(call) = 7
    BY <1>2 DEF ResponseLength
  <2>2. Awaited = 7
    BY <2>1 DEF Awaited, MSG_LENGTH_UNDEFINED
  <2>3. QED
    BY <1>2, <2>2
<1>3. CASE call.via = "RPC3FxC" /\ call.fun \in ReadsBits
  <2>1. ResponseLength(call) = 2 + call.nb + Around
    BY <1>3, FunctionKinds DEF ResponseLength, ResponseLengthRPC3FxC
  <2>2. Awaited = 2 + call.nb + Around
    BY <1>1, <2>1 DEF Awaited, MSG_LENGTH_UNDEFINED
  <2>3. QED
    BY <1>3, <2>2, FunctionKinds
<1>4. CASE call.via = "modbus" /\ call.fun \in ReadsBits
  <2>1. ResponseLength(call) = 2 + BytesOf(call.nb) + Around
    BY <1>4, FunctionKinds DEF ResponseLength
  <2>2. Awaited = 2 + BytesOf(call.nb) + Around
    BY <1>1, <2>1 DEF Awaited, MSG_LENGTH_UNDEFINED
  <2>3. QED
    BY <1>4, <2>2, FunctionKinds
<1>5. CASE call.via # "LD_B10_220" /\ call.fun \in ReadsRegisters
  <2>1. ResponseLength(call) = 2 + ValueWidth(call.type) * call.nb + Around
    BY <1>5, FunctionKinds DEF ResponseLength
  <2>2. Awaited = 2 + ValueWidth(call.type) * call.nb + Around
    BY <1>1, <2>1 DEF Awaited, MSG_LENGTH_UNDEFINED
  <2>3. QED
    BY <1>5, <2>2, FunctionKinds
<1>6. CASE call.via # "LD_B10_220" /\ call.fun \in WritesOne \cup WritesMany
  <2>1. ResponseLength(call) = 5 + Around
    BY <1>6, FunctionKinds DEF ResponseLength
  <2>2. Awaited = 5 + Around
    BY <1>1, <2>1 DEF Awaited, MSG_LENGTH_UNDEFINED
  <2>3. QED
    BY <1>6, <2>2, FunctionKinds
<1>7. QED
  BY <1>2, <1>3, <1>4, <1>5, <1>6

(* The entries that are read. *)
LEMMA EntriesTyped ==
    ASSUME MappingInv, NEW s \in Slaves, NEW q, InTable(q), q.fun \in ReadsBits \cup ReadsRegisters,
           q.addr \in Nat, q.nb \in Nat
    PROVE  /\ Entries(s, q) \in Seq(Kind(TableOf(q.fun))) /\ Len(Entries(s, q)) = q.nb
           /\ \A n \in 1 .. q.nb : /\ q.addr + n - 1 \in Addresses(TableOf(q.fun))
                                   /\ Entries(s, q)[n] = mapping[s][TableOf(q.fun)][q.addr + n - 1]
<1> DEFINE t == TableOf(q.fun)
           e == Entries(s, q)
<1>1. t \in TableNames
  BY TablesOfFunctions
<1>2. TableSize[t] \in Nat
  <2>1. TableSize \in [TableNames -> Nat]
    BY MappingAssumption DEF TableNames
  <2> HIDE DEF t
  <2>2. QED
    BY <1>1, <2>1
<1>3. q.addr + q.nb <= TableSize[t]
  BY FunctionKinds DEF InTable
<1>4. mapping[s][t] \in [Addresses(t) -> Kind(t)]
  BY <1>1 DEF MappingInv
<1>5. e = [n \in 1 .. q.nb |-> mapping[s][t][q.addr + n - 1]]
  BY DEF Entries
<1> HIDE DEF e, t
<1>6. \A n \in 1 .. q.nb : q.addr + n - 1 \in Addresses(t)
  BY <1>2, <1>3 DEF Addresses
<1>7. \A n \in 1 .. q.nb : e[n] = mapping[s][t][q.addr + n - 1]
  BY <1>5
<1>8. e \in [1 .. q.nb -> Kind(t)]
  BY <1>4, <1>5, <1>6
<1>9. e \in Seq(Kind(t)) /\ Len(e) = q.nb
  BY <1>8
<1>10. QED
  BY <1>6, <1>7, <1>9 DEF e, t

(* What a device answers to a read. *)
LEMMA ReadAnswer ==
    ASSUME NEW s, NEW q, q.fun \in ReadsBits \cup ReadsRegisters
    PROVE  LET f == Answer(s, q)
           IN  /\ InTable(q) =>
                     /\ f.fun = q.fun /\ f.length = 2 + Len(f.data) + Around
                     /\ q.fun \in ReadsBits /\ Models[s] = "RPC3FxC" => f.data = Entries(s, q)
                     /\ q.fun \in ReadsBits /\ Models[s] # "RPC3FxC" => f.data = PackBits(Entries(s, q))
                     /\ q.fun \in ReadsRegisters => f.data = WordBytes(Entries(s, q))
               /\ ~InTable(q) => f.length = ExceptionLength /\ f.fun = q.fun + 128
<1> DEFINE f == Answer(s, q)
<1>1. q.fun # FC_REPORT_SLAVE_ID /\ q.fun \notin WritesOne \cup WritesMany
  BY FunctionKinds
<1>2. CASE InTable(q)
  <2>1. f = ReadFrame(s, q)
    BY <1>1, <1>2 DEF Answer
  <2>2. f.fun = q.fun /\ f.length = 2 + Len(f.data) + Around
    BY <2>1 DEF ReadFrame, Frame
  <2>3. q.fun \in ReadsBits /\ Models[s] = "RPC3FxC" => f.data = Entries(s, q)
    BY <2>1 DEF ReadFrame, Frame
  <2>4. q.fun \in ReadsBits /\ Models[s] # "RPC3FxC" => f.data = PackBits(Entries(s, q))
    BY <2>1 DEF ReadFrame, Frame
  <2>5. q.fun \in ReadsRegisters => f.data = WordBytes(Entries(s, q))
    <3>1. q.fun \in ReadsRegisters => q.fun \notin ReadsBits
      BY FunctionKinds
    <3>2. QED
      BY <2>1, <3>1 DEF ReadFrame, Frame
  <2>6. QED
    BY <1>2, <2>2, <2>3, <2>4, <2>5
<1>3. CASE ~InTable(q)
  <2>1. f = ExceptionFrame(q, ILLEGAL_DATA_ADDRESS)
    BY <1>1, <1>3 DEF Answer
  <2>2. QED
    BY <1>3, <2>1 DEF ExceptionFrame, Frame
<1>4. QED
  BY <1>2, <1>3

(* A bit alone in its byte. *)
LEMMA OneBit ==
    ASSUME NEW e \in Seq(BitValues), Len(e) = 1
    PROVE  PackBits(e)[1] = e[1] /\ BitAt(e[1], 0) = e[1]
<1> DEFINE Bit(x) == IF x > Len(e) THEN 0 ELSE e[x]
<1>1. Bit(1) = e[1] /\ \A x \in 2 .. 8 : Bit(x) = 0
  OBVIOUS
<1>2. e[1] \in BitValues /\ e[1] \in Nat
  BY DEF BitValues
<1>3. 1 \in 1 .. BytesOf(Len(e))
  BY DEF BytesOf
<1>4. PackBits(e)[1] = Bit(8 * 1 - 7) + 2 * Bit(8 * 1 - 6) + 4 * Bit(8 * 1 - 5) + 8 * Bit(8 * 1 - 4)
                       + 16 * Bit(8 * 1 - 3) + 32 * Bit(8 * 1 - 2) + 64 * Bit(8 * 1 - 1) + 128 * Bit(8 * 1)
  BY <1>3 DEF PackBits
<1> HIDE DEF Bit
<1>5. Bit(2) = 0 /\ Bit(3) = 0 /\ Bit(4) = 0 /\ Bit(5) = 0 /\ Bit(6) = 0 /\ Bit(7) = 0 /\ Bit(8) = 0
  BY <1>1
<1>6. PackBits(e)[1] = e[1]
  <2> DEFINE x == e[1]
  <2>1. x \in Nat /\ PackBits(e)[1] = x + 2 * 0 + 4 * 0 + 8 * 0 + 16 * 0 + 32 * 0 + 64 * 0 + 128 * 0
    BY <1>1, <1>2, <1>4, <1>5
  <2> HIDE DEF x
  <2>2. PackBits(e)[1] = x
    BY <2>1
  <2>3. QED
    BY <2>2 DEF x
<1>7. BitAt(e[1], 0) = e[1]
  <2> DEFINE x == e[1]
  <2>1. x = 0 \/ x = 1
    BY <1>2 DEF BitValues
  <2> HIDE DEF x
  <2>2. BitAt(x, 0) = (x \div 1) % 2
    BY Weights DEF BitAt
  <2>3. BitAt(x, 0) = x
    BY <2>1, <2>2
  <2>4. QED
    BY <2>3 DEF x
<1>8. QED
  BY <1>6, <1>7

(* The states of an LD_B10_220. *)
LEMMA StatesRead ==
    ASSUME LinkKinds, MappingInv, call.slave \in Slaves, call.via = "LD_B10_220",
           NEW f, f = Answer(call.slave, Query(call)), f.length = Awaited, NEW n \in 1 .. call.nb
    PROVE  0 \in Addresses("inreg") /\ Decoded(f)[n] = BitAt(mapping[call.slave]["inreg"][0] % 256, n - 1)
<1> DEFINE q == Query(call)
           e == Entries(call.slave, q)
<1>1. com = "RTU" /\ calls \in Programs /\ call \in calls /\ com \in Coms
  BY Numbers DEF LinkKinds
<1>2. Around = 3 /\ ExceptionLength = 5 /\ f.length = 7
  BY <1>1, AwaitedOf, Numbers DEF ExceptionLength
<1>3. q.fun = FC_READ_INPUT_REGISTERS /\ q.addr = 0 /\ q.nb = 1
  BY QueryRecord
<1>4. q.fun \in ReadsRegisters /\ TableOf(q.fun) = "inreg" /\ Kind("inreg") = RegisterValues
  <2>1. q.fun \in ReadsRegisters
    BY <1>3 DEF ReadsRegisters
  <2>2. TableOf(FC_READ_INPUT_REGISTERS) = "inreg"
    BY DEF TableOf, FC_READ_INPUT_REGISTERS, FC_READ_COIL_STATUS, FC_FORCE_SINGLE_COIL, FC_FORCE_MULTIPLE_COILS,
           FC_READ_INPUT_STATUS
  <2>3. QED
    BY <1>3, <2>1, <2>2 DEF Kind
<1> HIDE DEF q
<1>5. InTable(q) /\ f.data = WordBytes(e)
  BY <1>2, <1>4, ReadAnswer DEF q
<1>6. e \in Seq(RegisterValues) /\ Len(e) = 1 /\ 0 \in Addresses("inreg") /\ e[1] = mapping[call.slave]["inreg"][0]
  <2>1. /\ e \in Seq(Kind(TableOf(q.fun))) /\ Len(e) = q.nb
        /\ \A m \in 1 .. q.nb : /\ q.addr + m - 1 \in Addresses(TableOf(q.fun))
                                /\ e[m] = mapping[call.slave][TableOf(q.fun)][q.addr + m - 1]
    <3>1. 0 \in Nat /\ 1 \in Nat
      OBVIOUS
    <3>2. q.addr \in Nat /\ q.nb \in Nat /\ q.fun \in ReadsBits \cup ReadsRegisters
      BY <1>3, <1>4, <3>1
    <3>3. QED
      BY <1>5, <3>2, EntriesTyped
  <2>2. 1 \in 1 .. q.nb /\ q.addr + 1 - 1 = 0
    BY <1>3
  <2>3. QED
    BY <1>3, <1>4, <2>1, <2>2
<1> HIDE DEF e
<1>7. f.data[2] = e[1] % 256
  <2>1. WordBytes(e)[2 * 1] = e[1] % 256
    BY <1>6, RegisterBytes
  <2>2. QED
    BY <1>5, <2>1
<1>8. n \in 1 .. 5
  <2>1. call.nb <= 5 /\ call.nb \in Nat
    BY <1>1, CallsAssumption
  <2>2. QED
    BY <2>1
<1>9. Decoded(f)[n] = BitAt(f.data[2], n - 1)
  BY <1>8 DEF Decoded, StatesOf
<1>10. QED
  BY <1>6, <1>7, <1>9

(* Nobody reads more than a query asks for: what is common to the others. *)
LEMMA ReadCommon ==
    ASSUME LinkKinds, MappingInv, call.slave \in Slaves, call.via # "LD_B10_220",
           call.fun \in ReadsBits \cup ReadsRegisters, NEW f, f = Answer(call.slave, Query(call))
    PROVE  LET e == Entries(call.slave, Query(call))
           IN  \/ f.length = 2 + Around /\ f.fun = call.fun + 128
               \/ /\ f.fun = call.fun /\ f.length = 2 + Len(f.data) + Around
                  /\ e \in Seq(Kind(TableOf(call.fun))) /\ Len(e) = call.nb
                  /\ \A n \in 1 .. call.nb : /\ call.addr + n - 1 \in Addresses(TableOf(call.fun))
                                             /\ e[n] = mapping[call.slave][TableOf(call.fun)][call.addr + n - 1]
                  /\ call.fun \in ReadsBits => f.data = e \/ f.data = PackBits(e)
                  /\ call.fun \in ReadsRegisters => f.data = WordBytes(e)
<1> DEFINE q == Query(call)
           e == Entries(call.slave, q)
<1>1. q.fun = call.fun /\ q.addr = call.addr /\ q.nb = call.nb
  BY QueryRecord
<1>2. call.addr \in Nat /\ call.nb \in Nat
  BY CallsAssumption DEF LinkKinds
<1> HIDE DEF q
<1>3. CASE ~InTable(q)
  BY <1>1, <1>3, ReadAnswer DEF ExceptionLength, q
<1>4. CASE InTable(q)
  <2>1. /\ e \in Seq(Kind(TableOf(q.fun))) /\ Len(e) = q.nb
        /\ \A n \in 1 .. q.nb : /\ q.addr + n - 1 \in Addresses(TableOf(q.fun))
                                /\ e[n] = mapping[call.slave][TableOf(q.fun)][q.addr + n - 1]
    BY <1>1, <1>2, <1>4, EntriesTyped
  <2>2. /\ f.fun = q.fun /\ f.length = 2 + Len(f.data) + Around
        /\ q.fun \in ReadsBits => f.data = e \/ f.data = PackBits(e)
        /\ q.fun \in ReadsRegisters => f.data = WordBytes(e)
    BY <1>1, <1>4, ReadAnswer DEF q
  <2>3. QED
    BY <1>1, <2>1, <2>2 DEF q
<1>5. QED
  BY <1>3, <1>4

(* The bits of a byte that stands for one or all of them. *)
LEMMA BitsInBytes ==
    ASSUME NEW e \in Seq(BitValues), Len(e) > 0, NEW data, data = e \/ data = PackBits(e)
    PROVE  /\ Len(data) = BytesOf(Len(e)) => \A n \in 1 .. Len(e) : UnpackBits(data, Len(e))[n] = e[n]
           /\ Len(data) = Len(e) => data = e
<1> DEFINE L == Len(e)
<1>1. L \in Nat /\ L > 0 /\ BytesOf(L) \in Nat
  BY BytesAreNat
<1>2. Len(PackBits(e)) = BytesOf(L)
  <2>1. PackBits(e) = [b \in 1 .. BytesOf(L) |-> PackBits(e)[b]]
    BY DEF PackBits
  <2>2. QED
    BY <1>1, <2>1, LengthOf
<1>3. BytesOf(L) = L => L = 1
  BY <1>1 DEF BytesOf
<1>4. ASSUME data = PackBits(e) PROVE \A n \in 1 .. L : UnpackBits(data, L)[n] = e[n]
  BY <1>4, PackedBit DEF UnpackBits
<1>5. ASSUME data = PackBits(e), Len(data) = L PROVE data = e
  <2>1. L = 1
    BY <1>2, <1>3, <1>5
  <2>2. data[1] = e[1]
    BY <1>5, <2>1, OneBit
  <2>3. data = [b \in 1 .. Len(e) |-> data[b]]
    <3>1. data = [b \in 1 .. BytesOf(Len(e)) |-> data[b]]
      BY <1>5 DEF PackBits
    <3>2. BytesOf(Len(e)) = Len(e)
      BY <1>2, <1>5
    <3>3. QED
      BY <3>1, <3>2
  <2>4. \A b \in 1 .. Len(e) : data[b] = e[b]
    BY <2>1, <2>2
  <2>5. QED
    BY <2>3, <2>4, SameSequence
<1>6. ASSUME data = e, L = BytesOf(L) PROVE \A n \in 1 .. L : UnpackBits(data, L)[n] = e[n]
  <2>1. L = 1
    BY <1>3, <1>6
  <2>2. UnpackBits(data, L)[1] = BitAt(e[1], 0)
    BY <1>6, <2>1 DEF UnpackBits
  <2>3. UnpackBits(data, L)[1] = e[1]
    BY <2>1, <2>2, OneBit
  <2>4. QED
    BY <2>1, <2>3
<1>7. QED
  BY <1>4, <1>5, <1>6

(* The outlets of an RPC3FxC. *)
LEMMA OutletsRead ==
    ASSUME LinkKinds, MappingInv, call.slave \in Slaves, call.via = "RPC3FxC", call.fun \in ReadsBits,
           NEW f, f = Answer(call.slave, Query(call)), f.length = Awaited, NEW n \in 1 .. call.nb
    PROVE  /\ call.addr + n - 1 \in Addresses(TableOf(call.fun))
           /\ Decoded(f)[n] = mapping[call.slave][TableOf(call.fun)][call.addr + n - 1]
<1> DEFINE e == Entries(call.slave, Query(call))
           K == Kind(TableOf(call.fun))
<1>1. call.nb \in Nat /\ call.nb > 0 /\ Around \in Nat
  <2>1. call.nb \in Nat /\ Around \in Nat
    BY CallsAreCalls, Numbers DEF LinkKinds
  <2>2. QED
    BY <2>1
<1>2. Awaited = 2 + call.nb + Around
  BY AwaitedOf DEF LinkKinds
<1>3. f.length # 2 + Around
  BY <1>1, <1>2
<1>4. /\ f.fun = call.fun /\ f.length = 2 + Len(f.data) + Around
      /\ e \in Seq(K) /\ Len(e) = call.nb
      /\ call.addr + n - 1 \in Addresses(TableOf(call.fun))
      /\ e[n] = mapping[call.slave][TableOf(call.fun)][call.addr + n - 1]
      /\ f.data = e \/ f.data = PackBits(e)
  BY <1>3, ReadCommon
<1>5. K = BitValues
  BY TablesOfFunctions
<1> HIDE DEF e, K
<1>6. Len(f.data) = call.nb
  <2>1. Len(f.data) \in Nat
    <3>1. Len(PackBits(e)) = BytesOf(call.nb)
      <4>1. PackBits(e) = [b \in 1 .. BytesOf(call.nb) |-> PackBits(e)[b]]
        BY <1>4 DEF PackBits
      <4>2. BytesOf(call.nb) \in Nat
        BY <1>1, BytesAreNat
      <4>3. QED
        BY <4>1, <4>2, LengthOf
    <3>2. QED
      BY <1>1, <1>4, <3>1, BytesAreNat
  <2>2. QED
    BY <1>1, <1>2, <1>4, <2>1
<1>7. f.data = e
  BY <1>1, <1>4, <1>5, <1>6, BitsInBytes
<1>8. Decoded(f) = f.data
  <2>1. call.via # "LD_B10_220"
    OBVIOUS
  <2>2. f.fun \in ReadsBits
    BY <1>4
  <2>3. QED
    BY <2>1, <2>2, FunctionKinds DEF Decoded, Bytes
<1>9. QED
  BY <1>4, <1>7, <1>8

(* The bits of the others. *)
LEMMA BitsRead ==
    ASSUME LinkKinds, MappingInv, call.slave \in Slaves, call.via = "modbus", call.fun \in ReadsBits,
           NEW f, f = Answer(call.slave, Query(call)), f.length = Awaited, NEW n \in 1 .. call.nb
    PROVE  /\ call.addr + n - 1 \in Addresses(TableOf(call.fun))
           /\ Decoded(f)[n] = mapping[call.slave][TableOf(call.fun)][call.addr + n - 1]
<1> DEFINE e == Entries(call.slave, Query(call))
           K == Kind(TableOf(call.fun))
<1>1. call.nb \in Nat /\ call.nb > 0 /\ Around \in Nat
  <2>1. call.nb \in Nat /\ Around \in Nat
    BY CallsAreCalls, Numbers DEF LinkKinds
  <2>2. QED
    BY <2>1
<1>2. Awaited = 2 + BytesOf(call.nb) + Around /\ BytesOf(call.nb) \in Nat /\ BytesOf(call.nb) > 0
  <2>1. BytesOf(call.nb) \in Nat /\ BytesOf(call.nb) > 0
    BY <1>1 DEF BytesOf
  <2>2. QED
    BY <2>1, AwaitedOf DEF LinkKinds
<1>3. f.length # 2 + Around
  BY <1>1, <1>2
<1>4. /\ f.fun = call.fun /\ f.length = 2 + Len(f.data) + Around
      /\ e \in Seq(K) /\ Len(e) = call.nb
      /\ call.addr + n - 1 \in Addresses(TableOf(call.fun))
      /\ e[n] = mapping[call.slave][TableOf(call.fun)][call.addr + n - 1]
      /\ f.data = e \/ f.data = PackBits(e)
  BY <1>3, ReadCommon
<1>5. K = BitValues
  BY TablesOfFunctions
<1> HIDE DEF e, K
<1>6. Len(f.data) = BytesOf(call.nb)
  <2>1. Len(f.data) \in Nat
    <3>1. Len(PackBits(e)) = BytesOf(call.nb)
      <4>1. PackBits(e) = [b \in 1 .. BytesOf(call.nb) |-> PackBits(e)[b]]
        BY <1>4 DEF PackBits
      <4>2. QED
        BY <1>2, <4>1, LengthOf
    <3>2. QED
      BY <1>1, <1>2, <1>4, <3>1
  <2>2. QED
    BY <1>1, <1>2, <1>4, <2>1
<1>7. UnpackBits(f.data, call.nb)[n] = e[n]
  BY <1>1, <1>4, <1>5, <1>6, BitsInBytes
<1>8. Decoded(f) = UnpackBits(f.data, call.nb)
  <2>1. call.via # "LD_B10_220" /\ call.via # "RPC3FxC"
    OBVIOUS
  <2>2. f.fun \in ReadsBits
    BY <1>4
  <2>3. QED
    BY <2>1, <2>2, FunctionKinds DEF Decoded
<1>9. QED
  BY <1>4, <1>7, <1>8

(* Registers. *)
LEMMA RegistersRead ==
    ASSUME LinkKinds, MappingInv, call.slave \in Slaves, call.via # "LD_B10_220",
           call.fun \in ReadsRegisters, call.type <= 5,
           NEW f, f = Answer(call.slave, Query(call)), f.length = Awaited, NEW n \in 1 .. call.nb
    PROVE  /\ call.addr + n - 1 \in Addresses(TableOf(call.fun))
           /\ Decoded(f)[n] = mapping[call.slave][TableOf(call.fun)][call.addr + n - 1]
<1> DEFINE e == Entries(call.slave, Query(call))
           K == Kind(TableOf(call.fun))
<1>1. call.nb \in Nat /\ call.nb > 0 /\ Around \in Nat
  <2>1. call.nb \in Nat /\ Around \in Nat
    BY CallsAreCalls, Numbers DEF LinkKinds
  <2>2. QED
    BY <2>1
<1> DEFINE w == ValueWidth(call.type)
<1>2. Awaited = 2 + w * call.nb + Around /\ w \in {1, 2, 4} /\ w * call.nb \in Nat
  BY <1>1, AwaitedOf, WidthTimes DEF LinkKinds
<1> HIDE DEF w
<1>3. f.length # 2 + Around
  <2>1. w * call.nb > 0
    BY <1>1, <1>2
  <2>2. QED
    BY <1>1, <1>2, <2>1
<1>4. /\ f.fun = call.fun /\ f.length = 2 + Len(f.data) + Around
      /\ e \in Seq(K) /\ Len(e) = call.nb
      /\ call.addr + n - 1 \in Addresses(TableOf(call.fun))
      /\ e[n] = mapping[call.slave][TableOf(call.fun)][call.addr + n - 1]
      /\ f.data = WordBytes(e)
  BY <1>3, ReadCommon
<1>5. K = RegisterValues
  BY TablesOfFunctions
<1> HIDE DEF e, K
<1>6. Len(f.data) = 2 * call.nb
  <2>1. f.data = [m \in 1 .. 2 * call.nb |-> f.data[m]]
    BY <1>4 DEF WordBytes
  <2>2. 2 * call.nb \in Nat
    BY <1>1
  <2>3. QED
    BY <2>1, <2>2, LengthOf
<1>7. w = 2 /\ w * call.nb = Len(f.data)
  <2>1. w * call.nb = 2 * call.nb
    <3> DEFINE x == w * call.nb
    <3>1. f.length = 2 + x + Around /\ x \in Nat
      BY <1>2
    <3>2. f.length = 2 + 2 * call.nb + Around
      BY <1>4, <1>6
    <3> HIDE DEF x
    <3>3. x = 2 * call.nb
      BY <1>1, <3>1, <3>2
    <3>4. QED
      BY <3>3 DEF x
  <2>2. w = 2
    BY <1>1, <1>2, <2>1
  <2>3. QED
    BY <1>6, <2>2
<1>8. BigEndian(SubSeq(f.data, 2 * n - 1, 2 * n)) = e[n]
  BY <1>4, <1>5, RegisterBytes
<1>9. Decoded(f)[n] = BigEndian(SubSeq(f.data, w * (n - 1) + 1, w * n))
  <2>1. Decoded(f) = [m \in 1 .. call.nb |-> BigEndian(SubSeq(f.data, w * (m - 1) + 1, w * m))]
    <3>1. call.fun \notin ReadsBits
      BY FunctionKinds
    <3>2. QED
      BY <1>4, <1>7, <3>1 DEF Decoded, w
  <2>2. QED
    BY <2>1
<1>10. w * (n - 1) + 1 = 2 * n - 1 /\ w * n = 2 * n
  BY <1>7
<1>11. QED
  BY <1>4, <1>8, <1>9, <1>10

(* What a call reads is what is known of it. *)
LEMMA ValuesRead ==
    ASSUME LinkKinds, MappingInv, KnownInv, call.slave \in Slaves,
           call.fun \in ReadsBits \/ (call.fun \in ReadsRegisters /\ call.type <= 5),
           NEW f, f = Answer(call.slave, Query(call)), f.length = Awaited, NEW n \in 1 .. call.nb
    PROVE  KnownValue(call, n) \in {Unknown, Decoded(f)[n]}
<1>1. call.via \in {"modbus", "RPC3FxC", "LD_B10_220"}
  BY CallsAssumption DEF LinkKinds
<1>2. CASE call.via = "LD_B10_220"
  <2>1. 0 \in Addresses("inreg") /\ Decoded(f)[n] = BitAt(mapping[call.slave]["inreg"][0] % 256, n - 1)
    BY <1>2, StatesRead
  <2>2. known[call.slave]["inreg"][0] = mapping[call.slave]["inreg"][0]
    BY <2>1 DEF KnownInv, TableNames
  <2>3. QED
    BY <1>2, <2>1, <2>2 DEF KnownValue
<1>3. CASE call.via # "LD_B10_220"
  <2> DEFINE t == TableOf(call.fun)
             a == call.addr + n - 1
  <2>1. a \in Addresses(t) /\ Decoded(f)[n] = mapping[call.slave][t][a]
    BY <1>1, <1>3, OutletsRead, BitsRead, RegistersRead
  <2>2. t \in TableNames
    BY TablesOfFunctions
  <2>3. KnownValue(call, n) = known[call.slave][t][a]
    BY <1>3 DEF KnownValue
  <2> HIDE DEF t, a
  <2>4. known[call.slave][t][a] \in {Unknown, mapping[call.slave][t][a]}
    BY <2>1, <2>2 DEF KnownInv
  <2>5. QED
    BY <2>1, <2>3, <2>4
<1>4. QED
  BY <1>2, <1>3

(* A write that is answered in its length was done. *)
LEMMA WriteAnswer ==
    ASSUME NEW s, NEW q, q.fun \in WritesOne \cup WritesMany
    PROVE  LET f == Answer(s, q)
           IN  /\ Writes(q) => f.length = 5 + Around
               /\ ~Writes(q) => f.length = ExceptionLength /\ f.fun = q.fun + 128
<1> DEFINE f == Answer(s, q)
<1>1. q.fun # FC_REPORT_SLAVE_ID /\ q.fun \notin ReadsBits \cup ReadsRegisters
  BY FunctionKinds
<1>2. CASE ~InTable(q)
  <2>1. f = ExceptionFrame(q, ILLEGAL_DATA_ADDRESS)
    BY <1>1, <1>2 DEF Answer
  <2>2. QED
    BY <1>2, <2>1 DEF ExceptionFrame, Frame, Writes
<1>3. CASE InTable(q) /\ ~LegalValue(q)
  <2>1. f = ExceptionFrame(q, ILLEGAL_DATA_VALUE)
    BY <1>1, <1>3 DEF Answer
  <2>2. QED
    BY <1>3, <2>1 DEF ExceptionFrame, Frame, Writes
<1>4. CASE InTable(q) /\ LegalValue(q)
  <2>1. f = EchoFrame(q)
    BY <1>1, <1>4 DEF Answer
  <2>2. QED
    BY <1>4, <2>1 DEF EchoFrame, Frame, Writes
<1>5. QED
  BY <1>2, <1>3, <1>4

(* No write is a read of states. *)
LEMMA NoStatesWritten ==
    ASSUME LinkKinds, call.fun \in WritesOne \cup WritesMany
    PROVE  call.via # "LD_B10_220" /\ Query(call).fun = call.fun
<1>1. call.via = "LD_B10_220" => call.fun = FC_READ_COIL_STATUS
  BY CallsAssumption DEF LinkKinds
<1>2. FC_READ_COIL_STATUS \in ReadsBits
  BY DEF ReadsBits
<1>3. call.via # "LD_B10_220"
  BY <1>1, <1>2, FunctionKinds
<1>4. QED
  BY <1>3, QueryRecord

(* So one that is accepted was done. *)
LEMMA WriteDone ==
    ASSUME LinkKinds, call.fun \in WritesOne \cup WritesMany,
           NEW f, f = Answer(call.slave, Query(call)), f.length = Awaited
    PROVE  Writes(Query(call))
<1>1. Awaited = 5 + Around /\ ExceptionLength = 2 + Around /\ Around \in Nat
  BY NoStatesWritten, AwaitedOf, Numbers DEF LinkKinds, ExceptionLength
<1>2. f.length # ExceptionLength
  BY <1>1
<1>3. QED
  BY <1>2, NoStatesWritten, WriteAnswer

(* A call in step accepts the answer to it, of the awaited length. *)
LEMMA AcceptedAlone ==
    ASSUME LinkKinds, StepOrder, Received, ~late, call.slave # MODBUS_BROADCAST_ADDRESS, result'.ok
    PROVE  /\ inbuf # <<>> /\ inbuf[1].f.length = Awaited
           /\ \A s \in Slaves : inbox[s] = <<>>
           /\ \E fresh, whole : Accept(fresh, whole, Decoded(inbuf[1].f))
<1> DEFINE f == Head(inbuf).f
           glued == Head(inbuf).skip # 0
<1>1. waiting /\ AloneUnderWay
  BY DEF Received, StepOrder
<1>2. ~Fails
  BY DEF Fails, Return, NoResult
<1>3. /\ Total >= Awaited /\ ~CrcFails(Awaited)
      /\ Accept(f.fresh, Whole(Awaited), IF glued THEN Garbage ELSE Decoded(f))
  BY <1>2 DEF Received
<1>4. inbuf # <<>>
  <2>1. SUFFICES ASSUME inbuf = <<>> PROVE FALSE
    OBVIOUS
  <2>2. Total = 0
    BY <2>1, NoBytes
  <2>3. Awaited \in Nat /\ Awaited > 0
    BY <2>2, SomethingAwaited DEF LinkKinds
  <2>4. QED
    BY <1>3, <2>2, <2>3
<1>5. inbuf = <<inbuf[1]>> /\ inbuf[1].skip = 0
  BY <1>1, <1>4 DEF AloneUnderWay, OwnAnswer
<1>6. Head(inbuf) = inbuf[1] /\ ~glued
  BY <1>5
<1>7. com = "TCP" => TRUE \in Quantities(f)
  BY <1>2, <1>3, <1>6 DEF Received
<1>8. f.length = Awaited
  BY <1>1, <1>3, <1>4, <1>7, AcceptedInStep DEF CrcFails
<1>9. \A s \in Slaves : inbox[s] = <<>>
  BY <1>1, <1>4 DEF AloneUnderWay
<1>10. QED
  BY <1>3, <1>4, <1>6, <1>8, <1>9

(* What passes for an exception when the time is up is nothing that reads or *)
(* writes.                                                                   *)
LEMMA NothingInTime ==
    ASSUME LinkKinds, StepOrder, MappingInv, DoneInv, TimedOut, ~late, call.slave # MODBUS_BROADCAST_ADDRESS, result'.ok
    PROVE  /\ call.fun \notin WritesOne \cup WritesMany
           /\ call.fun \in ReadsBits \cup ReadsRegisters => call.nb = 0
<1> DEFINE f == inbuf[1].f
           q == Query(call)
<1>1. waiting /\ AloneUnderWay
  BY DEF TimedOut, StepOrder
<1>2. ~Fails
  BY DEF Fails, Return, NoResult
<1>3. ExceptionSized /\ call.via # "LD_B10_220" /\ ~CrcFails(Total) /\ OtherException(Head(inbuf).f)
  BY <1>2 DEF TimedOut
<1>4. com = "RTU" /\ Total = 5 /\ Around = 3 /\ ExceptionLength = 5 /\ Whole(Total)
  BY <1>3 DEF ExceptionSized, CrcFails, ExceptionLength, Around, HeaderLength, ChecksumLength
<1>5. inbuf # <<>> /\ Head(inbuf).f.length = 5
  BY <1>4 DEF Whole
<1>6. inbuf = <<inbuf[1]>>
  BY <1>1, <1>5 DEF AloneUnderWay
<1>7. f.length = 5 /\ f.fun # call.fun + 128
  <2>1. Head(inbuf) = inbuf[1]
    BY <1>6
  <2>2. QED
    BY <1>3, <1>5, <2>1 DEF OtherException
<1>8. call.slave \in Slaves /\ f = Answer(call.slave, q)
  BY <1>1, <1>5 DEF DoneInv, Done
<1>9. q.fun = call.fun /\ q.nb = call.nb /\ call.nb \in Nat
  BY <1>3, QueryRecord, CallsAreCalls DEF LinkKinds
<1> HIDE DEF f, q
<1>10. call.fun \notin WritesOne \cup WritesMany
  <2>1. SUFFICES ASSUME call.fun \in WritesOne \cup WritesMany PROVE FALSE
    OBVIOUS
  <2>2. /\ Writes(q) => f.length = 5 + Around
        /\ ~Writes(q) => f.fun = q.fun + 128
    BY <1>8, <1>9, <2>1, WriteAnswer
  <2>3. QED
    BY <1>4, <1>7, <1>9, <2>2
<1>11. ASSUME call.fun \in ReadsBits \cup ReadsRegisters PROVE call.nb = 0
  <2> DEFINE e == Entries(call.slave, q)
  <2>1. /\ f.length = 2 + Len(f.data) + Around /\ Len(e) = call.nb
        /\ f.data = e \/ f.data = PackBits(e) \/ f.data = WordBytes(e)
    BY <1>3, <1>7, <1>8, <1>11, ReadCommon DEF q
  <2>2. Len(PackBits(e)) = BytesOf(call.nb) /\ Len(WordBytes(e)) = 2 * call.nb
    BY <1>9, LengthsRead
  <2> HIDE DEF e
  <2>3. Len(f.data) \in {call.nb, BytesOf(call.nb), 2 * call.nb}
    BY <2>1, <2>2
  <2>4. BytesOf(call.nb) \in Nat /\ (BytesOf(call.nb) = 0 => call.nb = 0)
    BY <1>9 DEF BytesOf
  <2> DEFINE l == Len(f.data)
  <2>5. 5 = 2 + l + 3 /\ (l = call.nb \/ l = BytesOf(call.nb) \/ l = 2 * call.nb)
    BY <1>4, <1>7, <2>1, <2>3
  <2> HIDE DEF l
  <2>6. l \in Nat
    BY <1>9, <2>4, <2>5
  <2>7. l = 0
    BY <2>5, <2>6
  <2>8. QED
    BY <1>9, <2>4, <2>5, <2>7
<1>12. QED
  BY <1>10, <1>11

(* No device has the address of all. *)
LEMMA NoBroadcast == \A s \in Slaves : s # MODBUS_BROADCAST_ADDRESS
BY SlavesAssumption DEF MODBUS_BROADCAST_ADDRESS

(* What the tables hold, what is known of them, and what is still to be      *)
(* written.                                                                  *)
TablesKnown == MappingInv /\ KnownInv /\ PendingInv

(* A step that moves none of it. *)
LEMMA NothingWritten ==
    ASSUME TablesKnown, UNCHANGED <<mapping, known, inbox>>
    PROVE  TablesKnown'
<1>1. MappingInv'
  BY DEF TablesKnown, MappingInv
<1>2. KnownInv'
  BY DEF TablesKnown, KnownInv
<1>3. PendingInv'
  BY DEF TablesKnown, PendingInv
<1>4. QED
  BY <1>1, <1>2, <1>3 DEF TablesKnown

(* A call that forgets what it may overwrite keeps what is known. *)
LEMMA StillKnown ==
    ASSUME TablesKnown, NEW c, NEW confirmed, known' = Knowing(c, confirmed), mapping' = mapping,
           \A s \in Slaves : \A a \in Addresses(TableOf(c.fun)) :
               /\ confirmed /\ c.slave = s /\ c.fun \in WritesOne \cup WritesMany /\ ForMe(s, c)
               /\ a - c.addr + 1 \in DOMAIN c.values
               => c.values[a - c.addr + 1] = mapping[s][TableOf(c.fun)][a]
    PROVE  MappingInv' /\ KnownInv'
<1>1. MappingInv'
  BY DEF TablesKnown, MappingInv
<1>2. KnownInv
  BY DEF TablesKnown
<1>3. DOMAIN known' = Slaves
  <2>1. CASE c.fun \in WritesOne \cup WritesMany
    BY <2>1 DEF Knowing
  <2>2. CASE c.fun \notin WritesOne \cup WritesMany
    BY <1>2, <2>2 DEF Knowing, KnownInv
  <2>3. QED
    BY <2>1, <2>2
<1>4. ASSUME NEW s \in Slaves, NEW t \in TableNames
      PROVE  /\ DOMAIN known'[s] = TableNames
             /\ DOMAIN known'[s][t] = Addresses(t)
             /\ \A a \in Addresses(t) : \/ known'[s][t][a] = mapping[s][t][a]
                                        \/ t # "inreg" /\ known'[s][t][a] = Unknown
  <2>1. /\ DOMAIN known'[s] = TableNames
        /\ DOMAIN known'[s][t] = Addresses(t)
        /\ \A a \in Addresses(t) :
              known'[s][t][a] =
                 IF /\ c.fun \in WritesOne \cup WritesMany /\ ForMe(s, c)
                    /\ t = TableOf(c.fun) /\ a - c.addr + 1 \in DOMAIN c.values
                 THEN IF confirmed /\ c.slave = s THEN c.values[a - c.addr + 1] ELSE Unknown
                 ELSE known[s][t][a]
    BY <1>2, KnowingAt
  <2>2. ASSUME NEW a \in Addresses(t)
        PROVE  known'[s][t][a] = mapping[s][t][a] \/ (t # "inreg" /\ known'[s][t][a] = Unknown)
    <3>1. known[s][t][a] = mapping[s][t][a] \/ (t # "inreg" /\ known[s][t][a] = Unknown)
      BY <1>2 DEF KnownInv
    <3>2. c.fun \in WritesOne \cup WritesMany /\ t = TableOf(c.fun) => t # "inreg"
      BY TablesOfFunctions
    <3>3. QED
      BY <2>1, <3>1, <3>2
  <2>3. QED
    BY <2>1, <2>2
<1>5. KnownInv'
  <2>1. \A s \in Slaves : DOMAIN known'[s] = TableNames
    <3>1. "coil" \in TableNames
      BY DEF TableNames
    <3>2. QED
      BY <1>4, <3>1
  <2>2. QED
    BY <1>3, <1>4, <2>1 DEF KnownInv
<1>6. QED
  BY <1>1, <1>5

(* So does a call that returns. *)
LEMMA AcceptKnown ==
    ASSUME LinkKinds, TablesKnown, NEW fresh, NEW whole, NEW values, Accept(fresh, whole, values),
           UNCHANGED <<call, inbox, mapping>>,
           ~late /\ call.slave # MODBUS_BROADCAST_ADDRESS /\ call.fun \in WritesOne \cup WritesMany =>
               /\ Writes(Query(call)) /\ Done(call.slave, Query(call))
               /\ \A s \in Slaves : inbox[s] = <<>>
    PROVE  TablesKnown'
<1>1. CASE late
  <2>1. known' = known
    BY <1>1 DEF Accept
  <2>2. QED
    BY <2>1, NothingWritten
<1>2. CASE ~late
  <2>1. PICK b : known' = Knowing(call, b)
    BY <1>2 DEF Accept
  <2>2. ASSUME NEW s \in Slaves, NEW a \in Addresses(TableOf(call.fun)), call.slave = s,
               call.fun \in WritesOne \cup WritesMany, a - call.addr + 1 \in DOMAIN call.values
        PROVE  call.values[a - call.addr + 1] = mapping[s][TableOf(call.fun)][a]
    <3>1. Writes(Query(call)) /\ Done(s, Query(call))
      BY <1>2, <2>2, NoBroadcast
    <3>2. Query(call).fun = call.fun /\ Query(call).addr = call.addr /\ Written(Query(call)) = call.values
      BY <3>1, QueryCarries DEF LinkKinds
    <3>3. QED
      BY <2>2, <3>1, <3>2 DEF Done
  <2>3. MappingInv' /\ KnownInv'
    BY <2>1, <2>2, StillKnown
  <2>4. PendingInv'
    <3>1. CASE call.slave # MODBUS_BROADCAST_ADDRESS /\ call.fun \in WritesOne \cup WritesMany
      <4>1. \A s \in Slaves : inbox'[s] = <<>>
        BY <1>2, <3>1
      <4>2. \A s \in Slaves : inbox'[s] \in Seq({inbox'[s][n] : n \in DOMAIN inbox'[s]})
        BY DEF TablesKnown, PendingInv
      <4>3. \A s \in Slaves : DOMAIN inbox'[s] = {}
        BY <4>1
      <4>4. QED
        BY <4>2, <4>3 DEF PendingInv
    <3>2. CASE ~(call.slave # MODBUS_BROADCAST_ADDRESS /\ call.fun \in WritesOne \cup WritesMany)
      <4>1. \A s \in Slaves : \A t \in TableNames : \A a \in Addresses(t) :
               known'[s][t][a] =
                  IF /\ call.fun \in WritesOne \cup WritesMany /\ ForMe(s, call)
                     /\ t = TableOf(call.fun) /\ a - call.addr + 1 \in DOMAIN call.values
                  THEN IF b /\ call.slave = s THEN call.values[a - call.addr + 1] ELSE Unknown
                  ELSE known[s][t][a]
        BY <2>1, KnownLater DEF TablesKnown
      <4>2. \A s \in Slaves : call.fun \in WritesOne \cup WritesMany => call.slave # s
        BY <3>2, NoBroadcast
      <4>3. ASSUME NEW s \in Slaves, NEW n \in DOMAIN inbox[s]
            PROVE  Pending(known'[s], inbox[s][n])
        <5>1. Pending(known[s], inbox[s][n])
          BY DEF TablesKnown, PendingInv
        <5>2. \A t \in TableNames : \A a \in Addresses(t) : known[s][t][a] = Unknown => known'[s][t][a] = Unknown
          BY <4>1, <4>2
        <5>3. QED
          BY <5>1, <5>2, StillPending
      <4>4. QED
        BY <4>3 DEF TablesKnown, PendingInv
    <3>3. QED
      BY <3>1, <3>2
  <2>5. QED
    BY <2>3, <2>4 DEF TablesKnown
<1>3. QED
  BY <1>1, <1>2

(* A call that is sent forgets what it may write. *)
LEMMA IssueKnown ==
    ASSUME LinkKinds, TablesKnown, NEW c \in calls, Issue(c), UNCHANGED <<calls, mapping>>,
           \A s \in Slaves :
               \/ inbox'[s] = inbox[s]
               \/ LET olds == [n \in DOMAIN inbox[s] |-> Old(inbox[s][n])]
                  IN \/ inbox'[s] = olds
                     \/ ForMe(s, Query(c)) /\ inbox'[s] = Append(olds, Query(c))
    PROVE  TablesKnown'
<1>1. known' = Knowing(c, FALSE)
  BY DEF Issue
<1>2. MappingInv' /\ KnownInv'
  BY <1>1, StillKnown
<1> PICK b : b = FALSE /\ known' = Knowing(c, b)
  BY <1>1
<1>3. \A s \in Slaves : \A t \in TableNames : \A a \in Addresses(t) :
         known'[s][t][a] =
            IF /\ c.fun \in WritesOne \cup WritesMany /\ ForMe(s, c)
               /\ t = TableOf(c.fun) /\ a - c.addr + 1 \in DOMAIN c.values
            THEN IF b /\ c.slave = s THEN c.values[a - c.addr + 1] ELSE Unknown
            ELSE known[s][t][a]
  BY KnownLater DEF TablesKnown
<1>4. ASSUME NEW s \in Slaves, NEW n \in DOMAIN inbox[s]
      PROVE  Pending(known'[s], inbox[s][n]) /\ Pending(known'[s], Old(inbox[s][n]))
  <2>1. Pending(known[s], inbox[s][n])
    BY DEF TablesKnown, PendingInv
  <2>2. \A t \in TableNames : \A a \in Addresses(t) : known[s][t][a] = Unknown => known'[s][t][a] = Unknown
    BY <1>3
  <2>3. QED
    BY <2>1, <2>2, StillPending
<1>5. ASSUME NEW s \in Slaves, ForMe(s, Query(c)) PROVE Pending(known'[s], Query(c))
  <2> DEFINE q == Query(c)
  <2>1. {"fun", "addr", "nb", "data"} \subseteq DOMAIN q /\ q.slave = c.slave
    BY QueryRecord
  <2>2. ForMe(s, c)
    BY <1>5, <2>1 DEF ForMe
  <2>3. ASSUME Writes(q)
        PROVE  /\ Written(q) \in Seq(Kind(TableOf(q.fun)))
               /\ \A a \in Addresses(TableOf(q.fun)) :
                     a - q.addr + 1 \in DOMAIN Written(q) => known'[s][TableOf(q.fun)][a] = Unknown
    <3>1. /\ c.fun \in WritesOne \cup WritesMany /\ q.fun = c.fun /\ q.addr = c.addr
          /\ Written(q) = c.values /\ c.values \in Seq(Kind(TableOf(c.fun)))
      BY <2>3, QueryCarries DEF LinkKinds
    <3>2. TableOf(c.fun) \in TableNames
      BY TablesOfFunctions
    <3> HIDE DEF q
    <3>3. QED
      BY <1>3, <2>2, <3>1, <3>2
  <2> HIDE DEF q
  <2>4. QED
    BY <2>1, <2>3 DEF Pending, q
<1>6. PendingInv'
  <2>1. ASSUME NEW s \in Slaves
        PROVE  /\ inbox'[s] \in Seq({inbox'[s][n] : n \in DOMAIN inbox'[s]})
               /\ \A n \in DOMAIN inbox'[s] : Pending(known'[s], inbox'[s][n])
    <3> DEFINE olds == [n \in DOMAIN inbox[s] |-> Old(inbox[s][n])]
               S == {inbox[s][n] : n \in DOMAIN inbox[s]}
               R == {Old(e) : e \in S}
    <3>1. inbox[s] \in Seq(S)
      BY DEF TablesKnown, PendingInv
    <3>2. olds \in Seq(R) /\ DOMAIN olds = DOMAIN inbox[s]
      <4>1. DOMAIN inbox[s] = 1 .. Len(inbox[s]) /\ Len(inbox[s]) \in Nat
        BY <3>1
      <4>2. olds \in [1 .. Len(inbox[s]) -> R]
        BY <4>1
      <4>3. QED
        BY <4>1, <4>2
    <3>3. \A n \in DOMAIN olds : Pending(known'[s], olds[n])
      BY <1>4, <3>2
    <3>4. CASE inbox'[s] = inbox[s]
      BY <1>4, <3>1, <3>4
    <3> HIDE DEF olds, R
    <3>5. CASE inbox'[s] = olds
      BY <3>2, <3>3, <3>5, OwnElements
    <3>6. CASE ForMe(s, Query(c)) /\ inbox'[s] = Append(olds, Query(c))
      <4>1. Pending(known'[s], Query(c))
        BY <1>5, <3>6
      <4>2. QED
        BY <3>2, <3>3, <3>6, <4>1, Longer
    <3>7. QED
      BY <3>4, <3>5, <3>6 DEF olds
  <2>2. QED
    BY <2>1 DEF PendingInv
<1>7. QED
  BY <1>2, <1>6 DEF TablesKnown

(* A query that is served or lost is no longer pending. *)
LEMMA LessPending ==
    ASSUME PendingInv, known' = known,
           \A s \in Slaves : inbox'[s] \in {inbox[s], <<>>} \/ (inbox[s] # <<>> /\ inbox'[s] = Tail(inbox[s]))
    PROVE  PendingInv'
<1>1. ASSUME NEW s \in Slaves
      PROVE  /\ inbox'[s] \in Seq({inbox'[s][n] : n \in DOMAIN inbox'[s]})
             /\ \A n \in DOMAIN inbox'[s] : Pending(known'[s], inbox'[s][n])
  <2>1. /\ inbox[s] \in Seq({inbox[s][n] : n \in DOMAIN inbox[s]})
        /\ \A n \in DOMAIN inbox[s] : Pending(known[s], inbox[s][n])
    BY DEF PendingInv
  <2>2. CASE inbox'[s] = inbox[s]
    BY <2>1, <2>2
  <2>3. CASE inbox'[s] = <<>>
    <3>1. \A S : <<>> \in Seq(S)
      OBVIOUS
    <3>2. DOMAIN inbox'[s] = {}
      BY <2>3
    <3>3. QED
      BY <2>3, <3>1, <3>2
  <2>4. CASE inbox[s] # <<>> /\ inbox'[s] = Tail(inbox[s])
    <3>1. /\ Tail(inbox[s]) \in Seq({Tail(inbox[s])[n] : n \in DOMAIN Tail(inbox[s])})
          /\ \A n \in DOMAIN Tail(inbox[s]) : n + 1 \in DOMAIN inbox[s] /\ Tail(inbox[s])[n] = inbox[s][n + 1]
      BY <2>1, <2>4, Shorter
    <3>2. QED
      BY <2>1, <2>4, <3>1
  <2>5. QED
    BY <2>2, <2>3, <2>4
<1>2. QED
  BY <1>1 DEF PendingInv

(* The tables after a write. *)
Stores(s, q) == mapping' = [mapping EXCEPT ![s][TableOf(q.fun)] = Store(@, q)]

LEMMA Stored ==
    ASSUME MappingInv, NEW s \in Slaves, NEW q, Stores(s, q)
    PROVE  /\ DOMAIN mapping' = Slaves
           /\ \A r \in Slaves : DOMAIN mapping'[r] = TableNames
           /\ \A r \in Slaves : \A t \in TableNames :
                 r # s \/ t # TableOf(q.fun) => mapping'[r][t] = mapping[r][t]
           /\ LET t == TableOf(q.fun)
              IN mapping'[s][t] = [a \in Addresses(t) |->
                    IF a - q.addr + 1 \in DOMAIN Written(q) THEN Written(q)[a - q.addr + 1] ELSE mapping[s][t][a]]
<1> DEFINE u == TableOf(q.fun)
           new == Store(mapping[s][u], q)
<1>1. u \in TableNames
  BY TablesOfFunctions
<1>2. DOMAIN mapping = Slaves /\ \A r \in Slaves : DOMAIN mapping[r] = TableNames
  BY DEF MappingInv
<1>3. DOMAIN mapping[s][u] = Addresses(u)
  BY <1>1 DEF MappingInv
<1>4. mapping' = [mapping EXCEPT ![s] = [mapping[s] EXCEPT ![u] = new]]
  BY DEF Stores
<1>5. new = [a \in Addresses(u) |->
                IF a - q.addr + 1 \in DOMAIN Written(q) THEN Written(q)[a - q.addr + 1] ELSE mapping[s][u][a]]
  BY <1>3 DEF Store
<1> HIDE DEF new, u
<1>6. /\ DOMAIN mapping' = Slaves
      /\ mapping'[s] = [mapping[s] EXCEPT ![u] = new]
      /\ \A r \in Slaves : r # s => mapping'[r] = mapping[r]
  BY <1>2, <1>4
<1>7. /\ DOMAIN mapping'[s] = TableNames /\ mapping'[s][u] = new
      /\ \A t \in TableNames : t # u => mapping'[s][t] = mapping[s][t]
  BY <1>1, <1>2, <1>6
<1>8. QED
  BY <1>2, <1>5, <1>6, <1>7 DEF u

(* At one address. *)
LEMMA StoredAt ==
    ASSUME MappingInv, NEW s \in Slaves, NEW q, Stores(s, q),
           NEW a \in Addresses(TableOf(q.fun)), a - q.addr + 1 \in DOMAIN Written(q)
    PROVE  mapping'[s][TableOf(q.fun)][a] = Written(q)[a - q.addr + 1]
<1> DEFINE u == TableOf(q.fun)
           new == [b \in Addresses(u) |->
                    IF b - q.addr + 1 \in DOMAIN Written(q) THEN Written(q)[b - q.addr + 1] ELSE mapping[s][u][b]]
<1>1. mapping'[s][u] = new
  BY Stored
<1>2. new[a] = Written(q)[a - q.addr + 1]
  OBVIOUS
<1> HIDE DEF u, new
<1>3. mapping'[s][u][a] = Written(q)[a - q.addr + 1]
  BY <1>1, <1>2
<1>4. QED
  BY <1>3 DEF u

(* A device serves a query: what it writes is not known. *)
LEMMA ServeKnown ==
    ASSUME LinkKinds, TablesKnown, NEW s \in Slaves, Serve(s)
    PROVE  TablesKnown'
<1> DEFINE q == Head(inbox[s])
           u == TableOf(q.fun)
<1>1. inbox[s] # <<>> /\ known' = known /\ inbox' = [inbox EXCEPT ![s] = Tail(inbox[s])]
  BY DEF Serve
<1>2. mapping' = IF Writes(q) THEN [mapping EXCEPT ![s][TableOf(q.fun)] = Store(@, q)] ELSE mapping
  BY DEF Serve
<1>3. Pending(known[s], q)
  <2>1. /\ inbox[s] \in Seq({inbox[s][n] : n \in DOMAIN inbox[s]})
        /\ \A n \in DOMAIN inbox[s] : Pending(known[s], inbox[s][n])
    BY DEF TablesKnown, PendingInv
  <2>2. q = inbox[s][1] /\ 1 \in DOMAIN inbox[s]
    BY <1>1, <2>1, Shorter
  <2>3. QED
    BY <2>1, <2>2
<1>4. PendingInv'
  <2>1. \A r \in Slaves : inbox'[r] = inbox[r] \/ (inbox[r] # <<>> /\ inbox'[r] = Tail(inbox[r]))
    BY <1>1 DEF LinkKinds
  <2>2. QED
    BY <1>1, <2>1, LessPending DEF TablesKnown
<1> HIDE DEF q
<1>5. CASE ~Writes(q)
  <2>1. mapping' = mapping
    BY <1>2, <1>5
  <2>2. MappingInv'
    BY <2>1 DEF TablesKnown, MappingInv
  <2>3. KnownInv'
    BY <1>1, <2>1 DEF TablesKnown, KnownInv
  <2>4. QED
    BY <1>4, <2>2, <2>3 DEF TablesKnown
<1>6. CASE Writes(q)
  <2>1. u \in TableNames /\ u # "inreg"
    BY <1>6, TablesOfFunctions DEF Writes
  <2>2. /\ Written(q) \in Seq(Kind(u))
        /\ \A a \in Addresses(u) : a - q.addr + 1 \in DOMAIN Written(q) => known[s][u][a] = Unknown
    BY <1>3, <1>6 DEF Pending
  <2>3. MappingInv /\ KnownInv
    BY DEF TablesKnown
  <2>4. /\ DOMAIN mapping' = Slaves
        /\ \A r \in Slaves : DOMAIN mapping'[r] = TableNames
        /\ \A r \in Slaves : \A t \in TableNames : r # s \/ t # u => mapping'[r][t] = mapping[r][t]
        /\ mapping'[s][u] = [a \in Addresses(u) |->
              IF a - q.addr + 1 \in DOMAIN Written(q) THEN Written(q)[a - q.addr + 1] ELSE mapping[s][u][a]]
    <3>1. Stores(s, q)
      BY <1>2, <1>6 DEF Stores
    <3>2. QED
      BY <2>3, <3>1, Stored
  <2> HIDE DEF u
  <2>5. mapping'[s][u] \in [Addresses(u) -> Kind(u)]
    <3>1. mapping[s][u] \in [Addresses(u) -> Kind(u)]
      BY <2>1, <2>3 DEF MappingInv
    <3>2. \A m \in DOMAIN Written(q) : Written(q)[m] \in Kind(u)
      BY <2>2
    <3>3. QED
      BY <2>4, <3>1, <3>2
  <2>6. MappingInv'
    <3>1. ASSUME NEW r \in Slaves, NEW t \in TableNames PROVE mapping'[r][t] \in [Addresses(t) -> Kind(t)]
      BY <2>3, <2>4, <2>5 DEF MappingInv
    <3>2. QED
      BY <2>4, <3>1 DEF MappingInv
  <2>7. ASSUME NEW r \in Slaves, NEW t \in TableNames, NEW a \in Addresses(t)
        PROVE  known[r][t][a] = mapping'[r][t][a] \/ (t # "inreg" /\ known[r][t][a] = Unknown)
    <3>1. known[r][t][a] = mapping[r][t][a] \/ (t # "inreg" /\ known[r][t][a] = Unknown)
      BY <2>3 DEF KnownInv
    <3>2. CASE r # s \/ t # u
      BY <2>4, <3>1, <3>2
    <3>3. CASE r = s /\ t = u
      BY <2>1, <2>2, <2>4, <3>1, <3>3
    <3>4. QED
      BY <3>2, <3>3
  <2>8. KnownInv'
    BY <1>1, <2>3, <2>7 DEF KnownInv
  <2>9. QED
    BY <1>4, <2>6, <2>8 DEF TablesKnown
<1>7. QED
  BY <1>5, <1>6

(* What a device answers is the same later, unless it reads what was         *)
(* written meanwhile.                                                        *)
LEMMA AnswerLater ==
    ASSUME com' = com, NEW s, NEW q, mapping' = mapping \/ q.fun \in WritesOne \cup WritesMany
    PROVE  Answer(s, q)' = Answer(s, q)
<1>1. Around' = Around /\ ExceptionLength' = ExceptionLength /\ ChecksumLength' = ChecksumLength
  BY DEF Around, ExceptionLength, HeaderLength, ChecksumLength
<1>2. EchoFrame(q)' = EchoFrame(q)
  BY <1>1 DEF EchoFrame, Frame
<1>3. EmptyFrame(q)' = EmptyFrame(q)
  BY <1>1 DEF EmptyFrame, Frame
<1>4. \A code : ExceptionFrame(q, code)' = ExceptionFrame(q, code)
  BY <1>1 DEF ExceptionFrame, Frame
<1>5. CASE q.fun \in WritesOne \cup WritesMany
  <2>1. q.fun \notin ReadsBits \cup ReadsRegisters /\ q.fun # FC_REPORT_SLAVE_ID
    BY <1>5, FunctionKinds
  <2>2. QED
    BY <1>2, <1>4, <1>5, <2>1 DEF Answer
<1>6. CASE mapping' = mapping
  <2>1. Entries(s, q)' = Entries(s, q)
    BY <1>6 DEF Entries
  <2>2. ReadFrame(s, q)' = ReadFrame(s, q)
    BY <1>1, <2>1 DEF ReadFrame, Frame
  <2>3. QED
    BY <1>2, <1>3, <1>4, <2>2 DEF Answer
<1>7. QED
  BY <1>5, <1>6

(* The answer that arrives is the answer to the call, and its write is done. *)
LEMMA ServeDone ==
    ASSUME LinkKinds, StepOrder, TablesKnown, NEW s \in Slaves, Serve(s)
    PROVE  DoneInv'
<1> SUFFICES ASSUME ~late', waiting', call'.slave # MODBUS_BROADCAST_ADDRESS, inbuf' # <<>>, NEW r, NEW q,
                    r = call'.slave, q = Query(call')
             PROVE  call'.slave \in Slaves /\ Done(r, q)'
  BY DEF DoneInv
<1>1. ~late /\ waiting /\ call' = call /\ com' = com
  BY DEF Serve
<1>2. AloneUnderWay /\ inbox[s] # <<>>
  BY <1>1 DEF StepOrder, Serve
<1>3. s = call.slave /\ r = s /\ Head(inbox[s]) = q /\ inbuf = <<>>
  BY <1>1, <1>2 DEF AloneUnderWay
<1>4. PICK p \in Arriving(Answer(s, q)) : Arrives(p)
  BY <1>3 DEF Serve
<1>5. inbuf' = <<p>>
  <2>1. inbuf' = Append(<<>>, p)
    BY <1>3, <1>4 DEF Arrives
  <2>2. QED
    BY <2>1
<1>6. inbuf'[1].f = Answer(s, q)
  <2>1. p.f = Answer(s, q)
    BY DEF Arriving, Piece
  <2>2. QED
    BY <1>5, <2>1
<1>7. mapping' = IF Writes(q) THEN [mapping EXCEPT ![s][TableOf(q.fun)] = Store(@, q)] ELSE mapping
  BY <1>3 DEF Serve
<1>8. Answer(s, q)' = Answer(s, q)
  <2>1. mapping' = mapping \/ q.fun \in WritesOne \cup WritesMany
    BY <1>7 DEF Writes
  <2>2. QED
    BY <1>1, <2>1, AnswerLater
<1>9. ASSUME Writes(q), NEW a \in Addresses(TableOf(q.fun)), a - q.addr + 1 \in DOMAIN Written(q)
      PROVE  mapping'[s][TableOf(q.fun)][a] = Written(q)[a - q.addr + 1]
  <2>1. Stores(s, q)
    BY <1>7, <1>9 DEF Stores
  <2>2. MappingInv
    BY DEF TablesKnown
  <2>3. QED
    BY <1>9, <2>1, <2>2, StoredAt
<1>10. Done(s, q)'
  BY <1>6, <1>8, <1>9 DEF Done
<1>11. QED
  BY <1>1, <1>3, <1>10

(* A call that returns in step has read what is known. *)
LEMMA AcceptedReads ==
    ASSUME LinkKinds, call' = call, NEW f, ~late, NEW fresh, NEW whole, Accept(fresh, whole, Decoded(f)),
           call.fun \in ReadsBits \cup ReadsRegisters,
           \A n \in 1 .. call.nb : KnownValue(call, n) \in {Unknown, Decoded(f)[n]}
    PROVE  ReadsWhatWasWritten'
<1>1. result'.values = Decoded(f)
  BY DEF Accept, Return
<1>2. known' = known
  BY FunctionKinds DEF Accept, Knowing
<1>3. \A n : KnownValue(call, n)' = KnownValue(call, n)
  BY <1>2 DEF KnownValue
<1>4. QED
  BY <1>1, <1>3 DEF ReadsWhatWasWritten

(* A call that fails reads nothing. *)
LEMMA FailsReads ==
    ASSUME TablesKnown, Fails, UNCHANGED <<mapping, inbox>>
    PROVE  TablesKnown' /\ ReadsWhatWasWritten'
<1>1. known' = known /\ ~result'.ok
  BY DEF Fails, Return, NoResult
<1>2. TablesKnown'
  BY <1>1, NothingWritten
<1>3. ReadsWhatWasWritten'
  BY <1>1 DEF ReadsWhatWasWritten
<1>4. QED
  BY <1>2, <1>3

(* The answer has come: its write is done, and what it read is known. *)
LEMMA ReceivedReads ==
    ASSUME LinkKinds, StepOrder, TablesKnown, DoneInv, Received
    PROVE  TablesKnown' /\ ReadsWhatWasWritten'
<1>1. waiting /\ UNCHANGED <<call, inbox, mapping>>
  BY DEF Received
<1>2. CASE Fails
  BY <1>1, <1>2, FailsReads
<1>3. CASE ~Fails
  <2> DEFINE f == inbuf[1].f
  <2>1. PICK fresh, whole, values : Accept(fresh, whole, values)
    BY <1>3 DEF Received
  <2>2. result'.ok /\ (~late' => ~late /\ call.slave # MODBUS_BROADCAST_ADDRESS)
    BY <2>1 DEF Accept, Return, LinkKinds
  <2>3. ASSUME ~late, call.slave # MODBUS_BROADCAST_ADDRESS
        PROVE  /\ call.slave \in Slaves /\ Done(call.slave, Query(call))
               /\ f = Answer(call.slave, Query(call)) /\ f.length = Awaited
               /\ \A s \in Slaves : inbox[s] = <<>>
               /\ \E fr, wh : Accept(fr, wh, Decoded(f))
    <3>1. /\ inbuf # <<>> /\ f.length = Awaited
          /\ \A s \in Slaves : inbox[s] = <<>>
          /\ \E fr, wh : Accept(fr, wh, Decoded(f))
      BY <2>2, <2>3, AcceptedAlone
    <3>2. call.slave \in Slaves /\ Done(call.slave, Query(call))
      BY <1>1, <2>3, <3>1 DEF DoneInv
    <3>3. f = Answer(call.slave, Query(call))
      BY <3>2 DEF Done
    <3>4. QED
      BY <3>1, <3>2, <3>3
  <2> HIDE DEF f
  <2>4. TablesKnown'
    <3>1. ~late /\ call.slave # MODBUS_BROADCAST_ADDRESS /\ call.fun \in WritesOne \cup WritesMany =>
             /\ Writes(Query(call)) /\ Done(call.slave, Query(call))
             /\ \A s \in Slaves : inbox[s] = <<>>
      BY <2>3, WriteDone
    <3>2. QED
      BY <1>1, <2>1, <3>1, AcceptKnown
  <2>5. ReadsWhatWasWritten'
    <3> SUFFICES ASSUME ~late', call.slave \in Slaves,
                        call.fun \in ReadsBits \/ (call.fun \in ReadsRegisters /\ call.type <= 5)
                 PROVE  ReadsWhatWasWritten'
      BY <1>1 DEF ReadsWhatWasWritten
    <3>1. ~late /\ call.slave # MODBUS_BROADCAST_ADDRESS
      BY <2>2
    <3>2. f = Answer(call.slave, Query(call)) /\ f.length = Awaited
      BY <2>3, <3>1
    <3>3. \A n \in 1 .. call.nb : KnownValue(call, n) \in {Unknown, Decoded(f)[n]}
      BY <3>2, ValuesRead DEF TablesKnown
    <3>4. PICK fr, wh : Accept(fr, wh, Decoded(f))
      BY <2>3, <3>1
    <3>5. QED
      BY <1>1, <3>1, <3>3, <3>4, AcceptedReads
  <2>6. QED
    BY <2>4, <2>5
<1>4. QED
  BY <1>2, <1>3

(* It has not come in time. *)
LEMMA TimedOutReads ==
    ASSUME LinkKinds, StepOrder, TablesKnown, DoneInv, TimedOut
    PROVE  TablesKnown' /\ ReadsWhatWasWritten'
<1>1. waiting /\ UNCHANGED <<call, inbox, mapping>>
  BY DEF TimedOut
<1>2. CASE Fails
  BY <1>1, <1>2, FailsReads
<1>3. CASE ~Fails
  <2>1. PICK fresh, whole, values : Accept(fresh, whole, values)
    BY <1>3 DEF TimedOut
  <2>2. result'.ok /\ (~late' => ~late /\ call.slave # MODBUS_BROADCAST_ADDRESS)
    BY <2>1 DEF Accept, Return, LinkKinds
  <2>3. ~late /\ call.slave # MODBUS_BROADCAST_ADDRESS =>
           /\ call.fun \notin WritesOne \cup WritesMany
           /\ call.fun \in ReadsBits \cup ReadsRegisters => call.nb = 0
    BY <2>2, NothingInTime DEF TablesKnown
  <2>4. TablesKnown'
    BY <1>1, <2>1, <2>3, AcceptKnown
  <2>5. ReadsWhatWasWritten'
    <3> SUFFICES ASSUME ~late', call.fun \in ReadsBits \cup ReadsRegisters
                 PROVE  ReadsWhatWasWritten'
      BY <1>1 DEF ReadsWhatWasWritten
    <3>1. call.nb = 0
      BY <2>2, <2>3
    <3>2. call'.nb = 0 /\ \A n : n \notin 1 .. 0
      BY <1>1, <3>1
    <3>3. QED
      BY <3>2 DEF ReadsWhatWasWritten
  <2>6. QED
    BY <2>4, <2>5
<1>4. QED
  BY <1>2, <1>3

(* A query is sent, or cannot be. *)
LEMMA SendReads ==
    ASSUME LinkKinds, StepOrder, TablesKnown, NEW c \in calls, Send(c)
    PROVE  TablesKnown' /\ DoneInv' /\ ReadsWhatWasWritten'
<1>1. Issue(c) /\ UNCHANGED <<com, calls, mapping>> /\ ~result'.ok
  BY DEF Send, NoResult
<1>2. \A s \in Slaves :
         LET olds == [n \in DOMAIN inbox[s] |-> Old(inbox[s][n])]
         IN \/ inbox'[s] = olds
            \/ ForMe(s, Query(c)) /\ inbox'[s] = Append(olds, Query(c))
  BY DEF Send
<1>3. TablesKnown'
  BY <1>1, <1>2, IssueKnown
<1>4. DoneInv'
  <2> SUFFICES ASSUME ~late' PROVE inbuf' = <<>>
    BY DEF DoneInv
  <2>1. NothingUnderWay
    BY <1>1, IssuedAlone
  <2>2. inbuf' = [n \in DOMAIN inbuf |-> inbuf'[n]]
    BY DEF Send
  <2>3. DOMAIN inbuf = 1 .. 0
    BY <2>1 DEF NothingUnderWay
  <2>4. QED
    BY <2>2, <2>3, NoElements
<1>5. ReadsWhatWasWritten'
  BY <1>1 DEF ReadsWhatWasWritten
<1>6. QED
  BY <1>3, <1>4, <1>5

(* One that cannot be sent. *)
LEMMA SendFailsReads ==
    ASSUME LinkKinds, TablesKnown, NEW c \in calls, NEW b, SendFails(c, b)
    PROVE  TablesKnown' /\ DoneInv' /\ ReadsWhatWasWritten'
<1>1. Issue(c) /\ UNCHANGED <<calls, mapping, inbox>> /\ ~result'.ok /\ ~waiting'
  BY DEF SendFails, Issue, NoResult
<1>2. TablesKnown'
  BY <1>1, IssueKnown
<1>3. DoneInv' /\ ReadsWhatWasWritten'
  BY <1>1 DEF DoneInv, ReadsWhatWasWritten
<1>4. QED
  BY <1>2, <1>3

(* The answer stays that of the call. *)
LEMMA DoneKept ==
    ASSUME DoneInv, UNCHANGED <<com, waiting, call, inbuf, mapping, late>>
    PROVE  DoneInv'
<1> SUFFICES ASSUME ~late', waiting', call'.slave # MODBUS_BROADCAST_ADDRESS, inbuf' # <<>>, NEW r, NEW q,
                    r = call'.slave, q = Query(call')
             PROVE  call'.slave \in Slaves /\ Done(r, q)'
  BY DEF DoneInv
<1>1. call.slave \in Slaves /\ Done(r, q)
  BY DEF DoneInv
<1>2. Answer(r, q)' = Answer(r, q)
  BY AnswerLater
<1>3. Done(r, q)'
  BY <1>1, <1>2 DEF Done
<1>4. QED
  BY <1>1, <1>3

(* What is returned stays as true as it was. *)
LEMMA ReadsKept ==
    ASSUME ReadsWhatWasWritten, UNCHANGED <<call, result, late, known>>
    PROVE  ReadsWhatWasWritten'
<1>1. \A n : KnownValue(call, n)' = KnownValue(call, n)
  BY DEF KnownValue
<1>2. QED
  BY <1>1 DEF ReadsWhatWasWritten

(* Everything about the values. *)
ValuesInv == TablesKnown /\ DoneInv /\ ReadsWhatWasWritten

(* Every step keeps the values. *)
LEMMA ValuesKept ==
    ASSUME LinkKinds, StepOrder, ValuesInv, [LinkNext]_linkVars
    PROVE  ValuesInv'
<1>0. TablesKnown /\ DoneInv /\ ReadsWhatWasWritten
  BY DEF ValuesInv
<1>1. ASSUME NEW c \in calls, Refuse(c) PROVE ValuesInv'
  <2>1. UNCHANGED <<mapping, known, inbox>> /\ ~waiting' /\ ~result'.ok
    BY <1>1 DEF Refuse, NoResult
  <2>2. TablesKnown'
    BY <1>0, <2>1, NothingWritten
  <2>3. QED
    BY <2>1, <2>2 DEF ValuesInv, DoneInv, ReadsWhatWasWritten
<1>2. ASSUME NEW c \in calls, Send(c) PROVE ValuesInv'
  BY <1>0, <1>2, SendReads DEF ValuesInv
<1>3. ASSUME NEW c \in calls, NEW b, SendFails(c, b) PROVE ValuesInv'
  BY <1>0, <1>3, SendFailsReads DEF ValuesInv
<1>4. CASE Received
  <2>1. ~waiting'
    BY <1>4 DEF Received, Fails, Accept, Return
  <2>2. TablesKnown' /\ ReadsWhatWasWritten'
    BY <1>0, <1>4, ReceivedReads
  <2>3. QED
    BY <2>1, <2>2 DEF ValuesInv, DoneInv
<1>5. CASE TimedOut
  <2>1. ~waiting'
    BY <1>5 DEF TimedOut, Fails, Accept, Return
  <2>2. TablesKnown' /\ ReadsWhatWasWritten'
    BY <1>0, <1>5, TimedOutReads
  <2>3. QED
    BY <2>1, <2>2 DEF ValuesInv, DoneInv
<1>6. ASSUME Fails, UNCHANGED <<mapping, inbox>> PROVE ValuesInv'
  <2>1. ~waiting'
    BY <1>6 DEF Fails, Return
  <2>2. TablesKnown' /\ ReadsWhatWasWritten'
    BY <1>0, <1>6, FailsReads
  <2>3. QED
    BY <2>1, <2>2 DEF ValuesInv, DoneInv
<1>7. CASE FoundClosed
  BY <1>6, <1>7 DEF FoundClosed
<1>8. ASSUME NEW b, FoundReset(b) PROVE ValuesInv'
  BY <1>6, <1>8 DEF FoundReset
<1>9. ASSUME NEW s \in Slaves, Serve(s) PROVE ValuesInv'
  <2>1. UNCHANGED <<call, result, late, known>>
    BY <1>9 DEF Serve
  <2>2. TablesKnown' /\ DoneInv'
    BY <1>0, <1>9, ServeKnown, ServeDone
  <2>3. ReadsWhatWasWritten'
    BY <1>0, <2>1, ReadsKept
  <2>4. QED
    BY <2>2, <2>3 DEF ValuesInv
<1>10. ASSUME UNCHANGED <<com, waiting, call, inbuf, mapping, result, late, known>>,
              \A s \in Slaves : inbox'[s] \in {inbox[s], <<>>} \/ (inbox[s] # <<>> /\ inbox'[s] = Tail(inbox[s]))
       PROVE  ValuesInv'
  <2>1. PendingInv'
    BY <1>0, <1>10, LessPending DEF TablesKnown
  <2>2. MappingInv' /\ KnownInv'
    BY <1>0, <1>10 DEF TablesKnown, MappingInv, KnownInv
  <2>3. DoneInv' /\ ReadsWhatWasWritten'
    BY <1>0, <1>10, DoneKept, ReadsKept
  <2>4. QED
    BY <2>1, <2>2, <2>3 DEF ValuesInv, TablesKnown
<1>11. ASSUME NEW s \in Slaves, QueryLost(s) PROVE ValuesInv'
  <2>1. \A t \in Slaves : inbox'[t] = inbox[t] \/ (inbox[t] # <<>> /\ inbox'[t] = Tail(inbox[t]))
    BY <1>11 DEF QueryLost, LinkKinds
  <2>2. QED
    BY <1>10, <1>11, <2>1 DEF QueryLost
<1>12. CASE PeerCloses
  <2>1. \A t \in Slaves : inbox'[t] = <<>>
    BY <1>12 DEF PeerCloses
  <2>2. QED
    BY <1>10, <1>12, <2>1 DEF PeerCloses
<1>13. CASE UNCHANGED linkVars
  BY <1>10, <1>13 DEF linkVars
<1>14. QED
  BY <1>1, <1>2, <1>3, <1>4, <1>5, <1>7, <1>8, <1>9, <1>11, <1>12, <1>13 DEF LinkNext

(* The tables start as they should, and all of them is known. *)
LEMMA InitTables ==
    ASSUME NEW s
    PROVE  /\ DOMAIN TablesOf(s) = TableNames
           /\ \A t \in TableNames : TablesOf(s)[t] \in [Addresses(t) -> Kind(t)]
<1> DEFINE inreg == [MappingNew["inreg"] EXCEPT ![0] = States]
<1>1. DOMAIN TableSize = TableNames
  BY MappingAssumption DEF TableNames
<1>2. \A t \in TableNames : 0 \in Kind(t)
  <2>1. 0 \in BitValues
    BY DEF BitValues
  <2>2. 0 \in RegisterValues
    BY DEF RegisterValues
  <2>3. QED
    BY <2>1, <2>2 DEF Kind
<1>3. DOMAIN MappingNew = TableNames /\ \A t \in TableNames : MappingNew[t] = [a \in Addresses(t) |-> 0]
  BY <1>1 DEF MappingNew, Addresses
<1>4. \A t \in TableNames : MappingNew[t] \in [Addresses(t) -> Kind(t)]
  BY <1>2, <1>3
<1>5. inreg \in [Addresses("inreg") -> Kind("inreg")]
  <2>1. Kind("inreg") = RegisterValues
    BY DEF Kind
  <2>2. MappingNew["inreg"] \in [Addresses("inreg") -> Kind("inreg")]
    BY <1>4 DEF TableNames
  <2>3. QED
    BY <2>1, <2>2, StatesAssumption
<1>6. TablesOf(s) = IF Models[s] = "LD_B10_220" THEN [MappingNew EXCEPT !["inreg"] = inreg] ELSE MappingNew
  BY DEF TablesOf
<1> HIDE DEF inreg
<1>7. QED
  BY <1>3, <1>4, <1>5, <1>6

(* At first nothing was read, and everything is known. *)
LEMMA ValuesInit == LinkInit => ValuesInv
<1> SUFFICES ASSUME LinkInit PROVE ValuesInv
  OBVIOUS
<1>1. mapping = [s \in Slaves |-> TablesOf(s)] /\ known = mapping
  BY DEF LinkInit
<1>2. MappingInv
  BY <1>1, InitTables DEF MappingInv
<1>3. KnownInv
  <2>1. \A s \in Slaves : \A t \in TableNames : DOMAIN mapping[s][t] = Addresses(t)
    BY <1>2 DEF MappingInv
  <2>2. QED
    BY <1>1, <1>2, <2>1 DEF KnownInv, MappingInv
<1>4. PendingInv
  <2>1. \A s \in Slaves : inbox[s] = <<>>
    BY DEF LinkInit
  <2>2. \A S : <<>> \in Seq(S)
    OBVIOUS
  <2>3. \A s \in Slaves : DOMAIN inbox[s] = {}
    BY <2>1
  <2>4. QED
    BY <2>1, <2>2, <2>3 DEF PendingInv
<1>5. DoneInv /\ ReadsWhatWasWritten
  BY DEF LinkInit, DoneInv, ReadsWhatWasWritten, NoResult
<1>6. QED
  BY <1>2, <1>3, <1>4, <1>5 DEF ValuesInv, TablesKnown

(* ReadsWhatWasWritten: a call in step that reads returns what the last      *)
(* confirmed write left in the device, for every program of calls, tables of *)
(* any size, every kind of device and both kinds of connection: the masters' *)
(* and the slaves' packing, addresses and bounds agree.                      *)
THEOREM WrittenIsRead == LinkSpec => []ReadsWhatWasWritten
<1>1. LinkInv /\ [LinkNext]_linkVars => LinkInv'
  BY WholeKept, KindsKept, StepOrderKept DEF LinkInv
<1>2. LinkInv /\ ValuesInv /\ [LinkNext]_linkVars => ValuesInv'
  BY ValuesKept DEF LinkInv
<1>3. ValuesInv => ReadsWhatWasWritten
  BY DEF ValuesInv
<1>4. QED
  BY <1>1, <1>2, <1>3, LinkInvInit, ValuesInit, PTL DEF LinkSpec
=============================================================================
