------------------------------ MODULE XiicProofs ------------------------------
(***************************************************************************)
(* Proofs about Xiic: the types, the bound on what is stored in the caller's *)
(* buffers, and who owns the messages the handler works on.                 *)
(*                                                                          *)
(* The driver's helpers and the handler are functions on a pair d of the     *)
(* device and the core, so most lemmas say what one of them leaves true of   *)
(* such a pair; the actions only compose them.                              *)
(***************************************************************************)
EXTENDS Xiic, TLAPS

CoreFields ==
  {"iisr", "iier", "cr", "rfd", "txf", "rxocc", "mode", "cur", "byte", "dyn", "left", "autostop",
   "moved"}
DeviceFields ==
  {"tx_msg", "rx_msg", "nmsgs", "tx_pos", "rx_pos", "state", "completion", "dynamic", "prev_msg_tx",
   "smbus_block_read", "smbus_actual_len", "broken", "msgs", "filled"}
IsPair(d) == DOMAIN d = {"i", "h"} /\ DeviceFields = DOMAIN d.i /\ CoreFields = DOMAIN d.h

\* What the TX FIFO holds.
Entry ==
  [kind : {"addr"}, msg : Nat, rd : BOOLEAN, dyn : BOOLEAN, stop : BOOLEAN]
    \cup [kind : {"len"}, msg : Nat, n : Nat, stop : BOOLEAN]
    \cup [kind : {"data"}, msg : Nat, stop : BOOLEAN]

\* The core: no FIFO overflows, and a byte on the wire has room in the RX FIFO.
CoreOK(h) ==
  /\ CoreFields = DOMAIN h
  /\ h.iisr \in SUBSET Interrupts /\ h.iier \in SUBSET Interrupts
  /\ h.cr \in SUBSET {"MSMS", "TX", "NOACK", "RSTA"}
  /\ h.rfd \in Nat /\ h.rfd < DEPTH
  /\ h.txf \in Seq(Entry) /\ Len(h.txf) <= DEPTH
  /\ h.rxocc \in Nat /\ h.rxocc <= DEPTH /\ (h.byte # "none" => h.rxocc < DEPTH)

\* The room in the buffer of a message as it was submitted.
Bound(m) == IF m.recv THEN BLOCK_MAX + 2 ELSE m.len

(* The device i while it works on the messages q, in parts.                 *)

Typed(i, q) ==
  /\ DeviceFields = DOMAIN i
  /\ i.tx_msg \in Nat /\ i.rx_msg \in Nat /\ i.nmsgs \in Nat
  /\ i.tx_pos \in Nat /\ i.rx_pos \in Nat /\ i.smbus_actual_len \in Nat
  /\ i.dynamic \in BOOLEAN
  /\ i.msgs \in [DOMAIN q -> Message] /\ i.filled \in [DOMAIN q -> Nat]

\* The message pointers agree with each other and with the messages left.
Indices(i, q) ==
  /\ i.tx_msg # 0 => i.tx_msg \in DOMAIN q /\ i.nmsgs = Len(q) - i.tx_msg + 1
  /\ i.rx_msg # 0 => i.rx_msg = i.tx_msg

\* However often a length is rewritten, it stays within the buffer.
Lengths(i, q) ==
  \A k \in DOMAIN q :
    /\ i.msgs[k].rd => i.msgs[k].len > 0
    /\ i.msgs[k].recv => q[k].recv /\ i.msgs[k].rd /\ i.msgs[k].len \in {1, 2}
    /\ i.msgs[k].len <= Bound(q[k])
    /\ i.filled[k] <= Bound(q[k])

\* The message being read: what is stored is no more than the position, which
\* is no more than the length; a block read that is still to be set up has
\* stored nothing, and the length of a short block is kept only after that.
Reading(i, q) ==
  i.rx_msg # 0 =>
    /\ i.rx_pos <= i.msgs[i.rx_msg].len
    /\ i.filled[i.rx_msg] <= i.rx_pos
    /\ i.msgs[i.rx_msg].rd
    /\ ~ i.dynamic => ~ i.msgs[i.rx_msg].recv \/ i.rx_pos = 0
    /\ i.smbus_actual_len # 0 =>
         q[i.rx_msg].recv /\ ~ i.msgs[i.rx_msg].recv /\ i.smbus_actual_len <= 2

\* Nothing is stored in the messages from first on.
Untouched(i, q, first) == \A k \in DOMAIN q : k >= first => i.filled[k] = 0

DeviceOK(i, q) ==
  /\ Typed(i, q) /\ Indices(i, q) /\ Lengths(i, q) /\ Reading(i, q)
  /\ i.tx_msg # 0 => Untouched(i, q, i.tx_msg + 1)

TxInterrupts == {"TXHALF", "TXEMPTY"}

\* While it reads, the driver has the TX interrupts disabled.
Quiet(d) == d.i.rx_msg # 0 => d.h.iier \cap TxInterrupts = {}
-----------------------------------------------------------------------------
(* The inductive invariant.                                                 *)

TypesInv ==
  /\ caller \in {"idle", "wait", "woken", "timedout"} /\ ret \in Ret
  /\ load \in Workloads /\ count \in 0 .. load.count
  /\ irq \in {"idle", "service"}
  /\ isr \in SUBSET Interrupts /\ ier \in SUBSET Interrupts

StateInv == req \in Seq(Message) /\ DeviceOK(i2c, req) /\ CoreOK(hw) /\ Quiet(Now)

\* Nobody enables or disables an interrupt behind the handler's back.
SnapshotInv == irq = "service" => ier = hw.iier

\* A transfer is completed after its messages are forgotten, and only then is
\* its caller woken.
EndInv ==
  /\ i2c.completion \in BOOLEAN
  /\ i2c.completion => ~ Busy /\ i2c.state # "START"
  /\ caller = "woken" => i2c.completion

\* Messages without a caller are those of a start_xfer whose reset failed; the
\* interrupts are off.
OwnerInv == caller = "idle" /\ Busy => hw.iier = {} /\ irq = "idle"

IInv == TypesInv /\ StateInv /\ SnapshotInv /\ EndInv /\ OwnerInv
-----------------------------------------------------------------------------
(* The driver's helpers.                                                    *)

\* What the register helpers make of a pair, field by field.
LEMMA IrqDisIs ==
  ASSUME NEW d, IsPair(d), NEW mask
  PROVE  /\ IsPair(IrqDis(d, mask)) /\ IrqDis(d, mask).i = d.i
         /\ IrqDis(d, mask).h = [d.h EXCEPT !.iier = @ \ mask]
BY DEF IsPair, CoreFields, IrqDis

LEMMA IrqClrEnIs ==
  ASSUME NEW d, IsPair(d), NEW mask
  PROVE  /\ IsPair(IrqClrEn(d, mask)) /\ IrqClrEn(d, mask).i = d.i
         /\ IrqClrEn(d, mask).h = [d.h EXCEPT !.iisr = @ \ mask, !.iier = @ \cup mask]
BY DEF IsPair, CoreFields, IrqClrEn

\* The effect on the messages and on what is stored in them.
Put(f, k, v) == [f EXCEPT ![k] = v]
Credit(i, m) == Put(i.filled, i.rx_msg, i.filled[i.rx_msg] + m)
Resized(m, n) == [m EXCEPT !.len = n]
WithLen(i, k, n) == Put(i.msgs, k, Resized(i.msgs[k], n))

\* Drain moves the position by n and stores what there was of it.
LEMMA DrainIs ==
  ASSUME NEW d, IsPair(d), NEW n
  PROVE  LET good == MinOf(n, d.h.rxocc) IN
         /\ IsPair(Drain(d, n))
         /\ Drain(d, n).i = [d.i EXCEPT !.rx_pos = @ + n, !.filled = Credit(d.i, good)]
         /\ Drain(d, n).h = [d.h EXCEPT !.rxocc = @ - good]
<1> DEFINE m == MinOf(n, d.h.rxocc)
<1> USE DEF IsPair, CoreFields, DeviceFields
<1> HIDE DEF m
<1>0. Drain(d, n) = [d EXCEPT !.i.rx_pos = @ + n, !.i.filled[d.i.rx_msg] = @ + m, !.h.rxocc = @ - m]
  BY DEF Drain, m
<1>1. IsPair(Drain(d, n))
  BY <1>0
<1>2. Drain(d, n).i = [[d.i EXCEPT !.rx_pos = @ + n] EXCEPT !.filled = Credit(d.i, m)]
  <2> DEFINE j == [d.i EXCEPT !.rx_pos = @ + n]
             c == Credit(d.i, m)
  <2>1. j.filled = d.i.filled /\ j.rx_msg = d.i.rx_msg
    OBVIOUS
  <2>2. [d EXCEPT !.i.rx_pos = @ + n, !.i.filled[d.i.rx_msg] = @ + m, !.h.rxocc = @ - m].i
          = [j EXCEPT !.filled[d.i.rx_msg] = @ + m]
    OBVIOUS
  <2>3. [j.filled EXCEPT ![d.i.rx_msg] = @ + m] = c
    BY <2>1 DEF Credit, Put
  <2> HIDE DEF j, c
  <2>4. [j EXCEPT !.filled[d.i.rx_msg] = @ + m] = [j EXCEPT !.filled = c]
    BY <2>3
  <2> QED BY <1>0, <2>2, <2>4 DEF j, c
<1>4. Drain(d, n).h = [d.h EXCEPT !.rxocc = @ - m]
  BY <1>0
<1> QED BY <1>1, <1>2, <1>4 DEF m

\* FillTxFifo appends the bytes it has room for and moves the position past them.
LEMMA FillIs ==
  ASSUME NEW d, IsPair(d)
  PROVE  LET n == MinOf(TxSpace(d), TxFifoSpace(d))
             s == [k \in 1 .. n |-> Byte(d.i.tx_msg, k = TxSpace(d) /\ d.i.nmsgs = 1)] IN
         /\ IsPair(FillTxFifo(d))
         /\ FillTxFifo(d).i = [d.i EXCEPT !.tx_pos = @ + n]
         /\ FillTxFifo(d).h = [d.h EXCEPT !.txf = @ \o s]
<1> USE DEF IsPair, CoreFields, DeviceFields, FillTxFifo
<1> DEFINE n == MinOf(TxSpace(d), TxFifoSpace(d))
           s == [k \in 1 .. n |-> Byte(d.i.tx_msg, k = TxSpace(d) /\ d.i.nmsgs = 1)]
<1>1. IsPair(FillTxFifo(d))
  OBVIOUS
<1>2. FillTxFifo(d).i = [d.i EXCEPT !.tx_pos = @ + n]
  OBVIOUS
<1>3. FillTxFifo(d).h = [d.h EXCEPT !.txf = @ \o s]
  OBVIOUS
<1> QED BY <1>1, <1>2, <1>3

\* TrimLen rewrites at most the length of the message that is read.
LEMMA TrimIs ==
  ASSUME NEW d, IsPair(d)
  PROVE  /\ IsPair(TrimLen(d)) /\ TrimLen(d).h = d.h
         /\ TrimLen(d).i = IF d.i.smbus_actual_len # 0 THEN
               [d.i EXCEPT !.msgs = WithLen(d.i, d.i.rx_msg, d.i.smbus_actual_len)]
               ELSE d.i
BY DEF IsPair, CoreFields, DeviceFields, TrimLen, WithLen, Put, Resized

\* A buffer has a size.
LEMMA BoundType == ASSUME NEW m \in Message PROVE Bound(m) \in Nat
BY SizesOK DEF Bound, Message

\* Storing at most n bytes and moving the position by n, within the length.
LEMMA CreditKeeps ==
  ASSUME NEW i, NEW q \in Seq(Message), DeviceOK(i, q), i.rx_msg # 0,
         ~ i.dynamic => ~ i.msgs[i.rx_msg].recv,
         NEW n \in Nat, n <= i.msgs[i.rx_msg].len - i.rx_pos, NEW m \in Nat, m <= n
  PROVE  DeviceOK([i EXCEPT !.rx_pos = @ + n, !.filled = Credit(i, m)], q)
<1> DEFINE k == i.rx_msg
           c == Credit(i, m)
           j == [i EXCEPT !.rx_pos = @ + n, !.filled = c]
<1>1. k \in DOMAIN q /\ k = i.tx_msg /\ k \in Nat /\ i.rx_pos \in Nat
  BY DEF DeviceOK, Typed, Indices
<1>2. i.filled[k] \in Nat /\ i.msgs[k] \in Message /\ q[k] \in Message
  BY <1>1 DEF DeviceOK, Typed
<1>3. i.msgs[k].len \in Nat
  BY <1>2 DEF Message
<1>4. /\ c \in [DOMAIN q -> Nat] /\ c[k] = i.filled[k] + m
      /\ \A l \in DOMAIN q : l # k => c[l] = i.filled[l]
  <2>1. i.filled[k] + m \in Nat
    BY <1>2
  <2>2. i.filled \in [DOMAIN q -> Nat]
    BY DEF DeviceOK, Typed
  <2> QED BY <2>1, <2>2, <1>1 DEF Credit, Put
<1> HIDE DEF c
<1>5. /\ DOMAIN j = DOMAIN i
      /\ j.filled = c /\ j.rx_pos = i.rx_pos + n /\ j.rx_msg = k /\ j.msgs = i.msgs
      /\ j.tx_msg = i.tx_msg /\ j.nmsgs = i.nmsgs /\ j.tx_pos = i.tx_pos
      /\ j.dynamic = i.dynamic /\ j.smbus_actual_len = i.smbus_actual_len
  BY DEF DeviceOK, Typed, DeviceFields
<1> HIDE DEF j
<1>6. Typed(j, q) /\ Indices(j, q)
  <2>1. Typed(i, q) /\ Indices(i, q)
    BY DEF DeviceOK
  <2>2. j.rx_pos \in Nat
    BY <1>1, <1>5
  <2>3. Typed(j, q)
    BY <1>4, <1>5, <2>1, <2>2 DEF Typed
  <2>4. Indices(j, q)
    BY <1>5, <2>1 DEF Indices
  <2> QED BY <2>3, <2>4
<1>7. c[k] <= i.rx_pos + n /\ i.rx_pos + n <= i.msgs[k].len
  <2>1. i.filled[k] <= i.rx_pos
    BY DEF DeviceOK, Reading
  <2>2. c[k] = i.filled[k] + m
    BY <1>4
  <2> DEFINE f == i.filled[k]
             p == i.rx_pos
             l == i.msgs[k].len
             s == c[k]
  <2>3. f \in Nat /\ p \in Nat /\ l \in Nat /\ n <= l - p
    BY <1>1, <1>2, <1>3
  <2>4. s = f + m /\ f <= p
    BY <2>1, <2>2
  <2> HIDE DEF f, p, l, s
  <2>5. s <= p + n /\ p + n <= l
    BY <2>3, <2>4
  <2> QED BY <2>5 DEF f, p, l, s
<1>8. Lengths(j, q)
  <2> SUFFICES ASSUME NEW l \in DOMAIN q PROVE c[l] <= Bound(q[l])
    BY <1>5 DEF DeviceOK, Lengths
  <2>1. CASE l # k
    BY <2>1, <1>4 DEF DeviceOK, Lengths
  <2>2. CASE l = k
    <3>1. i.msgs[k].len <= Bound(q[k]) /\ Bound(q[k]) \in Nat
      BY <1>1, <1>2, BoundType DEF DeviceOK, Lengths
    <3> QED BY <2>2, <3>1, <1>1, <1>2, <1>3, <1>4, <1>7
  <2> QED BY <2>1, <2>2
<1>9. Reading(j, q)
  BY <1>1, <1>5, <1>7 DEF DeviceOK, Reading
<1>10. j.tx_msg # 0 => Untouched(j, q, j.tx_msg + 1)
  <2> SUFFICES ASSUME NEW l \in DOMAIN q, l >= k + 1 PROVE c[l] = 0
    BY <1>1, <1>5 DEF Untouched
  <2>1. i.filled[l] = 0
    BY <1>1 DEF DeviceOK, Untouched
  <2> QED BY <1>1, <1>4, <2>1
<1> QED BY <1>6, <1>8, <1>9, <1>10 DEF j, c, DeviceOK

\* j is i but for the transmit position, the state and the mode flags of a message.
SameWork(i, j) ==
  /\ DOMAIN j = DOMAIN i /\ j.tx_msg = i.tx_msg /\ j.rx_msg = i.rx_msg /\ j.nmsgs = i.nmsgs
  /\ j.rx_pos = i.rx_pos /\ j.smbus_actual_len = i.smbus_actual_len
  /\ j.dynamic = i.dynamic /\ j.msgs = i.msgs /\ j.filled = i.filled /\ j.completion = i.completion

\* DeviceOK does not depend on what SameWork leaves out.
LEMMA SameWorkKeeps ==
  ASSUME NEW i, NEW j, NEW q \in Seq(Message), DeviceOK(i, q), SameWork(i, j), j.tx_pos \in Nat
  PROVE  DeviceOK(j, q)
<1> USE DEF SameWork
<1>1. Typed(j, q)
  BY DEF DeviceOK, Typed
<1>2. Indices(j, q)
  BY DEF DeviceOK, Indices
<1>3. Lengths(j, q)
  BY DEF DeviceOK, Lengths
<1>4. Reading(j, q)
  BY DEF DeviceOK, Reading
<1>5. j.tx_msg # 0 => Untouched(j, q, j.tx_msg + 1)
  BY DEF DeviceOK, Untouched
<1> QED BY <1>1, <1>2, <1>3, <1>4, <1>5 DEF DeviceOK

\* j is i but for the messages and the length that is kept for a short block.
SameButMsgs(i, j) ==
  /\ DOMAIN j = DOMAIN i /\ j.tx_msg = i.tx_msg /\ j.rx_msg = i.rx_msg /\ j.nmsgs = i.nmsgs
  /\ j.rx_pos = i.rx_pos /\ j.tx_pos = i.tx_pos /\ j.dynamic = i.dynamic /\ j.filled = i.filled
  /\ j.completion = i.completion

\* The message being read is replaced by m: a block read has been set up.
LEMMA ResizeKeeps ==
  ASSUME NEW i, NEW j, NEW q \in Seq(Message), DeviceOK(i, q), SameButMsgs(i, j),
         i.rx_msg # 0, q[i.rx_msg].recv,
         NEW m \in Message, m.rd, ~ m.recv, m.len > 0, m.len <= BLOCK_MAX + 2, i.rx_pos <= m.len,
         j.msgs = Put(i.msgs, i.rx_msg, m), j.smbus_actual_len \in Nat, j.smbus_actual_len <= 2
  PROVE  DeviceOK(j, q)
<1> DEFINE k == i.rx_msg
<1>1. k \in DOMAIN q /\ k = i.tx_msg /\ i.msgs \in [DOMAIN q -> Message]
  BY DEF DeviceOK, Typed, Indices
<1>2. /\ j.msgs \in [DOMAIN q -> Message] /\ j.msgs[k] = m
      /\ \A l \in DOMAIN q : l # k => j.msgs[l] = i.msgs[l]
  BY <1>1 DEF Put
<1>3. Typed(j, q) /\ Indices(j, q)
  BY <1>2 DEF SameButMsgs, DeviceOK, Typed, Indices
<1>4. m.len <= Bound(q[k])
  BY DEF Bound
<1>5. Lengths(j, q)
  <2> SUFFICES ASSUME NEW l \in DOMAIN q
               PROVE /\ j.msgs[l].rd => j.msgs[l].len > 0
                     /\ j.msgs[l].recv => q[l].recv /\ j.msgs[l].rd /\ j.msgs[l].len \in {1, 2}
                     /\ j.msgs[l].len <= Bound(q[l])
                     /\ i.filled[l] <= Bound(q[l])
    BY DEF Lengths, SameButMsgs
  <2>1. CASE l # k
    BY <2>1, <1>2 DEF DeviceOK, Lengths
  <2>2. CASE l = k
    BY <2>2, <1>2, <1>4 DEF DeviceOK, Lengths
  <2> QED BY <2>1, <2>2
<1>6. Reading(j, q)
  BY <1>2 DEF DeviceOK, Reading, SameButMsgs
<1>7. j.tx_msg # 0 => Untouched(j, q, j.tx_msg + 1)
  BY DEF DeviceOK, Untouched, SameButMsgs
<1> QED BY <1>3, <1>5, <1>6, <1>7 DEF DeviceOK

\* The state d of the handler becomes e while it works on the messages q: the
\* same transfer, at the same message, with the same interrupts enabled.
Keeps(d, e, q) ==
  /\ IsPair(e) /\ CoreOK(e.h) /\ DeviceOK(e.i, q)
  /\ e.h.iier = d.h.iier
  /\ e.i.tx_msg = d.i.tx_msg /\ e.i.rx_msg = d.i.rx_msg /\ e.i.nmsgs = d.i.nmsgs
  /\ e.i.completion = d.i.completion

\* Draining no more than the message has room for.
LEMMA DrainKeeps ==
  ASSUME NEW d, NEW q \in Seq(Message), IsPair(d), CoreOK(d.h), DeviceOK(d.i, q), d.i.rx_msg # 0,
         ~ d.i.dynamic => ~ d.i.msgs[d.i.rx_msg].recv,
         NEW n \in Nat, n <= RxSpace(d)
  PROVE  /\ Keeps(d, Drain(d, n), q)
         /\ Drain(d, n).i.rx_pos = d.i.rx_pos + n /\ Drain(d, n).i.msgs = d.i.msgs
         /\ Drain(d, n).i.smbus_actual_len = d.i.smbus_actual_len
<1> DEFINE m == MinOf(n, d.h.rxocc)
           e == Drain(d, n)
<1>1. m \in Nat /\ m <= n /\ m <= d.h.rxocc
  BY DEF MinOf, CoreOK
<1> HIDE DEF m
<1>2. /\ IsPair(e) /\ e.i = [d.i EXCEPT !.rx_pos = @ + n, !.filled = Credit(d.i, m)]
      /\ e.h = [d.h EXCEPT !.rxocc = @ - m]
  BY DrainIs DEF m
<1>3. DeviceOK(e.i, q)
  <2>1. n <= d.i.msgs[d.i.rx_msg].len - d.i.rx_pos
    BY DEF RxSpace
  <2>2. DeviceOK([d.i EXCEPT !.rx_pos = @ + n, !.filled = Credit(d.i, m)], q)
    BY <1>1, <2>1, CreditKeeps, Zenon
  <2> QED BY <1>2, <2>2
<1>4. CoreOK(e.h) /\ e.h.iier = d.h.iier
  <2> DEFINE h == d.h
             g == e.h
  <2>1. CoreOK(h) /\ g = [h EXCEPT !.rxocc = @ - m]
    BY <1>2
  <2> HIDE DEF h, g, e
  <2>2. /\ CoreFields = DOMAIN g /\ g.rxocc = h.rxocc - m /\ g.rfd = h.rfd /\ g.txf = h.txf
        /\ g.iisr = h.iisr /\ g.iier = h.iier /\ g.cr = h.cr /\ g.byte = h.byte
    BY <2>1 DEF CoreOK, CoreFields
  <2>3. /\ h.rxocc \in Nat /\ h.rxocc <= DEPTH /\ DEPTH \in Nat
        /\ h.byte # "none" => h.rxocc < DEPTH
    BY <2>1, SizesOK DEF CoreOK
  <2>4. m <= h.rxocc
    BY <1>1 DEF h
  <2>5. /\ h.rxocc - m \in Nat /\ h.rxocc - m <= DEPTH
        /\ h.byte # "none" => h.rxocc - m < DEPTH
    BY <1>1, <2>3, <2>4
  <2>6. CoreOK(g)
    BY <2>1, <2>2, <2>5 DEF CoreOK
  <2> QED BY <2>2, <2>6 DEF g, h
<1>5. /\ e.i.tx_msg = d.i.tx_msg /\ e.i.rx_msg = d.i.rx_msg /\ e.i.nmsgs = d.i.nmsgs
      /\ e.i.completion = d.i.completion
      /\ e.i.rx_pos = d.i.rx_pos + n /\ e.i.msgs = d.i.msgs
      /\ e.i.smbus_actual_len = d.i.smbus_actual_len
  BY <1>2 DEF IsPair, DeviceFields
<1> QED BY <1>2, <1>3, <1>4, <1>5 DEF Keeps

\* The length n of the block is known: e is d1 with the message resized.
LEMMA ExpectKeeps ==
  ASSUME NEW d, NEW q \in Seq(Message), IsPair(d), CoreOK(d.h), DeviceOK(d.i, q), d.i.rx_msg # 0,
         q[d.i.rx_msg].recv, ~ d.i.msgs[d.i.rx_msg].recv, d.i.rx_pos <= 1,
         NEW n \in Nat, n > 0, n <= BLOCK_MAX + 2, NEW r \in Nat, r < DEPTH,
         NEW e, IsPair(e), SameButMsgs(d.i, e.i),
         e.i.msgs = Put(d.i.msgs, d.i.rx_msg, Resized(d.i.msgs[d.i.rx_msg], n)),
         e.i.smbus_actual_len \in Nat, e.i.smbus_actual_len <= 2,
         e.h \in {d.h, [d.h EXCEPT !.rfd = r]}
  PROVE  Keeps(d, e, q)
<1> DEFINE k == d.i.rx_msg
           m == Resized(d.i.msgs[k], n)
<1>1. d.i.msgs[k] \in Message /\ d.i.msgs[k].rd
  BY DEF DeviceOK, Typed, Indices, Reading
<1>2. m \in Message /\ m.rd /\ ~ m.recv /\ m.len = n
  BY <1>1 DEF Message, Resized
<1>3. d.i.rx_pos \in Nat
  BY DEF DeviceOK, Typed
<1> HIDE DEF m
<1>4. m.len > 0 /\ m.len <= BLOCK_MAX + 2 /\ d.i.rx_pos <= m.len
  BY <1>2, <1>3, SizesOK
<1>5. DeviceOK(e.i, q)
  BY <1>2, <1>4, ResizeKeeps, Zenon DEF m
<1>6. CoreOK(e.h) /\ e.h.iier = d.h.iier
  <2>1. CASE e.h = d.h
    BY <2>1
  <2>2. CASE e.h = [d.h EXCEPT !.rfd = r]
    <3> DEFINE h == d.h
               g == e.h
    <3>1. CoreOK(h) /\ g = [h EXCEPT !.rfd = r]
      BY <2>2
    <3> HIDE DEF h, g
    <3>2. /\ CoreFields = DOMAIN g /\ g.rfd = r /\ g.rxocc = h.rxocc /\ g.txf = h.txf
          /\ g.iisr = h.iisr /\ g.iier = h.iier /\ g.cr = h.cr /\ g.byte = h.byte
      BY <3>1 DEF CoreOK, CoreFields
    <3>3. CoreOK(g)
      BY <3>1, <3>2 DEF CoreOK
    <3> QED BY <3>2, <3>3 DEF g, h
  <2> QED BY <2>1, <2>2
<1> QED BY <1>5, <1>6 DEF Keeps, SameButMsgs

\* Whatever length the slave answers with, the block that is set up fits the buffer.
LEMMA BlockReadKeeps ==
  ASSUME NEW d, NEW q \in Seq(Message), IsPair(d), CoreOK(d.h), DeviceOK(d.i, q), d.i.rx_msg # 0,
         ~ d.i.dynamic, d.i.msgs[d.i.rx_msg].recv
  PROVE  Keeps(d, BlockReadSetup(d), q)
<1> DEFINE k == d.i.rx_msg
           len == d.i.msgs[k].blk
           pec == d.i.msgs[k].len - 1
           d0 == [d EXCEPT !.i.msgs[k].recv = FALSE, !.i.smbus_block_read = TRUE]
           d1 == Drain(d0, 1)
           m0 == [d.i.msgs[k] EXCEPT !.recv = FALSE]
<1>1. /\ k \in DOMAIN q /\ k = d.i.tx_msg /\ d.i.msgs \in [DOMAIN q -> Message]
      /\ d.i.smbus_actual_len = 0 /\ d.i.rx_pos = 0 /\ q[k].recv
      /\ d.i.msgs[k] \in Message /\ d.i.msgs[k].rd /\ d.i.msgs[k].len \in {1, 2}
  <2>1. k \in DOMAIN q /\ k = d.i.tx_msg /\ d.i.msgs \in [DOMAIN q -> Message]
    BY DEF DeviceOK, Typed, Indices
  <2>2. q[k].recv /\ d.i.msgs[k].rd /\ d.i.msgs[k].len \in {1, 2}
    BY <2>1 DEF DeviceOK, Lengths
  <2>3. d.i.rx_pos = 0 /\ d.i.smbus_actual_len = 0
    BY DEF DeviceOK, Reading
  <2> QED BY <2>1, <2>2, <2>3
<1>2. m0 \in Message /\ m0.rd /\ ~ m0.recv /\ m0.len = d.i.msgs[k].len
  BY <1>1 DEF Message
<1> HIDE DEF m0
<1>3. /\ IsPair(d0) /\ d0.h = d.h /\ SameButMsgs(d.i, d0.i) /\ d0.i.msgs = Put(d.i.msgs, k, m0)
      /\ d0.i.smbus_actual_len = 0
  BY <1>1 DEF IsPair, DeviceFields, SameButMsgs, m0, Put
<1>4. d0.i.msgs[k] = m0 /\ d0.i.rx_msg = k
  <2>1. d.i.msgs \in [DOMAIN q -> Message] /\ k \in DOMAIN q
    BY <1>1
  <2>2. Put(d.i.msgs, k, m0)[k] = m0
    BY <2>1 DEF Put
  <2> QED BY <1>3, <2>2 DEF SameButMsgs
<1> HIDE DEF d0
<1>5. DeviceOK(d0.i, q)
  <2>1. /\ m0.len > 0 /\ m0.len <= BLOCK_MAX + 2 /\ d.i.rx_pos <= m0.len
        /\ d0.i.smbus_actual_len \in Nat /\ d0.i.smbus_actual_len <= 2
    BY <1>1, <1>2, <1>3, SizesOK
  <2> QED BY <1>1, <1>2, <1>3, <2>1, ResizeKeeps, Zenon
<1>6. /\ Keeps(d0, d1, q) /\ d1.i.rx_pos = d0.i.rx_pos + 1 /\ d1.i.msgs = d0.i.msgs
      /\ d1.i.smbus_actual_len = d0.i.smbus_actual_len
  <2>1. 1 \in Nat /\ 1 <= RxSpace(d0)
    BY <1>1, <1>2, <1>3, <1>4 DEF RxSpace, SameButMsgs
  <2>2. CoreOK(d0.h) /\ d0.i.rx_msg # 0 /\ ~ d0.i.msgs[d0.i.rx_msg].recv
    BY <1>2, <1>3, <1>4
  <2> QED BY <1>3, <1>5, <2>1, <2>2, DrainKeeps, Zenon
<1>7. /\ IsPair(d1) /\ CoreOK(d1.h) /\ DeviceOK(d1.i, q) /\ d1.i.rx_msg = k /\ d1.i.rx_pos = 1
      /\ d1.i.msgs[k] = m0 /\ d1.i.smbus_actual_len = 0 /\ d1.h.iier = d.h.iier
      /\ d1.i.tx_msg = d.i.tx_msg /\ d1.i.nmsgs = d.i.nmsgs /\ d1.i.completion = d.i.completion
  BY <1>1, <1>3, <1>4, <1>6 DEF Keeps, SameButMsgs
<1> HIDE DEF d1
<1> DEFINE e == BlockReadSetup(d)
           Expects(n, r) ==
             /\ IsPair(e) /\ SameButMsgs(d1.i, e.i)
             /\ e.i.msgs = Put(d1.i.msgs, k, Resized(d1.i.msgs[k], n))
             /\ e.i.smbus_actual_len \in Nat /\ e.i.smbus_actual_len <= 2
             /\ e.h \in {d1.h, [d1.h EXCEPT !.rfd = r]}
<1>8. ASSUME NEW n \in Nat, NEW r \in Nat, n > 0, n <= BLOCK_MAX + 2, r < DEPTH, Expects(n, r)
      PROVE  Keeps(d, e, q)
  <2>1. d1.i.rx_pos <= 1 /\ ~ d1.i.msgs[d1.i.rx_msg].recv /\ q[d1.i.rx_msg].recv /\ d1.i.rx_msg # 0
    BY <1>1, <1>2, <1>7
  <2>2. Keeps(d1, e, q)
    BY <1>7, <1>8, <2>1, ExpectKeeps, Zenon
  <2> QED BY <1>7, <2>2 DEF Keeps
<1>9. len \in Nat /\ pec \in {0, 1}
  BY <1>1 DEF Message
<1>e. e = IF len > BLOCK_MAX
            THEN [d1 EXCEPT !.i.msgs[d.i.tx_msg].len = 3, !.i.smbus_block_read = FALSE]
          ELSE IF len + pec > DEPTH
            THEN [d1 EXCEPT !.i.msgs[k].len = len + 1 + pec, !.h.rfd = DEPTH - 1]
          ELSE IF 1 + len + pec < MIN_LEN
            THEN [[d1 EXCEPT !.i.msgs[k].len = MIN_LEN, !.h.rfd = 0] EXCEPT
                    !.i.smbus_actual_len = 1 + len + pec]
          ELSE [d1 EXCEPT !.i.msgs[k].len = len + 1 + pec, !.h.rfd = len + pec - 2]
  BY Zenon DEF BlockReadSetup, d1, d0
<1> HIDE DEF len, pec
<1> USE DEF IsPair, DeviceFields, CoreFields, SameButMsgs, Put, Resized
<1>10. CASE len > BLOCK_MAX
  <2>1. e = [d1 EXCEPT !.i.msgs[k].len = 3, !.i.smbus_block_read = FALSE]
    BY <1>10, <1>e, <1>1, Zenon
  <2> HIDE DEF e
  <2>2. IsPair(e) /\ SameButMsgs(d1.i, e.i) /\ e.h = d1.h /\ e.i.smbus_actual_len = 0
    BY <2>1, <1>7
  <2>3. e.i.msgs = Put(d1.i.msgs, k, Resized(d1.i.msgs[k], 3))
    BY <2>1, <1>7
  <2>4. 3 \in Nat /\ 0 \in Nat /\ 3 > 0 /\ 3 <= BLOCK_MAX + 2 /\ 0 < DEPTH /\ 0 <= 2
    BY SizesOK
  <2> HIDE DEF IsPair, SameButMsgs, Put, Resized
  <2>6. Expects(3, 0)
    BY <2>2, <2>3, <2>4
  <2> HIDE DEF Expects
  <2> QED BY <2>4, <2>6, <1>8, Zenon DEF e
<1>11. CASE ~ (len > BLOCK_MAX) /\ len + pec > DEPTH
  <2>1. e = [d1 EXCEPT !.i.msgs[k].len = len + 1 + pec, !.h.rfd = DEPTH - 1]
    BY <1>11, <1>e, Zenon
  <2> HIDE DEF e
  <2>2. IsPair(e) /\ SameButMsgs(d1.i, e.i) /\ e.i.smbus_actual_len = 0
    BY <2>1, <1>7
  <2>3. e.i.msgs = Put(d1.i.msgs, k, Resized(d1.i.msgs[k], len + 1 + pec))
    BY <2>1, <1>7
  <2>4. e.h = [d1.h EXCEPT !.rfd = DEPTH - 1]
    BY <2>1, <1>7
  <2>5. /\ len + 1 + pec \in Nat /\ DEPTH - 1 \in Nat /\ len + 1 + pec > 0
        /\ len + 1 + pec <= BLOCK_MAX + 2 /\ DEPTH - 1 < DEPTH /\ 0 \in Nat /\ 0 <= 2
    BY <1>9, <1>11, SizesOK
  <2> HIDE DEF IsPair, SameButMsgs, Put, Resized
  <2>6. Expects(len + 1 + pec, DEPTH - 1)
    BY <2>2, <2>3, <2>4, <2>5
  <2> HIDE DEF Expects
  <2> QED BY <2>5, <2>6, <1>8, Zenon DEF e
<1>12. CASE ~ (len > BLOCK_MAX) /\ ~ (len + pec > DEPTH) /\ 1 + len + pec < MIN_LEN
  <2>1. e = [[d1 EXCEPT !.i.msgs[k].len = MIN_LEN, !.h.rfd = 0]
               EXCEPT !.i.smbus_actual_len = 1 + len + pec]
    BY <1>12, <1>e, Zenon
  <2> HIDE DEF e
  <2>2. IsPair(e) /\ SameButMsgs(d1.i, e.i) /\ e.i.smbus_actual_len = 1 + len + pec
    BY <2>1, <1>7
  <2>3. e.i.msgs = Put(d1.i.msgs, k, Resized(d1.i.msgs[k], MIN_LEN))
    BY <2>1, <1>7
  <2>4. e.h = [d1.h EXCEPT !.rfd = 0]
    BY <2>1, <1>7
  <2>5. /\ MIN_LEN \in Nat /\ 0 \in Nat /\ MIN_LEN > 0 /\ MIN_LEN <= BLOCK_MAX + 2 /\ 0 < DEPTH
        /\ 1 + len + pec \in Nat /\ 1 + len + pec <= 2
    BY <1>9, <1>12, SizesOK DEF MIN_LEN
  <2> HIDE DEF IsPair, SameButMsgs, Put, Resized
  <2>6. Expects(MIN_LEN, 0)
    BY <2>2, <2>3, <2>4, <2>5
  <2> HIDE DEF Expects
  <2> QED BY <2>5, <2>6, <1>8, Zenon DEF e
<1>13. CASE ~ (len > BLOCK_MAX) /\ ~ (len + pec > DEPTH) /\ ~ (1 + len + pec < MIN_LEN)
  <2>1. e = [d1 EXCEPT !.i.msgs[k].len = len + 1 + pec, !.h.rfd = len + pec - 2]
    BY <1>13, <1>e, Zenon
  <2> HIDE DEF e
  <2>2. IsPair(e) /\ SameButMsgs(d1.i, e.i) /\ e.i.smbus_actual_len = 0
    BY <2>1, <1>7
  <2>3. e.i.msgs = Put(d1.i.msgs, k, Resized(d1.i.msgs[k], len + 1 + pec))
    BY <2>1, <1>7
  <2>4. e.h = [d1.h EXCEPT !.rfd = len + pec - 2]
    BY <2>1, <1>7
  <2>5. /\ len + 1 + pec \in Nat /\ len + pec - 2 \in Nat /\ len + 1 + pec > 0
        /\ len + 1 + pec <= BLOCK_MAX + 2 /\ len + pec - 2 < DEPTH /\ 0 \in Nat /\ 0 <= 2
    BY <1>9, <1>13, SizesOK DEF MIN_LEN
  <2> HIDE DEF IsPair, SameButMsgs, Put, Resized
  <2>6. Expects(len + 1 + pec, len + pec - 2)
    BY <2>2, <2>3, <2>4, <2>5
  <2> HIDE DEF Expects
  <2> QED BY <2>5, <2>6, <1>8, Zenon DEF e
<1> QED BY <1>10, <1>11, <1>12, <1>13, Zenon

\* xiic_read_rx() in any mode and with any FIFO contents.
LEMMA ReadRxKeeps ==
  ASSUME NEW d, NEW q \in Seq(Message), IsPair(d), CoreOK(d.h), DeviceOK(d.i, q), d.i.rx_msg # 0
  PROVE  Keeps(d, ReadRx(d), q)
<1> DEFINE k == d.i.rx_msg
           n == MinOf(d.h.rxocc, RxSpace(d))
           rem == RxSpace(d) - n
           e == ReadRx(d)
           d1 == Drain(d, n)
           cr == d.h.cr \ (IF d.i.nmsgs = 1 THEN {"NOACK", "MSMS"} ELSE {"NOACK"})
           With(x) == [d EXCEPT !.h.cr = x]
<1>e. e = IF d.i.dynamic
            THEN [d1 EXCEPT !.h.rfd = IF RxSpace(d1) = 0 THEN DEPTH - 1
                                      ELSE MinOf(RxSpace(d1), DEPTH) - 1]
          ELSE IF d.i.msgs[k].recv THEN BlockReadSetup(d)
          ELSE IF rem > DEPTH THEN Drain(d, n)
          ELSE IF rem > 1 THEN Drain(d, rem - 1)
          ELSE IF rem = 1 THEN Drain(With(d.h.cr \cup {"NOACK"}), 1)
          ELSE Drain(With(cr), n)
  BY DEF ReadRx
<1>1. RxSpace(d) \in Nat
  <2> DEFINE l == d.i.msgs[k].len
             p == d.i.rx_pos
  <2>1. d.i.msgs[k] \in Message /\ p \in Nat /\ p <= l
    BY DEF DeviceOK, Typed, Indices, Reading
  <2>2. l \in Nat
    BY <2>1 DEF Message
  <2>3. RxSpace(d) = l - p
    BY DEF RxSpace
  <2> HIDE DEF l, p
  <2> QED BY <2>1, <2>2, <2>3
<1>2. n \in Nat /\ n <= RxSpace(d) /\ rem \in Nat /\ rem <= RxSpace(d)
  <2>1. d.h.rxocc \in Nat
    BY DEF CoreOK
  <2> QED BY <1>1, <2>1 DEF MinOf
<1> HIDE DEF n, rem
<1>3. ASSUME ~ d.i.msgs[k].recv, NEW x \in SUBSET {"MSMS", "TX", "NOACK", "RSTA"},
             NEW l \in Nat, l <= RxSpace(d)
      PROVE  Keeps(d, Drain(With(x), l), q)
  <2>1. /\ IsPair(With(x)) /\ With(x).i = d.i /\ With(x).h.iier = d.h.iier /\ CoreOK(With(x).h)
    BY DEF IsPair, CoreOK, CoreFields
  <2> HIDE DEF With
  <2>2. RxSpace(With(x)) = RxSpace(d)
    BY <2>1 DEF RxSpace
  <2>3. Keeps(With(x), Drain(With(x), l), q)
    BY <1>3, <2>1, <2>2, DrainKeeps, Zenon
  <2> QED BY <2>1, <2>3 DEF Keeps
<1>4. CASE d.i.dynamic
  <2>1. Keeps(d, d1, q)
    BY <1>2, <1>4, DrainKeeps, Zenon
  <2> DEFINE r == IF RxSpace(d1) = 0 THEN DEPTH - 1 ELSE MinOf(RxSpace(d1), DEPTH) - 1
  <2>2. RxSpace(d1) \in Nat
    <3>1. d1.i.rx_msg = k /\ DeviceOK(d1.i, q)
      BY <2>1 DEF Keeps
    <3>2. d1.i.msgs[k] \in Message /\ d1.i.rx_pos \in Nat /\ d1.i.rx_pos <= d1.i.msgs[k].len
      BY <3>1 DEF DeviceOK, Typed, Indices, Reading
    <3> QED BY <3>1, <3>2 DEF RxSpace, Message
  <2>3. r \in Nat /\ r < DEPTH
    BY <2>2, SizesOK DEF MinOf
  <2>4. e = [d1 EXCEPT !.h.rfd = r]
    BY <1>e, <1>4, Zenon
  <2> HIDE DEF r, d1, e
  <2>5. IsPair(e) /\ e.i = d1.i /\ e.h = [d1.h EXCEPT !.rfd = r]
    BY <2>1, <2>4 DEF Keeps, IsPair, CoreFields
  <2>6. CoreOK(e.h) /\ e.h.iier = d1.h.iier
    BY <2>1, <2>3, <2>5 DEF Keeps, CoreOK, CoreFields
  <2>7. Keeps(d, e, q)
    BY <2>1, <2>5, <2>6 DEF Keeps
  <2> QED BY <2>7 DEF e
<1>5. CASE ~ d.i.dynamic /\ d.i.msgs[k].recv
  BY <1>e, <1>5, BlockReadKeeps, Zenon
<1>6. CASE ~ d.i.dynamic /\ ~ d.i.msgs[k].recv /\ rem > DEPTH
  <2>1. e = Drain(d, n)
    BY <1>e, <1>6, Zenon
  <2> QED BY <2>1, <1>2, <1>6, DrainKeeps, Zenon
<1>7. CASE ~ d.i.dynamic /\ ~ d.i.msgs[k].recv /\ ~ (rem > DEPTH) /\ rem > 1
  <2>1. e = Drain(d, rem - 1)
    BY <1>e, <1>7, Zenon
  <2>2. rem - 1 \in Nat /\ rem - 1 <= RxSpace(d)
    BY <1>1, <1>2, <1>7
  <2> QED BY <2>1, <2>2, <1>7, DrainKeeps, Zenon
<1>8. CASE ~ d.i.dynamic /\ ~ d.i.msgs[k].recv /\ ~ (rem > DEPTH) /\ ~ (rem > 1) /\ rem = 1
  <2>1. e = Drain(With(d.h.cr \cup {"NOACK"}), 1)
    BY <1>e, <1>8, Zenon
  <2>2. 1 \in Nat /\ 1 <= RxSpace(d)
    BY <1>1, <1>2, <1>8
  <2>3. d.h.cr \cup {"NOACK"} \in SUBSET {"MSMS", "TX", "NOACK", "RSTA"}
    BY DEF CoreOK
  <2> QED BY <2>1, <2>2, <2>3, <1>3, <1>8
<1>9. CASE ~ d.i.dynamic /\ ~ d.i.msgs[k].recv /\ ~ (rem > DEPTH) /\ ~ (rem > 1) /\ rem # 1
  <2>1. e = Drain(With(cr), n)
    BY <1>e, <1>9, Zenon
  <2>2. cr \in SUBSET {"MSMS", "TX", "NOACK", "RSTA"}
    BY DEF CoreOK
  <2> QED BY <2>1, <2>2, <1>2, <1>3, <1>9
<1> QED BY <1>4, <1>5, <1>6, <1>7, <1>8, <1>9

\* Filling the TX FIFO does not overflow it and changes nothing else.
LEMMA FillKeeps ==
  ASSUME NEW d, IsPair(d), CoreOK(d.h), TxSpace(d) \in Nat, d.i.tx_pos \in Nat, d.i.tx_msg \in Nat
  PROVE  /\ IsPair(FillTxFifo(d)) /\ CoreOK(FillTxFifo(d).h) /\ FillTxFifo(d).h.iier = d.h.iier
         /\ SameWork(d.i, FillTxFifo(d).i) /\ FillTxFifo(d).i.tx_pos \in Nat
<1> DEFINE n == MinOf(TxSpace(d), TxFifoSpace(d))
           s == [k \in 1 .. n |-> Byte(d.i.tx_msg, k = TxSpace(d) /\ d.i.nmsgs = 1)]
           e == FillTxFifo(d)
<1>1. /\ IsPair(e) /\ e.i = [d.i EXCEPT !.tx_pos = @ + n] /\ e.h = [d.h EXCEPT !.txf = @ \o s]
  BY FillIs
<1>2. n \in Nat /\ (n = 0 \/ Len(d.h.txf) + n <= DEPTH)
  <2>1. TxFifoSpace(d) \in Nat /\ (TxFifoSpace(d) = 0 \/ Len(d.h.txf) + TxFifoSpace(d) <= DEPTH)
    BY SizesOK DEF TxFifoSpace, MaxOf, CoreOK
  <2> QED BY <2>1, SizesOK DEF MinOf
<1>3. n \in Nat
  BY <1>2
<1> HIDE DEF n
<1>4. s \in Seq(Entry) /\ Len(s) = n
  BY <1>3 DEF Byte, Entry
<1> HIDE DEF s, e
<1>5. d.h.txf \o s \in Seq(Entry) /\ Len(d.h.txf \o s) <= DEPTH
  BY <1>2, <1>3, <1>4, SizesOK DEF CoreOK
<1>6. CoreOK(e.h) /\ e.h.iier = d.h.iier
  BY <1>1, <1>5 DEF CoreOK, CoreFields
<1>7. SameWork(d.i, e.i) /\ e.i.tx_pos \in Nat
  BY <1>1, <1>3 DEF SameWork, IsPair, DeviceFields
<1> QED BY <1>1, <1>6, <1>7 DEF e

\* What is queued in start_recv() and start_send() does not overflow it either.
LEMMA QueuedFact ==
  ASSUME NEW s \in Seq(Entry), NEW t \in Seq(Entry), Len(s) <= DEPTH
  PROVE  Queued(s, t) \in Seq(Entry) /\ Len(Queued(s, t)) <= DEPTH
BY SizesOK DEF Queued, MinOf

\* Short tuples are sequences.
LEMMA TupleFact ==
  ASSUME NEW S, NEW x \in S, NEW y \in S
  PROVE  <<x>> \in Seq(S) /\ <<x, y>> \in Seq(S)
OBVIOUS

\* The next message has been chosen and nothing of it read.
Ready(d, q) ==
  /\ IsPair(d) /\ CoreOK(d.h) /\ DeviceOK(d.i, q)
  /\ d.i.tx_msg # 0 /\ d.i.rx_msg = 0 /\ Untouched(d.i, q, d.i.tx_msg)

\* What a start of the message of d must leave in e.
Started(d, e, q) ==
  /\ IsPair(e) /\ CoreOK(e.h) /\ DeviceOK(e.i, q) /\ Quiet(e)
  /\ e.i.tx_msg = d.i.tx_msg /\ e.i.completion = d.i.completion

\* xiic_start_recv() begins a read of an untouched message with the TX interrupts off.
LEMMA StartRecvKeeps ==
  ASSUME NEW d, NEW q \in Seq(Message), Ready(d, q), d.i.rx_pos = 0, d.i.msgs[d.i.tx_msg].rd
  PROVE  Started(d, StartRecv(d), q)
<1> DEFINE m == d.i.tx_msg
           len == d.i.msgs[m].len
           last == d.i.nmsgs = 1
           d1 == IrqDis([d EXCEPT !.i.rx_msg = m, !.i.smbus_actual_len = 0], TxInterrupts)
           nack == IF len = 1 /\ ~ d.i.msgs[m].recv THEN {"NOACK"} ELSE {}
           rsta == IF "MSMS" \in d.h.cr THEN {"RSTA"} ELSE {}
           ca == IrqClrEn(d1, {"RXFULL", "TXERR", "BNB"})
           cb == IrqClrEn(d1, {"RXFULL", "TXERR"})
           ra == MinOf(len, DEPTH) - 1
           rb == IF len > DEPTH THEN DEPTH - 1 ELSE IF len = 1 THEN 0 ELSE len - 2
           ea == <<Addr(m, TRUE, TRUE, FALSE), Length(m, len, last)>>
           eb == <<Addr(m, TRUE, FALSE, FALSE)>>
           da == [ca EXCEPT !.h.rfd = ra, !.h.txf = Queued(@, ea)]
           db == [cb EXCEPT !.h.rfd = rb, !.h.cr = (@ \ {"TX"}) \cup nack \cup rsta \cup {"MSMS"},
                            !.h.txf = Queued(@, eb)]
           d2 == IF d.i.dynamic THEN da ELSE db
           d3 == IF last THEN IrqClrEn(d2, {"BNB"}) ELSE d2
           e == StartRecv(d)
<1> USE DEF Ready
<1>1. /\ m \in DOMAIN q /\ m \in Nat /\ d.i.msgs[m] \in Message /\ len \in Nat /\ len > 0
  <2>1. m \in DOMAIN q /\ m \in Nat /\ d.i.msgs[m] \in Message
    BY DEF DeviceOK, Typed, Indices
  <2> QED BY <2>1 DEF DeviceOK, Lengths, Message
<1>2. /\ IsPair(d1) /\ d1.i = [d.i EXCEPT !.rx_msg = m, !.smbus_actual_len = 0]
      /\ d1.h = [d.h EXCEPT !.iier = @ \ TxInterrupts]
  BY DEF IsPair, DeviceFields, CoreFields, IrqDis
<1> HIDE DEF d1
<1>3. CoreOK(d1.h) /\ d1.h.iier \cap TxInterrupts = {} /\ d1.h.txf = d.h.txf /\ d1.h.cr = d.h.cr
  BY <1>2 DEF CoreOK, CoreFields
<1>4. ASSUME NEW mask \in SUBSET (Interrupts \ TxInterrupts), NEW c, IsPair(c), CoreOK(c.h),
             c.h.iier \cap TxInterrupts = {}
      PROVE  /\ IsPair(IrqClrEn(c, mask)) /\ CoreOK(IrqClrEn(c, mask).h) /\ IrqClrEn(c, mask).i = c.i
             /\ IrqClrEn(c, mask).h.iier \cap TxInterrupts = {}
             /\ IrqClrEn(c, mask).h.txf = c.h.txf /\ IrqClrEn(c, mask).h.cr = c.h.cr
  <2>1. /\ IsPair(IrqClrEn(c, mask)) /\ IrqClrEn(c, mask).i = c.i
        /\ IrqClrEn(c, mask).h = [c.h EXCEPT !.iisr = @ \ mask, !.iier = @ \cup mask]
    BY <1>4, IrqClrEnIs, Zenon
  <2> QED BY <1>4, <2>1 DEF CoreOK, CoreFields
<1> HIDE DEF Ready
<1>5. d2 = IF d.i.dynamic THEN da ELSE db
  OBVIOUS
<1>6. IsPair(ca) /\ CoreOK(ca.h) /\ ca.i = d1.i /\ ca.h.iier \cap TxInterrupts = {} /\ ca.h.txf = d.h.txf
  <2>1. {"RXFULL", "TXERR", "BNB"} \in SUBSET (Interrupts \ TxInterrupts)
    BY DEF Interrupts, TxInterrupts
  <2> QED BY <1>2, <1>3, <1>4, <2>1, Zenon
<1>7. /\ IsPair(cb) /\ CoreOK(cb.h) /\ cb.i = d1.i /\ cb.h.iier \cap TxInterrupts = {}
      /\ cb.h.txf = d.h.txf
  <2>1. {"RXFULL", "TXERR"} \in SUBSET (Interrupts \ TxInterrupts)
    BY DEF Interrupts, TxInterrupts
  <2> QED BY <1>2, <1>3, <1>4, <2>1, Zenon
<1> HIDE DEF ca, cb
<1>8. d.h.txf \in Seq(Entry) /\ Len(d.h.txf) <= DEPTH /\ d.h.cr \in SUBSET {"MSMS", "TX", "NOACK", "RSTA"}
  BY DEF Ready, CoreOK
<1>9. /\ Queued(d.h.txf, ea) \in Seq(Entry) /\ Len(Queued(d.h.txf, ea)) <= DEPTH
      /\ Queued(d.h.txf, eb) \in Seq(Entry) /\ Len(Queued(d.h.txf, eb)) <= DEPTH
  <2>1. Addr(m, TRUE, TRUE, FALSE) \in Entry /\ Addr(m, TRUE, FALSE, FALSE) \in Entry
    BY <1>1 DEF Addr, Entry
  <2>2. Length(m, len, last) \in Entry
    BY <1>1 DEF Length, Entry
  <2>3. ea \in Seq(Entry) /\ eb \in Seq(Entry)
    BY <2>1, <2>2, TupleFact, Zenon
  <2> QED BY <2>3, <1>8, QueuedFact, Zenon
<1>10. ra \in Nat /\ ra < DEPTH /\ rb \in Nat /\ rb < DEPTH
  <2>1. len \in Nat /\ len > 0 /\ DEPTH \in Nat /\ DEPTH > 1
    BY <1>1, SizesOK
  <2> HIDE DEF len
  <2>2. ra \in Nat /\ ra < DEPTH
    BY <2>1 DEF MinOf
  <2>3. rb \in Nat /\ rb < DEPTH
    BY <2>1
  <2> QED BY <2>2, <2>3
<1>11. nack \in SUBSET {"NOACK"} /\ rsta \in SUBSET {"RSTA"}
  OBVIOUS
<1> HIDE DEF ra, rb, nack, rsta, ea, eb
<1>12. IsPair(da) /\ CoreOK(da.h) /\ da.i = d1.i /\ da.h.iier \cap TxInterrupts = {}
  BY <1>6, <1>9, <1>10 DEF IsPair, CoreOK, CoreFields
<1>13. IsPair(db) /\ CoreOK(db.h) /\ db.i = d1.i /\ db.h.iier \cap TxInterrupts = {}
  BY <1>7, <1>9, <1>10, <1>11 DEF IsPair, CoreOK, CoreFields
<1> HIDE DEF da, db
<1>14. IsPair(d2) /\ CoreOK(d2.h) /\ d2.i = d1.i /\ d2.h.iier \cap TxInterrupts = {}
  BY <1>12, <1>13
<1> HIDE DEF d2
<1>15. IsPair(d3) /\ CoreOK(d3.h) /\ d3.i = d1.i /\ d3.h.iier \cap TxInterrupts = {}
  <2>1. {"BNB"} \in SUBSET (Interrupts \ TxInterrupts)
    BY DEF Interrupts, TxInterrupts
  <2> QED BY <1>4, <1>14, <2>1
<1>16. e = [d3 EXCEPT !.i.tx_pos = len, !.i.prev_msg_tx = FALSE]
  BY Zenon DEF StartRecv, d3, d2, da, db, ca, cb, d1, ra, rb, nack, rsta, ea, eb, TxInterrupts
<1> HIDE DEF d3, e
<1>17. /\ IsPair(e) /\ e.h = d3.h
       /\ e.i = [d.i EXCEPT !.rx_msg = m, !.smbus_actual_len = 0, !.tx_pos = len, !.prev_msg_tx = FALSE]
  BY <1>2, <1>15, <1>16 DEF IsPair, DeviceFields
<1>18. DeviceOK(d.i, q) /\ d.i.tx_msg # 0 /\ d.i.rx_msg = 0 /\ Untouched(d.i, q, m)
  BY DEF Ready
<1>19. /\ DOMAIN e.i = DOMAIN d.i /\ e.i.rx_msg = m /\ e.i.tx_msg = m /\ e.i.nmsgs = d.i.nmsgs
       /\ e.i.smbus_actual_len = 0 /\ e.i.tx_pos = len /\ e.i.rx_pos = 0
       /\ e.i.msgs = d.i.msgs /\ e.i.filled = d.i.filled /\ e.i.completion = d.i.completion
       /\ e.i.dynamic = d.i.dynamic
  BY <1>17, <1>18 DEF DeviceOK, Typed, DeviceFields
<1>20. Typed(e.i, q) /\ Indices(e.i, q)
  BY <1>1, <1>18, <1>19 DEF DeviceOK, Typed, Indices
<1>21. Lengths(e.i, q)
  BY <1>18, <1>19 DEF DeviceOK, Lengths
<1>22. Reading(e.i, q)
  <2>1. d.i.filled[m] = 0
    BY <1>1, <1>18 DEF Untouched
  <2> QED BY <1>1, <1>19, <2>1 DEF Reading
<1>23. e.i.tx_msg # 0 => Untouched(e.i, q, e.i.tx_msg + 1)
  BY <1>18, <1>19 DEF DeviceOK, Untouched
<1>24. Started(d, e, q)
  BY <1>15, <1>17, <1>19, <1>20, <1>21, <1>22, <1>23 DEF Started, DeviceOK, Quiet
<1> QED BY <1>24 DEF e

\* xiic_start_send()
LEMMA StartSendKeeps ==
  ASSUME NEW d, NEW q \in Seq(Message), Ready(d, q), d.i.tx_pos = 0
  PROVE  Started(d, StartSend(d), q)
<1> DEFINE m == d.i.tx_msg
           more == d.i.nmsgs > 1 \/ TxSpace(d) > 0
           rsta == IF "MSMS" \in d.h.cr THEN {"RSTA"} ELSE {}
           stop == d.i.dynamic /\ d.i.nmsgs = 1 /\ d.i.msgs[m].len = 0
           addr == Addr(m, FALSE, d.i.dynamic, stop)
           d1 == [d EXCEPT !.h.txf = Queued(@, <<addr>>)]
           ma == {"TXEMPTY", "TXERR", "BNB"} \cup (IF more THEN {"TXHALF"} ELSE {})
           mb == {"TXEMPTY", "TXERR", "BNB"}
           ca == IrqClrEn(d1, ma)
           da == FillTxFifo(ca)
           d0 == FillTxFifo(d1)
           cb == [d0 EXCEPT !.h.cr =
                    (IF rsta = {} THEN @ ELSE @ \ {"NOACK"}) \cup rsta \cup {"MSMS", "TX"}]
           db == IrqClrEn(cb, mb)
           d2 == IF d.i.dynamic THEN da ELSE db
           e == StartSend(d)
           Ok(c) == IsPair(c) /\ CoreOK(c.h) /\ SameWork(d.i, c.i) /\ c.i.tx_pos \in Nat
<1>0. e = [d2 EXCEPT !.i.prev_msg_tx = TRUE]
  BY Zenon DEF StartSend
<1>1. /\ IsPair(d) /\ CoreOK(d.h) /\ DeviceOK(d.i, q) /\ d.i.rx_msg = 0 /\ d.i.tx_msg \in Nat
      /\ m \in DOMAIN q
  BY DEF Ready, DeviceOK, Typed, Indices
<1>2. d.i.msgs[m].len \in Nat
  <2>1. d.i.msgs[m] \in Message
    BY <1>1 DEF DeviceOK, Typed
  <2> QED BY <2>1 DEF Message
<1>3. <<addr>> \in Seq(Entry)
  <2>1. d.i.dynamic \in BOOLEAN
    BY <1>1 DEF DeviceOK, Typed
  <2>2. stop \in BOOLEAN
    OBVIOUS
  <2> HIDE DEF stop
  <2>3. addr \in Entry
    BY <1>1, <2>1, <2>2 DEF Addr, Entry
  <2> QED BY <2>3, TupleFact, Zenon
<1>4. Queued(d.h.txf, <<addr>>) \in Seq(Entry) /\ Len(Queued(d.h.txf, <<addr>>)) <= DEPTH
  <2>1. d.h.txf \in Seq(Entry) /\ Len(d.h.txf) <= DEPTH
    BY <1>1 DEF CoreOK
  <2> QED BY <1>3, <2>1, QueuedFact, Zenon
<1>5. ma \in SUBSET Interrupts /\ mb \in SUBSET Interrupts
  BY DEF Interrupts
<1> HIDE DEF addr, ma, mb
<1>6. Ok(d1) /\ d1.i = d.i
  BY <1>1, <1>4 DEF IsPair, CoreOK, CoreFields, SameWork, DeviceOK, Typed
<1> HIDE DEF d1
<1>7. ASSUME NEW c, IsPair(c), CoreOK(c.h), NEW mask \in SUBSET Interrupts
      PROVE  IsPair(IrqClrEn(c, mask)) /\ CoreOK(IrqClrEn(c, mask).h) /\ IrqClrEn(c, mask).i = c.i
  <2>1. /\ IsPair(IrqClrEn(c, mask)) /\ IrqClrEn(c, mask).i = c.i
        /\ IrqClrEn(c, mask).h = [c.h EXCEPT !.iisr = @ \ mask, !.iier = @ \cup mask]
    BY <1>7, IrqClrEnIs, Zenon
  <2> QED BY <1>7, <2>1 DEF CoreOK, CoreFields
<1>8. ASSUME NEW c, IsPair(c), CoreOK(c.h), c.i = d.i
      PROVE  Ok(FillTxFifo(c))
  <2>1. TxSpace(c) \in Nat /\ c.i.tx_pos \in Nat /\ c.i.tx_msg \in Nat
    BY <1>1, <1>2, <1>8 DEF TxSpace
  <2>2. /\ IsPair(FillTxFifo(c)) /\ CoreOK(FillTxFifo(c).h)
        /\ SameWork(c.i, FillTxFifo(c).i) /\ FillTxFifo(c).i.tx_pos \in Nat
    BY <1>8, <2>1, FillKeeps, Zenon
  <2> QED BY <1>8, <2>2
<1>9. Ok(da)
  BY <1>5, <1>6, <1>7, <1>8
<1>10. Ok(d0)
  BY <1>6, <1>8
<1> HIDE DEF d0
<1>11. Ok(cb)
  <2>1. IsPair(cb) /\ CoreOK(cb.h) /\ cb.i = d0.i
    BY <1>10 DEF IsPair, CoreOK, CoreFields
  <2> QED BY <1>10, <2>1
<1> HIDE DEF cb
<1>12. Ok(db)
  BY <1>5, <1>7, <1>11
<1> HIDE DEF da, db
<1>13. Ok(d2)
  BY <1>9, <1>12
<1> HIDE DEF d2, e
<1>14. /\ IsPair(e) /\ e.h = d2.h /\ e.i = [d2.i EXCEPT !.prev_msg_tx = TRUE]
  BY <1>0, <1>13 DEF IsPair
<1>15. SameWork(d.i, e.i) /\ e.i.tx_pos \in Nat
  BY <1>13, <1>14 DEF SameWork, IsPair, DeviceFields
<1>16. DeviceOK(e.i, q)
  BY <1>1, <1>15, SameWorkKeeps, Zenon
<1>17. Started(d, e, q)
  BY <1>1, <1>13, <1>14, <1>15, <1>16 DEF Started, Quiet, SameWork
<1> QED BY <1>17 DEF e

\* __xiic_start_xfer()
LEMMA StartMsgKeeps ==
  ASSUME NEW d, NEW q \in Seq(Message), Ready(d, q)
  PROVE  Started(d, StartMsg(d), q)
<1> DEFINE d1 == [d EXCEPT !.i.rx_pos = 0, !.i.tx_pos = 0, !.i.state = "START"]
<1>1. IsPair(d) /\ CoreOK(d.h) /\ DeviceOK(d.i, q) /\ d.i.tx_msg # 0 /\ d.i.rx_msg = 0
  BY DEF Ready
<1>2. IsPair(d1) /\ d1.h = d.h /\ d1.i = [d.i EXCEPT !.rx_pos = 0, !.tx_pos = 0, !.state = "START"]
  BY <1>1 DEF IsPair, DeviceFields
<1>3. StartMsg(d) = IF d.i.msgs[d.i.tx_msg].rd THEN StartRecv(d1) ELSE StartSend(d1)
  BY <1>1, Zenon DEF StartMsg
<1> HIDE DEF d1
<1>4. /\ DOMAIN d1.i = DOMAIN d.i /\ d1.i.rx_pos = 0 /\ d1.i.tx_pos = 0
      /\ d1.i.tx_msg = d.i.tx_msg /\ d1.i.rx_msg = 0 /\ d1.i.nmsgs = d.i.nmsgs
      /\ d1.i.smbus_actual_len = d.i.smbus_actual_len /\ d1.i.dynamic = d.i.dynamic
      /\ d1.i.msgs = d.i.msgs /\ d1.i.filled = d.i.filled /\ d1.i.completion = d.i.completion
  BY <1>1, <1>2 DEF IsPair, DeviceFields
<1>5. DeviceOK(d1.i, q)
  <2>1. Typed(d1.i, q) /\ Indices(d1.i, q)
    BY <1>1, <1>4 DEF DeviceOK, Typed, Indices
  <2>2. Lengths(d1.i, q) /\ Reading(d1.i, q) /\ Untouched(d1.i, q, d1.i.tx_msg + 1)
    BY <1>1, <1>4 DEF DeviceOK, Lengths, Reading, Untouched
  <2> QED BY <2>1, <2>2 DEF DeviceOK
<1>6. Ready(d1, q)
  BY <1>1, <1>2, <1>4, <1>5 DEF Ready, Untouched
<1>7. CASE d.i.msgs[d.i.tx_msg].rd
  <2>1. Started(d1, StartRecv(d1), q)
    BY <1>4, <1>6, <1>7, StartRecvKeeps, Zenon
  <2> QED BY <2>1, <1>3, <1>4, <1>7 DEF Started
<1>8. CASE ~ d.i.msgs[d.i.tx_msg].rd
  <2>1. Started(d1, StartSend(d1), q)
    BY <1>4, <1>6, <1>8, StartSendKeeps, Zenon
  <2> QED BY <2>1, <1>3, <1>4, <1>8 DEF Started
<1> QED BY <1>7, <1>8

\* The end of a read: the length of a short block is corrected.
LEMMA ReadEnds ==
  ASSUME NEW d, NEW q \in Seq(Message), IsPair(d), CoreOK(d.h), DeviceOK(d.i, q), d.i.rx_msg # 0
  PROVE  LET e == [TrimLen(d) EXCEPT !.i.rx_msg = 0] IN
         /\ IsPair(e) /\ e.h = d.h /\ DeviceOK(e.i, q) /\ e.i.rx_msg = 0
         /\ e.i.tx_msg = d.i.tx_msg /\ e.i.nmsgs = d.i.nmsgs /\ e.i.completion = d.i.completion
<1> DEFINE e == [TrimLen(d) EXCEPT !.i.rx_msg = 0]
           k == d.i.rx_msg
           a == d.i.smbus_actual_len
           g == WithLen(d.i, k, a)
<1>1. /\ IsPair(TrimLen(d)) /\ TrimLen(d).h = d.h
      /\ TrimLen(d).i = IF a # 0 THEN [d.i EXCEPT !.msgs = g] ELSE d.i
  BY TrimIs, Zenon
<1>2. IsPair(e) /\ e.h = d.h /\ e.i = [TrimLen(d).i EXCEPT !.rx_msg = 0]
  BY <1>1 DEF IsPair, DeviceFields
<1> HIDE DEF e
<1>3. /\ DOMAIN e.i = DOMAIN d.i /\ e.i.rx_msg = 0 /\ e.i.rx_pos = d.i.rx_pos /\ e.i.tx_pos = d.i.tx_pos
      /\ e.i.tx_msg = d.i.tx_msg /\ e.i.nmsgs = d.i.nmsgs
      /\ e.i.smbus_actual_len = a /\ e.i.dynamic = d.i.dynamic
      /\ e.i.filled = d.i.filled /\ e.i.completion = d.i.completion
      /\ e.i.msgs = IF a # 0 THEN g ELSE d.i.msgs
  BY <1>1, <1>2 DEF IsPair, DeviceFields
<1>4. /\ k \in DOMAIN q /\ d.i.msgs \in [DOMAIN q -> Message] /\ d.i.msgs[k] \in Message
      /\ a \in Nat /\ d.i.tx_msg \in Nat
  BY DEF DeviceOK, Typed, Indices
<1>5. CASE a = 0
  <2>1. Typed(e.i, q) /\ Indices(e.i, q)
    BY <1>3, <1>5 DEF DeviceOK, Typed, Indices
  <2>2. Lengths(e.i, q) /\ Reading(e.i, q) /\ (e.i.tx_msg # 0 => Untouched(e.i, q, e.i.tx_msg + 1))
    BY <1>3, <1>5 DEF DeviceOK, Lengths, Reading, Untouched
  <2> QED BY <1>2, <1>3, <2>1, <2>2 DEF DeviceOK, e
<1>6. CASE a # 0
  <2>1. q[k].recv /\ ~ d.i.msgs[k].recv /\ a <= 2 /\ d.i.msgs[k].rd
    BY <1>6 DEF DeviceOK, Reading
  <2> DEFINE m == Resized(d.i.msgs[k], a)
  <2>2. m \in Message /\ ~ m.recv /\ m.len = a
    BY <1>4, <2>1 DEF Resized, Message
  <2> HIDE DEF m
  <2>3. /\ e.i.msgs \in [DOMAIN q -> Message] /\ e.i.msgs[k] = m
        /\ \A l \in DOMAIN q : l # k => e.i.msgs[l] = d.i.msgs[l]
    BY <1>3, <1>4, <1>6, <2>2 DEF WithLen, Put, m
  <2>4. Typed(e.i, q) /\ Indices(e.i, q)
    BY <1>3, <2>3 DEF DeviceOK, Typed, Indices
  <2>5. m.len > 0 /\ m.len <= Bound(q[k])
    BY <1>4, <1>6, <2>1, <2>2, SizesOK DEF Bound
  <2>6. Lengths(e.i, q)
    <3> SUFFICES ASSUME NEW l \in DOMAIN q
                 PROVE /\ e.i.msgs[l].rd => e.i.msgs[l].len > 0
                       /\ e.i.msgs[l].recv => q[l].recv /\ e.i.msgs[l].rd /\ e.i.msgs[l].len \in {1, 2}
                       /\ e.i.msgs[l].len <= Bound(q[l])
                       /\ d.i.filled[l] <= Bound(q[l])
      BY <1>3 DEF Lengths
    <3>1. CASE l # k
      BY <3>1, <2>3 DEF DeviceOK, Lengths
    <3>2. CASE l = k
      BY <3>2, <2>2, <2>3, <2>5 DEF DeviceOK, Lengths
    <3> QED BY <3>1, <3>2
  <2>7. Reading(e.i, q) /\ (e.i.tx_msg # 0 => Untouched(e.i, q, e.i.tx_msg + 1))
    BY <1>3 DEF DeviceOK, Reading, Untouched
  <2> QED BY <1>2, <1>3, <2>4, <2>6, <2>7 DEF DeviceOK, e
<1> QED BY <1>5, <1>6 DEF e

\* Once a message is finished the next one is ready to start.
LEMMA NextMsgReady ==
  ASSUME NEW d, NEW q \in Seq(Message), IsPair(d), CoreOK(d.h), DeviceOK(d.i, q),
         d.i.rx_msg = 0, d.i.tx_msg # 0, d.i.nmsgs > 1
  PROVE  /\ Ready(NextMsg(d), q) /\ NextMsg(d).h = d.h
         /\ NextMsg(d).i.completion = d.i.completion
<1> DEFINE e == NextMsg(d)
<1>1. IsPair(e) /\ e.h = d.h /\ e.i = [d.i EXCEPT !.nmsgs = @ - 1, !.tx_msg = @ + 1]
  BY DEF NextMsg, IsPair, DeviceFields
<1> HIDE DEF e
<1>2. /\ DOMAIN e.i = DOMAIN d.i /\ e.i.rx_msg = 0 /\ e.i.rx_pos = d.i.rx_pos /\ e.i.tx_pos = d.i.tx_pos
      /\ e.i.tx_msg = d.i.tx_msg + 1 /\ e.i.nmsgs = d.i.nmsgs - 1
      /\ e.i.smbus_actual_len = d.i.smbus_actual_len /\ e.i.dynamic = d.i.dynamic
      /\ e.i.filled = d.i.filled /\ e.i.completion = d.i.completion /\ e.i.msgs = d.i.msgs
  BY <1>1 DEF IsPair, DeviceFields
<1>3. d.i.tx_msg \in Nat /\ d.i.tx_msg \in DOMAIN q /\ d.i.nmsgs \in Nat /\ d.i.nmsgs = Len(q) - d.i.tx_msg + 1
  BY DEF DeviceOK, Typed, Indices
<1>4. Typed(e.i, q)
  <2>1. Typed(d.i, q)
    BY DEF DeviceOK
  <2>2. e.i.tx_msg \in Nat /\ e.i.nmsgs \in Nat
    BY <1>2, <1>3
  <2> QED BY <1>2, <2>1, <2>2 DEF Typed
<1>5. e.i.tx_msg \in DOMAIN q /\ e.i.nmsgs = Len(q) - e.i.tx_msg + 1
  BY <1>2, <1>3
<1>6. Indices(e.i, q)
  BY <1>2, <1>5 DEF Indices
<1>7. Lengths(e.i, q) /\ Reading(e.i, q)
  BY <1>2 DEF DeviceOK, Lengths, Reading
<1>8. Untouched(e.i, q, e.i.tx_msg)
  BY <1>2 DEF DeviceOK, Untouched
<1>9. Untouched(e.i, q, e.i.tx_msg + 1)
  <2>1. \A k \in DOMAIN q : k \in Nat
    OBVIOUS
  <2> QED BY <1>2, <1>3, <1>8, <2>1 DEF Untouched
<1> QED BY <1>1, <1>2, <1>3, <1>4, <1>6, <1>7, <1>8, <1>9 DEF Ready, DeviceOK, e
-----------------------------------------------------------------------------
(* The handler.                                                             *)

\* The names of the local variables of the handler.
HandlerFields == {"d", "pend", "clr", "more", "wake", "code", "out"}

\* The local variables v of the handler while it works on the messages q.
Working(v, q) ==
  /\ HandlerFields = DOMAIN v
  /\ IsPair(v.d) /\ CoreOK(v.d.h) /\ DeviceOK(v.d.i, q) /\ Quiet(v.d)
  /\ v.clr \in SUBSET Interrupts
  /\ v.more \in BOOLEAN /\ (v.more => Ready(v.d, q))
  /\ v.code # "START"

\* One branch of the handler turns v into w.
Serves(v, w, q) ==
  /\ Working(w, q) /\ w.pend = v.pend /\ w.d.i.completion = v.d.i.completion

\* The receive branch of xiic_process(); without a read it leaves the device alone.
LEMMA OnRxFullKeeps ==
  ASSUME NEW v, NEW q \in Seq(Message), Working(v, q), v.more = FALSE
  PROVE  LET w == OnRxFull(v) IN
         /\ Serves(v, w, q) /\ w.wake = v.wake
         /\ v.d.i.rx_msg = 0 => w.d.i = v.d.i /\ w.more = FALSE
<1> DEFINE w == OnRxFull(v)
           d1 == ReadRx(v.d)
           d2 == [TrimLen(d1) EXCEPT !.i.rx_msg = 0]
           more == d1.i.nmsgs > 1
           d3 == IF more THEN NextMsg(d2) ELSE d2
<1>0. w = IF "RXFULL" \notin v.pend THEN v
          ELSE IF v.d.i.rx_msg = 0
            THEN [v EXCEPT !.clr = @ \cup {"RXFULL"}, !.d.h.rxocc = 0, !.out = TRUE]
          ELSE IF RxSpace(d1) # 0
            THEN [v EXCEPT !.d = d1, !.clr = @ \cup {"RXFULL"}]
          ELSE [v EXCEPT !.d = d3, !.clr = @ \cup {"RXFULL"} \cup (isr \cap {"TXERR"}),
                         !.more = @ \/ more]
  BY Zenon DEF OnRxFull
<1>a. v.clr \cup {"RXFULL"} \in SUBSET Interrupts
  BY DEF Working, Interrupts
<1>b. v.clr \cup {"RXFULL"} \cup (isr \cap {"TXERR"}) \in SUBSET Interrupts
  BY DEF Working, Interrupts
<1>1. CASE "RXFULL" \notin v.pend
  <2>1. w = v
    BY <1>0, <1>1, Zenon
  <2> QED BY <2>1 DEF Serves
<1>2. CASE ~ ("RXFULL" \notin v.pend) /\ v.d.i.rx_msg = 0
  <2>1. w = [v EXCEPT !.clr = @ \cup {"RXFULL"}, !.d.h.rxocc = 0, !.out = TRUE]
    BY <1>0, <1>2, Zenon
  <2> HIDE DEF w
  <2>2. /\ HandlerFields = DOMAIN w /\ w.d.i = v.d.i /\ w.d.h = [v.d.h EXCEPT !.rxocc = 0]
        /\ IsPair(w.d) /\ w.clr = v.clr \cup {"RXFULL"} /\ w.more = v.more /\ w.wake = v.wake
        /\ w.code = v.code /\ w.pend = v.pend
    BY <2>1 DEF Working, HandlerFields, IsPair
  <2>3. CoreOK(w.d.h)
    BY <2>2, SizesOK DEF Working, CoreOK, CoreFields
  <2>4. Working(w, q)
    BY <1>a, <1>2, <2>2, <2>3 DEF Working, Quiet
  <2> QED BY <2>2, <2>4 DEF Serves, w
<1>3. CASE ~ ("RXFULL" \notin v.pend) /\ v.d.i.rx_msg # 0
  <2>1. Keeps(v.d, d1, q)
    BY <1>3, ReadRxKeeps, Zenon DEF Working
  <2>2. CASE RxSpace(d1) # 0
    <3>1. w = [v EXCEPT !.d = d1, !.clr = @ \cup {"RXFULL"}]
      BY <1>0, <1>3, <2>2, Zenon
    <3> HIDE DEF w, d1
    <3>2. /\ HandlerFields = DOMAIN w /\ w.d = d1
          /\ w.clr = v.clr \cup {"RXFULL"} /\ w.more = v.more /\ w.wake = v.wake
          /\ w.code = v.code /\ w.pend = v.pend
      BY <3>1 DEF Working, HandlerFields
    <3>3. Working(w, q)
      BY <1>a, <2>1, <3>2 DEF Working, Quiet, Keeps
    <3> QED BY <1>3, <2>1, <3>2, <3>3 DEF Serves, Keeps, w
  <2>3. CASE ~ (RxSpace(d1) # 0)
    <3>1. w = [v EXCEPT !.d = d3, !.clr = @ \cup {"RXFULL"} \cup (isr \cap {"TXERR"}),
                        !.more = @ \/ more]
      BY <1>0, <1>3, <2>3, Zenon
    <3>2. /\ IsPair(d2) /\ d2.h = d1.h /\ DeviceOK(d2.i, q) /\ d2.i.rx_msg = 0
          /\ d2.i.tx_msg = d1.i.tx_msg /\ d2.i.nmsgs = d1.i.nmsgs
          /\ d2.i.completion = d1.i.completion
      <4>1. IsPair(d1) /\ CoreOK(d1.h) /\ DeviceOK(d1.i, q) /\ d1.i.rx_msg # 0
        BY <1>3, <2>1 DEF Keeps
      <4> HIDE DEF d1
      <4> QED BY <4>1, ReadEnds, Zenon
    <3>3. d1.i.tx_msg # 0 /\ CoreOK(d1.h) /\ d1.i.completion = v.d.i.completion
      <4>1. v.d.i.tx_msg # 0
        BY <1>3 DEF Working, DeviceOK, Indices
      <4> QED BY <2>1, <4>1 DEF Keeps
    <3>4. CASE more
      <4>1. Ready(NextMsg(d2), q) /\ NextMsg(d2).i.completion = d2.i.completion
        <5>1. CoreOK(d2.h) /\ d2.i.tx_msg # 0 /\ d2.i.nmsgs > 1
          BY <3>2, <3>3, <3>4
        <5> HIDE DEF d2
        <5> QED BY <3>2, <5>1, NextMsgReady, Zenon
      <4>2. d3 = NextMsg(d2)
        BY <3>4, Zenon
      <4> HIDE DEF w, d2, d3, more
      <4>3. /\ HandlerFields = DOMAIN w /\ w.d = NextMsg(d2)
            /\ w.clr = v.clr \cup {"RXFULL"} \cup (isr \cap {"TXERR"})
            /\ w.more = TRUE /\ w.wake = v.wake /\ w.code = v.code /\ w.pend = v.pend
        BY <3>1, <3>4, <4>2 DEF Working, HandlerFields
      <4>4. Working(w, q)
        BY <1>b, <4>1, <4>3 DEF Working, Ready, Quiet
      <4> QED BY <1>3, <3>2, <3>3, <4>1, <4>3, <4>4 DEF Serves, w
    <3>5. CASE ~ more
      <4>2. d3 = d2
        BY <3>5, Zenon
      <4> HIDE DEF w, d2, d3, more
      <4>3. /\ HandlerFields = DOMAIN w /\ w.d = d2
            /\ w.clr = v.clr \cup {"RXFULL"} \cup (isr \cap {"TXERR"})
            /\ w.more = FALSE /\ w.wake = v.wake /\ w.code = v.code /\ w.pend = v.pend
        BY <3>1, <3>5, <4>2 DEF Working, HandlerFields
      <4>4. Working(w, q)
        BY <1>b, <3>2, <3>3, <4>3 DEF Working, Quiet
      <4> QED BY <1>3, <3>2, <3>3, <4>3, <4>4 DEF Serves, w
    <3> QED BY <3>4, <3>5
  <2> QED BY <2>2, <2>3
<1> QED BY <1>1, <1>2, <1>3

\* The transmit branch, which never follows a read that ended in the same call.
LEMMA OnTxEmptyKeeps ==
  ASSUME NEW v, NEW q \in Seq(Message), Working(v, q),
         v.pend \cap TxInterrupts # {} => v.d.i.rx_msg = 0 /\ v.more = FALSE
  PROVE  LET w == OnTxEmpty(v) IN
         /\ Serves(v, w, q) /\ w.wake = v.wake
         /\ v.d.i.tx_msg = 0 => w.d.i = v.d.i /\ w.more = v.more
<1> DEFINE w == OnTxEmpty(v)
           bits == v.pend \cap {"TXEMPTY", "TXHALF"}
           c == v.clr \cup bits
           u == [v EXCEPT !.clr = @ \cup bits]
<1>0. w = IF v.out \/ bits = {} THEN v
          ELSE IF v.d.i.tx_msg = 0 THEN [u EXCEPT !.out = TRUE]
          ELSE IF TxSpace(v.d) > 0 THEN [u EXCEPT !.d = FillTxFifo(v.d)]
          ELSE IF v.d.i.nmsgs > 1 /\ "TXEMPTY" \in bits
            THEN [u EXCEPT !.d = NextMsg(v.d), !.more = TRUE]
          ELSE [u EXCEPT !.d = IrqDis(v.d, {"TXHALF"})]
  BY Zenon DEF OnTxEmpty
<1>1. c \in SUBSET Interrupts /\ bits = v.pend \cap TxInterrupts
  BY DEF Working, Interrupts, TxInterrupts
<1>2. /\ HandlerFields = DOMAIN u /\ u.d = v.d /\ u.clr = c /\ u.more = v.more /\ u.wake = v.wake
      /\ u.code = v.code /\ u.pend = v.pend
  BY DEF Working, HandlerFields
<1> HIDE DEF u, w
<1>3. CASE v.out \/ bits = {}
  <2>1. w = v
    BY <1>0, <1>3, Zenon
  <2> QED BY <2>1 DEF Serves, w
<1>4. CASE ~ (v.out \/ bits = {})
  <2>0. v.d.i.rx_msg = 0 /\ v.more = FALSE
    BY <1>1, <1>4
  <2> HIDE DEF bits, c
  <2>1. CASE v.d.i.tx_msg = 0
    <3>1. w = [u EXCEPT !.out = TRUE]
      BY <1>0, <1>4, <2>1, Zenon
    <3>2. /\ HandlerFields = DOMAIN w /\ w.d = v.d /\ w.clr = c /\ w.more = v.more
          /\ w.wake = v.wake /\ w.code = v.code /\ w.pend = v.pend
      BY <1>2, <3>1 DEF HandlerFields
    <3> QED BY <1>1, <3>2 DEF Working, Serves, w
  <2>2. CASE ~ (v.d.i.tx_msg = 0) /\ TxSpace(v.d) > 0
    <3> DEFINE e == FillTxFifo(v.d)
    <3>1. w = [u EXCEPT !.d = e]
      BY <1>0, <1>4, <2>2, Zenon
    <3>2. TxSpace(v.d) \in Nat /\ v.d.i.tx_pos \in Nat /\ v.d.i.tx_msg \in Nat
      <4>1. v.d.i.tx_msg \in Nat /\ v.d.i.tx_pos \in Nat /\ v.d.i.msgs[v.d.i.tx_msg] \in Message
        BY <2>2 DEF Working, DeviceOK, Typed, Indices
      <4>2. v.d.i.msgs[v.d.i.tx_msg].len \in Nat
        BY <4>1 DEF Message
      <4>3. v.d.i.msgs[v.d.i.tx_msg].len - v.d.i.tx_pos > 0
        BY <2>2 DEF TxSpace
      <4>4. v.d.i.msgs[v.d.i.tx_msg].len - v.d.i.tx_pos \in Nat
        <5> DEFINE l == v.d.i.msgs[v.d.i.tx_msg].len
                   p == v.d.i.tx_pos
        <5>1. l \in Nat /\ p \in Nat /\ l - p > 0
          BY <4>1, <4>2, <4>3
        <5> HIDE DEF l, p
        <5>2. l - p \in Nat
          BY <5>1
        <5> QED BY <5>2 DEF l, p
      <4> QED BY <4>1, <4>4 DEF TxSpace
    <3>3. /\ IsPair(e) /\ CoreOK(e.h) /\ e.h.iier = v.d.h.iier
          /\ SameWork(v.d.i, e.i) /\ e.i.tx_pos \in Nat
      BY <3>2, FillKeeps, Zenon DEF Working
    <3> HIDE DEF e
    <3>4. DeviceOK(e.i, q)
      BY <3>3, SameWorkKeeps, Zenon DEF Working
    <3>5. /\ HandlerFields = DOMAIN w /\ w.d = e /\ w.clr = c /\ w.more = FALSE
          /\ w.wake = v.wake /\ w.code = v.code /\ w.pend = v.pend
      BY <1>2, <2>0, <3>1 DEF HandlerFields
    <3>6. Quiet(e) /\ e.i.completion = v.d.i.completion
      BY <2>0, <3>3 DEF SameWork, Quiet
    <3>7. Working(w, q)
      BY <1>1, <3>3, <3>4, <3>5, <3>6 DEF Working
    <3> QED BY <2>2, <3>5, <3>6, <3>7 DEF Serves, w
  <2>3. CASE ~ (v.d.i.tx_msg = 0) /\ ~ (TxSpace(v.d) > 0) /\ v.d.i.nmsgs > 1 /\ "TXEMPTY" \in bits
    <3>1. w = [u EXCEPT !.d = NextMsg(v.d), !.more = TRUE]
      BY <1>0, <1>4, <2>3, Zenon
    <3>2. /\ HandlerFields = DOMAIN w /\ w.d = NextMsg(v.d) /\ w.clr = c /\ w.more = TRUE
          /\ w.wake = v.wake /\ w.code = v.code /\ w.pend = v.pend
      BY <1>2, <3>1 DEF HandlerFields
    <3>3. /\ Ready(NextMsg(v.d), q) /\ NextMsg(v.d).i.completion = v.d.i.completion
      BY <2>0, <2>3, NextMsgReady, Zenon DEF Working
    <3>4. Working(w, q)
      BY <1>1, <3>2, <3>3 DEF Working, Ready, Quiet
    <3> QED BY <2>3, <3>2, <3>3, <3>4 DEF Serves, w
  <2>4. CASE /\ ~ (v.d.i.tx_msg = 0) /\ ~ (TxSpace(v.d) > 0)
             /\ ~ (v.d.i.nmsgs > 1 /\ "TXEMPTY" \in bits)
    <3> DEFINE e == IrqDis(v.d, {"TXHALF"})
    <3>1. w = [u EXCEPT !.d = e]
      BY <1>0, <1>4, <2>4, Zenon
    <3>2. /\ HandlerFields = DOMAIN w /\ w.d = e /\ w.clr = c /\ w.more = FALSE
          /\ w.wake = v.wake /\ w.code = v.code /\ w.pend = v.pend
      BY <1>2, <2>0, <3>1 DEF HandlerFields
    <3>3. /\ IsPair(e) /\ e.i = v.d.i /\ e.h = [v.d.h EXCEPT !.iier = @ \ {"TXHALF"}]
      BY IrqDisIs, Zenon DEF Working
    <3>4. CoreOK(e.h)
      BY <3>3 DEF Working, CoreOK, CoreFields
    <3>5. Working(w, q)
      BY <1>1, <2>0, <3>2, <3>3, <3>4 DEF Working, Quiet
    <3> QED BY <2>4, <3>2, <3>3, <3>5 DEF Serves, w
  <2> QED BY <2>1, <2>2, <2>3, <2>4
<1> QED BY <1>3, <1>4 DEF w

\* The bus-not-busy branch.
LEMMA OnBusNotBusyKeeps ==
  ASSUME NEW v, NEW q \in Seq(Message), Working(v, q)
  PROVE  LET w == OnBusNotBusy(v) IN
         /\ Serves(v, w, q)
         /\ v.d.i.tx_msg = 0 => w.d.i = v.d.i /\ w.more = v.more /\ w.wake = v.wake
<1> DEFINE w == OnBusNotBusy(v)
           i == v.d.i
           block == i.tx_msg # 0 /\ i.smbus_block_read
           d1 == IrqDis(v.d, {"BNB"})
           d2 == IF block
                   THEN [d1 EXCEPT !.i.smbus_block_read = FALSE,
                                   !.i.tx_pos = i.msgs[i.tx_msg].len]
                   ELSE d1
           done == i.nmsgs = 1 /\ i.rx_msg = 0 /\ TxSpace(d2) = 0
           u == [v EXCEPT !.d = d2, !.clr = @ \cup {"BNB"}]
           end == IF done THEN "DONE" ELSE "ERROR"
<1>0. w = IF v.out \/ "BNB" \notin v.pend THEN v
          ELSE IF i.tx_msg = 0 THEN u
          ELSE [u EXCEPT !.wake = TRUE, !.code = end]
  BY Zenon DEF OnBusNotBusy
<1>1. IsPair(d1) /\ d1.i = i /\ d1.h = [v.d.h EXCEPT !.iier = @ \ {"BNB"}]
  BY IrqDisIs, Zenon DEF Working
<1> HIDE DEF d1
<1>2. CoreOK(d1.h) /\ d1.h.iier = v.d.h.iier \ {"BNB"}
  BY <1>1 DEF Working, CoreOK, CoreFields
<1>3. IsPair(d2) /\ d2.h = d1.h /\ SameWork(i, d2.i) /\ d2.i.tx_pos \in Nat /\ (~ block => d2.i = i)
  <2>1. i.tx_pos \in Nat /\ (i.tx_msg # 0 => i.msgs[i.tx_msg] \in Message)
    BY DEF Working, DeviceOK, Typed, Indices
  <2>2. i.tx_msg # 0 => i.msgs[i.tx_msg].len \in Nat
    BY <2>1 DEF Message
  <2>3. CASE block
    BY <1>1, <2>2, <2>3 DEF IsPair, DeviceFields, SameWork
  <2>4. CASE ~ block
    BY <1>1, <2>1, <2>4 DEF SameWork
  <2> QED BY <2>3, <2>4
<1> HIDE DEF d2
<1>4. DeviceOK(d2.i, q)
  BY <1>3, SameWorkKeeps, Zenon DEF Working
<1>5. Quiet(d2) /\ d2.i.completion = i.completion
  BY <1>2, <1>3 DEF Working, Quiet, SameWork
<1>6. v.more => Ready(d2, q)
  BY <1>2, <1>3, <1>4 DEF Working, Ready, SameWork, Untouched
<1>7. /\ HandlerFields = DOMAIN u /\ u.d = d2 /\ u.clr = v.clr \cup {"BNB"} /\ u.more = v.more
      /\ u.wake = v.wake /\ u.code = v.code /\ u.pend = v.pend
  BY DEF Working, HandlerFields
<1>8. v.clr \cup {"BNB"} \in SUBSET Interrupts
  BY DEF Working, Interrupts
<1>9. end \in {"DONE", "ERROR"}
  OBVIOUS
<1> HIDE DEF u, w, end
<1>10. CASE v.out \/ "BNB" \notin v.pend
  <2>1. w = v
    BY <1>0, <1>10, Zenon
  <2> QED BY <2>1 DEF Serves, w
<1>11. CASE ~ (v.out \/ "BNB" \notin v.pend) /\ i.tx_msg = 0
  <2>1. w = u
    BY <1>0, <1>11, Zenon
  <2>2. Working(w, q)
    BY <1>2, <1>3, <1>4, <1>5, <1>6, <1>7, <1>8, <2>1 DEF Working
  <2> QED BY <1>3, <1>5, <1>7, <1>11, <2>1, <2>2 DEF Serves, w
<1>12. CASE ~ (v.out \/ "BNB" \notin v.pend) /\ ~ (i.tx_msg = 0)
  <2>1. w = [u EXCEPT !.wake = TRUE, !.code = end]
    BY <1>0, <1>12, Zenon
  <2>2. /\ HandlerFields = DOMAIN w /\ w.d = d2 /\ w.clr = v.clr \cup {"BNB"} /\ w.more = v.more
        /\ w.code = end /\ w.pend = v.pend
    BY <1>7, <2>1 DEF HandlerFields
  <2>3. Working(w, q)
    BY <1>2, <1>3, <1>4, <1>5, <1>6, <1>8, <1>9, <2>2 DEF Working
  <2> QED BY <1>5, <1>12, <2>2, <2>3 DEF Serves, w
<1> QED BY <1>10, <1>11, <1>12 DEF w

\* i is j without the transfer.
Dropped(i, j) ==
  /\ DOMAIN j = DOMAIN i /\ j.tx_msg = 0 /\ j.rx_msg = 0 /\ j.nmsgs = 0
  /\ j.rx_pos = i.rx_pos /\ j.tx_pos = i.tx_pos /\ j.dynamic = i.dynamic
  /\ j.smbus_actual_len = i.smbus_actual_len /\ j.msgs = i.msgs /\ j.filled = i.filled

\* A device without a transfer satisfies DeviceOK for any messages it still holds.
LEMMA DroppedKeeps ==
  ASSUME NEW i, NEW j, NEW q \in Seq(Message), DeviceOK(i, q), Dropped(i, j)
  PROVE  DeviceOK(j, q)
<1>1. Typed(j, q)
  BY DEF DeviceOK, Typed, Dropped
<1>2. Lengths(j, q)
  BY DEF DeviceOK, Lengths, Dropped
<1> QED BY <1>1, <1>2 DEF DeviceOK, Indices, Reading, Dropped

LEMMA ForgetKeeps ==
  ASSUME NEW i, NEW q \in Seq(Message), DeviceOK(i, q)
  PROVE  /\ DeviceOK(Forget(i), q) /\ Forget(i).tx_msg = 0 /\ Forget(i).rx_msg = 0
         /\ Forget(i).completion = i.completion /\ Forget(i).state = i.state
<1>1. /\ Dropped(i, Forget(i)) /\ Forget(i).completion = i.completion
      /\ Forget(i).state = i.state
  BY DEF DeviceOK, Typed, DeviceFields, Forget, Dropped
<1> QED BY <1>1, DroppedKeeps DEF Dropped

LEMMA WakeupKeeps ==
  ASSUME NEW i, NEW q \in Seq(Message), DeviceOK(i, q), NEW c
  PROVE  /\ DeviceOK(Wakeup(i, c), q) /\ Wakeup(i, c).tx_msg = 0 /\ Wakeup(i, c).rx_msg = 0
         /\ Wakeup(i, c).completion = TRUE /\ Wakeup(i, c).state = c
<1>1. /\ Dropped(i, Wakeup(i, c)) /\ Wakeup(i, c).completion = TRUE
      /\ Wakeup(i, c).state = c
  BY DEF DeviceOK, Typed, DeviceFields, Forget, Wakeup, Dropped
<1> QED BY <1>1, DroppedKeeps DEF Dropped

\* After a reset only lost arbitration interrupts, after a failed one nothing does.
LEMMA ResetKeeps ==
  ASSUME NEW h, CoreOK(h)
  PROVE  /\ CoreOK(ResetCore(h)) /\ ResetCore(h).iier = {"ARB"}
         /\ CoreOK(ResetFailed(h)) /\ ResetFailed(h).iier = {}
<1>1. DEPTH - 1 \in Nat /\ DEPTH - 1 < DEPTH /\ 0 <= DEPTH /\ 0 < DEPTH
  BY SizesOK
<1>2. <<>> \in Seq(Entry) /\ Len(<<>>) = 0
  OBVIOUS
<1>3. CoreOK(ResetCore(h)) /\ ResetCore(h).iier = {"ARB"}
  BY <1>1, <1>2 DEF CoreOK, CoreFields, ResetCore, Interrupts
<1>4. CoreOK(ResetFailed(h)) /\ ResetFailed(h).iier = {}
  BY <1>3 DEF CoreOK, CoreFields, ResetFailed
<1> QED BY <1>3, <1>4

\* The three branches together.  With no transfer in progress nothing is done.
LEMMA HandledKeeps ==
  ASSUME req \in Seq(Message), DeviceOK(i2c, req), CoreOK(hw), Quiet(Now), ier = hw.iier
  PROVE  /\ Working(Handled, req) /\ Handled.d.i.completion = i2c.completion
         /\ ~ Busy => Handled.d.i = i2c /\ Handled.more = FALSE /\ Handled.wake = FALSE
<1> DEFINE v1 == OnRxFull(Handler)
           v2 == OnTxEmpty(v1)
           v3 == OnBusNotBusy(v2)
<1>1. /\ HandlerFields = DOMAIN Handler /\ Handler.d = Now /\ Handler.more = FALSE
      /\ Handler.wake = FALSE /\ Handler.code = "DONE"
      /\ Handler.clr \in SUBSET Interrupts
      /\ Handler.pend \cap TxInterrupts \subseteq ier
  BY DEF HandlerFields, Handler, Interrupts, Pending, TxInterrupts
<1>2. IsPair(Now) /\ Now.i = i2c /\ Now.h = hw
  BY DEF Now, D, IsPair, CoreOK, DeviceOK, Typed
<1>3. Working(Handler, req)
  BY <1>1, <1>2 DEF Working
<1>4. /\ Serves(Handler, v1, req) /\ v1.wake = FALSE
      /\ i2c.rx_msg = 0 => v1.d.i = i2c /\ v1.more = FALSE
  <2>1. /\ Serves(Handler, v1, req) /\ v1.wake = Handler.wake
        /\ Handler.d.i.rx_msg = 0 => v1.d.i = Handler.d.i /\ v1.more = FALSE
    BY <1>1, <1>3, OnRxFullKeeps, Zenon
  <2> QED BY <1>1, <1>2, <2>1
<1> HIDE DEF v1
<1>5. v1.pend \cap TxInterrupts # {} => v1.d.i.rx_msg = 0 /\ v1.more = FALSE
  <2>1. hw.iier \cap TxInterrupts # {} => i2c.rx_msg = 0
    BY <1>2 DEF Quiet
  <2> QED BY <1>1, <1>4, <2>1 DEF Serves
<1>6. /\ Serves(v1, v2, req) /\ v2.wake = v1.wake
      /\ v1.d.i.tx_msg = 0 => v2.d.i = v1.d.i /\ v2.more = v1.more
  BY <1>4, <1>5, OnTxEmptyKeeps, Zenon DEF Serves
<1> HIDE DEF v2
<1>7. /\ Serves(v2, v3, req)
      /\ v2.d.i.tx_msg = 0 => v3.d.i = v2.d.i /\ v3.more = v2.more /\ v3.wake = v2.wake
  BY <1>6, OnBusNotBusyKeeps, Zenon DEF Serves
<1>8. Handled = v3
  BY Zenon DEF Handled, v1, v2
<1> HIDE DEF v3
<1>9. Working(v3, req) /\ v3.d.i.completion = i2c.completion
  BY <1>1, <1>2, <1>4, <1>6, <1>7 DEF Serves
<1>10. ~ Busy => v3.d.i = i2c /\ v3.more = FALSE /\ v3.wake = FALSE
  BY <1>4, <1>6, <1>7 DEF Busy
<1> QED BY <1>8, <1>9, <1>10

\* The state after the messages x have been taken over.
LEMMA SubmittedReady ==
  ASSUME TypesInv, StateInv, NEW x \in load.transfers
  PROVE  /\ x \in Seq(Message) /\ CoreOK(CoreFor(x))
         /\ Ready(D(Submitted(x), CoreFor(x)), x) /\ Submitted(x).completion = FALSE
<1> DEFINE j == Submitted(x)
           h == CoreFor(x)
           none == [k \in 1 .. Len(x) |-> 0]
<1>1. load \in Workload
  BY WorkloadsOK DEF TypesInv
<1>2. x \in Seq(Message)
  BY <1>1 DEF Workload
<1>3. /\ x # <<>>
      /\ \A i \in 1 .. Len(x) :
           /\ x[i].rd => x[i].len > 0
           /\ x[i].recv => x[i].rd /\ x[i].len \in {1, 2}
  BY WorkloadsOK DEF TypesInv
<1>4. /\ DeviceFields = DOMAIN i2c /\ i2c.tx_pos \in Nat /\ i2c.rx_pos \in Nat
      /\ i2c.smbus_actual_len \in Nat
  BY DEF StateInv, DeviceOK, Typed
<1>5. /\ DeviceFields = DOMAIN j /\ j.msgs = x /\ j.filled = none /\ j.tx_msg = 1 /\ j.rx_msg = 0
      /\ j.nmsgs = Len(x) /\ j.completion = FALSE /\ j.tx_pos = i2c.tx_pos
      /\ j.rx_pos = i2c.rx_pos /\ j.smbus_actual_len = i2c.smbus_actual_len
      /\ j.dynamic = ~ Standard(x, i2c.broken)
  BY <1>4 DEF Submitted, DeviceFields
<1>6. j.dynamic \in BOOLEAN
  BY <1>5
<1>7. none \in [DOMAIN x -> Nat] /\ \A k \in DOMAIN x : none[k] = 0
  BY <1>2
<1>8. x \in [DOMAIN x -> Message] /\ Len(x) \in Nat /\ 1 \in DOMAIN x
  BY <1>2, <1>3
<1> HIDE DEF j, none
<1>9. Typed(j, x)
  BY <1>4, <1>5, <1>6, <1>7, <1>8 DEF Typed
<1>10. Indices(j, x)
  <2>1. Len(x) = Len(x) - 1 + 1
    BY <1>8
  <2> QED BY <1>5, <1>8, <2>1 DEF Indices
<1>11. Lengths(j, x)
  <2> SUFFICES ASSUME NEW k \in DOMAIN x
               PROVE /\ x[k].rd => x[k].len > 0
                     /\ x[k].recv => x[k].rd /\ x[k].len \in {1, 2}
                     /\ x[k].len <= Bound(x[k])
                     /\ 0 <= Bound(x[k])
    BY <1>5, <1>7 DEF Lengths
  <2>1. /\ x[k].rd => x[k].len > 0
        /\ x[k].recv => x[k].rd /\ x[k].len \in {1, 2}
    BY <1>2, <1>3
  <2>2. x[k] \in Message
    BY <1>8
  <2>3. Bound(x[k]) \in Nat
    BY <2>2, BoundType
  <2>4. x[k].len <= Bound(x[k])
    BY <2>1, <2>2, SizesOK DEF Bound, Message
  <2> QED BY <2>1, <2>3, <2>4
<1>12. Reading(j, x) /\ Untouched(j, x, 1) /\ Untouched(j, x, j.tx_msg + 1)
  BY <1>5, <1>7 DEF Reading, Untouched
<1>13. CoreOK(h)
  <2>1. CoreOK(ResetCore(hw))
    BY ResetKeeps DEF StateInv
  <2> QED BY <2>1 DEF CoreFor, CoreOK, CoreFields
<1> HIDE DEF h
<1>14. IsPair(D(j, h)) /\ D(j, h).i = j /\ D(j, h).h = h
  BY <1>5, <1>13 DEF D, IsPair, CoreOK
<1>15. Ready(D(j, h), x)
  BY <1>5, <1>9, <1>10, <1>11, <1>12, <1>13, <1>14 DEF Ready, DeviceOK
<1> QED BY <1>2, <1>5, <1>13, <1>15 DEF j, h
-----------------------------------------------------------------------------
(* The actions.                                                             *)

\* What the core and the bus do leaves the interrupts that are enabled alone.
LEMMA CoreStepKeeps ==
  ASSUME CoreOK(hw), Core
  PROVE  CoreOK(hw') /\ hw'.iier = hw.iier
<1> USE DEF CoreFields
<1>0. /\ hw.iisr \in SUBSET Interrupts /\ hw.cr \in SUBSET {"MSMS", "TX", "NOACK", "RSTA"}
      /\ hw.txf \in Seq(Entry) /\ Len(hw.txf) <= DEPTH /\ hw.rxocc \in Nat /\ DEPTH \in Nat
  BY SizesOK DEF CoreOK
<1>1. CASE HwLevel
  <2>1. LevelSources \in SUBSET Interrupts
    BY DEF LevelSources, Interrupts
  <2> QED BY <1>1, <2>1 DEF CoreOK, HwLevel
<1>2. CASE HwSend
  <2> DEFINE e == Head(hw.txf)
             one == Tail(hw.txf)
             two == Tail(one)
  <2>1. hw.txf # <<>>
    BY <1>2 DEF HwSend, CanSend
  <2>2. one \in Seq(Entry) /\ Len(one) <= DEPTH
    BY <1>0, <2>1
  <2>3. CASE e.kind = "addr" /\ e.rd /\ e.dyn
    <3>1. Len(hw.txf) > 1
      BY <1>2, <2>3 DEF HwSend, CanSend
    <3>2. one # <<>>
      <4>1. Len(hw.txf) \in Nat /\ Len(one) = Len(hw.txf) - 1
        BY <1>0, <2>1
      <4> HIDE DEF one
      <4> QED BY <3>1, <4>1
    <3>3. two \in Seq(Entry) /\ Len(two) <= DEPTH
      BY <1>0, <2>2, <3>2
    <3> HIDE DEF one, two
    <3>4. hw' = [hw EXCEPT !.txf = two, !.mode = "rx", !.cur = e.msg, !.dyn = TRUE,
                           !.left = Head(one).n, !.autostop = Head(one).stop]
      BY <1>2, <2>3 DEF HwSend, one, two
    <3> QED BY <3>3, <3>4 DEF CoreOK
  <2>4. CASE ~ (e.kind = "addr" /\ e.rd /\ e.dyn) /\ e.kind = "addr" /\ e.rd
    <3> HIDE DEF one
    <3>1. hw' = [hw EXCEPT !.txf = one, !.mode = "rx", !.cur = e.msg, !.dyn = FALSE,
                           !.cr = @ \ {"RSTA"}, !.autostop = FALSE]
      BY <1>2, <2>4 DEF HwSend, one
    <3> QED BY <2>2, <3>1 DEF CoreOK
  <2>5. CASE ~ (e.kind = "addr" /\ e.rd /\ e.dyn) /\ ~ (e.kind = "addr" /\ e.rd)
    <3> DEFINE cr == IF e.kind = "addr" THEN hw.cr \ {"RSTA"} ELSE hw.cr
               mode == IF e.stop THEN "stop" ELSE "hold"
    <3>1. cr \in SUBSET {"MSMS", "TX", "NOACK", "RSTA"}
      BY <1>0
    <3> HIDE DEF one
    <3>2. /\ hw'.txf = one /\ hw'.cr = cr /\ hw'.iisr = hw.iisr /\ hw'.iier = hw.iier
          /\ hw'.rfd = hw.rfd /\ hw'.rxocc = hw.rxocc /\ hw'.byte = hw.byte
          /\ DOMAIN hw' = DOMAIN hw
      BY <1>2, <2>5 DEF HwSend, one, CoreOK
    <3> HIDE DEF cr
    <3> QED BY <2>2, <3>1, <3>2 DEF CoreOK
  <2> QED BY <2>3, <2>4, <2>5
<1>3. CASE HwByteStarts
  <2>1. hw.rxocc < DEPTH
    BY <1>0, <1>3 DEF HwByteStarts, CoreOK
  <2> QED BY <1>3, <2>1 DEF CoreOK, HwByteStarts
<1>4. CASE HwByteEnds
  <2>1. hw.rxocc + 1 \in Nat /\ hw.rxocc + 1 <= DEPTH
    BY <1>0, <1>4 DEF HwByteEnds, CoreOK
  <2>2. hw'.iisr \in SUBSET Interrupts
    BY <1>0, <1>4 DEF HwByteEnds, CoreOK, Interrupts
  <2>3. /\ hw'.txf = hw.txf /\ hw'.cr = hw.cr /\ hw'.iier = hw.iier
        /\ hw'.rfd = hw.rfd /\ hw'.rxocc = hw.rxocc + 1 /\ hw'.byte = "none"
        /\ DOMAIN hw' = DOMAIN hw
    BY <1>4 DEF HwByteEnds, CoreOK
  <2> QED BY <2>1, <2>2, <2>3 DEF CoreOK
<1>5. CASE HwStop
  BY <1>5 DEF CoreOK, HwStop, Interrupts
<1>6. CASE HwNack
  <2>1. <<>> \in Seq(Entry) /\ Len(<<>>) <= DEPTH
    BY <1>0
  <2>2. /\ hw'.iisr \in SUBSET Interrupts /\ hw'.txf = <<>> /\ hw'.cr = hw.cr
        /\ hw'.iier = hw.iier /\ hw'.rfd = hw.rfd /\ hw'.rxocc = hw.rxocc /\ hw'.byte = hw.byte
        /\ DOMAIN hw' = DOMAIN hw
    BY <1>0, <1>6 DEF HwNack, CoreOK, Interrupts
  <2> QED BY <2>1, <2>2 DEF CoreOK
<1>7. CASE HwArbLost
  BY <1>7 DEF CoreOK, HwArbLost, Interrupts
<1> QED BY <1>1, <1>2, <1>3, <1>4, <1>5, <1>6, <1>7 DEF Core, BusSteps

\* IInv holds at first.
LEMMA InitIInv == Init => IInv
<1> SUFFICES ASSUME Init PROVE IInv
  OBVIOUS
<1>1. load \in Workload /\ load.count \in Nat
  BY WorkloadsOK DEF Init, Workload
<1>2. TypesInv
  BY <1>1 DEF Init, TypesInv, Ret
<1>3. /\ req = <<>> /\ i2c.tx_msg = 0 /\ i2c.rx_msg = 0 /\ i2c.nmsgs = 0 /\ i2c.tx_pos = 0
      /\ i2c.rx_pos = 0 /\ i2c.smbus_actual_len = 0 /\ i2c.dynamic = FALSE
      /\ i2c.msgs = <<>> /\ i2c.filled = <<>> /\ DeviceFields = DOMAIN i2c
      /\ i2c.completion = FALSE /\ i2c.completion \in BOOLEAN /\ i2c.dynamic \in BOOLEAN
  BY DEF Init, DeviceFields
<1>4. req \in Seq(Message) /\ DOMAIN req = {}
  BY <1>3
<1>5. i2c.msgs \in [DOMAIN req -> Message] /\ i2c.filled \in [DOMAIN req -> Nat]
  BY <1>3
<1>6. DeviceOK(i2c, req)
  <2>1. Typed(i2c, req)
    BY <1>3, <1>5 DEF Typed
  <2>2. Indices(i2c, req) /\ Reading(i2c, req)
    BY <1>3 DEF Indices, Reading
  <2>3. Lengths(i2c, req)
    BY <1>4 DEF Lengths
  <2> QED BY <1>3, <2>1, <2>2, <2>3 DEF DeviceOK
<1>7. DEPTH - 1 \in Nat /\ DEPTH - 1 < DEPTH /\ 0 <= DEPTH
  BY SizesOK
<1>8. CoreOK(hw)
  BY <1>7 DEF Init, CoreOK, CoreFields, Interrupts
<1>9. Quiet(Now)
  BY <1>3 DEF Now, D, Quiet
<1>10. SnapshotInv /\ EndInv /\ OwnerInv
  BY <1>3 DEF Init, SnapshotInv, EndInv, OwnerInv, Busy
<1> QED BY <1>2, <1>4, <1>6, <1>8, <1>9, <1>10 DEF IInv, StateInv

\* xiic_start_xfer() on accepted messages, to its end or to a failed reset.
LEMMA CallerKeeps ==
  ASSUME IInv, NEW x \in load.transfers, StartXfer(x) \/ StartXferFails(x)
  PROVE  IInv'
<1> USE DEF IInv
<1>0. load \in Workload /\ load.count \in Nat
  BY WorkloadsOK DEF TypesInv, Workload
<1>1. TypesInv'
  BY <1>0 DEF TypesInv, StartXfer, StartXferFails, Call, Return, Ret
<1>2. /\ x \in Seq(Message) /\ CoreOK(CoreFor(x))
      /\ Ready(D(Submitted(x), CoreFor(x)), x) /\ Submitted(x).completion = FALSE
  BY SubmittedReady
<1>3. irq' = "idle" /\ req' = x /\ caller' \in {"idle", "wait"}
  BY DEF StartXfer, StartXferFails, Call, Return
<1>4. CASE StartXfer(x)
  <2> DEFINE d == D(Submitted(x), CoreFor(x))
             e == StartMsg(d)
  <2>1. Started(d, e, x)
    BY <1>2, StartMsgKeeps, Zenon
  <2>2. i2c' = e.i /\ hw' = e.h /\ caller' = "wait"
    BY <1>4 DEF StartXfer
  <2> HIDE DEF e
  <2>3. e.i.completion = FALSE
    BY <1>2, <2>1 DEF Started, D
  <2>4. StateInv'
    BY <1>2, <1>3, <2>1, <2>2 DEF Started, StateInv, Now, D, Quiet
  <2> QED BY <1>1, <1>3, <2>2, <2>3, <2>4 DEF SnapshotInv, EndInv, OwnerInv
<1>5. CASE StartXferFails(x)
  <2>1. i2c' = Submitted(x) /\ hw' = ResetFailed(CoreFor(x))
    BY <1>5 DEF StartXferFails
  <2>2. CoreOK(hw') /\ hw'.iier = {}
    BY <1>2, <2>1, ResetKeeps
  <2>3. DeviceOK(i2c', x)
    BY <1>2, <2>1 DEF Ready, D
  <2>4. StateInv'
    BY <1>2, <1>3, <2>2, <2>3 DEF StateInv, Now, D, Quiet
  <2> QED BY <1>1, <1>2, <1>3, <2>1, <2>2, <2>4 DEF SnapshotInv, EndInv, OwnerInv
<1> QED BY <1>4, <1>5

\* The refusals, the end of xfer(), the core, and the snapshot of the handler.
LEMMA OthersKeep ==
  ASSUME IInv, StartXferRefused \/ WokenUp \/ FinishXfer \/ Core \/ IrqEnter
  PROVE  IInv'
<1> USE DEF IInv
<1>0. load \in Workload /\ load.count \in Nat
  BY WorkloadsOK DEF TypesInv, Workload
<1>1. CASE StartXferRefused
  <2>1. TypesInv'
    BY <1>0, <1>1 DEF TypesInv, StartXferRefused, Call, Return, Ret
  <2>2. /\ caller' = "idle" /\ irq' = "idle" /\ UNCHANGED <<req, i2c>>
        /\ hw' = hw \/ (~ Busy /\ hw' \in {ResetCore(hw), ResetFailed(hw)})
    BY <1>1 DEF StartXferRefused, Call, Return
  <2>3. CoreOK(hw') /\ (Busy => hw' = hw)
    BY <2>2, ResetKeeps DEF StateInv
  <2>4. StateInv'
    BY <2>2, <2>3 DEF StateInv, Now, D, Quiet, Busy
  <2>5. OwnerInv'
    BY <1>1, <2>2, <2>3 DEF OwnerInv, Busy, StartXferRefused, Call
  <2> QED BY <2>1, <2>2, <2>4, <2>5 DEF SnapshotInv, EndInv, Busy
<1>2. CASE WokenUp
  BY <1>2 DEF WokenUp, TypesInv, StateInv, SnapshotInv, EndInv, OwnerInv, Now, Busy
<1>3. CASE FinishXfer
  <2>1. TypesInv'
    BY <1>3 DEF TypesInv, FinishXfer, Return, Ret
  <2>2. irq' = "idle" /\ caller' = "idle" /\ UNCHANGED <<req, hw>> /\ i2c' \in {i2c, Forget(i2c)}
    BY <1>3 DEF FinishXfer, Return
  <2>3. /\ DeviceOK(i2c', req) /\ i2c'.tx_msg = 0 /\ i2c'.rx_msg = 0
        /\ i2c'.completion = i2c.completion /\ i2c'.state = i2c.state
    <3>1. CASE caller = "timedout"
      <4>1. i2c' = Forget(i2c)
        BY <1>3, <3>1 DEF FinishXfer
      <4> QED BY <4>1, ForgetKeeps DEF StateInv
    <3>2. CASE caller = "woken"
      BY <1>3, <3>2 DEF FinishXfer, StateInv, EndInv, Busy
    <3> QED BY <1>3, <3>1, <3>2 DEF FinishXfer
  <2>4. StateInv'
    BY <2>2, <2>3 DEF StateInv, Now, D, Quiet
  <2> QED BY <2>1, <2>2, <2>3, <2>4 DEF SnapshotInv, EndInv, OwnerInv, Busy
<1>4. CASE Core
  <2>1. CoreOK(hw') /\ hw'.iier = hw.iier
    BY <1>4, CoreStepKeeps DEF StateInv
  <2>2. UNCHANGED <<load, caller, ret, req, count, i2c, irq, isr, ier>>
    BY <1>4 DEF Core
  <2>3. Quiet(Now')
    BY <2>1, <2>2 DEF StateInv, Now, D, Quiet
  <2> QED BY <2>1, <2>2, <2>3 DEF TypesInv, StateInv, SnapshotInv, EndInv, OwnerInv, Busy
<1>5. CASE IrqEnter
  <2>1. isr' \in SUBSET Interrupts /\ ier' \in SUBSET Interrupts /\ ~ (caller = "idle" /\ Busy)
    BY <1>5 DEF IrqEnter, StateInv, CoreOK, OwnerInv
  <2> QED BY <1>5, <2>1 DEF IrqEnter, TypesInv, StateInv, SnapshotInv, EndInv, OwnerInv, Now, Busy
<1> QED BY <1>1, <1>2, <1>3, <1>4, <1>5

\* The handler, whichever way it goes.
LEMMA HandlerKeeps ==
  ASSUME IInv, IrqError \/ IrqEvents
  PROVE  IInv'
<1> USE DEF IInv
<1>1. /\ irq' = "idle" /\ isr' = {} /\ ier' = {} /\ UNCHANGED <<load, caller, ret, req, count>>
      /\ irq = "service"
  BY DEF IrqError, IrqEvents, Leave
<1>2. TypesInv'
  BY <1>1 DEF TypesInv
<1>3. caller # "idle" \/ ~ Busy
  BY <1>1 DEF OwnerInv
<1>4. ASSUME DeviceOK(i2c', req), CoreOK(hw'), Quiet(D(i2c', hw')), i2c'.completion \in BOOLEAN,
             i2c.completion => i2c'.completion,
             i2c'.completion => i2c'.tx_msg = 0 /\ i2c'.rx_msg = 0 /\ i2c'.state # "START",
             ~ Busy => i2c'.tx_msg = 0 /\ i2c'.rx_msg = 0
      PROVE  IInv'
  <2>1. StateInv'
    BY <1>1, <1>4 DEF StateInv, Now
  <2>2. SnapshotInv' /\ OwnerInv' /\ EndInv'
    BY <1>1, <1>3, <1>4 DEF SnapshotInv, OwnerInv, EndInv, Busy
  <2> QED BY <1>2, <2>1, <2>2
<1>5. CASE IrqError
  <2>1. hw' \in {ResetCore(hw), ResetFailed(hw)} /\ i2c' = IF Busy THEN Wakeup(i2c, "ERROR") ELSE i2c
    BY <1>5 DEF IrqError
  <2>2. CoreOK(hw')
    BY <2>1, ResetKeeps DEF StateInv
  <2>3. CASE Busy
    <3>1. i2c' = Wakeup(i2c, "ERROR")
      BY <2>1, <2>3
    <3>2. req \in Seq(Message) /\ DeviceOK(i2c, req)
      BY DEF StateInv
    <3>3. /\ DeviceOK(i2c', req) /\ i2c'.tx_msg = 0 /\ i2c'.rx_msg = 0
          /\ i2c'.completion = TRUE /\ i2c'.state = "ERROR"
      <4> DEFINE j == Wakeup(i2c, "ERROR")
      <4>1. /\ DeviceOK(j, req) /\ j.tx_msg = 0 /\ j.rx_msg = 0
            /\ j.completion = TRUE /\ j.state = "ERROR"
        BY <3>2, WakeupKeeps, Zenon
      <4>2. i2c' = j
        BY <3>1
      <4> HIDE DEF j
      <4> QED BY <4>1, <4>2
    <3> QED BY <1>4, <2>2, <2>3, <3>3 DEF Quiet, D
  <2>4. CASE ~ Busy
    <3>1. i2c' = i2c /\ i2c.tx_msg = 0 /\ i2c.rx_msg = 0
      BY <2>1, <2>4 DEF Busy
    <3> QED BY <1>4, <2>2, <2>4, <3>1 DEF Quiet, D, StateInv, EndInv
  <2> QED BY <2>3, <2>4
<1>6. CASE IrqEvents
  <2> DEFINE v == Handled
             clr == IF ReadDoneEarly /\ "RXFULL" \notin isr THEN v.clr \ {"RXFULL"} ELSE v.clr
             d1 == [v.d EXCEPT !.h.iisr = Toggle(@, clr)]
             d2 == IF v.more THEN StartMsg(d1) ELSE d1
  <2>1. /\ Working(v, req) /\ v.d.i.completion = i2c.completion
        /\ ~ Busy => v.d.i = i2c /\ v.more = FALSE /\ v.wake = FALSE
    BY <1>1, HandledKeeps DEF StateInv, SnapshotInv
  <2>2. /\ i2c' = IF v.wake THEN Wakeup(d2.i, v.code) ELSE d2.i
        /\ hw' = d2.h
    BY <1>6 DEF IrqEvents
  <2> HIDE DEF v
  <2>3. clr \in SUBSET Interrupts
    BY <2>1 DEF Working
  <2> HIDE DEF clr
  <2>4. IsPair(d1) /\ d1.i = v.d.i /\ d1.h = [v.d.h EXCEPT !.iisr = Toggle(@, clr)]
    BY <2>1 DEF Working, IsPair, CoreFields
  <2> HIDE DEF d1
  <2>5. CoreOK(d1.h) /\ d1.h.iier = v.d.h.iier
    BY <2>1, <2>3, <2>4 DEF Working, CoreOK, CoreFields, Toggle
  <2>6. /\ CoreOK(d2.h) /\ DeviceOK(d2.i, req) /\ Quiet(d2)
        /\ d2.i.completion = i2c.completion
        /\ ~ Busy => d2.i = i2c
    <3>1. CASE v.more
      <4>1. Ready(d1, req)
        BY <2>1, <2>4, <2>5, <3>1 DEF Working, Ready
      <4>2. Started(d1, StartMsg(d1), req)
        BY <4>1, StartMsgKeeps, Zenon DEF StateInv
      <4>3. d2 = StartMsg(d1)
        BY <3>1, Zenon
      <4> QED BY <2>1, <2>4, <3>1, <4>2, <4>3 DEF Started
    <3>2. CASE ~ v.more
      <4>1. d2 = d1
        BY <3>2, Zenon
      <4> QED BY <2>1, <2>4, <2>5, <4>1 DEF Working, Quiet
    <3> QED BY <3>1, <3>2
  <2> HIDE DEF d2
  <2>7. CASE v.wake
    <3>1. i2c' = Wakeup(d2.i, v.code)
      BY <2>2, <2>7
    <3>2. req \in Seq(Message)
      BY DEF StateInv
    <3>3. /\ DeviceOK(i2c', req) /\ i2c'.tx_msg = 0 /\ i2c'.rx_msg = 0
          /\ i2c'.completion = TRUE /\ i2c'.state = v.code
      <4> DEFINE j == Wakeup(d2.i, v.code)
      <4>1. /\ DeviceOK(j, req) /\ j.tx_msg = 0 /\ j.rx_msg = 0
            /\ j.completion = TRUE /\ j.state = v.code
        BY <2>6, <3>2, WakeupKeeps, Zenon
      <4>2. i2c' = j
        BY <3>1
      <4> HIDE DEF j
      <4> QED BY <4>1, <4>2
    <3> QED BY <1>4, <2>1, <2>2, <2>6, <3>3 DEF Quiet, D, Working
  <2>8. CASE ~ v.wake
    <3>1. i2c' = d2.i /\ hw' = d2.h
      BY <2>2, <2>8
    <3>2. i2c.completion => ~ Busy
      BY DEF EndInv
    <3>3. i2c.completion \in BOOLEAN /\ (i2c.completion => i2c.state # "START")
      BY DEF EndInv
    <3> QED BY <1>4, <2>6, <3>1, <3>2, <3>3 DEF Quiet, D, Busy
  <2> QED BY <2>7, <2>8
<1> QED BY <1>5, <1>6

\* Every step preserves IInv.
LEMMA NextIInv == IInv /\ [Next]_vars => IInv'
<1> SUFFICES ASSUME IInv, [Next]_vars PROVE IInv'
  OBVIOUS
<1>1. CASE UNCHANGED vars
  BY <1>1 DEF vars, IInv, TypesInv, StateInv, SnapshotInv, EndInv, OwnerInv, Now, Busy
<1>2. ASSUME NEW x \in load.transfers, StartXfer(x) \/ StartXferFails(x) PROVE IInv'
  BY <1>2, CallerKeeps
<1>3. CASE StartXferRefused \/ WokenUp \/ FinishXfer \/ Core \/ IrqEnter
  BY <1>3, OthersKeep
<1>4. CASE IrqError \/ IrqEvents
  BY <1>4, HandlerKeeps
<1> QED BY <1>1, <1>2, <1>3, <1>4 DEF Next, Process

\* The inductive invariant holds in every state.
THEOREM Invariance == Spec => []IInv
<1> QED BY InitIInv, NextIInv, PTL DEF Spec

\* Indices, positions and FIFO levels of the driver stay in range (xiic_process,
\* xiic_start_xfer), for every FIFO depth, block size and set of workloads.
THEOREM XiicTypeCorrect == Spec => []TypeOK
<1>1. IInv => TypeOK
  <2> SUFFICES ASSUME IInv PROVE TypeOK
    OBVIOUS
  <2>1. /\ hw.iisr \in SUBSET Interrupts /\ hw.iier \in SUBSET Interrupts
        /\ hw.cr \in SUBSET {"MSMS", "TX", "NOACK", "RSTA"}
        /\ hw.rfd \in 0 .. DEPTH - 1
        /\ Len(hw.txf) <= DEPTH /\ hw.rxocc \in 0 .. DEPTH
    BY SizesOK DEF IInv, StateInv, CoreOK
  <2>2. i2c.nmsgs \in Nat /\ i2c.tx_pos \in Nat /\ i2c.rx_pos \in Nat
    BY DEF IInv, StateInv, DeviceOK, Typed
  <2>3. Len(i2c.msgs) = Len(req) /\ Len(req) \in Nat
    <3>1. req \in Seq(Message) /\ i2c.msgs \in [DOMAIN req -> Message]
      BY DEF IInv, StateInv, DeviceOK, Typed
    <3> QED BY <3>1
  <2>4. i2c.tx_msg \in 0 .. Len(req) /\ i2c.rx_msg \in 0 .. Len(req)
    <3>1. req \in Seq(Message) /\ i2c.tx_msg \in Nat /\ i2c.rx_msg \in Nat
      BY DEF IInv, StateInv, DeviceOK, Typed
    <3>2. (i2c.tx_msg # 0 => i2c.tx_msg \in DOMAIN req) /\ (i2c.rx_msg # 0 => i2c.rx_msg = i2c.tx_msg)
      BY DEF IInv, StateInv, DeviceOK, Indices
    <3> QED BY <2>3, <3>1, <3>2
  <2> QED BY <2>1, <2>2, <2>3, <2>4 DEF TypeOK, IInv, TypesInv
<1> QED BY <1>1, Invariance, PTL

\* The handler never stores a byte beyond the end of the caller's buffer, whatever
\* block length the slave answers with and whenever errors and timeouts interrupt.
THEOREM BufferCorrect == Spec => []BufferBounded
<1>1. IInv => BufferBounded
  <2> SUFFICES ASSUME IInv, NEW k \in 1 .. Len(i2c.filled)
               PROVE i2c.filled[k] <= IF req[k].recv THEN BLOCK_MAX + 2 ELSE req[k].len
    BY DEF BufferBounded
  <2>1. req \in Seq(Message) /\ i2c.filled \in [DOMAIN req -> Nat]
    BY DEF IInv, StateInv, DeviceOK, Typed
  <2>2. k \in DOMAIN req
    BY <2>1
  <2>3. i2c.filled[k] <= Bound(req[k])
    BY <2>2 DEF IInv, StateInv, DeviceOK, Lengths
  <2> QED BY <2>3 DEF Bound
<1> QED BY <1>1, Invariance, PTL

\* The handler never touches the messages of a caller that has returned.
THEOREM LiveMessagesCorrect == Spec => []HandlerOnLiveMessages
<1>1. IInv => HandlerOnLiveMessages
  BY DEF IInv, OwnerInv, HandlerOnLiveMessages
<1> QED BY <1>1, Invariance, PTL

\* A caller that the completion wakes up reads the result of its own transfer.
THEOREM WokenCorrect == Spec => []WokenBySelf
<1>1. IInv => WokenBySelf
  BY DEF IInv, EndInv, WokenBySelf
<1> QED BY <1>1, Invariance, PTL
=============================================================================
