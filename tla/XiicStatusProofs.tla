--------------------------- MODULE XiicStatusProofs ---------------------------
(***************************************************************************)
(* Proofs about Xiic: a transfer that is reported as a success has moved      *)
(* every byte of every message, the handler never starts a message and wakes  *)
(* the caller up at once, and a transfer never stops half way.              *)
(*                                                                          *)
(* They follow from an invariant that accounts for every byte of the message  *)
(* that is on the bus: those that have gone over it, those in the FIFOs and   *)
(* those still to come; and, for the last, from one that says who moves next. *)
(* They hold for messages that Fits admits; a longer write that another       *)
(* message follows loses bytes.                                            *)
(***************************************************************************)
EXTENDS XiicProofs

-----------------------------------------------------------------------------
(* How far the transfer is.  The messages before the current one have been   *)
(* delivered, those behind it are untouched; the current one is written or   *)
(* read, in stages, or it was the last one and has been read.                *)

\* What the workload brings: the messages q fit the model's count of bytes and, in
\* dynamic mode, the TX FIFO.
Fitting(q, dynamic) ==
  /\ \A k \in DOMAIN q :
       /\ WireLen(q[k]) <= MAX_MOVED
       /\ q[k].rd => q[k].len > 0
       /\ q[k].recv => q[k].rd /\ ~ dynamic /\ k = Len(q) /\ q[k].len \in {1, 2}
       /\ dynamic /\ ~ q[k].rd /\ k < Len(q) => q[k].len < DEPTH
  /\ ~ dynamic => q[Len(q)].rd

\* Message k went over the bus from its first to its last byte.
Delivered(i, h, q, k) ==
  /\ h.moved[k] = WireLen(q[k])
  /\ q[k].rd => i.filled[k] = WireLen(q[k])
  /\ q[k].recv => q[k].blk <= BLOCK_MAX
  /\ i.msgs[k].len = IF q[k].recv THEN BlockLen(q[k]) ELSE q[k].len

Around(i, h, q) ==
  /\ h.moved \in [DOMAIN q -> Nat]
  /\ \A k \in DOMAIN q : k < i.tx_msg => Delivered(i, h, q, k)
  /\ \A k \in DOMAIN q : k > i.tx_msg => h.moved[k] = 0 /\ i.msgs[k] = q[k]

Last(i) == i.nmsgs = 1

\* The core does not give up the bus by itself.
KeepsBus(h) == h.cur # 0 => h.dyn \/ "MSMS" \in h.cr

\* Nothing of message i.tx_msg has begun.
Fresh(i, h, q) ==
  LET m == i.tx_msg IN
  /\ i.rx_msg = 0 /\ i.msgs[m] = q[m] /\ h.moved[m] = 0
  /\ h.txf = <<>> /\ h.byte = "none" /\ h.rxocc = 0
  /\ h.mode \in {"idle", "hold", "err"} /\ KeepsBus(h)
  /\ "BNB" \notin h.iisr
  /\ ~ i.dynamic => "NOACK" \notin h.cr /\ "TXHALF" \notin h.iier

\* The TX FIFO s holds data bytes of message m, perhaps behind its address; a STOP
\* goes with its last entry only, which is then the last one of the transfer.
DataIn(s) == IF s # <<>> /\ s[1].kind = "addr" THEN Len(s) - 1 ELSE Len(s)
Outgoing(s, m, ends) ==
  \A k \in DOMAIN s :
    /\ s[k].msg = m
    /\ s[k].kind = "data" \/ (k = 1 /\ s[k].kind = "addr" /\ ~ s[k].rd)
    /\ s[k].stop => ends /\ k = Len(s)

\* A NACK, TXERR, loses what is in the FIFO; only the last message may still be
\* filled up by a handler that has not seen it.  Without one no byte is lost.
Writing(i, h, q) ==
  LET m == i.tx_msg
      ends == Last(i) /\ i.tx_pos = q[m].len
  IN
  /\ i.rx_msg = 0 /\ i.msgs[m] = q[m] /\ ~ q[m].rd /\ i.tx_pos <= q[m].len
  /\ "TXERR" \in h.iier /\ h.byte = "none" /\ h.rxocc = 0
  /\ h.mode \in {"idle", "hold", "stop", "err"} /\ KeepsBus(h)
  /\ Outgoing(h.txf, m, ends)
  /\ ~ i.dynamic => "NOACK" \notin h.cr /\ "TXHALF" \notin h.iier
  /\ i.dynamic /\ ~ Last(i) => i.tx_pos = q[m].len
  /\ ~ Last(i) /\ "TXEMPTY" \in h.iisr \cap h.iier => h.txf = <<>>
  /\ "TXERR" \in h.iisr => Last(i) \/ h.txf = <<>>
  /\ "TXERR" \notin h.iisr =>
       /\ h.moved[m] + DataIn(h.txf) = i.tx_pos
       /\ h.mode = "stop" \/ "BNB" \in h.iisr => ends /\ h.txf = <<>>
       /\ "BNB" \in h.iisr => h.mode = "idle"

\* A block read is at first a read of one byte, the length, but asks for three.
Whole(m) == IF m.recv THEN MIN_LEN ELSE m.len
ToGo(i, h) == Whole(i.msgs[i.rx_msg]) - h.moved[i.rx_msg]

\* What block_read_setup() made of the message m that was submitted.
SetUp(i, m) ==
  LET now == i.msgs[i.rx_msg]
      block == m.recv /\ ~ now.recv
      valid == block /\ m.blk <= BLOCK_MAX
  IN
  /\ i.tx_pos = m.len
  /\ ~ block => now = m
  /\ block => now.len = IF valid THEN WireLen(m) ELSE MIN_LEN
  /\ block => i.smbus_block_read = valid
  /\ i.smbus_actual_len = IF valid /\ BlockLen(m) < MIN_LEN THEN BlockLen(m) ELSE 0

\* Standard mode: t bytes are to come.  The threshold stops the core before it
\* starts the last byte without NOACK.
Window(h, t, recv) ==
  /\ "RXFULL" \in h.iisr => h.rxocc > h.rfd
  /\ h.byte # "none" => h.rxocc <= h.rfd
  /\ "NOACK" \in h.cr => t = 1 /\ h.byte # "ack" /\ h.rxocc <= h.rfd /\ ~ recv
  /\ "NOACK" \notin h.cr =>
       /\ h.byte # "nack" /\ h.rxocc <= h.rfd + 1 /\ t + h.rxocc > h.rfd + 1
       /\ ~ recv /\ h.rfd < DEPTH - 1 => t + h.rxocc = h.rfd + 2
  /\ recv => h.rfd = 0

\* The address is still in the TX FIFO.
QueuedRead(i, h, t) ==
  LET m == i.rx_msg IN
  /\ h.moved[m] = 0 /\ h.byte = "none" /\ h.mode \in {"idle", "hold", "err"}
  /\ h.iisr \cap {"TXERR", "BNB", "RXFULL"} = {}
  /\ i.dynamic => h.txf = <<Addr(m, TRUE, TRUE, FALSE), Length(m, i.msgs[m].len, Last(i))>>
  /\ ~ i.dynamic => h.txf = <<Addr(m, TRUE, FALSE, FALSE)>> /\ Window(h, t, i.msgs[m].recv)

\* It was not acknowledged.
Refused(i, h) ==
  /\ h.moved[i.rx_msg] = 0 /\ h.txf = <<>> /\ h.byte = "none" /\ h.mode \in {"idle", "hold", "err"}
  /\ "TXERR" \in h.iisr /\ "RXFULL" \notin h.iisr

\* Bytes arrive.
Receiving(i, h, t) ==
  /\ h.txf = <<>> /\ h.cur = i.rx_msg /\ h.mode \in {"rx", "err"} /\ h.dyn = i.dynamic
  /\ h.iisr \cap {"TXERR", "BNB"} = {} /\ t > 0 /\ h.byte \in {"none", "ack", "nack"}
  /\ i.dynamic =>
       /\ h.left = t /\ h.autostop = Last(i)
       /\ h.byte = "nack" => t = 1
       /\ h.byte = "ack" => t > 1
  /\ ~ i.dynamic => ~ h.autostop /\ Window(h, t, i.msgs[i.rx_msg].recv)

\* All have arrived; the driver still has to fetch some of them.
Received(i, h, t) ==
  /\ h.txf = <<>> /\ h.byte = "none" /\ h.mode \in {"idle", "hold", "stop", "err"}
  /\ "TXERR" \in h.iisr /\ t = 0 /\ ~ i.msgs[i.rx_msg].recv
  /\ h.mode = "stop" \/ "BNB" \in h.iisr => Last(i)

Stage(i, h, t) == QueuedRead(i, h, t) \/ Refused(i, h) \/ Receiving(i, h, t) \/ Received(i, h, t)

ReadingOn(i, h, q) ==
  LET m == i.rx_msg IN
  /\ m # 0 /\ q[m].rd /\ SetUp(i, q[m])
  /\ "TXERR" \in h.iier /\ KeepsBus(h)
  /\ h.moved[m] = i.rx_pos + h.rxocc /\ i.filled[m] = i.rx_pos
  /\ Stage(i, h, ToGo(i, h))

\* The last message has been read; an invalid block is told from a valid one by the
\* transmit position, which was left behind.
Over(i, h, q) ==
  LET m == i.tx_msg IN
  /\ i.rx_msg = 0 /\ q[m].rd /\ Last(i)
  /\ h.txf = <<>> /\ h.byte = "none" /\ h.mode # "rx" /\ h.iier \cap TxInterrupts = {}
  /\ Delivered(i, h, q, m) \/ (i.msgs[m].len > i.tx_pos /\ ~ i.smbus_block_read)

Live == Busy /\ caller # "idle"

TransferInv ==
  Live =>
    /\ Fitting(req, i2c.dynamic) /\ Around(i2c, hw, req)
    /\ Writing(i2c, hw, req) \/ ReadingOn(i2c, hw, req) \/ Over(i2c, hw, req)

\* A handler that has not seen an error finds no end of the transfer either, unless
\* it is a true one.
Unseen ==
  Live /\ "TXERR" \notin isr =>
    /\ i2c.rx_msg # 0 => "BNB" \notin isr
    /\ i2c.rx_msg = 0 /\ ~ req[i2c.tx_msg].rd /\ "TXERR" \in hw.iisr =>
         "BNB" \notin isr /\ (~ Last(i2c) => "TXEMPTY" \notin isr \cap ier)
SeenInv == irq = "service" => isr \subseteq hw.iisr /\ Unseen

\* A transfer that is done has delivered its messages, and the core is at rest.
DoneInv ==
  /\ i2c.completion /\ i2c.state = "DONE" =>
       /\ \A k \in DOMAIN req : Delivered(i2c, hw, req, k)
       /\ hw.txf = <<>> /\ hw.mode # "rx"
  /\ caller = "idle" /\ ret = "ok" => i2c.completion /\ i2c.state = "DONE"

ProgressInv == i2c.broken = load.broken /\ TransferInv /\ SeenInv /\ DoneInv

-----------------------------------------------------------------------------
(* What keeps a transfer going.  In each stage it is the core that has a     *)
(* next step or an interrupt that is enabled and raised, or will be; a write  *)
(* ends in a FIFO entry with a STOP, a read in a STOP that the core or the    *)
(* driver asks for.                                                         *)

\* A loss of arbitration is always reported.
Armed(h) == "ARB" \in h.iier /\ (h.mode = "err" => "ARB" \in h.iisr)

AddressIn(s) == s # <<>> /\ s[1].kind = "addr"

\* The address can be sent as it is queued; behind it the driver has the bus, until
\* the last entry, which gives it up.
WritingGoes(i, h, q) ==
  LET ends == Last(i) /\ i.tx_pos = q[i.tx_msg].len IN
  /\ {"TXEMPTY", "BNB"} \subseteq h.iier
  /\ ~ i.dynamic => "MSMS" \in h.cr
  /\ AddressIn(h.txf) =>
       h.txf[1].dyn = i.dynamic /\ (~ i.dynamic /\ h.mode = "hold" => "RSTA" \in h.cr)
  /\ "TXERR" \notin h.iisr /\ h.mode # "err" =>
       /\ ~ AddressIn(h.txf) => h.mode \in {"hold", "stop"} \/ "BNB" \in h.iisr
       /\ ends => IF h.txf = <<>> THEN h.mode # "hold" ELSE h.txf[Len(h.txf)].stop

\* After the last byte of the last message a STOP is due, in dynamic mode, or the
\* core waits for the driver to clear MSMS.
ReadingGoes(i, h) ==
  /\ "RXFULL" \in h.iier /\ (Last(i) => "BNB" \in h.iier)
  /\ ~ i.dynamic => "MSMS" \in h.cr /\ (h.txf # <<>> /\ h.mode = "hold" => "RSTA" \in h.cr)
  /\ Last(i) /\ ToGo(i, h) = 0 /\ h.mode # "err" =>
       IF i.dynamic THEN h.mode = "stop" \/ "BNB" \in h.iisr
       ELSE h.mode = "hold" /\ h.cur # 0 /\ ~ h.dyn

\* The STOP is due or has been seen.
OverGoes(h) ==
  /\ "BNB" \in h.iier
  /\ \/ h.mode \in {"stop", "err"} \/ "BNB" \in h.iisr
     \/ h.mode = "hold" /\ ~ h.dyn /\ h.cur # 0 /\ "MSMS" \notin h.cr

Going(i, h, q) ==
  /\ Armed(h)
  /\ i.rx_msg # 0 => ReadingGoes(i, h)
  /\ i.rx_msg = 0 /\ q[i.tx_msg].rd => OverGoes(h)
  /\ i.rx_msg = 0 /\ ~ q[i.tx_msg].rd => WritingGoes(i, h, q)

\* A message can begin on a bus that the driver owns only behind a repeated START.
FreshGoes(i, h) == Armed(h) /\ (~ i.dynamic /\ h.mode = "hold" => "MSMS" \in h.cr)

\* A transfer that has not been completed has messages.
GoingInv ==
  /\ caller # "idle" /\ ~ i2c.completion => Busy
  /\ Live => Going(i2c, hw, req)

-----------------------------------------------------------------------------
(* The steps of the core.                                                   *)

\* Around only looks away from the current message.
LEMMA AroundKeeps ==
  ASSUME NEW i, NEW h, NEW j, NEW g, NEW q, Around(i, h, q), j.tx_msg = i.tx_msg,
         g.moved \in [DOMAIN q -> Nat],
         \A k \in DOMAIN q : k # i.tx_msg =>
           /\ g.moved[k] = h.moved[k] /\ j.filled[k] = i.filled[k] /\ j.msgs[k] = i.msgs[k],
         NEW a \in Nat, i.tx_msg = a, DOMAIN q \subseteq Nat
  PROVE  Around(j, g, q)
<1>1. ASSUME NEW k \in DOMAIN q, k < j.tx_msg PROVE Delivered(j, g, q, k)
  <2>1. k # i.tx_msg /\ k < i.tx_msg
    BY <1>1
  <2>2. Delivered(i, h, q, k)
    BY <2>1 DEF Around
  <2> QED BY <2>1, <2>2 DEF Delivered
<1>2. ASSUME NEW k \in DOMAIN q, k > j.tx_msg PROVE g.moved[k] = 0 /\ j.msgs[k] = q[k]
  <2>1. k # i.tx_msg /\ k > i.tx_msg
    BY <1>2
  <2> QED BY <2>1 DEF Around
<1> QED BY <1>1, <1>2 DEF Around

\* What is left in the TX FIFO when its head has been sent.
LEMMA SentFact ==
  ASSUME NEW s \in Seq(Entry), s # <<>>, NEW m, NEW ends, Outgoing(s, m, ends)
  PROVE  /\ Outgoing(Tail(s), m, ends)
         /\ Head(s).msg = m
         /\ Head(s).kind = "data" \/ (Head(s).kind = "addr" /\ ~ Head(s).rd)
         /\ DataIn(s) \in Nat /\ DataIn(Tail(s)) \in Nat
         /\ DataIn(Tail(s)) = IF Head(s).kind = "data" THEN DataIn(s) - 1 ELSE DataIn(s)
         /\ Head(s).stop => ends /\ Tail(s) = <<>>
<1> DEFINE t == Tail(s)
<1>1. /\ Len(s) \in Nat /\ Len(s) > 0 /\ Len(t) = Len(s) - 1 /\ Head(s) = s[1]
      /\ 1 \in DOMAIN s /\ t \in Seq(Entry)
      /\ \A k \in DOMAIN t : k \in Nat /\ k > 0 /\ k + 1 \in DOMAIN s /\ t[k] = s[k + 1]
  OBVIOUS
<1> HIDE DEF t
<1>2. /\ s[1].msg = m
      /\ s[1].kind = "data" \/ (s[1].kind = "addr" /\ ~ s[1].rd)
      /\ s[1].stop => ends /\ 1 = Len(s)
  BY <1>1 DEF Outgoing
<1>3. \A k \in DOMAIN t : /\ t[k].msg = m /\ t[k].kind = "data"
                          /\ t[k].stop => ends /\ k = Len(t)
  <2> TAKE k \in DOMAIN t
  <2>1. k + 1 \in DOMAIN s /\ t[k] = s[k + 1] /\ k + 1 # 1
    BY <1>1
  <2>2. /\ s[k + 1].msg = m /\ s[k + 1].kind = "data"
        /\ s[k + 1].stop => ends /\ k + 1 = Len(s)
    BY <2>1 DEF Outgoing
  <2> QED BY <1>1, <2>1, <2>2
<1>4. t # <<>> => 1 \in DOMAIN t /\ t[1].kind # "addr"
  <2>1. t # <<>> => 1 \in DOMAIN t
    BY <1>1
  <2> QED BY <1>3, <2>1
<1>5. DataIn(t) = Len(t)
  BY <1>4 DEF DataIn
<1>6. DataIn(s) = IF s[1].kind = "data" THEN Len(s) ELSE Len(s) - 1
  BY <1>2 DEF DataIn
<1>7. Outgoing(t, m, ends)
  BY <1>3 DEF Outgoing
<1>8. Len(s) = 1 => t = <<>>
  BY <1>1
<1>9. Len(t) \in Nat /\ DataIn(s) \in Nat
  BY <1>1, <1>2, <1>6
<1> QED BY <1>1, <1>2, <1>5, <1>6, <1>7, <1>8, <1>9 DEF t

\* The interrupts that the core raises stay until the driver clears them.
LEMMA CoreGrows ==
  ASSUME CoreOK(hw), HwLevel \/ BusSteps \/ HwNack \/ HwArbLost
  PROVE  hw.iisr \subseteq hw'.iisr /\ hw'.iier = hw.iier
<1> USE DEF CoreOK, CoreFields
<1>1. CASE HwLevel
  BY <1>1 DEF HwLevel
<1>2. CASE HwSend
  BY <1>2 DEF HwSend
<1>3. CASE HwByteStarts
  BY <1>3 DEF HwByteStarts
<1>4. CASE HwByteEnds
  BY <1>4 DEF HwByteEnds
<1>5. CASE HwStop
  BY <1>5 DEF HwStop
<1>6. CASE HwNack
  <2> PICK stopped \in BOOLEAN :
       hw' = [hw EXCEPT !.iisr = @ \cup {"TXERR"} \cup (IF stopped THEN {"BNB"} ELSE {}),
                        !.txf = <<>>, !.mode = IF stopped THEN "idle" ELSE "hold"]
    BY <1>6 DEF HwNack
  <2> DEFINE more == {"TXERR"} \cup (IF stopped THEN {"BNB"} ELSE {})
  <2>1. hw'.iisr = hw.iisr \cup more /\ hw'.iier = hw.iier
    OBVIOUS
  <2> QED BY <2>1
<1>7. CASE HwArbLost
  BY <1>7 DEF HwArbLost
<1> QED BY <1>1, <1>2, <1>3, <1>4, <1>5, <1>6, <1>7 DEF BusSteps

\* While it is written, a message loses no byte but by a NACK.
LEMMA WritingCore ==
  ASSUME NEW i, NEW q \in Seq(Message), DeviceOK(i, q), CoreOK(hw), i.tx_msg # 0,
         Around(i, hw, q), Writing(i, hw, q),
         HwLevel \/ BusSteps \/ HwNack \/ HwArbLost
  PROVE  /\ Writing(i, hw', q) /\ Around(i, hw', q)
         /\ "TXERR" \in hw'.iisr => "TXERR" \in hw.iisr \/ hw.txf # <<>>
<1> DEFINE m == i.tx_msg
           ends == Last(i) /\ i.tx_pos = q[m].len
           s == hw.txf
<1>0. /\ CoreFields = DOMAIN hw /\ s \in Seq(Entry) /\ m \in DOMAIN q /\ m \in Nat
      /\ hw.moved \in [DOMAIN q -> Nat] /\ DOMAIN q \subseteq Nat /\ i.tx_pos \in Nat
  <2>1. CoreFields = DOMAIN hw /\ s \in Seq(Entry)
    BY DEF CoreOK
  <2>2. m \in DOMAIN q /\ m \in Nat /\ i.tx_pos \in Nat
    BY DEF DeviceOK, Typed, Indices
  <2>3. hw.moved \in [DOMAIN q -> Nat]
    BY DEF Around
  <2> HIDE DEF m, s
  <2> QED BY <2>1, <2>2, <2>3
<1>1. ASSUME DOMAIN hw' = CoreFields, hw'.moved = hw.moved
      PROVE  Around(i, hw', q)
  BY <1>1, <1>0, AroundKeeps
<1>2. CASE HwLevel
  <2> DEFINE more == LevelSources
  <2>1. more \subseteq {"TXEMPTY", "TXHALF", "RXFULL"} /\ ("TXEMPTY" \in more => s = <<>>)
    BY DEF LevelSources
  <2> HIDE DEF more
  <2>2. hw' = [hw EXCEPT !.iisr = @ \cup more]
    BY <1>2 DEF HwLevel, more
  <2>3. /\ DOMAIN hw' = CoreFields /\ hw'.iisr = hw.iisr \cup more /\ hw'.iier = hw.iier
        /\ hw'.moved = hw.moved /\ hw'.txf = hw.txf /\ hw'.byte = hw.byte /\ hw'.rxocc = hw.rxocc
        /\ hw'.mode = hw.mode /\ hw'.cur = hw.cur /\ hw'.dyn = hw.dyn /\ hw'.cr = hw.cr
    BY <2>2, <1>0 DEF CoreFields
  <2>4. Writing(i, hw', q)
    BY <2>1, <2>3 DEF Writing, KeepsBus
  <2> QED BY <2>1, <2>3, <2>4, <1>1
<1>3. CASE HwSend
  <2> DEFINE e == Head(s)
             stop == IF e.stop THEN "stop" ELSE "hold"
             cr == IF e.kind = "addr" THEN hw.cr \ {"RSTA"} ELSE hw.cr
             moved == [hw.moved EXCEPT ![m] = IF e.kind = "data" THEN @ + 1 ELSE @]
  <2>1. s # <<>> /\ Outgoing(s, m, ends)
    BY <1>3 DEF HwSend, CanSend, Writing
  <2>2. /\ Outgoing(Tail(s), m, ends)
        /\ e.msg = m
        /\ e.kind = "data" \/ (e.kind = "addr" /\ ~ e.rd)
        /\ DataIn(s) \in Nat /\ DataIn(Tail(s)) \in Nat
        /\ DataIn(Tail(s)) = IF e.kind = "data" THEN DataIn(s) - 1 ELSE DataIn(s)
        /\ e.stop => ends /\ Tail(s) = <<>>
    <3> HIDE DEF s, m, ends
    <3> QED BY <1>0, <2>1, SentFact DEF e
  <2>3. /\ DOMAIN hw' = CoreFields /\ hw'.iisr = hw.iisr /\ hw'.iier = hw.iier
        /\ hw'.moved = moved /\ hw'.txf = Tail(s) /\ hw'.byte = hw.byte /\ hw'.rxocc = hw.rxocc
        /\ hw'.mode = stop /\ hw'.cur = hw.cur /\ hw'.dyn = hw.dyn /\ hw'.cr = cr
    BY <1>3, <1>0, <2>2 DEF HwSend, CoreFields
  <2>4. /\ moved \in [DOMAIN q -> Nat] /\ \A k \in DOMAIN q : k # m => moved[k] = hw.moved[k]
        /\ moved[m] = IF e.kind = "data" THEN hw.moved[m] + 1 ELSE hw.moved[m]
    BY <1>0
  <2>5. Around(i, hw', q)
    <3>1. /\ hw'.moved \in [DOMAIN q -> Nat]
          /\ \A k \in DOMAIN q : k # i.tx_msg =>
               hw'.moved[k] = hw.moved[k] /\ i.filled[k] = i.filled[k] /\ i.msgs[k] = i.msgs[k]
      BY <2>3, <2>4
    <3> QED BY <1>0, <3>1, AroundKeeps, Zenon
  <2> HIDE DEF moved, e
  <2>6. moved[m] + DataIn(Tail(s)) = hw.moved[m] + DataIn(s)
    <3>1. hw.moved[m] \in Nat
      BY <1>0
    <3> QED BY <2>2, <2>4, <3>1
  <2>7. ("NOACK" \in cr <=> "NOACK" \in hw.cr) /\ ("MSMS" \in cr <=> "MSMS" \in hw.cr)
    OBVIOUS
  <2>8. /\ "TXERR" \in hw.iisr => Last(i)
        /\ "BNB" \in hw.iisr => "TXERR" \in hw.iisr
        /\ ~ (~ Last(i) /\ "TXEMPTY" \in hw.iisr \cap hw.iier)
    BY <2>1 DEF Writing
  <2> HIDE DEF cr
  <2>9. stop = "stop" => ends /\ Tail(s) = <<>>
    BY <2>2
  <2>10. stop \in {"stop", "hold"}
    OBVIOUS
  <2> HIDE DEF stop
  <2>11. Writing(i, hw', q)
    BY <2>2, <2>3, <2>6, <2>7, <2>8, <2>9, <2>10 DEF Writing, KeepsBus
  <2> QED BY <2>3, <2>5, <2>11
<1>4. CASE HwByteStarts \/ HwByteEnds
  BY <1>4 DEF HwByteStarts, HwByteEnds, Writing
<1>5. CASE HwStop
  <2>1. hw.mode = "stop"
    BY <1>5 DEF HwStop, Writing, KeepsBus
  <2>2. /\ DOMAIN hw' = CoreFields /\ hw'.iisr = hw.iisr \cup {"BNB"} /\ hw'.iier = hw.iier
        /\ hw'.moved = hw.moved /\ hw'.txf = hw.txf /\ hw'.byte = hw.byte /\ hw'.rxocc = hw.rxocc
        /\ hw'.mode = "idle" /\ hw'.cur = 0 /\ hw'.dyn = hw.dyn /\ hw'.cr = hw.cr
    BY <1>5, <1>0 DEF HwStop, CoreFields
  <2>3. Writing(i, hw', q)
    BY <2>1, <2>2 DEF Writing, KeepsBus
  <2> QED BY <2>2, <2>3, <1>1
<1>6. CASE HwNack
  <2> PICK stopped \in BOOLEAN :
       hw' = [hw EXCEPT !.iisr = @ \cup {"TXERR"} \cup (IF stopped THEN {"BNB"} ELSE {}),
                        !.txf = <<>>, !.mode = IF stopped THEN "idle" ELSE "hold"]
    BY <1>6 DEF HwNack
  <2>1. s # <<>>
    BY <1>6 DEF HwNack, CanSend
  <2> DEFINE more == {"TXERR"} \cup (IF stopped THEN {"BNB"} ELSE {})
  <2>2. /\ DOMAIN hw' = CoreFields /\ hw'.iisr = hw.iisr \cup more /\ hw'.iier = hw.iier
        /\ hw'.moved = hw.moved /\ hw'.txf = <<>> /\ hw'.byte = hw.byte /\ hw'.rxocc = hw.rxocc
        /\ hw'.mode \in {"idle", "hold"} /\ hw'.cur = hw.cur /\ hw'.dyn = hw.dyn /\ hw'.cr = hw.cr
    BY <1>0 DEF CoreFields
  <2>3. "TXERR" \in more /\ "TXEMPTY" \notin more
    OBVIOUS
  <2> HIDE DEF more
  <2>4. Outgoing(<<>>, m, ends)
    BY DEF Outgoing
  <2>5. Writing(i, hw', q)
    BY <2>1, <2>2, <2>3, <2>4 DEF Writing, KeepsBus
  <2> QED BY <2>1, <2>2, <2>5, <1>1
<1>7. CASE HwArbLost
  <2>1. /\ DOMAIN hw' = CoreFields /\ hw'.iisr = hw.iisr \cup {"ARB"} /\ hw'.iier = hw.iier
        /\ hw'.moved = hw.moved /\ hw'.txf = hw.txf /\ hw'.byte = hw.byte /\ hw'.rxocc = hw.rxocc
        /\ hw'.mode = "err" /\ hw'.cur = hw.cur /\ hw'.dyn = hw.dyn /\ hw'.cr = hw.cr
    BY <1>7, <1>0 DEF HwArbLost, CoreFields
  <2>2. hw.mode \in {"hold", "rx"}
    BY <1>7 DEF HwArbLost
  <2>3. Writing(i, hw', q)
    BY <2>1, <2>2 DEF Writing, KeepsBus
  <2> QED BY <2>1, <2>3, <1>1
<1> QED BY <1>2, <1>3, <1>4, <1>5, <1>6, <1>7 DEF BusSteps

\* The lengths of a message.
LEMMA LenType ==
  ASSUME NEW m \in Message
  PROVE  /\ m.len \in Nat /\ m.blk \in Nat /\ BlockLen(m) \in Nat /\ WireLen(m) \in Nat
         /\ m.rd \in BOOLEAN /\ m.recv \in BOOLEAN
BY DEF Message, BlockLen, WireLen, MaxOf, MIN_LEN

\* The length that the driver works with is no more than what goes over the bus.
LEMMA WholeFits ==
  ASSUME NEW i, NEW q \in Seq(Message), DeviceOK(i, q), i.rx_msg # 0, SetUp(i, q[i.rx_msg])
  PROVE  /\ Whole(i.msgs[i.rx_msg]) \in Nat /\ i.msgs[i.rx_msg].len \in Nat
         /\ Whole(i.msgs[i.rx_msg]) <= WireLen(q[i.rx_msg])
         /\ i.msgs[i.rx_msg].recv \in BOOLEAN
<1> DEFINE now == i.msgs[i.rx_msg]
           m == q[i.rx_msg]
<1>1. now \in Message /\ m \in Message
  BY DEF DeviceOK, Typed, Indices
<1>2. /\ now.len \in Nat /\ m.len \in Nat /\ WireLen(m) \in Nat /\ BlockLen(m) \in Nat
      /\ now.recv \in BOOLEAN /\ m.recv \in BOOLEAN
  BY <1>1, LenType
<1>3. m.recv => WireLen(m) >= MIN_LEN
  BY <1>2 DEF WireLen, MaxOf, MIN_LEN
<1>4. ~ m.recv => WireLen(m) = m.len
  BY DEF WireLen
<1>5. now.recv => m.recv
  BY DEF DeviceOK, Lengths, Indices
<1>6. (~ (m.recv /\ ~ now.recv) => now = m) /\ (m.recv /\ ~ now.recv => now.len \in {WireLen(m), MIN_LEN})
  BY DEF SetUp
<1> HIDE DEF now, m
<1>7. Whole(now) \in Nat /\ Whole(now) <= WireLen(m)
  <2>1. CASE now.recv
    BY <1>2, <1>3, <1>5, <2>1 DEF Whole, MIN_LEN
  <2>2. CASE ~ now.recv
    BY <1>2, <1>3, <1>4, <1>6, <2>2 DEF Whole, MIN_LEN
  <2> QED BY <2>1, <2>2
<1> QED BY <1>2, <1>7 DEF now, m

\* While a message is read, every byte that the core receives is accounted for, and
\* in standard mode the last one is not started before the driver asks for NOACK.
LEMMA ReadingCore ==
  ASSUME NEW i, NEW q \in Seq(Message), DeviceOK(i, q), CoreOK(hw),
         Fitting(q, i.dynamic), Around(i, hw, q), ReadingOn(i, hw, q),
         HwLevel \/ BusSteps \/ HwNack \/ HwArbLost
  PROVE  ReadingOn(i, hw', q) /\ Around(i, hw', q)
<1> DEFINE m == i.rx_msg
           w == Whole(i.msgs[m])
           t == ToGo(i, hw)
           r == i.msgs[m].recv
<1>0. /\ CoreFields = DOMAIN hw /\ m \in DOMAIN q /\ m \in Nat /\ m # 0 /\ i.tx_msg = m
      /\ hw.moved \in [DOMAIN q -> Nat] /\ DOMAIN q \subseteq Nat /\ i.rx_pos \in Nat
      /\ hw.rxocc \in Nat /\ hw.rfd \in Nat
  <2>1. CoreFields = DOMAIN hw /\ hw.rxocc \in Nat /\ hw.rfd \in Nat
    BY DEF CoreOK
  <2>2. m # 0
    BY DEF ReadingOn
  <2>3. m \in DOMAIN q /\ m \in Nat /\ i.tx_msg = m /\ i.rx_pos \in Nat
    BY <2>2 DEF DeviceOK, Typed, Indices
  <2>4. hw.moved \in [DOMAIN q -> Nat]
    BY DEF Around
  <2> HIDE DEF m
  <2> QED BY <2>1, <2>2, <2>3, <2>4
<1>1. /\ w \in Nat /\ w <= MAX_MOVED /\ i.msgs[m].len \in Nat /\ r \in BOOLEAN /\ MAX_MOVED \in Nat
      /\ ~ r => w = i.msgs[m].len
  <2>1. /\ w \in Nat /\ i.msgs[m].len \in Nat /\ r \in BOOLEAN /\ w <= WireLen(q[m])
    BY WholeFits DEF ReadingOn
  <2>2. WireLen(q[m]) \in Nat /\ WireLen(q[m]) <= MAX_MOVED
    BY <1>0, LenType DEF Fitting
  <2>3. ~ r => w = i.msgs[m].len
    BY DEF Whole
  <2> HIDE DEF w, r
  <2> QED BY <2>1, <2>2, <2>3, SizesOK
<1>2. t = w - hw.moved[m] /\ hw.moved[m] \in Nat
  BY <1>0 DEF ToGo
<1>3. hw.moved[m] = 0 => hw.rxocc = 0
  BY <1>0 DEF ReadingOn
<1>4. ASSUME DOMAIN hw' = CoreFields, hw'.moved = hw.moved, hw'.rxocc = hw.rxocc,
             "TXERR" \in hw'.iier, KeepsBus(hw'), Stage(i, hw', t)
      PROVE  ReadingOn(i, hw', q) /\ Around(i, hw', q)
  <2>1. ToGo(i, hw') = t
    BY <1>4 DEF ToGo
  <2>2. Around(i, hw', q)
    <3>1. /\ hw'.moved \in [DOMAIN q -> Nat]
          /\ \A k \in DOMAIN q : k # i.tx_msg =>
               hw'.moved[k] = hw.moved[k] /\ i.filled[k] = i.filled[k] /\ i.msgs[k] = i.msgs[k]
      BY <1>0, <1>4
    <3> QED BY <1>0, <3>1, AroundKeeps, Zenon
  <2> HIDE DEF t, m
  <2> QED BY <1>4, <2>1, <2>2 DEF ReadingOn, m
<1>5. "TXERR" \in hw.iier /\ KeepsBus(hw) /\ Stage(i, hw, t)
  BY DEF ReadingOn
<1>6. /\ r = i.msgs[i.rx_msg].recv
      /\ hw.iier \cup {} = hw.iier
  OBVIOUS
<1> HIDE DEF t, w
<1>7. CASE HwLevel
  <2> DEFINE more == LevelSources
  <2>1. more \subseteq {"TXEMPTY", "TXHALF", "RXFULL"} /\ ("RXFULL" \in more => hw.rxocc > hw.rfd)
    BY DEF LevelSources
  <2> HIDE DEF more
  <2>2. hw' = [hw EXCEPT !.iisr = @ \cup more]
    BY <1>7 DEF HwLevel, more
  <2>3. /\ DOMAIN hw' = CoreFields /\ hw'.iisr = hw.iisr \cup more /\ hw'.iier = hw.iier
        /\ hw'.moved = hw.moved /\ hw'.txf = hw.txf /\ hw'.byte = hw.byte /\ hw'.rxocc = hw.rxocc
        /\ hw'.mode = hw.mode /\ hw'.cur = hw.cur /\ hw'.dyn = hw.dyn /\ hw'.cr = hw.cr
        /\ hw'.left = hw.left /\ hw'.autostop = hw.autostop /\ hw'.rfd = hw.rfd
    BY <2>2, <1>0 DEF CoreFields
  <2>4. KeepsBus(hw')
    BY <1>5, <2>3 DEF KeepsBus
  <2>5. CASE QueuedRead(i, hw, t)
    <3>1. "RXFULL" \notin more
      BY <1>0, <1>3, <2>1, <2>5 DEF QueuedRead
    <3>2. Window(hw, t, r) => Window(hw', t, r)
      BY <2>1, <2>3 DEF Window
    <3>3. QueuedRead(i, hw', t)
      <4>1. hw'.iisr \cap {"TXERR", "BNB", "RXFULL"} = {}
        BY <2>1, <2>3, <2>5, <3>1 DEF QueuedRead
      <4> HIDE DEF r
      <4>2. QueuedRead(i, hw, t)
        BY <2>5
      <4>3. Window(hw, t, i.msgs[i.rx_msg].recv) => Window(hw', t, i.msgs[i.rx_msg].recv)
        BY <1>6, <3>2
      <4> QED BY <2>3, <4>1, <4>2, <4>3 DEF QueuedRead
    <3> QED BY <1>4, <1>5, <2>3, <2>4, <3>3 DEF Stage
  <2>6. CASE Refused(i, hw)
    <3>1. "RXFULL" \notin more
      BY <1>0, <1>3, <2>1, <2>6 DEF Refused
    <3>2. Refused(i, hw')
      BY <2>3, <2>6, <3>1 DEF Refused
    <3> QED BY <1>4, <1>5, <2>3, <2>4, <3>2 DEF Stage
  <2>7. CASE Receiving(i, hw, t)
    <3>1. Window(hw, t, r) => Window(hw', t, r)
      BY <2>1, <2>3 DEF Window
    <3>2. Receiving(i, hw', t)
      BY <2>1, <2>3, <2>7, <3>1 DEF Receiving
    <3> QED BY <1>4, <1>5, <2>3, <2>4, <3>2 DEF Stage
  <2>8. CASE Received(i, hw, t)
    <3>1. Received(i, hw', t)
      BY <2>1, <2>3, <2>8 DEF Received
    <3> QED BY <1>4, <1>5, <2>3, <2>4, <3>1 DEF Stage
  <2> QED BY <1>5, <2>5, <2>6, <2>7, <2>8 DEF Stage
<1>8. CASE HwSend
  <2>1. hw.txf # <<>> /\ QueuedRead(i, hw, t)
    BY <1>5, <1>8 DEF HwSend, CanSend, Stage, Refused, Receiving, Received
  <2>2. t > 0
    <3>1. hw.moved[m] = 0
      BY <2>1 DEF QueuedRead
    <3>2. w > 0
      <4>1. i.msgs[m].len > 0
        BY <1>0 DEF DeviceOK, Lengths, Reading
      <4> QED BY <4>1, <1>1 DEF w, Whole, MIN_LEN
    <3> QED BY <1>1, <1>2, <3>1, <3>2
  <2>3. CASE i.dynamic
    <3> DEFINE e == Addr(m, TRUE, TRUE, FALSE)
               size == Length(m, i.msgs[m].len, Last(i))
    <3>1. hw.txf = <<e, size>>
      BY <2>1, <2>3 DEF QueuedRead
    <3>2. Head(hw.txf) = e /\ Head(Tail(hw.txf)) = size /\ Tail(Tail(hw.txf)) = <<>>
      BY <3>1
    <3>3. /\ e.kind = "addr" /\ e.rd /\ e.dyn /\ e.msg = m /\ size.n = i.msgs[m].len
          /\ size.stop = Last(i)
      BY DEF Addr, Length
    <3> HIDE DEF e, size
    <3>4. hw' = [hw EXCEPT !.txf = Tail(Tail(@)), !.mode = "rx", !.cur = m, !.dyn = TRUE,
                            !.left = i.msgs[m].len, !.autostop = Last(i)]
      BY <1>8, <3>2, <3>3 DEF HwSend
    <3>5. /\ DOMAIN hw' = CoreFields /\ hw'.iisr = hw.iisr /\ hw'.iier = hw.iier
          /\ hw'.moved = hw.moved /\ hw'.txf = <<>> /\ hw'.byte = hw.byte /\ hw'.rxocc = hw.rxocc
          /\ hw'.mode = "rx" /\ hw'.cur = m /\ hw'.dyn = TRUE /\ hw'.cr = hw.cr
          /\ hw'.left = i.msgs[m].len /\ hw'.autostop = Last(i) /\ hw'.rfd = hw.rfd
      BY <3>2, <3>4, <1>0 DEF CoreFields
    <3>6. t = i.msgs[m].len
      <4>1. ~ r
        BY <1>0, <2>3 DEF Fitting, DeviceOK, Lengths
      <4>2. hw.moved[m] = 0
        BY <2>1 DEF QueuedRead
      <4> QED BY <1>1, <1>2, <4>1, <4>2
    <3>7. Receiving(i, hw', t)
      BY <2>1, <2>2, <2>3, <3>5, <3>6 DEF QueuedRead, Receiving
    <3> QED BY <1>4, <1>5, <3>5, <3>7 DEF Stage, KeepsBus
  <2>4. CASE ~ i.dynamic
    <3> DEFINE e == Addr(m, TRUE, FALSE, FALSE)
    <3>1. hw.txf = <<e>> /\ Window(hw, t, r)
      BY <2>1, <2>4 DEF QueuedRead
    <3>2. Head(hw.txf) = e /\ Tail(hw.txf) = <<>>
      BY <3>1
    <3>3. e.kind = "addr" /\ e.rd /\ ~ e.dyn /\ e.msg = m
      BY DEF Addr
    <3> HIDE DEF e
    <3>4. hw' = [hw EXCEPT !.txf = Tail(@), !.mode = "rx", !.cur = m, !.dyn = FALSE,
                            !.cr = @ \ {"RSTA"}, !.autostop = FALSE]
      BY <1>8, <3>2, <3>3 DEF HwSend
    <3>5. /\ DOMAIN hw' = CoreFields /\ hw'.iisr = hw.iisr /\ hw'.iier = hw.iier
          /\ hw'.moved = hw.moved /\ hw'.txf = <<>> /\ hw'.byte = hw.byte /\ hw'.rxocc = hw.rxocc
          /\ hw'.mode = "rx" /\ hw'.cur = m /\ hw'.dyn = FALSE /\ hw'.cr = hw.cr \ {"RSTA"}
          /\ hw'.autostop = FALSE /\ hw'.rfd = hw.rfd
      BY <3>2, <3>4, <1>0 DEF CoreFields
    <3>6. Window(hw', t, r)
      BY <3>1, <3>5 DEF Window
    <3>7. "MSMS" \in hw'.cr
      BY <1>8, <3>2, <3>3, <3>5 DEF HwSend, CanSend
    <3>8. Receiving(i, hw', t)
      <4>1. hw'.dyn = i.dynamic
        BY <2>4, <3>5 DEF DeviceOK, Typed
      <4> QED BY <2>1, <2>2, <2>4, <3>5, <3>6, <4>1 DEF QueuedRead, Receiving
    <3> QED BY <1>4, <1>5, <3>5, <3>7, <3>8 DEF Stage, KeepsBus
  <2> QED BY <2>3, <2>4
<1>9. CASE HwByteStarts
  <2>1. Receiving(i, hw, t)
    BY <1>5, <1>9 DEF HwByteStarts, Stage, QueuedRead, Refused, Received
  <2> DEFINE byte == IF (hw.dyn /\ hw.left = 1) \/ (~ hw.dyn /\ "NOACK" \in hw.cr)
                       THEN "nack" ELSE "ack"
  <2>2. /\ DOMAIN hw' = CoreFields /\ hw'.iisr = hw.iisr /\ hw'.iier = hw.iier
        /\ hw'.moved = hw.moved /\ hw'.txf = hw.txf /\ hw'.byte = byte /\ hw'.rxocc = hw.rxocc
        /\ hw'.mode = hw.mode /\ hw'.cur = hw.cur /\ hw'.dyn = hw.dyn /\ hw'.cr = hw.cr
        /\ hw'.left = hw.left /\ hw'.autostop = hw.autostop /\ hw'.rfd = hw.rfd
        /\ hw.rxocc <= hw.rfd
    BY <1>9, <1>0 DEF HwByteStarts, CoreFields
  <2>3. CASE i.dynamic
    <3>1. hw.left = t /\ hw.dyn /\ t > 0
      BY <2>1, <2>3 DEF Receiving
    <3>2. (byte = "nack" => t = 1) /\ (byte = "ack" => t > 1) /\ byte \in {"ack", "nack"}
      BY <1>1, <1>2, <3>1
    <3> HIDE DEF byte
    <3>3. Receiving(i, hw', t)
      BY <2>1, <2>2, <2>3, <3>2 DEF Receiving
    <3> QED BY <1>4, <1>5, <2>2, <3>3 DEF Stage, KeepsBus
  <2>4. CASE ~ i.dynamic
    <3>1. Window(hw, t, r) /\ ~ hw.dyn
      BY <2>1, <2>4 DEF Receiving
    <3>2. (byte = "nack" <=> "NOACK" \in hw.cr) /\ byte \in {"ack", "nack"}
      BY <3>1
    <3> HIDE DEF byte
    <3>3. Window(hw', t, r)
      BY <2>2, <3>1, <3>2 DEF Window
    <3>4. Receiving(i, hw', t)
      BY <2>1, <2>2, <2>4, <3>2, <3>3 DEF Receiving
    <3> QED BY <1>4, <1>5, <2>2, <3>4 DEF Stage, KeepsBus
  <2> QED BY <2>3, <2>4
<1>10. CASE HwByteEnds
  <2> DEFINE iisr == IF hw.byte = "nack" THEN hw.iisr \cup {"TXERR"} ELSE hw.iisr
             moved == [hw.moved EXCEPT ![m] = MinOf(@ + 1, MAX_MOVED)]
             left == IF hw.dyn THEN hw.left - 1 ELSE hw.left
             mode == IF hw.byte = "ack" THEN "rx" ELSE IF hw.autostop THEN "stop" ELSE "hold"
  <2>1. Receiving(i, hw, t) /\ hw.byte # "none" /\ hw.cur = m
    BY <1>5, <1>10 DEF HwByteEnds, Stage, QueuedRead, Refused, Received, Receiving
  <2>2. /\ DOMAIN hw' = CoreFields /\ hw'.iisr = iisr /\ hw'.iier = hw.iier
        /\ hw'.moved = moved /\ hw'.txf = hw.txf /\ hw'.byte = "none" /\ hw'.rxocc = hw.rxocc + 1
        /\ hw'.mode = mode /\ hw'.cur = hw.cur /\ hw'.dyn = hw.dyn /\ hw'.cr = hw.cr
        /\ hw'.left = left /\ hw'.autostop = hw.autostop /\ hw'.rfd = hw.rfd
    BY <1>10, <1>0, <2>1 DEF HwByteEnds, CoreFields
  <2>3. /\ moved[m] = hw.moved[m] + 1 /\ moved \in [DOMAIN q -> Nat]
        /\ \A k \in DOMAIN q : k # m => moved[k] = hw.moved[k]
    <3>1. t > 0
      BY <2>1 DEF Receiving
    <3>2. hw.moved[m] + 1 <= MAX_MOVED /\ hw.moved[m] + 1 \in Nat
      BY <3>1, <1>1, <1>2
    <3>3. MinOf(hw.moved[m] + 1, MAX_MOVED) = hw.moved[m] + 1
      BY <3>2 DEF MinOf
    <3> QED BY <1>0, <3>2, <3>3
  <2> HIDE DEF moved
  <2>4. Around(i, hw', q)
    <3>1. /\ hw'.moved \in [DOMAIN q -> Nat]
          /\ \A k \in DOMAIN q : k # i.tx_msg =>
               hw'.moved[k] = hw.moved[k] /\ i.filled[k] = i.filled[k] /\ i.msgs[k] = i.msgs[k]
      BY <1>0, <2>2, <2>3
    <3> QED BY <1>0, <3>1, AroundKeeps, Zenon
  <2>5. ToGo(i, hw') = t - 1
    <3>1. ToGo(i, hw') = w - (hw.moved[m] + 1)
      BY <2>2, <2>3 DEF ToGo, w
    <3> QED BY <3>1, <1>1, <1>2
  <2>6. hw'.moved[m] = i.rx_pos + hw'.rxocc
    <3>1. hw.moved[m] = i.rx_pos + hw.rxocc
      BY DEF ReadingOn
    <3> QED BY <1>0, <2>2, <2>3, <3>1
  <2>7. ASSUME Stage(i, hw', t - 1) PROVE ReadingOn(i, hw', q)
    <3>1. KeepsBus(hw')
      BY <1>5, <2>2 DEF KeepsBus
    <3> HIDE DEF m
    <3> QED BY <1>5, <2>2, <2>5, <2>6, <2>7, <3>1 DEF ReadingOn, m
  <2>8. t \in Nat /\ t > 0
    BY <1>1, <1>2, <2>1 DEF Receiving
  <2>9. CASE i.dynamic
    <3>1. /\ hw.left = t /\ hw.dyn /\ hw.autostop = Last(i) /\ ~ r
          /\ hw.byte = "nack" => t = 1
          /\ hw.byte = "ack" => t > 1
      <4>1. ~ r
        BY <1>0, <2>9 DEF Fitting, DeviceOK, Lengths
      <4> QED BY <2>1, <2>9, <4>1 DEF Receiving
    <3>2. CASE hw.byte = "ack"
      <4>1. Receiving(i, hw', t - 1)
        <5>1. t - 1 > 0 /\ left = t - 1 /\ mode = "rx" /\ iisr = hw.iisr
          BY <2>8, <3>1, <3>2
        <5> QED BY <2>1, <2>2, <2>9, <5>1 DEF Receiving
      <4> QED BY <2>4, <2>7, <4>1 DEF Stage
    <3>3. CASE hw.byte # "ack"
      <4>1. hw.byte = "nack"
        BY <2>1, <3>3 DEF Receiving
      <4>2. t - 1 = 0 /\ mode = (IF Last(i) THEN "stop" ELSE "hold") /\ iisr = hw.iisr \cup {"TXERR"}
        BY <3>1, <4>1
      <4> HIDE DEF mode, iisr
      <4>3. Received(i, hw', t - 1)
        BY <2>1, <2>2, <3>1, <4>2 DEF Receiving, Received
      <4> QED BY <2>4, <2>7, <4>3 DEF Stage
    <3> QED BY <3>2, <3>3
  <2>10. CASE ~ i.dynamic
    <3>1. ~ hw.autostop /\ Window(hw, t, r) /\ ~ hw.dyn
      BY <2>1, <2>10 DEF Receiving
    <3>2. CASE hw.byte = "ack"
      <4>1. "NOACK" \notin hw.cr /\ hw.rxocc <= hw.rfd
        BY <3>1, <3>2 DEF Window
      <4>2. /\ t + hw.rxocc > hw.rfd + 1
            /\ ~ r /\ hw.rfd < DEPTH - 1 => t + hw.rxocc = hw.rfd + 2
        BY <3>1, <4>1 DEF Window
      <4>3. /\ t - 1 > 0 /\ hw.rxocc + 1 <= hw.rfd + 1 /\ (t - 1) + (hw.rxocc + 1) = t + hw.rxocc
        BY <1>0, <2>8, <4>1, <4>2
      <4>4. mode = "rx" /\ iisr = hw.iisr
        BY <3>2
      <4> HIDE DEF mode, iisr
      <4>5. "RXFULL" \notin hw.iisr
        BY <1>0, <3>1, <4>1 DEF Window
      <4>6. Window(hw', t - 1, r)
        BY <2>2, <3>1, <4>1, <4>2, <4>3, <4>4, <4>5 DEF Window
      <4>7. Receiving(i, hw', t - 1)
        BY <2>1, <2>2, <2>10, <3>1, <4>3, <4>4, <4>6 DEF Receiving
      <4> QED BY <2>4, <2>7, <4>7 DEF Stage
    <3>3. CASE hw.byte # "ack"
      <4>1. hw.byte = "nack"
        BY <2>1, <3>3 DEF Receiving
      <4>2. t = 1 /\ ~ r
        BY <3>1, <4>1 DEF Window
      <4>3. mode = "hold" /\ iisr = hw.iisr \cup {"TXERR"} /\ t - 1 = 0
        BY <3>1, <3>3, <4>1, <4>2
      <4> HIDE DEF mode, iisr
      <4>4. Received(i, hw', t - 1)
        BY <2>1, <2>2, <4>2, <4>3 DEF Receiving, Received
      <4> QED BY <2>4, <2>7, <4>4 DEF Stage
    <3> QED BY <3>2, <3>3
  <2> QED BY <2>9, <2>10
<1>11. CASE HwStop
  <2>1. hw.mode = "stop"
    BY <1>5, <1>11 DEF HwStop, KeepsBus
  <2>2. Received(i, hw, t)
    BY <1>5, <2>1 DEF Stage, QueuedRead, Refused, Receiving
  <2>3. /\ DOMAIN hw' = CoreFields /\ hw'.iisr = hw.iisr \cup {"BNB"} /\ hw'.iier = hw.iier
        /\ hw'.moved = hw.moved /\ hw'.txf = hw.txf /\ hw'.byte = hw.byte /\ hw'.rxocc = hw.rxocc
        /\ hw'.mode = "idle" /\ hw'.cur = 0
    BY <1>11, <1>0 DEF HwStop, CoreFields
  <2>4. Received(i, hw', t)
    BY <2>1, <2>2, <2>3 DEF Received
  <2> QED BY <1>4, <1>5, <2>3, <2>4 DEF Stage, KeepsBus
<1>12. CASE HwNack
  <2> PICK stopped \in BOOLEAN :
       hw' = [hw EXCEPT !.iisr = @ \cup {"TXERR"} \cup (IF stopped THEN {"BNB"} ELSE {}),
                        !.txf = <<>>, !.mode = IF stopped THEN "idle" ELSE "hold"]
    BY <1>12 DEF HwNack
  <2>1. QueuedRead(i, hw, t)
    BY <1>5, <1>12 DEF HwNack, CanSend, Stage, Refused, Receiving, Received
  <2> DEFINE more == {"TXERR"} \cup (IF stopped THEN {"BNB"} ELSE {})
  <2>2. /\ DOMAIN hw' = CoreFields /\ hw'.iisr = hw.iisr \cup more /\ hw'.iier = hw.iier
        /\ hw'.moved = hw.moved /\ hw'.txf = <<>> /\ hw'.byte = hw.byte /\ hw'.rxocc = hw.rxocc
        /\ hw'.mode \in {"idle", "hold"} /\ hw'.cur = hw.cur /\ hw'.dyn = hw.dyn /\ hw'.cr = hw.cr
    BY <1>0 DEF CoreFields
  <2>3. "TXERR" \in more /\ "RXFULL" \notin more
    OBVIOUS
  <2> HIDE DEF more
  <2>4. Refused(i, hw')
    BY <2>1, <2>2, <2>3 DEF QueuedRead, Refused
  <2> QED BY <1>4, <1>5, <2>2, <2>4 DEF Stage, KeepsBus
<1>13. CASE HwArbLost
  <2>1. /\ DOMAIN hw' = CoreFields /\ hw'.iisr = hw.iisr \cup {"ARB"} /\ hw'.iier = hw.iier
        /\ hw'.moved = hw.moved /\ hw'.txf = hw.txf /\ hw'.byte = hw.byte /\ hw'.rxocc = hw.rxocc
        /\ hw'.mode = "err" /\ hw'.cur = hw.cur /\ hw'.dyn = hw.dyn /\ hw'.cr = hw.cr
        /\ hw'.left = hw.left /\ hw'.autostop = hw.autostop /\ hw'.rfd = hw.rfd
    BY <1>13, <1>0 DEF HwArbLost, CoreFields
  <2>2. KeepsBus(hw') /\ (Window(hw, t, r) => Window(hw', t, r))
    BY <1>5, <2>1 DEF KeepsBus, Window
  <2>3. QueuedRead(i, hw, t) => QueuedRead(i, hw', t)
    BY <2>1, <2>2 DEF QueuedRead
  <2>4. Refused(i, hw) => Refused(i, hw')
    BY <2>1 DEF Refused
  <2>5. Receiving(i, hw, t) => Receiving(i, hw', t)
    BY <2>1, <2>2 DEF Receiving
  <2>6. Received(i, hw, t) => Received(i, hw', t)
    BY <2>1 DEF Received
  <2> QED BY <1>4, <1>5, <2>1, <2>2, <2>3, <2>4, <2>5, <2>6 DEF Stage
<1> QED BY <1>7, <1>8, <1>9, <1>10, <1>11, <1>12, <1>13 DEF BusSteps

\* With nothing to send and nothing to receive no byte moves.
LEMMA CoreAtRest ==
  ASSUME CoreOK(hw), hw.txf = <<>>, hw.mode # "rx", HwLevel \/ BusSteps \/ HwNack \/ HwArbLost
  PROVE  hw'.moved = hw.moved /\ hw'.txf = <<>> /\ hw'.mode # "rx" /\ hw'.byte = hw.byte
<1> USE DEF CoreOK, CoreFields
<1>1. CASE HwLevel
  BY <1>1 DEF HwLevel
<1>2. CASE HwSend \/ HwNack
  BY <1>2 DEF HwSend, HwNack, CanSend
<1>3. CASE HwByteStarts \/ HwByteEnds
  BY <1>3 DEF HwByteStarts, HwByteEnds
<1>4. CASE HwStop
  BY <1>4 DEF HwStop
<1>5. CASE HwArbLost
  BY <1>5 DEF HwArbLost
<1> QED BY <1>1, <1>2, <1>3, <1>4, <1>5 DEF BusSteps

\* The core preserves the invariant.
LEMMA CoreProgress ==
  ASSUME IInv, ProgressInv, Core
  PROVE  ProgressInv'
<1> USE DEF IInv
<1>0. /\ HwLevel \/ BusSteps \/ HwNack \/ HwArbLost
      /\ UNCHANGED <<load, caller, ret, req, count, i2c, irq, isr, ier>>
      /\ CoreOK(hw) /\ req \in Seq(Message) /\ DeviceOK(i2c, req)
  BY DEF Core, StateInv
<1>1. hw.iisr \subseteq hw'.iisr /\ hw'.iier = hw.iier
  BY <1>0, CoreGrows
<1>2. Live' = Live /\ (Live => i2c.tx_msg # 0)
  BY <1>0 DEF Live, Busy, DeviceOK, Indices
<1>3. ASSUME Live, Writing(i2c, hw, req)
      PROVE  /\ Writing(i2c, hw', req) /\ Around(i2c, hw', req)
             /\ "TXERR" \in hw'.iisr => "TXERR" \in hw.iisr \/ hw.txf # <<>>
  <2>1. Around(i2c, hw, req) /\ i2c.tx_msg # 0
    BY <1>2, <1>3 DEF ProgressInv, TransferInv
  <2> QED BY <1>0, <1>3, <2>1, WritingCore, Zenon
<1>4. ASSUME Live, ReadingOn(i2c, hw, req)
      PROVE  ReadingOn(i2c, hw', req) /\ Around(i2c, hw', req)
  <2>1. Around(i2c, hw, req) /\ Fitting(req, i2c.dynamic)
    BY <1>4 DEF ProgressInv, TransferInv
  <2> QED BY <1>0, <1>4, <2>1, ReadingCore, Zenon
<1>5. ASSUME Live, Over(i2c, hw, req)
      PROVE  Over(i2c, hw', req) /\ Around(i2c, hw', req)
  <2>1. hw'.moved = hw.moved /\ hw'.txf = <<>> /\ hw'.mode # "rx" /\ hw'.byte = hw.byte
    BY <1>0, <1>5, CoreAtRest DEF Over
  <2>2. Around(i2c, hw', req)
    BY <1>5, <2>1 DEF ProgressInv, TransferInv, Around, Delivered
  <2>3. Over(i2c, hw', req)
    BY <1>1, <1>5, <2>1 DEF Over, Delivered
  <2> QED BY <2>2, <2>3
<1>6. TransferInv'
  <2>1. Live => /\ Fitting(req, i2c.dynamic) /\ Around(i2c, hw', req)
                /\ Writing(i2c, hw', req) \/ ReadingOn(i2c, hw', req) \/ Over(i2c, hw', req)
    BY <1>3, <1>4, <1>5 DEF ProgressInv, TransferInv
  <2> QED BY <1>0, <1>2, <2>1 DEF TransferInv
<1>7. SeenInv'
  <2> SUFFICES ASSUME irq = "service" PROVE isr \subseteq hw'.iisr /\ Unseen'
    BY <1>0 DEF SeenInv
  <2>1. isr \subseteq hw.iisr /\ Unseen /\ ier = hw.iier
    BY DEF ProgressInv, SeenInv, SnapshotInv
  <2>2. ASSUME Live, "TXERR" \notin isr, i2c.rx_msg = 0, ~ req[i2c.tx_msg].rd, "TXERR" \in hw'.iisr
        PROVE  "BNB" \notin isr /\ (~ Last(i2c) => "TXEMPTY" \notin isr \cap ier)
    <3>1. CASE "TXERR" \in hw.iisr
      BY <2>1, <2>2, <3>1 DEF Unseen
    <3>2. CASE "TXERR" \notin hw.iisr
      <4>1. Writing(i2c, hw, req)
        BY <2>2 DEF ProgressInv, TransferInv, ReadingOn, Over
      <4>2. hw.txf # <<>>
        BY <1>3, <2>2, <3>2, <4>1
      <4> QED BY <2>1, <3>2, <4>1, <4>2 DEF Writing
    <3> QED BY <3>1, <3>2
  <2>3. ASSUME Live, "TXERR" \notin isr, i2c.rx_msg # 0 PROVE "BNB" \notin isr
    BY <2>1, <2>3 DEF Unseen
  <2>4. Unseen'
    BY <1>0, <1>2, <2>2, <2>3 DEF Unseen
  <2> QED BY <1>1, <2>1, <2>4
<1>8. DoneInv'
  <2>1. ASSUME i2c.completion, i2c.state = "DONE"
        PROVE  /\ \A k \in DOMAIN req : Delivered(i2c, hw', req, k)
               /\ hw'.txf = <<>> /\ hw'.mode # "rx"
    <3>1. /\ \A k \in DOMAIN req : Delivered(i2c, hw, req, k)
          /\ hw.txf = <<>> /\ hw.mode # "rx"
      BY <2>1 DEF ProgressInv, DoneInv
    <3>2. hw'.moved = hw.moved /\ hw'.txf = <<>> /\ hw'.mode # "rx"
      BY <1>0, <3>1, CoreAtRest
    <3> QED BY <3>1, <3>2 DEF Delivered
  <2>2. caller = "idle" /\ ret = "ok" => i2c.completion /\ i2c.state = "DONE"
    BY DEF ProgressInv, DoneInv
  <2> QED BY <1>0, <2>1, <2>2 DEF DoneInv
<1> QED BY <1>0, <1>6, <1>7, <1>8 DEF ProgressInv

\* So do the refusals, the end of xfer() and the snapshot of the handler.
LEMMA CallerProgress ==
  ASSUME IInv, ProgressInv, StartXferRefused \/ WokenUp \/ FinishXfer \/ IrqEnter
  PROVE  ProgressInv'
<1> USE DEF IInv
<1>0. load' = load
  BY DEF StartXferRefused, WokenUp, FinishXfer, IrqEnter
<1>1. CASE StartXferRefused
  <2>1. /\ caller' = "idle" /\ ret' # "ok" /\ irq' = "idle" /\ UNCHANGED <<req, i2c>>
        /\ hw' = hw \/ hw' \in {ResetCore(hw), ResetFailed(hw)}
    BY <1>1 DEF StartXferRefused, Call, Return
  <2>2. hw' = hw \/ (hw'.moved = hw.moved /\ hw'.txf = <<>> /\ hw'.mode # "rx")
    BY <2>1 DEF StateInv, CoreOK, CoreFields, ResetCore, ResetFailed
  <2>3. DoneInv'
    <3>1. ASSUME i2c.completion, i2c.state = "DONE"
          PROVE  /\ \A k \in DOMAIN req : Delivered(i2c, hw', req, k)
                 /\ hw'.txf = <<>> /\ hw'.mode # "rx"
      BY <2>2, <3>1 DEF ProgressInv, DoneInv, Delivered
    <3> QED BY <2>1, <3>1 DEF DoneInv
  <2> QED BY <1>0, <2>1, <2>3 DEF ProgressInv, TransferInv, SeenInv, Live
<1>2. CASE WokenUp
  <2>1. UNCHANGED <<load, ret, req, count, i2c, irq, isr, ier, hw>> /\ caller # "idle" /\ caller' # "idle"
    BY <1>2 DEF WokenUp
  <2>2. Live' = Live
    BY <2>1 DEF Live, Busy
  <2>3. TransferInv' /\ SeenInv'
    BY <2>1, <2>2 DEF ProgressInv, TransferInv, SeenInv, Unseen
  <2>4. DoneInv'
    BY <2>1 DEF ProgressInv, DoneInv
  <2> QED BY <2>1, <2>3, <2>4 DEF ProgressInv
<1>3. CASE FinishXfer
  <2>1. /\ caller' = "idle" /\ irq = "idle" /\ UNCHANGED <<req, hw, irq>> /\ i2c' \in {i2c, Forget(i2c)}
        /\ ret' = "ok" => caller = "woken" /\ i2c.state = "DONE"
    BY <1>3 DEF FinishXfer, Return
  <2>2. /\ i2c'.completion = i2c.completion /\ i2c'.state = i2c.state /\ i2c'.broken = i2c.broken
        /\ i2c'.filled = i2c.filled /\ i2c'.msgs = i2c.msgs
    BY <2>1 DEF Forget, StateInv, DeviceOK, Typed, DeviceFields
  <2>3. DoneInv'
    <3>1. ASSUME i2c.completion, i2c.state = "DONE"
          PROVE  /\ \A k \in DOMAIN req : Delivered(i2c', hw, req, k)
                 /\ hw.txf = <<>> /\ hw.mode # "rx"
      BY <2>2, <3>1 DEF ProgressInv, DoneInv, Delivered
    <3>2. ret' = "ok" => i2c.completion /\ i2c.state = "DONE"
      BY <2>1 DEF EndInv
    <3> QED BY <2>1, <2>2, <3>1, <3>2 DEF DoneInv
  <2> QED BY <1>0, <2>1, <2>2, <2>3 DEF ProgressInv, TransferInv, SeenInv, Live
<1>4. CASE IrqEnter
  <2>1. /\ UNCHANGED <<load, caller, ret, req, count, i2c, hw>> /\ isr' = hw.iisr /\ ier' = hw.iier
    BY <1>4 DEF IrqEnter
  <2>2. Live' = Live
    BY <2>1 DEF Live, Busy
  <2>3. TransferInv' /\ DoneInv'
    BY <2>1, <2>2 DEF ProgressInv, TransferInv, DoneInv
  <2>4. ASSUME Live, "TXERR" \notin hw.iisr, i2c.rx_msg # 0 PROVE "BNB" \notin hw.iisr
    <3>1. ReadingOn(i2c, hw, req)
      BY <2>4 DEF ProgressInv, TransferInv, Writing, Over
    <3> QED BY <2>4, <3>1 DEF ReadingOn, Stage, QueuedRead, Refused, Receiving, Received
  <2>5. SeenInv'
    BY <2>1, <2>2, <2>4 DEF SeenInv, Unseen
  <2> QED BY <2>1, <2>3, <2>5 DEF ProgressInv
<1> QED BY <1>1, <1>2, <1>3, <1>4
\* The core reports what it loses.
LEMMA ArmedCore ==
  ASSUME CoreOK(hw), Armed(hw), HwLevel \/ BusSteps \/ HwNack \/ HwArbLost
  PROVE  Armed(hw')
<1> USE DEF CoreOK, CoreFields, Armed
<1>1. CASE HwLevel
  BY <1>1 DEF HwLevel
<1>2. CASE HwSend
  <2>1. hw'.iier = hw.iier /\ hw'.iisr = hw.iisr /\ hw'.mode # "err"
    BY <1>2 DEF HwSend
  <2> QED BY <2>1
<1>3. CASE HwByteStarts \/ HwByteEnds
  BY <1>3 DEF HwByteStarts, HwByteEnds
<1>4. CASE HwStop
  BY <1>4 DEF HwStop
<1>5. CASE HwArbLost
  BY <1>5 DEF HwArbLost
<1>6. CASE HwNack
  BY <1>6 DEF HwNack
<1> QED BY <1>1, <1>2, <1>3, <1>4, <1>5, <1>6 DEF BusSteps

\* The rest of the TX FIFO behind its head.
LEMMA TailFact ==
  ASSUME NEW s \in Seq(Entry), s # <<>>, NEW m, NEW ends, Outgoing(s, m, ends)
  PROVE  /\ ~ AddressIn(Tail(s)) /\ Head(s) = s[1]
         /\ IF Tail(s) = <<>> THEN s[Len(s)] = s[1] ELSE Tail(s)[Len(Tail(s))] = s[Len(s)]
<1>1. Head(s) = s[1] /\ Len(s) \in Nat /\ Len(s) > 0 /\ DOMAIN s = 1 .. Len(s)
  OBVIOUS
<1>2. CASE Len(s) = 1
  <2> DEFINE t == Tail(s)
  <2>1. t \in Seq(Entry) /\ Len(t) = 0
    BY <1>1, <1>2
  <2> HIDE DEF t
  <2>2. t = <<>>
    BY <2>1
  <2> USE DEF t
  <2> QED BY <1>1, <1>2, <2>2 DEF AddressIn
<1>3. CASE Len(s) > 1
  <2> DEFINE t == Tail(s)
  <2>1. /\ t # <<>> /\ Len(t) = Len(s) - 1 /\ t[1] = s[2]
        /\ t[Len(s) - 1] = s[Len(s)] /\ 2 \in DOMAIN s
    BY <1>3
  <2>2. s[2].kind = "data"
    BY <2>1 DEF Outgoing
  <2> HIDE DEF t
  <2> QED BY <1>1, <2>1, <2>2 DEF AddressIn, t
<1> QED BY <1>1, <1>2, <1>3

\* A write goes on until its STOP has been seen.
LEMMA WritingGoesCore ==
  ASSUME NEW i, NEW q \in Seq(Message), DeviceOK(i, q), CoreOK(hw), i.tx_msg # 0,
         Writing(i, hw, q), WritingGoes(i, hw, q),
         HwLevel \/ BusSteps \/ HwNack \/ HwArbLost
  PROVE  WritingGoes(i, hw', q)
<1> DEFINE m == i.tx_msg
           ends == Last(i) /\ i.tx_pos = q[m].len
           s == hw.txf
<1>0. CoreFields = DOMAIN hw /\ s \in Seq(Entry)
  BY DEF CoreOK
<1>2. CASE HwLevel
  <2> DEFINE more == LevelSources
  <2>1. more \subseteq {"TXEMPTY", "TXHALF", "RXFULL"}
    BY DEF LevelSources
  <2> HIDE DEF more
  <2>2. hw' = [hw EXCEPT !.iisr = @ \cup more]
    BY <1>2 DEF HwLevel, more
  <2>3. /\ hw'.iisr = hw.iisr \cup more /\ hw'.iier = hw.iier
        /\ hw'.txf = hw.txf /\ hw'.mode = hw.mode /\ hw'.cr = hw.cr
    BY <2>2, <1>0 DEF CoreFields
  <2> QED BY <2>1, <2>3 DEF WritingGoes
<1>3. CASE HwSend
  <2> DEFINE e == Head(s)
             mode == IF e.stop THEN "stop" ELSE "hold"
             cr == IF e.kind = "addr" THEN hw.cr \ {"RSTA"} ELSE hw.cr
  <2>1. s # <<>> /\ Outgoing(s, m, ends) /\ hw.mode # "err"
    BY <1>3 DEF HwSend, CanSend, Writing
  <2>2. /\ ~ (e.kind = "addr" /\ e.rd) /\ (e.stop => ends /\ Tail(s) = <<>>)
        /\ ~ AddressIn(Tail(s)) /\ e = s[1]
        /\ IF Tail(s) = <<>> THEN s[Len(s)] = s[1] ELSE Tail(s)[Len(Tail(s))] = s[Len(s)]
    <3> HIDE DEF s, m, ends
    <3> QED BY <1>0, <2>1, SentFact, TailFact DEF e
  <2>3. /\ hw'.iisr = hw.iisr /\ hw'.iier = hw.iier /\ hw'.txf = Tail(s)
        /\ hw'.mode = mode /\ hw'.cr = cr
    BY <1>3, <1>0, <2>2 DEF HwSend, CoreFields
  <2>4. "MSMS" \in hw.cr => "MSMS" \in cr
    OBVIOUS
  <2> HIDE DEF cr, e
  <2>5. /\ "TXERR" \notin hw.iisr /\ ends => s[Len(s)].stop
        /\ {"TXEMPTY", "BNB"} \subseteq hw.iier /\ (~ i.dynamic => "MSMS" \in hw.cr)
    BY <2>1 DEF WritingGoes
  <2>6. mode \in {"hold", "stop"} /\ (mode = "hold" => ~ e.stop)
    OBVIOUS
  <2>7. ASSUME "TXERR" \notin hw.iisr, ends
        PROVE  IF Tail(s) = <<>> THEN mode # "hold" ELSE Tail(s)[Len(Tail(s))].stop
    BY <2>2, <2>5, <2>6, <2>7
  <2> HIDE DEF mode
  <2> QED BY <2>2, <2>3, <2>4, <2>5, <2>6, <2>7 DEF WritingGoes
<1>4. CASE HwByteStarts \/ HwByteEnds
  BY <1>4 DEF HwByteStarts, HwByteEnds, Writing
<1>5. CASE HwStop
  <2>1. hw.mode = "stop"
    BY <1>5 DEF HwStop, Writing, KeepsBus
  <2>2. /\ hw'.iisr = hw.iisr \cup {"BNB"} /\ hw'.iier = hw.iier
        /\ hw'.txf = hw.txf /\ hw'.mode = "idle" /\ hw'.cr = hw.cr
    BY <1>5, <1>0 DEF HwStop, CoreFields
  <2>3. "TXERR" \notin hw.iisr => hw.txf = <<>>
    BY <2>1 DEF Writing
  <2> QED BY <2>2, <2>3 DEF WritingGoes
<1>6. CASE HwNack
  <2> PICK stopped \in BOOLEAN :
       hw' = [hw EXCEPT !.iisr = @ \cup {"TXERR"} \cup (IF stopped THEN {"BNB"} ELSE {}),
                        !.txf = <<>>, !.mode = IF stopped THEN "idle" ELSE "hold"]
    BY <1>6 DEF HwNack
  <2>1. /\ "TXERR" \in hw'.iisr /\ hw'.iier = hw.iier /\ hw'.txf = <<>> /\ hw'.cr = hw.cr
    BY <1>0 DEF CoreFields
  <2> QED BY <2>1 DEF WritingGoes, AddressIn
<1>7. CASE HwArbLost
  <2>1. hw'.iier = hw.iier /\ hw'.txf = hw.txf /\ hw'.mode = "err" /\ hw'.cr = hw.cr
    BY <1>7, <1>0 DEF HwArbLost, CoreFields
  <2> QED BY <2>1 DEF WritingGoes
<1> QED BY <1>2, <1>3, <1>4, <1>5, <1>6, <1>7 DEF BusSteps

\* A read that has just begun has bytes to come.
LEMMA WholePositive ==
  ASSUME NEW i, NEW q \in Seq(Message), DeviceOK(i, q), i.rx_msg # 0
  PROVE  Whole(i.msgs[i.rx_msg]) \in Nat \ {0}
<1> DEFINE m == i.rx_msg
<1>1. m \in DOMAIN q /\ i.msgs[m] \in Message /\ i.msgs[m].rd
  BY DEF DeviceOK, Typed, Indices, Reading
<1>2. i.msgs[m].len \in Nat /\ i.msgs[m].len > 0
  BY <1>1, LenType DEF DeviceOK, Lengths
<1> QED BY <1>2 DEF Whole, MIN_LEN

\* A read goes on until its last byte, and then a STOP is due or can be asked for.
LEMMA ReadingGoesCore ==
  ASSUME NEW i, NEW q \in Seq(Message), DeviceOK(i, q), CoreOK(hw),
         ReadingOn(i, hw, q), ReadingOn(i, hw', q), ReadingGoes(i, hw),
         HwLevel \/ BusSteps \/ HwNack \/ HwArbLost
  PROVE  ReadingGoes(i, hw')
<1> DEFINE m == i.rx_msg
           t == ToGo(i, hw)
           t1 == ToGo(i, hw')
<1>0. CoreFields = DOMAIN hw /\ m # 0 /\ Stage(i, hw, t) /\ Stage(i, hw', t1) /\ KeepsBus(hw)
  BY DEF CoreOK, ReadingOn
<1>1. hw.moved[m] = 0 => t > 0
  <2>1. Whole(i.msgs[m]) \in Nat \ {0}
    BY <1>0, WholePositive
  <2> QED BY <2>1 DEF ToGo
<1>2. hw'.moved = hw.moved => t1 = t
  BY DEF ToGo
<1>3. ASSUME hw'.mode = "rx" PROVE hw'.txf = <<>> /\ t1 > 0
  BY <1>0, <1>3 DEF Stage, QueuedRead, Refused, Receiving, Received
<1>4. hw.txf # <<>> => QueuedRead(i, hw, t)
  BY <1>0 DEF Stage, Refused, Receiving, Received
<1>5. hw.mode = "rx" => Receiving(i, hw, t)
  BY <1>0 DEF Stage, QueuedRead, Refused, Received
<1> HIDE DEF t, t1
<1>6. CASE HwLevel
  <2>1. /\ hw.iisr \subseteq hw'.iisr /\ hw'.iier = hw.iier /\ hw'.txf = hw.txf /\ hw'.cr = hw.cr
        /\ hw'.mode = hw.mode /\ hw'.cur = hw.cur /\ hw'.dyn = hw.dyn /\ hw'.moved = hw.moved
    BY <1>0, <1>6 DEF HwLevel, CoreFields
  <2> QED BY <1>2, <2>1 DEF ReadingGoes, t, t1
<1>7. CASE HwSend
  <2>1. QueuedRead(i, hw, t)
    BY <1>4, <1>7 DEF HwSend, CanSend
  <2>2. Head(hw.txf).kind = "addr" /\ Head(hw.txf).rd
    BY <2>1 DEF QueuedRead, Addr
  <2>3. /\ hw'.iier = hw.iier /\ hw'.mode = "rx" /\ ("MSMS" \in hw.cr => "MSMS" \in hw'.cr)
    BY <1>0, <1>7, <2>2 DEF HwSend, CoreFields
  <2> QED BY <1>3, <2>3 DEF ReadingGoes, t1
<1>8. CASE HwNack
  <2>1. QueuedRead(i, hw, t)
    BY <1>4, <1>8 DEF HwNack, CanSend
  <2>2. hw'.iier = hw.iier /\ hw'.txf = <<>> /\ hw'.cr = hw.cr /\ hw'.moved = hw.moved
    BY <1>0, <1>8 DEF HwNack, CoreFields
  <2>3. t1 > 0
    BY <1>1, <1>2, <2>1, <2>2 DEF QueuedRead
  <2> QED BY <2>2, <2>3 DEF ReadingGoes, t1
<1>9. CASE HwByteStarts
  <2>1. hw'.iier = hw.iier /\ hw'.mode = "rx" /\ hw'.cr = hw.cr
    BY <1>0, <1>9 DEF HwByteStarts, CoreFields
  <2> QED BY <1>3, <2>1 DEF ReadingGoes, t1
<1>10. CASE HwByteEnds
  <2>1. Receiving(i, hw, t)
    BY <1>5, <1>10 DEF HwByteEnds
  <2>2. /\ hw'.iier = hw.iier /\ hw'.cr = hw.cr /\ hw'.txf = hw.txf /\ hw'.cur = hw.cur
        /\ hw'.dyn = hw.dyn
        /\ hw'.mode = IF hw.byte = "ack" THEN "rx" ELSE IF hw.autostop THEN "stop" ELSE "hold"
    BY <1>0, <1>10 DEF HwByteEnds, CoreFields
  <2>3. CASE hw'.mode = "rx"
    BY <1>3, <2>2, <2>3 DEF ReadingGoes, t1
  <2>4. CASE hw'.mode # "rx"
    <3>1. hw.txf = <<>> /\ hw.cur # 0 /\ hw.dyn = i.dynamic
      BY <1>0, <2>1 DEF Receiving
    <3>2. i.dynamic /\ Last(i) => hw'.mode = "stop"
      BY <2>1, <2>2, <2>4 DEF Receiving
    <3>3. ~ i.dynamic => hw'.mode = "hold"
      BY <2>1, <2>2, <2>4 DEF Receiving
    <3> QED BY <2>2, <3>1, <3>2, <3>3 DEF ReadingGoes
  <2> QED BY <2>3, <2>4
<1>11. CASE HwStop
  <2>1. hw.mode = "stop"
    BY <1>0, <1>11 DEF HwStop, KeepsBus
  <2>2. /\ hw'.iisr = hw.iisr \cup {"BNB"} /\ hw'.iier = hw.iier /\ hw'.txf = hw.txf /\ hw'.cr = hw.cr
        /\ hw'.mode = "idle" /\ hw'.moved = hw.moved
    BY <1>0, <1>11 DEF HwStop, CoreFields
  <2> QED BY <1>2, <2>1, <2>2 DEF ReadingGoes, t, t1
<1>12. CASE HwArbLost
  <2>1. hw'.iier = hw.iier /\ hw'.mode = "err" /\ hw'.cr = hw.cr
    BY <1>0, <1>12 DEF HwArbLost, CoreFields
  <2> QED BY <2>1 DEF ReadingGoes
<1> QED BY <1>6, <1>7, <1>8, <1>9, <1>10, <1>11, <1>12 DEF BusSteps

\* After the last read the STOP comes.
LEMMA OverGoesCore ==
  ASSUME CoreOK(hw), hw.txf = <<>>, hw.mode # "rx", OverGoes(hw),
         HwLevel \/ BusSteps \/ HwNack \/ HwArbLost
  PROVE  OverGoes(hw')
<1> USE DEF CoreOK, CoreFields, OverGoes
<1>1. CASE HwLevel
  BY <1>1 DEF HwLevel
<1>2. CASE HwSend \/ HwNack
  BY <1>2 DEF HwSend, HwNack, CanSend
<1>3. CASE HwByteStarts \/ HwByteEnds
  BY <1>3 DEF HwByteStarts, HwByteEnds
<1>4. CASE HwStop
  BY <1>4 DEF HwStop
<1>5. CASE HwArbLost
  BY <1>5 DEF HwArbLost
<1> QED BY <1>1, <1>2, <1>3, <1>4, <1>5 DEF BusSteps

\* So the core keeps every transfer going.
LEMMA CoreGoes ==
  ASSUME IInv, ProgressInv, ProgressInv', GoingInv, Core
  PROVE  GoingInv'
<1>0. /\ HwLevel \/ BusSteps \/ HwNack \/ HwArbLost
      /\ UNCHANGED <<caller, req, i2c>>
      /\ CoreOK(hw) /\ req \in Seq(Message) /\ DeviceOK(i2c, req)
  BY DEF Core, IInv, StateInv
<1>1. (caller # "idle" /\ ~ i2c.completion => Busy)' /\ Live' = Live
  BY <1>0 DEF GoingInv, Live, Busy
<1> SUFFICES ASSUME Live PROVE Going(i2c, hw', req)
  BY <1>0, <1>1 DEF GoingInv
<1>2. i2c.tx_msg # 0
  BY <1>0 DEF Live, Busy, DeviceOK, Indices
<1>3. Going(i2c, hw, req) /\ TransferInv /\ TransferInv'
  BY DEF GoingInv, ProgressInv
<1>4. /\ Writing(i2c, hw, req) \/ ReadingOn(i2c, hw, req) \/ Over(i2c, hw, req)
      /\ Writing(i2c, hw', req) \/ ReadingOn(i2c, hw', req) \/ Over(i2c, hw', req)
  BY <1>0, <1>3 DEF TransferInv, Live, Busy
<1>5. Armed(hw')
  BY <1>0, <1>3, ArmedCore DEF Going
<1>6. ASSUME i2c.rx_msg # 0 PROVE ReadingGoes(i2c, hw')
  <2>1. ReadingOn(i2c, hw, req) /\ ReadingOn(i2c, hw', req)
    BY <1>4, <1>6 DEF Writing, Over
  <2> QED BY <1>0, <1>3, <1>6, <2>1, ReadingGoesCore DEF Going
<1>7. ASSUME i2c.rx_msg = 0, req[i2c.tx_msg].rd PROVE OverGoes(hw')
  <2>1. Over(i2c, hw, req)
    BY <1>4, <1>7 DEF Writing, ReadingOn
  <2>2. hw.txf = <<>> /\ hw.mode # "rx"
    BY <2>1 DEF Over
  <2> QED BY <1>0, <1>3, <1>7, <2>2, OverGoesCore DEF Going
<1>8. ASSUME i2c.rx_msg = 0, ~ req[i2c.tx_msg].rd PROVE WritingGoes(i2c, hw', req)
  <2>1. Writing(i2c, hw, req)
    BY <1>4, <1>8 DEF ReadingOn, Over
  <2> QED BY <1>0, <1>2, <1>3, <1>8, <2>1, WritingGoesCore DEF Going
<1> QED BY <1>5, <1>6, <1>7, <1>8 DEF Going

\* Neither the caller nor the interrupt stops it.
LEMMA CallerGoes ==
  ASSUME GoingInv, StartXferRefused \/ WokenUp \/ FinishXfer \/ IrqEnter
  PROVE  GoingInv'
<1>1. CASE StartXferRefused \/ FinishXfer
  <2>1. caller' = "idle"
    BY <1>1 DEF StartXferRefused, FinishXfer, Return
  <2> QED BY <2>1 DEF GoingInv, Live
<1>2. CASE WokenUp \/ IrqEnter
  <2>1. UNCHANGED <<req, i2c, hw>> /\ (caller' # "idle" <=> caller # "idle")
    BY <1>2 DEF WokenUp, IrqEnter
  <2>2. Live' = Live /\ Busy' = Busy
    BY <2>1 DEF Live, Busy
  <2> QED BY <2>1, <2>2 DEF GoingInv
<1> QED BY <1>1, <1>2

-----------------------------------------------------------------------------
(* The start of a message.                                                  *)

\* What fits is queued as it is.
LEMMA QueuedEmpty ==
  ASSUME NEW t \in Seq(Entry), Len(t) <= DEPTH
  PROVE  Queued(<<>>, t) = t
<1>1. <<>> \o t = t /\ Len(<<>>) = 0
  OBVIOUS
<1>2. Len(t) \in Nat /\ MinOf(0 + Len(t), DEPTH) = Len(t)
  BY SizesOK DEF MinOf
<1>3. SubSeq(t, 1, Len(t)) = t
  OBVIOUS
<1> QED BY <1>1, <1>2, <1>3 DEF Queued

\* The interrupt helpers touch nothing but the two registers.
SameButIrqs(h, g) ==
  /\ g.cr = h.cr /\ g.rfd = h.rfd /\ g.txf = h.txf /\ g.rxocc = h.rxocc /\ g.mode = h.mode
  /\ g.cur = h.cur /\ g.byte = h.byte /\ g.dyn = h.dyn /\ g.left = h.left
  /\ g.autostop = h.autostop /\ g.moved = h.moved

\* irq_clr_en() clears and unmasks them.
LEMMA IrqClrEnFields ==
  ASSUME NEW d, IsPair(d), NEW mask
  PROVE  LET e == IrqClrEn(d, mask) IN
         /\ IsPair(e) /\ e.i = d.i /\ SameButIrqs(d.h, e.h)
         /\ e.h.iisr = d.h.iisr \ mask /\ e.h.iier = d.h.iier \cup mask
<1> DEFINE e == IrqClrEn(d, mask)
<1>1. /\ IsPair(e) /\ e.i = d.i
      /\ e.h = [d.h EXCEPT !.iisr = @ \ mask, !.iier = @ \cup mask]
  BY IrqClrEnIs, Zenon
<1> HIDE DEF e
<1>2. /\ SameButIrqs(d.h, e.h) /\ e.h.iisr = d.h.iisr \ mask /\ e.h.iier = d.h.iier \cup mask
  BY <1>1 DEF IsPair, CoreFields, SameButIrqs
<1> QED BY <1>1, <1>2 DEF e

\* irq_dis() masks interrupts and does nothing else.
LEMMA IrqDisFields ==
  ASSUME NEW d, IsPair(d), NEW mask
  PROVE  LET e == IrqDis(d, mask) IN
         /\ IsPair(e) /\ e.i = d.i /\ SameButIrqs(d.h, e.h)
         /\ e.h.iisr = d.h.iisr /\ e.h.iier = d.h.iier \ mask
<1> DEFINE e == IrqDis(d, mask)
<1>1. IsPair(e) /\ e.i = d.i /\ e.h = [d.h EXCEPT !.iier = @ \ mask]
  BY IrqDisIs, Zenon
<1> HIDE DEF e
<1>2. SameButIrqs(d.h, e.h) /\ e.h.iisr = d.h.iisr /\ e.h.iier = d.h.iier \ mask
  BY <1>1 DEF IsPair, CoreFields, SameButIrqs
<1> QED BY <1>1, <1>2 DEF e

\* The start of a message touches nothing that is stored or counted.
Begun(d, e) ==
  /\ e.h.moved = d.h.moved
  /\ e.i.tx_msg = d.i.tx_msg /\ e.i.nmsgs = d.i.nmsgs /\ e.i.dynamic = d.i.dynamic
  /\ e.i.msgs = d.i.msgs /\ e.i.filled = d.i.filled /\ e.i.broken = d.i.broken

\* The receive threshold that start_recv() programs leaves the last byte to be asked
\* for, unless it is the only one.
LEMMA StartWindow ==
  ASSUME NEW h, NEW len \in Nat, len > 0, NEW recv \in BOOLEAN, recv => len \in {1, 2},
         h.rxocc = 0, h.byte = "none", "RXFULL" \notin h.iisr,
         "NOACK" \in h.cr <=> (len = 1 /\ ~ recv),
         h.rfd = IF len > DEPTH THEN DEPTH - 1 ELSE IF len = 1 THEN 0 ELSE len - 2
  PROVE  Window(h, IF recv THEN MIN_LEN ELSE len, recv)
<1>1. DEPTH \in Nat /\ DEPTH > 1
  BY SizesOK
<1>2. CASE recv
  BY <1>1, <1>2 DEF Window, MIN_LEN
<1>3. CASE ~ recv /\ len = 1
  BY <1>1, <1>3 DEF Window
<1>4. CASE ~ recv /\ len # 1 /\ len > DEPTH
  BY <1>1, <1>4 DEF Window
<1>5. CASE ~ recv /\ len # 1 /\ ~ (len > DEPTH)
  BY <1>1, <1>5 DEF Window
<1> QED BY <1>2, <1>3, <1>4, <1>5

\* xiic_start_recv() queues the address of the read.
LEMMA StartRecvReads ==
  ASSUME NEW d, NEW q \in Seq(Message), Ready(d, q), Fresh(d.i, d.h, q), Fitting(q, d.i.dynamic),
         d.i.rx_pos = 0, q[d.i.tx_msg].rd
  PROVE  LET e == StartRecv(d) IN
         /\ ReadingOn(e.i, e.h, q) /\ Begun(d, e)
         /\ FreshGoes(d.i, d.h) => Going(e.i, e.h, q)
<1> DEFINE m == d.i.tx_msg
           M == q[m]
           len == d.i.msgs[m].len
           last == d.i.nmsgs = 1
           i1 == [d.i EXCEPT !.rx_msg = m, !.smbus_actual_len = 0]
           d1 == IrqDis([d EXCEPT !.i.rx_msg = m, !.i.smbus_actual_len = 0], TxInterrupts)
           nack == IF len = 1 /\ ~ d.i.msgs[m].recv THEN {"NOACK"} ELSE {}
           rsta == IF "MSMS" \in d.h.cr THEN {"RSTA"} ELSE {}
           ca == IrqClrEn(d1, {"RXFULL", "TXERR", "BNB"})
           cb == IrqClrEn(d1, {"RXFULL", "TXERR"})
           ra == MinOf(len, DEPTH) - 1
           rb == IF len > DEPTH THEN DEPTH - 1 ELSE IF len = 1 THEN 0 ELSE len - 2
           ea == <<Addr(m, TRUE, TRUE, FALSE), Length(m, len, last)>>
           eb == <<Addr(m, TRUE, FALSE, FALSE)>>
           da == [ca EXCEPT !.h.rfd = ra, !.h.txf = Queued(@, ea)]
           cr == (d.h.cr \ {"TX"}) \cup nack \cup rsta \cup {"MSMS"}
           db == [cb EXCEPT !.h.rfd = rb, !.h.cr = (@ \ {"TX"}) \cup nack \cup rsta \cup {"MSMS"},
                            !.h.txf = Queued(@, eb)]
           d2 == IF d.i.dynamic THEN da ELSE db
           d3 == IF last THEN IrqClrEn(d2, {"BNB"}) ELSE d2
           e == StartRecv(d)
           Enabled(c) == {"TXERR", "RXFULL"} \subseteq c.h.iier /\ ("ARB" \in d.h.iier => "ARB" \in c.h.iier)
<1>1. /\ IsPair(d) /\ CoreOK(d.h) /\ DeviceOK(d.i, q)
      /\ m \in DOMAIN q /\ m \in Nat /\ m # 0 /\ M \in Message /\ d.i.msgs[m] = M /\ len = M.len
      /\ len \in Nat /\ len > 0 /\ M.recv \in BOOLEAN /\ (M.recv => len \in {1, 2} /\ ~ d.i.dynamic)
      /\ d.i.filled[m] = 0 /\ d.h.moved[m] = 0
  <2>1. /\ IsPair(d) /\ CoreOK(d.h) /\ DeviceOK(d.i, q) /\ m # 0 /\ Untouched(d.i, q, m)
    BY DEF Ready
  <2>2. m \in DOMAIN q /\ m \in Nat /\ M \in Message
    BY <2>1 DEF DeviceOK, Typed, Indices
  <2>3. d.i.msgs[m] = M /\ d.h.moved[m] = 0
    BY DEF Fresh
  <2>4. M.len \in Nat /\ M.recv \in BOOLEAN
    BY <2>2, LenType
  <2>5. M.len > 0 /\ (M.recv => M.len \in {1, 2} /\ ~ d.i.dynamic)
    BY <2>2 DEF Fitting
  <2>6. d.i.filled[m] = 0
    BY <2>1, <2>2 DEF Untouched
  <2> QED BY <2>1, <2>2, <2>3, <2>4, <2>5, <2>6
<1>2. e = [d3 EXCEPT !.i.tx_pos = len, !.i.prev_msg_tx = FALSE]
  BY Zenon DEF StartRecv, d3, d2, da, db, ca, cb, d1, ra, rb, nack, rsta, ea, eb, TxInterrupts
<1>3. /\ IsPair(d1) /\ d1.i = i1 /\ SameButIrqs(d.h, d1.h) /\ d1.h.iisr = d.h.iisr
      /\ d1.h.iier = d.h.iier \ TxInterrupts
  <2> DEFINE d0 == [d EXCEPT !.i.rx_msg = m, !.i.smbus_actual_len = 0]
  <2>1. IsPair(d0) /\ d0.i = i1 /\ d0.h = d.h
    BY <1>1 DEF IsPair, DeviceFields
  <2>2. d1 = IrqDis(d0, TxInterrupts)
    OBVIOUS
  <2> HIDE DEF d0, d1
  <2> QED BY <2>1, <2>2, IrqDisFields
<1> HIDE DEF d1
<1>4. /\ IsPair(ca) /\ ca.i = i1 /\ SameButIrqs(d1.h, ca.h)
      /\ ca.h.iisr = d1.h.iisr \ {"RXFULL", "TXERR", "BNB"} /\ Enabled(ca)
  BY <1>3, IrqClrEnFields DEF TxInterrupts
<1>5. /\ IsPair(cb) /\ cb.i = i1 /\ SameButIrqs(d1.h, cb.h)
      /\ cb.h.iisr = d1.h.iisr \ {"RXFULL", "TXERR"} /\ Enabled(cb)
  BY <1>3, IrqClrEnFields DEF TxInterrupts
<1> HIDE DEF ca, cb
<1>6. d.h.txf = <<>> /\ Queued(<<>>, ea) = ea /\ Queued(<<>>, eb) = eb
  <2>1. Addr(m, TRUE, TRUE, FALSE) \in Entry /\ Addr(m, TRUE, FALSE, FALSE) \in Entry
    BY <1>1 DEF Addr, Entry
  <2>2. Length(m, len, last) \in Entry
    BY <1>1 DEF Length, Entry
  <2>3. ea \in Seq(Entry) /\ eb \in Seq(Entry)
    BY <2>1, <2>2, TupleFact, Zenon
  <2>4. Len(ea) = 2 /\ Len(eb) = 1
    OBVIOUS
  <2> HIDE DEF ea, eb
  <2>5. Queued(<<>>, ea) = ea /\ Queued(<<>>, eb) = eb
    <3>1. Len(ea) <= DEPTH /\ Len(eb) <= DEPTH
      BY <2>4, SizesOK
    <3> QED BY <2>3, <3>1, QueuedEmpty
  <2>6. d.h.txf = <<>>
    BY DEF Fresh
  <2> QED BY <2>5, <2>6
<1>7. "NOACK" \in cr <=> "NOACK" \in d.h.cr \/ (len = 1 /\ ~ M.recv)
  BY <1>1
<1>8. "MSMS" \in cr /\ ("MSMS" \in d.h.cr => "RSTA" \in cr)
  OBVIOUS
<1> HIDE DEF nack, rsta, ea, eb, ra, rb, cr
<1>9. CASE d.i.dynamic
  <2>1. d2 = da
    BY <1>9, Zenon
  <2>2. /\ IsPair(d2) /\ d2.i = i1
        /\ d2.h.iisr = d.h.iisr \ {"RXFULL", "TXERR", "BNB"} /\ Enabled(d2)
        /\ d2.h.txf = ea /\ d2.h.cr = d.h.cr /\ d2.h.mode = d.h.mode /\ d2.h.cur = d.h.cur
        /\ d2.h.dyn = d.h.dyn /\ d2.h.byte = d.h.byte /\ d2.h.rxocc = d.h.rxocc
        /\ d2.h.moved = d.h.moved
    <3>1. ca.h.txf = <<>>
      BY <1>3, <1>4, <1>6 DEF SameButIrqs
    <3>2. d2 = [ca EXCEPT !.h.rfd = ra, !.h.txf = ea]
      BY <1>6, <2>1, <3>1
    <3>3. /\ IsPair(d2) /\ d2.i = ca.i /\ d2.h = [ca.h EXCEPT !.rfd = ra, !.txf = ea]
      <4> DEFINE hx == [ca.h EXCEPT !.rfd = ra, !.txf = ea]
      <4>1. DOMAIN ca = {"i", "h"} /\ DeviceFields = DOMAIN ca.i /\ CoreFields = DOMAIN ca.h
        BY <1>4 DEF IsPair
      <4>2. [ca EXCEPT !.h.rfd = ra, !.h.txf = ea] = [ca EXCEPT !.h = hx]
        BY <4>1
      <4>3. DOMAIN hx = CoreFields
        BY <4>1
      <4> HIDE DEF hx, d2
      <4> QED BY <3>2, <4>1, <4>2, <4>3 DEF IsPair, hx
    <3> HIDE DEF d2
    <3> QED BY <1>3, <1>4, <3>3 DEF SameButIrqs, IsPair, CoreFields
  <2> HIDE DEF d2
  <2>3. /\ IsPair(d3) /\ d3.i = i1
        /\ d3.h.iisr = d.h.iisr \ {"RXFULL", "TXERR", "BNB"} /\ Enabled(d3) /\ (last => "BNB" \in d3.h.iier)
        /\ d3.h.txf = ea /\ d3.h.cr = d.h.cr /\ d3.h.mode = d.h.mode /\ d3.h.cur = d.h.cur
        /\ d3.h.dyn = d.h.dyn /\ d3.h.byte = d.h.byte /\ d3.h.rxocc = d.h.rxocc
        /\ d3.h.moved = d.h.moved
    <3>1. CASE last
      <4>1. d3 = IrqClrEn(d2, {"BNB"})
        BY <3>1, Zenon
      <4>2. /\ IsPair(d3) /\ d3.i = d2.i /\ SameButIrqs(d2.h, d3.h)
            /\ d3.h.iisr = d2.h.iisr \ {"BNB"} /\ d3.h.iier = d2.h.iier \cup {"BNB"}
        BY <2>2, <4>1, IrqClrEnFields
      <4> QED BY <2>2, <4>2 DEF SameButIrqs
    <3>2. CASE ~ last
      <4>1. d3 = d2
        BY <3>2, Zenon
      <4> QED BY <2>2, <3>2, <4>1
    <3> QED BY <3>1, <3>2
  <2> HIDE DEF d3, e, i1
  <2>4. /\ IsPair(e) /\ e.h = d3.h /\ e.i = [i1 EXCEPT !.tx_pos = len, !.prev_msg_tx = FALSE]
    BY <1>2, <2>3 DEF IsPair
  <2>5. /\ e.i.tx_msg = m /\ e.i.rx_msg = m /\ e.i.nmsgs = d.i.nmsgs /\ e.i.dynamic = d.i.dynamic
        /\ e.i.msgs = d.i.msgs /\ e.i.filled = d.i.filled /\ e.i.broken = d.i.broken
        /\ e.i.rx_pos = d.i.rx_pos /\ e.i.tx_pos = len /\ e.i.smbus_actual_len = 0
    BY <1>1, <2>4 DEF i1, IsPair, DeviceFields
  <2>6. KeepsBus(e.h)
    BY <2>3, <2>4 DEF Fresh, KeepsBus
  <2>7. QueuedRead(e.i, e.h, ToGo(e.i, e.h))
    <3>1. e.h.txf = <<Addr(m, TRUE, TRUE, FALSE), Length(m, e.i.msgs[m].len, Last(e.i))>>
      BY <2>3, <2>4, <2>5 DEF Last, ea
    <3>2. e.h.iisr \cap {"TXERR", "BNB", "RXFULL"} = {}
      BY <2>3, <2>4
    <3>3. e.h.moved[m] = 0 /\ e.h.byte = "none" /\ e.h.mode \in {"idle", "hold", "err"}
      BY <1>1, <2>3, <2>4 DEF Fresh
    <3> QED BY <1>9, <2>5, <3>1, <3>2, <3>3 DEF QueuedRead
  <2>8. SetUp(e.i, q[m])
    BY <1>1, <1>9, <2>5 DEF SetUp
  <2>9. /\ e.h.moved[m] = 0 /\ e.i.rx_pos = 0 /\ e.h.rxocc = 0 /\ e.i.filled[m] = 0
    BY <1>1, <2>3, <2>4, <2>5 DEF Fresh
  <2>10. ReadingOn(e.i, e.h, q)
    BY <1>1, <2>3, <2>4, <2>5, <2>6, <2>7, <2>8, <2>9 DEF ReadingOn, Stage
  <2>11. FreshGoes(d.i, d.h) => Going(e.i, e.h, q)
    <3>1. ToGo(e.i, e.h) # 0
      BY <1>1, <1>9, <2>5, <2>9 DEF ToGo, Whole
    <3>2. FreshGoes(d.i, d.h) => Armed(e.h)
      BY <2>3, <2>4 DEF FreshGoes, Armed
    <3>3. FreshGoes(d.i, d.h) => ReadingGoes(e.i, e.h)
      BY <1>9, <2>3, <2>4, <2>5, <3>1 DEF ReadingGoes, Last
    <3> QED BY <1>1, <2>5, <3>2, <3>3 DEF Going
  <2> QED BY <2>3, <2>4, <2>5, <2>10, <2>11 DEF Begun, e
<1>10. CASE ~ d.i.dynamic
  <2>1. d2 = db
    BY <1>10, Zenon
  <2>2. /\ IsPair(d2) /\ d2.i = i1
        /\ d2.h.iisr = d.h.iisr \ {"RXFULL", "TXERR"} /\ Enabled(d2)
        /\ d2.h.txf = eb /\ d2.h.cr = cr /\ d2.h.mode = d.h.mode /\ d2.h.cur = d.h.cur
        /\ d2.h.dyn = d.h.dyn /\ d2.h.byte = d.h.byte /\ d2.h.rxocc = d.h.rxocc
        /\ d2.h.moved = d.h.moved /\ d2.h.rfd = rb
    <3>1. cb.h.txf = <<>> /\ cb.h.cr = d.h.cr
      BY <1>3, <1>5, <1>6 DEF SameButIrqs
    <3>2. d2 = [cb EXCEPT !.h.rfd = rb, !.h.cr = cr, !.h.txf = eb]
      BY <1>6, <2>1, <3>1 DEF cr
    <3>3. /\ IsPair(d2) /\ d2.i = cb.i
          /\ d2.h = [cb.h EXCEPT !.rfd = rb, !.cr = cr, !.txf = eb]
      <4> DEFINE hx == [cb.h EXCEPT !.rfd = rb, !.cr = cr, !.txf = eb]
      <4>1. DOMAIN cb = {"i", "h"} /\ DeviceFields = DOMAIN cb.i /\ CoreFields = DOMAIN cb.h
        BY <1>5 DEF IsPair
      <4>2. [cb EXCEPT !.h.rfd = rb, !.h.cr = cr, !.h.txf = eb] = [cb EXCEPT !.h = hx]
        BY <4>1
      <4>3. DOMAIN hx = CoreFields
        BY <4>1
      <4> HIDE DEF hx, d2
      <4> QED BY <3>2, <4>1, <4>2, <4>3 DEF IsPair, hx
    <3> HIDE DEF d2
    <3> QED BY <1>3, <1>5, <3>3 DEF SameButIrqs, IsPair, CoreFields
  <2> HIDE DEF d2
  <2>3. /\ IsPair(d3) /\ d3.i = i1
        /\ d3.h.iisr = d.h.iisr \ {"RXFULL", "TXERR", "BNB"} /\ Enabled(d3) /\ (last => "BNB" \in d3.h.iier)
        /\ d3.h.txf = eb /\ d3.h.cr = cr /\ d3.h.mode = d.h.mode /\ d3.h.cur = d.h.cur
        /\ d3.h.dyn = d.h.dyn /\ d3.h.byte = d.h.byte /\ d3.h.rxocc = d.h.rxocc
        /\ d3.h.moved = d.h.moved /\ d3.h.rfd = rb
    <3>1. CASE last
      <4>1. d3 = IrqClrEn(d2, {"BNB"})
        BY <3>1, Zenon
      <4>2. /\ IsPair(d3) /\ d3.i = d2.i /\ SameButIrqs(d2.h, d3.h)
            /\ d3.h.iisr = d2.h.iisr \ {"BNB"} /\ d3.h.iier = d2.h.iier \cup {"BNB"}
        BY <2>2, <4>1, IrqClrEnFields
      <4> QED BY <2>2, <4>2 DEF SameButIrqs
    <3>2. CASE ~ last
      <4>1. d3 = d2
        BY <3>2, Zenon
      <4>2. "BNB" \notin d.h.iisr
        BY DEF Fresh
      <4> QED BY <2>2, <3>2, <4>1, <4>2
    <3> QED BY <3>1, <3>2
  <2> HIDE DEF d3, e, i1
  <2>4. /\ IsPair(e) /\ e.h = d3.h /\ e.i = [i1 EXCEPT !.tx_pos = len, !.prev_msg_tx = FALSE]
    BY <1>2, <2>3 DEF IsPair
  <2>5. /\ e.i.tx_msg = m /\ e.i.rx_msg = m /\ e.i.nmsgs = d.i.nmsgs /\ e.i.dynamic = d.i.dynamic
        /\ e.i.msgs = d.i.msgs /\ e.i.filled = d.i.filled /\ e.i.broken = d.i.broken
        /\ e.i.rx_pos = d.i.rx_pos /\ e.i.tx_pos = len /\ e.i.smbus_actual_len = 0
    BY <1>1, <2>4 DEF i1, IsPair, DeviceFields
  <2>6. KeepsBus(e.h)
    BY <1>8, <2>3, <2>4 DEF KeepsBus
  <2>7. /\ e.h.moved[m] = 0 /\ e.i.rx_pos = 0 /\ e.h.rxocc = 0 /\ e.i.filled[m] = 0
        /\ e.h.byte = "none" /\ e.h.mode \in {"idle", "hold", "err"}
        /\ "NOACK" \in e.h.cr <=> (len = 1 /\ ~ M.recv)
    BY <1>1, <1>7, <1>10, <2>3, <2>4, <2>5 DEF Fresh
  <2>8. Window(e.h, IF M.recv THEN MIN_LEN ELSE len, M.recv)
    <3>1. "RXFULL" \notin e.h.iisr
      BY <2>3, <2>4
    <3>2. e.h.rfd = IF len > DEPTH THEN DEPTH - 1 ELSE IF len = 1 THEN 0 ELSE len - 2
      BY <2>3, <2>4 DEF rb
    <3> HIDE DEF len, M
    <3> QED BY <1>1, <2>7, <3>1, <3>2, StartWindow, Zenon
  <2>9. ToGo(e.i, e.h) = IF M.recv THEN MIN_LEN ELSE len
    BY <1>1, <2>5, <2>7 DEF ToGo, Whole, MIN_LEN
  <2>10. QueuedRead(e.i, e.h, ToGo(e.i, e.h))
    <3>1. e.h.txf = <<Addr(m, TRUE, FALSE, FALSE)>>
      BY <2>3, <2>4 DEF eb
    <3>2. e.h.iisr \cap {"TXERR", "BNB", "RXFULL"} = {}
      BY <2>3, <2>4
    <3> QED BY <1>1, <1>10, <2>5, <2>7, <2>8, <2>9, <3>1, <3>2 DEF QueuedRead
  <2>11. SetUp(e.i, q[m])
    BY <1>1, <2>5 DEF SetUp
  <2>12. ReadingOn(e.i, e.h, q)
    BY <1>1, <2>3, <2>4, <2>5, <2>6, <2>7, <2>10, <2>11 DEF ReadingOn, Stage
  <2>13. FreshGoes(d.i, d.h) => Going(e.i, e.h, q)
    <3>1. ToGo(e.i, e.h) # 0
      BY <1>1, <2>9 DEF MIN_LEN
    <3>2. FreshGoes(d.i, d.h) => Armed(e.h)
      BY <2>3, <2>4 DEF FreshGoes, Armed
    <3>3. FreshGoes(d.i, d.h) => ReadingGoes(e.i, e.h)
      BY <1>8, <1>10, <2>3, <2>4, <2>5, <3>1 DEF ReadingGoes, Last, FreshGoes
    <3> QED BY <1>1, <2>5, <3>2, <3>3 DEF Going
  <2> QED BY <2>3, <2>4, <2>5, <2>12, <2>13 DEF Begun, e
<1> QED BY <1>9, <1>10

\* What FillTxFifo appends are data bytes of the message, and a STOP with the last
\* byte of the last message.
Bytes(f, m, room, last) == \A k \in DOMAIN f : f[k] = Byte(m, k = room /\ last)

\* The bytes f that FillTxFifo appends go out behind what is queued.
LEMMA FillFact ==
  ASSUME NEW s \in Seq(Entry), NEW m \in Nat, NEW room \in Nat, NEW n \in 0 .. room,
         NEW last \in BOOLEAN, NEW f \in Seq(Entry),
         Outgoing(s, m, FALSE), Len(f) = n, Bytes(f, m, room, last)
  PROVE  Outgoing(s \o f, m, last /\ n = room)
<1> DEFINE g == s \o f
<1>1. /\ Len(g) = Len(s) + n /\ Len(s) \in Nat /\ DOMAIN g = 1 .. Len(s) + n
      /\ \A k \in 1 .. Len(s) : g[k] = s[k]
      /\ \A k \in Len(s) + 1 .. Len(s) + n : g[k] = f[k - Len(s)]
  OBVIOUS
<1> HIDE DEF g
<1>0. \A k \in 1 .. n : f[k] = Byte(m, k = room /\ last)
  BY DEF Bytes
<1>2. \A k \in 1 .. Len(s) : /\ s[k].msg = m /\ ~ s[k].stop
                             /\ s[k].kind = "data" \/ (k = 1 /\ s[k].kind = "addr" /\ ~ s[k].rd)
  <2>1. \A k \in DOMAIN s : s[k].stop => FALSE
    BY DEF Outgoing
  <2>2. DOMAIN s = 1 .. Len(s)
    OBVIOUS
  <2> QED BY <2>1, <2>2 DEF Outgoing
<1>3. ASSUME NEW k \in DOMAIN g
      PROVE  /\ g[k].msg = m
             /\ g[k].kind = "data" \/ (k = 1 /\ g[k].kind = "addr" /\ ~ g[k].rd)
             /\ g[k].stop => (last /\ n = room) /\ k = Len(g)
  <2>1. CASE k <= Len(s)
    <3>1. k \in 1 .. Len(s) /\ g[k] = s[k]
      BY <1>1, <2>1
    <3> QED BY <1>2, <3>1
  <2>2. CASE ~ (k <= Len(s))
    <3> DEFINE j == k - Len(s)
    <3>1. k \in Len(s) + 1 .. Len(s) + n /\ j \in 1 .. n /\ k = Len(s) + j /\ j \in Nat
      <4>1. k \in 1 .. Len(s) + n
        BY <1>1
      <4>2. Len(s) \in Nat
        OBVIOUS
      <4> QED BY <2>2, <4>1, <4>2
    <3>2. g[k] = Byte(m, j = room /\ last)
      BY <1>0, <1>1, <3>1
    <3> HIDE DEF j
    <3>3. g[k].msg = m /\ g[k].kind = "data" /\ (g[k].stop => j = room /\ last)
      <4> DEFINE b == j = room /\ last
      <4>1. g[k] = Byte(m, b)
        BY <3>2
      <4>2. b \in BOOLEAN
        OBVIOUS
      <4> HIDE DEF b
      <4>3. g[k].msg = m /\ g[k].kind = "data" /\ g[k].stop = b
        BY <4>1, <4>2 DEF Byte
      <4> QED BY <4>2, <4>3 DEF b
    <3>4. j = room => n = room /\ k = Len(g)
      <4>1. j \in Nat /\ j <= n /\ k = Len(s) + j /\ Len(g) = Len(s) + n
        BY <1>1, <3>1
      <4> QED BY <4>1
    <3> QED BY <3>3, <3>4
  <2> QED BY <2>1, <2>2
<1> QED BY <1>3 DEF Outgoing, g

\* Data bytes behind the others are counted.
LEMMA DataAppended ==
  ASSUME NEW s \in Seq(Entry), NEW f \in Seq(Entry), f # <<>> => f[1].kind = "data"
  PROVE  DataIn(s) \in Nat /\ DataIn(s \o f) = DataIn(s) + Len(f)
<1> DEFINE g == s \o f
<1>1. /\ Len(g) = Len(s) + Len(f) /\ Len(s) \in Nat /\ Len(f) \in Nat
      /\ s # <<>> => g # <<>> /\ g[1] = s[1] /\ Len(s) > 0
      /\ s = <<>> => Len(s) = 0 /\ (g # <<>> => f # <<>> /\ g[1] = f[1])
  OBVIOUS
<1> HIDE DEF g
<1>2. CASE s = <<>>
  <2>1. DataIn(s) = 0 /\ DataIn(g) = Len(g)
    BY <1>1, <1>2 DEF DataIn
  <2> QED BY <1>1, <1>2, <2>1 DEF g
<1>3. CASE s # <<>> /\ s[1].kind = "addr"
  <2>1. DataIn(s) = Len(s) - 1 /\ DataIn(g) = Len(g) - 1
    BY <1>1, <1>3 DEF DataIn
  <2> QED BY <1>1, <1>3, <2>1 DEF g
<1>4. CASE s # <<>> /\ s[1].kind # "addr"
  <2>1. DataIn(s) = Len(s) /\ DataIn(g) = Len(g)
    BY <1>1, <1>4 DEF DataIn
  <2> QED BY <1>1, <1>4, <2>1 DEF g
<1> QED BY <1>2, <1>3, <1>4

\* FillTxFifo puts n more bytes of the message into the FIFO.
LEMMA FillSends ==
  ASSUME NEW d, IsPair(d), CoreOK(d.h), NEW q \in Seq(Message), d.i.tx_msg \in Nat, d.i.tx_pos \in Nat,
         TxSpace(d) \in Nat, Outgoing(d.h.txf, d.i.tx_msg, d.i.nmsgs = 1 /\ TxSpace(d) = 0)
  PROVE  LET n == MinOf(TxSpace(d), TxFifoSpace(d))
             e == FillTxFifo(d)
         IN /\ IsPair(e) /\ CoreOK(e.h) /\ n \in Nat /\ n <= TxSpace(d)
            /\ e.i = [d.i EXCEPT !.tx_pos = @ + n] /\ e.i.tx_pos = d.i.tx_pos + n
            /\ Outgoing(e.h.txf, d.i.tx_msg, d.i.nmsgs = 1 /\ n = TxSpace(d))
            /\ DataIn(d.h.txf) \in Nat /\ DataIn(e.h.txf) = DataIn(d.h.txf) + n
            /\ e.h.iisr = d.h.iisr /\ e.h.iier = d.h.iier /\ e.h.cr = d.h.cr
            /\ e.h.rxocc = d.h.rxocc /\ e.h.mode = d.h.mode /\ e.h.cur = d.h.cur
            /\ e.h.byte = d.h.byte /\ e.h.dyn = d.h.dyn /\ e.h.moved = d.h.moved
            /\ n = 0 => e.h.txf = d.h.txf
            /\ n # 0 => e.h.txf # <<>>
<1> DEFINE n == MinOf(TxSpace(d), TxFifoSpace(d))
           m == d.i.tx_msg
           room == TxSpace(d)
           last == d.i.nmsgs = 1
           f == [k \in 1 .. n |-> Byte(m, k = room /\ last)]
           e == FillTxFifo(d)
<1>1. /\ IsPair(e) /\ e.i = [d.i EXCEPT !.tx_pos = @ + n] /\ e.h = [d.h EXCEPT !.txf = @ \o f]
  BY FillIs
<1>2. CoreOK(e.h)
  BY FillKeeps
<1>3. n \in Nat /\ n <= room /\ room \in Nat
  <2>1. TxFifoSpace(d) \in Nat
    BY SizesOK DEF TxFifoSpace, MaxOf, CoreOK
  <2> QED BY <2>1 DEF MinOf
<1>4. d.h.txf \in Seq(Entry) /\ last \in BOOLEAN /\ m \in Nat
  BY DEF CoreOK
<1> HIDE DEF n, e, room, last, m
<1>5. f \in Seq(Entry) /\ Len(f) = n /\ Bytes(f, m, room, last)
  BY <1>3, <1>4 DEF Byte, Entry, Bytes
<1> HIDE DEF f
<1>6. DataIn(d.h.txf) \in Nat /\ DataIn(d.h.txf \o f) = DataIn(d.h.txf) + n
  <2> DEFINE s == d.h.txf
  <2>1. f # <<>> => f[1].kind = "data"
    BY <1>3, <1>5 DEF Bytes, Byte
  <2>2. s \in Seq(Entry)
    BY <1>4
  <2> HIDE DEF s
  <2>3. DataIn(s) \in Nat /\ DataIn(s \o f) = DataIn(s) + n
    BY <1>5, <2>1, <2>2, DataAppended
  <2> QED BY <2>3 DEF s
<1>7. (n = 0 => d.h.txf \o f = d.h.txf) /\ (n # 0 => d.h.txf \o f # <<>>)
  BY <1>3, <1>4, <1>5
<1>10. Outgoing(d.h.txf \o f, m, last /\ n = room)
  <2> DEFINE s == d.h.txf
  <2>1. Outgoing(s, m, last /\ room = 0)
    BY DEF m, last, room
  <2>2. s \in Seq(Entry) /\ m \in Nat /\ n \in 0 .. room /\ room \in Nat /\ last \in BOOLEAN
    BY <1>3, <1>4
  <2> HIDE DEF s
  <2>3. CASE room = 0
    <3>1. n = 0 /\ n = room
      BY <1>3, <2>3
    <3>2. s \o f = s
      BY <1>7, <3>1 DEF s
    <3>3. Outgoing(s, m, last /\ n = room)
      BY <2>1, <2>3, <3>1 DEF Outgoing
    <3> QED BY <3>2, <3>3 DEF s
  <2>4. CASE room # 0
    <3>1. Outgoing(s, m, FALSE)
      BY <2>1, <2>4 DEF Outgoing
    <3>2. Outgoing(s \o f, m, last /\ n = room)
      BY <1>5, <3>1, <2>2, FillFact, Zenon
    <3> QED BY <3>2 DEF s
  <2> QED BY <2>3, <2>4
<1>8. /\ e.h.txf = d.h.txf \o f
      /\ e.h.iisr = d.h.iisr /\ e.h.iier = d.h.iier /\ e.h.cr = d.h.cr
      /\ e.h.rxocc = d.h.rxocc /\ e.h.mode = d.h.mode /\ e.h.cur = d.h.cur
      /\ e.h.byte = d.h.byte /\ e.h.dyn = d.h.dyn /\ e.h.moved = d.h.moved
  BY <1>1 DEF IsPair, CoreFields
<1>9. e.i.tx_pos = d.i.tx_pos + n
  BY <1>1 DEF IsPair, DeviceFields
<1> QED BY <1>1, <1>2, <1>3, <1>6, <1>7, <1>8, <1>9, <1>10 DEF n, e, room, last, m

\* The first and the last entry of the TX FIFO when it has been filled up.
LEMMA FillEnds ==
  ASSUME NEW d, IsPair(d), CoreOK(d.h), d.i.tx_msg \in Nat, TxSpace(d) \in Nat
  PROVE  LET n == MinOf(TxSpace(d), TxFifoSpace(d))
             s == d.h.txf
             g == FillTxFifo(d).h.txf
         IN /\ AddressIn(g) <=> AddressIn(s)
            /\ s # <<>> => g # <<>> /\ g[1] = s[1]
            /\ n = 0 => g = s
            /\ n # 0 => g # <<>> /\ (g[Len(g)].stop <=> n = TxSpace(d) /\ d.i.nmsgs = 1)
<1> DEFINE n == MinOf(TxSpace(d), TxFifoSpace(d))
           m == d.i.tx_msg
           room == TxSpace(d)
           last == d.i.nmsgs = 1
           f == [k \in 1 .. n |-> Byte(m, k = room /\ last)]
           s == d.h.txf
           g == s \o f
<1>1. FillTxFifo(d).h.txf = g
  <2>1. FillTxFifo(d).h = [d.h EXCEPT !.txf = @ \o f]
    BY FillIs
  <2> HIDE DEF f
  <2> QED BY <2>1 DEF IsPair, CoreFields
<1>2. n \in Nat /\ n <= room /\ room \in Nat
  <2>1. TxFifoSpace(d) \in Nat
    BY SizesOK DEF TxFifoSpace, MaxOf, CoreOK
  <2> QED BY <2>1 DEF MinOf
<1>3. s \in Seq(Entry) /\ last \in BOOLEAN /\ m \in Nat
  BY DEF CoreOK
<1> HIDE DEF n, room, last, m, s
<1>4. f \in Seq(Entry) /\ Len(f) = n /\ Bytes(f, m, room, last)
  BY <1>2, <1>3 DEF Byte, Entry, Bytes
<1> HIDE DEF f
<1>5. /\ Len(g) = Len(s) + n /\ Len(s) \in Nat /\ (s = <<>> <=> Len(s) = 0)
      /\ (s # <<>> => g # <<>> /\ g[1] = s[1])
      /\ (s = <<>> => (g # <<>> => f # <<>> /\ g[1] = f[1]))
      /\ (n = 0 => g = s)
      /\ (n # 0 => g # <<>> /\ g[Len(g)] = f[n] /\ n \in DOMAIN f)
  <2>1. /\ Len(g) = Len(s) + n /\ Len(s) \in Nat /\ (s = <<>> <=> Len(s) = 0)
        /\ DOMAIN f = 1 .. n /\ DOMAIN g = 1 .. Len(s) + n
        /\ \A k \in 1 .. Len(s) : g[k] = s[k]
        /\ \A k \in Len(s) + 1 .. Len(s) + n : g[k] = f[k - Len(s)]
    BY <1>2, <1>3, <1>4
  <2>2. n = 0 => f = <<>>
    BY <1>4
  <2>3. /\ s = <<>> => (g # <<>> => f # <<>> /\ g[1] = f[1])
        /\ f = <<>> => g = s
    BY <1>3, <1>4
  <2> HIDE DEF g
  <2>6. ASSUME s # <<>> PROVE 1 \in DOMAIN g /\ g[1] = s[1]
    <3>1. Len(s) >= 1
      BY <2>1, <2>6
    <3>2. 1 \in 1 .. Len(s) /\ 1 \in 1 .. Len(s) + n
      BY <1>2, <2>1, <3>1
    <3> QED BY <2>1, <3>2
  <2>4. n # 0 => Len(g) \in DOMAIN g /\ g[Len(g)] = f[n] /\ n \in DOMAIN f
    BY <1>2, <2>1
  <2>5. Len(<<>>) = 0 /\ DOMAIN <<>> = {}
    OBVIOUS
  <2> QED BY <2>1, <2>2, <2>3, <2>4, <2>5, <2>6
<1>6. \A k \in DOMAIN f : f[k].kind = "data" /\ f[k].stop = (k = room /\ last)
  <2> TAKE k \in DOMAIN f
  <2> DEFINE b == k = room /\ last
  <2>1. f[k] = Byte(m, b)
    BY <1>4 DEF Bytes
  <2> HIDE DEF b
  <2>2. f[k].kind = "data" /\ f[k].stop = b
    BY <2>1 DEF Byte
  <2> QED BY <2>2 DEF b
<1>7. f # <<>> => 1 \in DOMAIN f
  BY <1>2, <1>4
<1> HIDE DEF g
<1>8. AddressIn(g) <=> AddressIn(s)
  BY <1>5, <1>6, <1>7 DEF AddressIn
<1> QED BY <1>1, <1>5, <1>6, <1>8 DEF n, room, last, s

\* xiic_start_send() queues the address and the first bytes of the write.
LEMMA StartSendWrites ==
  ASSUME NEW d, NEW q \in Seq(Message), Ready(d, q), Fresh(d.i, d.h, q), Fitting(q, d.i.dynamic),
         d.i.tx_pos = 0, ~ q[d.i.tx_msg].rd
  PROVE  LET e == StartSend(d) IN
         /\ Writing(e.i, e.h, q) /\ Begun(d, e)
         /\ FreshGoes(d.i, d.h) => Going(e.i, e.h, q)
<1> DEFINE m == d.i.tx_msg
           len == q[m].len
           last == d.i.nmsgs = 1
           more == d.i.nmsgs > 1 \/ TxSpace(d) > 0
           rsta == IF "MSMS" \in d.h.cr THEN {"RSTA"} ELSE {}
           stop == d.i.dynamic /\ d.i.nmsgs = 1 /\ d.i.msgs[m].len = 0
           addr == Addr(m, FALSE, d.i.dynamic, stop)
           d1 == [d EXCEPT !.h.txf = Queued(@, <<addr>>)]
           ma == {"TXEMPTY", "TXERR", "BNB"} \cup (IF more THEN {"TXHALF"} ELSE {})
           mb == {"TXEMPTY", "TXERR", "BNB"}
           ca == IrqClrEn(d1, ma)
           da == FillTxFifo(ca)
           d0 == FillTxFifo(d1)
           cr == (IF rsta = {} THEN d0.h.cr ELSE d0.h.cr \ {"NOACK"}) \cup rsta \cup {"MSMS", "TX"}
           cb == [d0 EXCEPT !.h.cr =
                    (IF rsta = {} THEN @ ELSE @ \ {"NOACK"}) \cup rsta \cup {"MSMS", "TX"}]
           db == IrqClrEn(cb, mb)
           d2 == IF d.i.dynamic THEN da ELSE db
           e == StartSend(d)
           n == MinOf(len, DEPTH - 1)
           Ends(x) == /\ x # <<>> /\ x[1].kind = "addr" /\ x[1].dyn = d.i.dynamic
                      /\ d.i.dynamic /\ last /\ n = len => x[Len(x)].stop
           Ok(c) == /\ IsPair(c) /\ c.i = [d.i EXCEPT !.tx_pos = @ + n]
                    /\ Outgoing(c.h.txf, m, last /\ n = len) /\ DataIn(c.h.txf) = n
                    /\ c.h.rxocc = 0 /\ c.h.mode \in {"idle", "hold", "err"} /\ c.h.byte = "none"
                    /\ c.h.cur = d.h.cur /\ c.h.dyn = d.h.dyn /\ c.h.moved = d.h.moved
                    /\ c.h.mode = d.h.mode /\ Ends(c.h.txf)
<1>0. e = [d2 EXCEPT !.i.prev_msg_tx = TRUE]
  BY Zenon DEF StartSend
<1>1. /\ IsPair(d) /\ CoreOK(d.h) /\ DeviceOK(d.i, q) /\ m \in Nat /\ m # 0 /\ m \in DOMAIN q
      /\ d.i.msgs[m] = q[m] /\ len \in Nat /\ TxSpace(d) = len /\ d.h.moved[m] = 0 /\ last \in BOOLEAN
  <2>1. IsPair(d) /\ CoreOK(d.h) /\ DeviceOK(d.i, q) /\ m \in Nat /\ m # 0 /\ m \in DOMAIN q
    BY DEF Ready, DeviceOK, Typed, Indices
  <2>2. d.i.msgs[m] = q[m] /\ d.h.moved[m] = 0
    BY DEF Fresh
  <2>3. len \in Nat
    BY <2>1, LenType
  <2>4. TxSpace(d) = len
    BY <2>2, <2>3 DEF TxSpace
  <2> QED BY <2>1, <2>2, <2>3, <2>4
<1>2. stop \in BOOLEAN /\ (stop <=> d.i.dynamic /\ last /\ len = 0)
  BY <1>1
<1>3. n \in Nat /\ n <= len /\ (len < DEPTH => n = len)
  BY <1>1, SizesOK DEF MinOf
<1>4. addr \in Entry /\ <<addr>> \in Seq(Entry)
  <2>1. d.i.dynamic \in BOOLEAN
    BY <1>1 DEF DeviceOK, Typed
  <2> HIDE DEF stop
  <2>2. addr \in Entry
    BY <1>1, <1>2, <2>1 DEF Addr, Entry
  <2> QED BY <2>2, TupleFact, Zenon
<1>5. /\ addr.kind = "addr" /\ addr.msg = m /\ ~ addr.rd /\ addr.stop = stop
      /\ addr.dyn = d.i.dynamic
  BY DEF Addr
<1> HIDE DEF addr, stop, more
<1>6. /\ IsPair(d1) /\ d1.i = d.i /\ d1.h = [d.h EXCEPT !.txf = <<addr>>]
  <2>1. d.h.txf = <<>>
    BY DEF Fresh
  <2>2. Len(<<addr>>) = 1 /\ Len(<<addr>>) <= DEPTH
    BY SizesOK
  <2>3. Queued(d.h.txf, <<addr>>) = <<addr>>
    BY <1>4, <2>1, <2>2, QueuedEmpty, Zenon
  <2> QED BY <1>1, <2>3 DEF IsPair, CoreFields
<1>7. /\ Outgoing(<<addr>>, m, last /\ len = 0) /\ DataIn(<<addr>>) = 0
  BY <1>2, <1>5 DEF Outgoing, DataIn
<1>8. CoreOK(d1.h) /\ d1.h.txf = <<addr>>
  <2> DEFINE tx == <<addr>>
  <2>1. Len(tx) <= DEPTH /\ tx \in Seq(Entry)
    BY <1>4, SizesOK
  <2>2. d1.h = [d.h EXCEPT !.txf = tx]
    BY <1>6
  <2> HIDE DEF tx
  <2>3. /\ DOMAIN d1.h = CoreFields /\ d1.h.txf = tx
        /\ d1.h.iisr = d.h.iisr /\ d1.h.iier = d.h.iier /\ d1.h.cr = d.h.cr /\ d1.h.rfd = d.h.rfd
        /\ d1.h.rxocc = d.h.rxocc /\ d1.h.byte = d.h.byte
    BY <1>1, <2>2 DEF IsPair, CoreFields
  <2>4. CoreOK(d1.h) /\ d1.h.txf = tx
    BY <1>1, <2>1, <2>3 DEF CoreOK
  <2> QED BY <2>4 DEF tx
<1> HIDE DEF d1, ma, mb
<1>9. SameButIrqs(d1.h, ca.h) /\ IsPair(ca) /\ ca.i = d.i /\ CoreOK(ca.h)
      /\ ca.h.iisr = d1.h.iisr \ ma /\ ca.h.iier = d1.h.iier \cup ma
  <2>1. SameButIrqs(d1.h, ca.h) /\ IsPair(ca) /\ ca.i = d.i
        /\ ca.h.iisr = d1.h.iisr \ ma /\ ca.h.iier = d1.h.iier \cup ma
    BY <1>6, IrqClrEnFields, Zenon
  <2>2. CoreOK(ca.h)
    <3>1. ma \in SUBSET Interrupts
      BY DEF ma, Interrupts
    <3> HIDE DEF ca
    <3> QED BY <1>8, <2>1, <3>1 DEF SameButIrqs, CoreOK, IsPair
  <2> QED BY <2>1, <2>2
<1> HIDE DEF ca
<1>10. ASSUME NEW c, IsPair(c), c.i = d.i, CoreOK(c.h), SameButIrqs(d1.h, c.h)
       PROVE  LET f == FillTxFifo(c) IN
              Ok(f) /\ f.h.iisr = c.h.iisr /\ f.h.iier = c.h.iier /\ f.h.cr = c.h.cr
  <2> DEFINE f == FillTxFifo(c)
  <2>1. c.h.txf = <<addr>> /\ TxFifoSpace(c) = DEPTH - 1 /\ TxSpace(c) = len
    <3>1. c.h.txf = <<addr>> /\ Len(c.h.txf) = 1
      BY <1>8, <1>10 DEF SameButIrqs
    <3> QED BY <1>1, <1>10, <3>1 DEF TxFifoSpace, TxSpace, MaxOf
  <2>2. /\ c.i.tx_msg \in Nat /\ c.i.tx_pos \in Nat /\ TxSpace(c) \in Nat
        /\ Outgoing(c.h.txf, c.i.tx_msg, c.i.nmsgs = 1 /\ TxSpace(c) = 0)
    BY <1>1, <1>7, <1>10, <2>1
  <2>3. /\ IsPair(f) /\ f.i = [c.i EXCEPT !.tx_pos = @ + n]
        /\ Outgoing(f.h.txf, c.i.tx_msg, c.i.nmsgs = 1 /\ n = TxSpace(c))
        /\ DataIn(f.h.txf) = DataIn(c.h.txf) + n
        /\ f.h.iisr = c.h.iisr /\ f.h.iier = c.h.iier /\ f.h.cr = c.h.cr
        /\ f.h.rxocc = c.h.rxocc /\ f.h.mode = c.h.mode /\ f.h.cur = c.h.cur
        /\ f.h.byte = c.h.byte /\ f.h.dyn = c.h.dyn /\ f.h.moved = c.h.moved
    <3>1. /\ IsPair(c) /\ CoreOK(c.h) /\ q \in Seq(Message)
          /\ c.i.tx_msg \in Nat /\ c.i.tx_pos \in Nat /\ TxSpace(c) \in Nat
          /\ Outgoing(c.h.txf, c.i.tx_msg, c.i.nmsgs = 1 /\ TxSpace(c) = 0)
      BY <1>10, <2>2
    <3>2. n = MinOf(TxSpace(c), TxFifoSpace(c))
      BY <2>1
    <3> HIDE DEF n
    <3> QED BY <3>1, <3>2, FillSends
  <2> HIDE DEF f
  <2>4. Outgoing(f.h.txf, m, last /\ n = len) /\ DataIn(f.h.txf) = n
    <3>1. c.i.tx_msg = m /\ (c.i.nmsgs = 1) = last /\ TxSpace(c) = len
      BY <1>10, <2>1
    <3>2. Outgoing(f.h.txf, m, last /\ n = len)
      <4> HIDE DEF n, m, last
      <4> QED BY <2>3, <3>1
    <3>3. DataIn(c.h.txf) = 0
      BY <1>7, <2>1
    <3>4. DataIn(f.h.txf) = 0 + n
      BY <2>3, <3>3
    <3> HIDE DEF n
    <3> QED BY <1>3, <3>2, <3>4
  <2>5. /\ f.h.rxocc = 0 /\ f.h.mode \in {"idle", "hold", "err"} /\ f.h.byte = "none"
        /\ f.h.cur = d.h.cur /\ f.h.dyn = d.h.dyn /\ f.h.moved = d.h.moved
        /\ f.h.mode = d.h.mode
    <3>1. /\ d1.h.rxocc = 0 /\ d1.h.mode \in {"idle", "hold", "err"} /\ d1.h.byte = "none"
          /\ d1.h.cur = d.h.cur /\ d1.h.dyn = d.h.dyn /\ d1.h.moved = d.h.moved
          /\ d1.h.mode = d.h.mode
      BY <1>1, <1>6 DEF Fresh, IsPair, CoreFields
    <3> QED BY <1>10, <2>3, <3>1 DEF SameButIrqs
  <2>6. Ends(f.h.txf)
    <3> DEFINE g == f.h.txf
    <3>1. /\ AddressIn(g) <=> AddressIn(c.h.txf)
          /\ c.h.txf # <<>> => g # <<>> /\ g[1] = c.h.txf[1]
          /\ n = 0 => g = c.h.txf
          /\ n # 0 => g # <<>> /\ (g[Len(g)].stop <=> n = TxSpace(c) /\ c.i.nmsgs = 1)
      <4>1. n = MinOf(TxSpace(c), TxFifoSpace(c))
        BY <2>1
      <4> HIDE DEF n
      <4> QED BY <1>10, <2>2, <4>1, FillEnds DEF f
    <3> HIDE DEF g, n
    <3>2. c.h.txf = <<addr>> /\ <<addr>> # <<>> /\ <<addr>>[1] = addr /\ Len(<<addr>>) = 1
      BY <2>1
    <3>3. g # <<>> /\ g[1] = addr
      BY <3>1, <3>2
    <3>4. d.i.dynamic /\ last /\ n = len => g[Len(g)].stop
      <4>1. CASE n = 0
        <5>1. g[Len(g)] = addr
          BY <3>1, <3>2, <4>1
        <5> QED BY <1>2, <1>5, <4>1, <5>1
      <4>2. CASE n # 0
        BY <1>10, <2>1, <3>1, <4>2
      <4> QED BY <4>1, <4>2
    <3>5. Ends(g)
      BY <1>5, <3>3, <3>4
    <3> QED BY <3>5 DEF g
  <2> QED BY <1>10, <2>3, <2>4, <2>5, <2>6 DEF f
<1> HIDE DEF n, Ends
<1>11. CASE d.i.dynamic
  <2>1. d2 = da
    BY <1>11, Zenon
  <2>2. Ok(da) /\ da.h.iisr = ca.h.iisr /\ da.h.iier = ca.h.iier /\ da.h.cr = ca.h.cr
    BY <1>9, <1>10
  <2> HIDE DEF da, d2, e
  <2>3. /\ da.h.iisr \cap {"TXERR", "BNB", "TXEMPTY"} = {} /\ {"TXEMPTY", "TXERR", "BNB"} \subseteq da.h.iier
        /\ da.h.cr = d.h.cr
        /\ "ARB" \in d.h.iier => "ARB" \in da.h.iier
        /\ "ARB" \in d.h.iisr => "ARB" \in da.h.iisr
    BY <1>1, <1>6, <1>9, <2>2 DEF ma, SameButIrqs, IsPair, CoreFields
  <2>4. /\ e.h = da.h /\ e.i.tx_msg = m /\ e.i.nmsgs = d.i.nmsgs /\ e.i.dynamic = d.i.dynamic
        /\ e.i.msgs = d.i.msgs /\ e.i.filled = d.i.filled /\ e.i.broken = d.i.broken
        /\ e.i.tx_pos = n /\ e.i.rx_msg = 0
    <3>1. e.h = da.h /\ e.i = [da.i EXCEPT !.prev_msg_tx = TRUE]
      BY <1>0, <2>1, <2>2 DEF IsPair
    <3>2. da.i = [d.i EXCEPT !.tx_pos = n]
      BY <1>3, <2>2
    <3> QED BY <1>1, <3>1, <3>2 DEF Fresh, IsPair, DeviceFields
  <2>5. KeepsBus(e.h)
    BY <2>2, <2>3, <2>4 DEF Fresh, KeepsBus
  <2>6. ~ last => n = len
    <3>1. ~ last => m < Len(q)
      <4>1. m # 0 /\ Indices(d.i, q)
        BY <1>1 DEF DeviceOK
      <4>2. m \in DOMAIN q /\ d.i.nmsgs = Len(q) - m + 1
        BY <4>1 DEF Indices
      <4>3. m \in 1 .. Len(q) /\ Len(q) \in Nat
        BY <4>2
      <4> HIDE DEF m
      <4> QED BY <4>2, <4>3
    <3> QED BY <1>1, <1>3, <1>11, <3>1 DEF Fitting
  <2>7. Writing(e.i, e.h, q)
    BY <1>1, <1>3, <1>11, <2>2, <2>3, <2>4, <2>5, <2>6 DEF Writing, Last
  <2>8. FreshGoes(d.i, d.h) => Going(e.i, e.h, q)
    <3>1. FreshGoes(d.i, d.h) => Armed(e.h)
      BY <2>2, <2>3, <2>4 DEF FreshGoes, Armed
    <3>2. Ends(e.h.txf) /\ e.i.dynamic /\ d.i.dynamic /\ (Last(e.i) <=> last)
      BY <1>11, <2>2, <2>4 DEF Last
    <3>3. {"TXEMPTY", "BNB"} \subseteq e.h.iier
      BY <2>3, <2>4
    <3>4. WritingGoes(e.i, e.h, q)
      BY <2>4, <3>2, <3>3 DEF WritingGoes, AddressIn, Ends
    <3> QED BY <2>4, <3>1, <3>4 DEF Going
  <2> QED BY <2>2, <2>4, <2>7, <2>8 DEF Begun, e
<1>12. CASE ~ d.i.dynamic
  <2>1. d2 = db
    BY <1>12, Zenon
  <2>2. Ok(d0) /\ d0.h.iisr = d1.h.iisr /\ d0.h.iier = d1.h.iier /\ d0.h.cr = d1.h.cr
    <3>1. SameButIrqs(d1.h, d1.h)
      BY DEF SameButIrqs
    <3> QED BY <1>6, <1>8, <1>10, <3>1
  <2> HIDE DEF d0
  <2>3. /\ IsPair(cb) /\ cb.i = d0.i /\ cb.h = [d0.h EXCEPT !.cr = cr]
    BY <2>2 DEF IsPair, CoreFields
  <2>4. "MSMS" \in cr /\ "NOACK" \notin cr /\ ("MSMS" \in d.h.cr => "RSTA" \in cr)
    <3>1. "NOACK" \notin d0.h.cr
      BY <1>1, <1>6, <1>12, <2>2 DEF Fresh, IsPair, CoreFields
    <3> QED BY <3>1
  <2> HIDE DEF cb, cr
  <2>5. Ok(cb) /\ cb.h.iier = d1.h.iier /\ cb.h.iisr = d1.h.iisr /\ cb.h.cr = cr
    BY <2>2, <2>3 DEF IsPair, CoreFields
  <2>6. /\ SameButIrqs(cb.h, db.h) /\ IsPair(db) /\ db.i = cb.i
        /\ db.h.iisr = cb.h.iisr \ mb /\ db.h.iier = cb.h.iier \cup mb
    BY <2>3, IrqClrEnFields, Zenon
  <2> HIDE DEF db, d2, e
  <2>7. Ok(db) /\ db.h.cr = cr
    BY <2>5, <2>6 DEF SameButIrqs
  <2>8. /\ db.h.iisr \cap {"TXERR", "BNB", "TXEMPTY"} = {} /\ {"TXEMPTY", "TXERR", "BNB"} \subseteq db.h.iier
        /\ "TXHALF" \notin db.h.iier
        /\ "ARB" \in d.h.iier => "ARB" \in db.h.iier
        /\ "ARB" \in d.h.iisr => "ARB" \in db.h.iisr
    BY <1>1, <1>6, <1>12, <2>5, <2>6 DEF mb, Fresh, IsPair, CoreFields
  <2>9. /\ e.h = db.h /\ e.i.tx_msg = m /\ e.i.nmsgs = d.i.nmsgs /\ e.i.dynamic = d.i.dynamic
        /\ e.i.msgs = d.i.msgs /\ e.i.filled = d.i.filled /\ e.i.broken = d.i.broken
        /\ e.i.tx_pos = n /\ e.i.rx_msg = 0
    <3>1. e.h = db.h /\ e.i = [db.i EXCEPT !.prev_msg_tx = TRUE]
      BY <1>0, <2>1, <2>7 DEF IsPair
    <3>2. db.i = [d.i EXCEPT !.tx_pos = n]
      BY <1>3, <2>7
    <3> QED BY <1>1, <3>1, <3>2 DEF Fresh, IsPair, DeviceFields
  <2>10. KeepsBus(e.h)
    BY <2>4, <2>7, <2>9 DEF KeepsBus
  <2>11. ~ last
    <3>1. last => m = Len(q)
      BY <1>1 DEF DeviceOK, Indices, Typed
    <3> QED BY <1>12, <3>1 DEF Fitting
  <2>12. Writing(e.i, e.h, q)
    BY <1>1, <1>3, <1>12, <2>4, <2>7, <2>8, <2>9, <2>10, <2>11 DEF Writing, Last
  <2>13. FreshGoes(d.i, d.h) => Going(e.i, e.h, q)
    <3>1. FreshGoes(d.i, d.h) => Armed(e.h)
      BY <2>7, <2>8, <2>9 DEF FreshGoes, Armed
    <3>2. FreshGoes(d.i, d.h) => WritingGoes(e.i, e.h, q)
      BY <1>1, <1>12, <2>4, <2>7, <2>8, <2>9, <2>11 DEF FreshGoes, WritingGoes, AddressIn, Last, Ends
    <3> QED BY <2>9, <3>1, <3>2 DEF Going
  <2> QED BY <2>7, <2>9, <2>12, <2>13 DEF Begun, e
<1> QED BY <1>11, <1>12

\* What the start of a message keeps of the messages around it.
LEMMA AroundBegun ==
  ASSUME NEW d, NEW e, NEW q, Around(d.i, d.h, q), Begun(d, e)
  PROVE  Around(e.i, e.h, q)
BY DEF Around, Begun, Delivered

\* __xiic_start_xfer() starts to write or to read the message that is current.
LEMMA StartMsgProgress ==
  ASSUME NEW d, NEW q \in Seq(Message), Ready(d, q), Fresh(d.i, d.h, q), Fitting(q, d.i.dynamic)
  PROVE  LET e == StartMsg(d) IN
         /\ Writing(e.i, e.h, q) \/ ReadingOn(e.i, e.h, q)
         /\ Begun(d, e)
         /\ FreshGoes(d.i, d.h) => Going(e.i, e.h, q)
<1> DEFINE d1 == [d EXCEPT !.i.rx_pos = 0, !.i.tx_pos = 0, !.i.state = "START"]
           e == StartMsg(d)
<1>1. IsPair(d) /\ CoreOK(d.h) /\ DeviceOK(d.i, q) /\ d.i.tx_msg # 0 /\ d.i.rx_msg = 0
  BY DEF Ready
<1>2. IsPair(d1) /\ d1.h = d.h /\ d1.i = [d.i EXCEPT !.rx_pos = 0, !.tx_pos = 0, !.state = "START"]
  BY <1>1 DEF IsPair, DeviceFields
<1>3. e = IF d.i.msgs[d.i.tx_msg].rd THEN StartRecv(d1) ELSE StartSend(d1)
  BY <1>1, Zenon DEF StartMsg
<1> HIDE DEF d1
<1>4. /\ DOMAIN d1.i = DOMAIN d.i /\ d1.i.rx_pos = 0 /\ d1.i.tx_pos = 0
      /\ d1.i.tx_msg = d.i.tx_msg /\ d1.i.rx_msg = 0 /\ d1.i.nmsgs = d.i.nmsgs
      /\ d1.i.smbus_actual_len = d.i.smbus_actual_len /\ d1.i.dynamic = d.i.dynamic
      /\ d1.i.msgs = d.i.msgs /\ d1.i.filled = d.i.filled /\ d1.i.broken = d.i.broken
  BY <1>1, <1>2 DEF IsPair, DeviceFields
<1>5. DeviceOK(d1.i, q)
  <2>1. Typed(d1.i, q) /\ Indices(d1.i, q)
    BY <1>1, <1>4 DEF DeviceOK, Typed, Indices
  <2>2. Lengths(d1.i, q) /\ Reading(d1.i, q) /\ Untouched(d1.i, q, d1.i.tx_msg + 1)
    BY <1>1, <1>4 DEF DeviceOK, Lengths, Reading, Untouched
  <2> QED BY <2>1, <2>2 DEF DeviceOK
<1>6. Ready(d1, q)
  BY <1>1, <1>2, <1>4, <1>5 DEF Ready, Untouched
<1>7. Fresh(d1.i, d1.h, q) /\ Fitting(q, d1.i.dynamic)
  BY <1>1, <1>2, <1>4 DEF Fresh
<1>8. FreshGoes(d.i, d.h) => FreshGoes(d1.i, d1.h)
  BY <1>2, <1>4 DEF FreshGoes
<1>9. d.i.msgs[d.i.tx_msg].rd = q[d1.i.tx_msg].rd
  BY <1>4 DEF Fresh
<1>10. CASE q[d1.i.tx_msg].rd
  <2>1. /\ ReadingOn(StartRecv(d1).i, StartRecv(d1).h, q) /\ Begun(d1, StartRecv(d1))
        /\ FreshGoes(d1.i, d1.h) => Going(StartRecv(d1).i, StartRecv(d1).h, q)
    BY <1>4, <1>6, <1>7, <1>10, StartRecvReads, Zenon
  <2>2. e = StartRecv(d1)
    BY <1>3, <1>9, <1>10
  <2> HIDE DEF e
  <2> QED BY <1>2, <1>4, <1>8, <2>1, <2>2 DEF Begun, e
<1>11. CASE ~ q[d1.i.tx_msg].rd
  <2>1. /\ Writing(StartSend(d1).i, StartSend(d1).h, q) /\ Begun(d1, StartSend(d1))
        /\ FreshGoes(d1.i, d1.h) => Going(StartSend(d1).i, StartSend(d1).h, q)
    BY <1>4, <1>6, <1>7, <1>11, StartSendWrites, Zenon
  <2>2. e = StartSend(d1)
    BY <1>3, <1>9, <1>11
  <2> HIDE DEF e
  <2> QED BY <1>2, <1>4, <1>8, <2>1, <2>2 DEF Begun, e
<1> QED BY <1>10, <1>11

\* The messages that a caller brings fit, and the first of them has not begun.
LEMMA SubmittedFresh ==
  ASSUME IInv, Fits(load), i2c.broken = load.broken, NEW x \in load.transfers
  PROVE  LET d == D(Submitted(x), CoreFor(x)) IN
         /\ Fresh(d.i, d.h, x) /\ Fitting(x, d.i.dynamic) /\ Around(d.i, d.h, x)
         /\ FreshGoes(d.i, d.h)
<1> USE DEF IInv
<1> DEFINE j == Submitted(x)
           h == CoreFor(x)
           none == [k \in 1 .. Len(x) |-> 0]
<1>1. x \in Seq(Message) /\ Len(x) \in Nat /\ x # <<>>
  <2>1. x \in Seq(Message)
    BY SubmittedReady, Zenon
  <2>2. load \in Workloads
    BY DEF TypesInv
  <2>3. x # <<>>
    BY <2>2, WorkloadsOK
  <2> QED BY <2>1, <2>3
<1>2. /\ \A k \in 1 .. Len(x) :
           /\ x[k].rd => x[k].len > 0
           /\ x[k].recv => x[k].rd /\ x[k].len \in {1, 2} /\ k = Len(x)
      /\ Standard(x, load.broken) => x[Len(x)].rd
  BY WorkloadsOK DEF TypesInv
<1>3. DeviceFields = DOMAIN i2c /\ CoreFields = DOMAIN hw
  BY DEF StateInv, DeviceOK, Typed, CoreOK
<1>4. /\ j.msgs = x /\ j.filled = none /\ j.tx_msg = 1 /\ j.rx_msg = 0
      /\ j.nmsgs = Len(x) /\ j.dynamic = ~ Standard(x, i2c.broken)
  BY <1>3 DEF Submitted, DeviceFields
<1>5. /\ h.moved = none /\ h.txf = <<>> /\ h.byte = "none" /\ h.rxocc = 0 /\ h.mode = "idle"
      /\ h.cur = 0 /\ h.iisr = {} /\ h.cr = {} /\ h.iier = {"ARB"}
  BY <1>3 DEF CoreFor, ResetCore, CoreFields
<1>6. D(j, h).i = j /\ D(j, h).h = h
  BY DEF D
<1>7. none \in [DOMAIN x -> Nat] /\ 1 \in DOMAIN x /\ \A k \in DOMAIN x : none[k] = 0
  BY <1>1
<1> HIDE DEF j, h, none
<1>8. Fresh(j, h, x)
  BY <1>1, <1>4, <1>5, <1>7 DEF Fresh, KeepsBus
<1>9. Around(j, h, x)
  BY <1>1, <1>4, <1>5, <1>7 DEF Around
<1>10. Fitting(x, j.dynamic)
  <2>1. j.dynamic <=> ~ Standard(x, load.broken)
    BY <1>4
  <2>2. \A k \in 1 .. Len(x) : x[k].recv => ~ j.dynamic
    <3>1. \A k \in 1 .. Len(x) : x[k].recv => Standard(x, load.broken)
      BY <1>2 DEF Standard
    <3> QED BY <2>1, <3>1
  <2>3. \A k \in 1 .. Len(x) :
          /\ WireLen(x[k]) <= MAX_MOVED
          /\ j.dynamic /\ ~ x[k].rd /\ k < Len(x) => x[k].len < DEPTH
    BY <2>1 DEF Fits
  <2>4. DOMAIN x = 1 .. Len(x)
    BY <1>1
  <2> HIDE DEF IInv
  <2> QED BY <1>2, <2>1, <2>2, <2>3, <2>4 DEF Fitting
<1>11. FreshGoes(j, h)
  BY <1>5 DEF FreshGoes, Armed
<1> QED BY <1>6, <1>8, <1>9, <1>10, <1>11 DEF j, h

\* start_xfer, whether the core can be reset or not.
LEMMA SubmitProgress ==
  ASSUME IInv, Fits(load), ProgressInv, NEW x \in load.transfers, StartXfer(x) \/ StartXferFails(x)
  PROVE  ProgressInv' /\ GoingInv'
<1> USE DEF IInv
<1> DEFINE d == D(Submitted(x), CoreFor(x))
           e == StartMsg(d)
<1>1. /\ x \in Seq(Message) /\ Ready(d, x) /\ Submitted(x).completion = FALSE
      /\ DeviceFields = DOMAIN i2c /\ i2c.broken = load.broken
  BY SubmittedReady DEF ProgressInv, StateInv, DeviceOK, Typed
<1>2. /\ Fresh(d.i, d.h, x) /\ Fitting(x, d.i.dynamic) /\ Around(d.i, d.h, x)
      /\ FreshGoes(d.i, d.h)
  BY <1>1, SubmittedFresh, Zenon
<1>3. d.i = Submitted(x) /\ Submitted(x).broken = i2c.broken /\ Submitted(x).tx_msg = 1
  BY <1>1 DEF D, Submitted, DeviceFields
<1>4. load' = load /\ irq' = "idle" /\ req' = x
  BY DEF StartXfer, StartXferFails, Call
<1>5. CASE StartXfer(x)
  <2>1. i2c' = e.i /\ hw' = e.h /\ ret' = "none"
    BY <1>5 DEF StartXfer
  <2>2. /\ Writing(e.i, e.h, x) \/ ReadingOn(e.i, e.h, x)
        /\ Begun(d, e) /\ Going(e.i, e.h, x)
    BY <1>1, <1>2, StartMsgProgress, Zenon
  <2>3. Started(d, e, x)
    BY <1>1, StartMsgKeeps, Zenon
  <2> HIDE DEF e, d
  <2>4. Around(e.i, e.h, x) /\ Fitting(x, e.i.dynamic)
    BY <1>2, <2>2, AroundBegun DEF Begun
  <2>5. e.i.completion = FALSE /\ e.i.broken = load.broken
    BY <1>1, <1>3, <2>2, <2>3 DEF Begun, Started
  <2>6. GoingInv'
    BY <1>3, <1>4, <2>1, <2>2 DEF GoingInv, Busy, Begun
  <2> QED BY <1>4, <2>1, <2>2, <2>4, <2>5, <2>6 DEF ProgressInv, TransferInv, SeenInv, DoneInv
<1>6. CASE StartXferFails(x)
  <2>1. i2c' = d.i /\ caller' = "idle" /\ ret' = "ETIMEDOUT"
    BY <1>3, <1>6 DEF StartXferFails, Return
  <2> HIDE DEF d
  <2> QED BY <1>1, <1>3, <1>4, <2>1 DEF ProgressInv, TransferInv, SeenInv, DoneInv, Live, GoingInv
<1> QED BY <1>5, <1>6

\* The error branch ends a transfer with an error; one that is done it leaves alone.
LEMMA ErrorProgress ==
  ASSUME IInv, ProgressInv, IrqError
  PROVE  ProgressInv'
<1> USE DEF IInv
<1>1. /\ UNCHANGED <<load, caller, ret, req>> /\ irq' = "idle"
      /\ hw' \in {ResetCore(hw), ResetFailed(hw)}
      /\ i2c' = IF Busy THEN Wakeup(i2c, "ERROR") ELSE i2c
  BY DEF IrqError, Leave
<1>2. DeviceFields = DOMAIN i2c /\ CoreFields = DOMAIN hw
  BY DEF StateInv, DeviceOK, Typed, CoreOK
<1>3. hw'.moved = hw.moved /\ hw'.txf = <<>> /\ hw'.mode = "idle"
  BY <1>1, <1>2 DEF ResetCore, ResetFailed, CoreFields
<1>4. CASE Busy
  <2>1. i2c' = Wakeup(i2c, "ERROR")
    BY <1>1, <1>4
  <2>2. i2c'.tx_msg = 0 /\ i2c'.rx_msg = 0 /\ i2c'.state = "ERROR" /\ i2c'.broken = i2c.broken
    BY <1>2, <2>1 DEF Wakeup, Forget, DeviceFields
  <2>3. ~ (caller = "idle" /\ ret = "ok")
    BY <1>4 DEF ProgressInv, DoneInv, EndInv
  <2> QED BY <1>1, <2>2, <2>3 DEF ProgressInv, TransferInv, SeenInv, DoneInv, Live, Busy
<1>5. CASE ~ Busy
  <2>1. i2c' = i2c
    BY <1>1, <1>5
  <2>2. i2c.completion /\ i2c.state = "DONE" => \A k \in DOMAIN req : Delivered(i2c', hw', req', k)
    BY <1>1, <1>3, <2>1 DEF ProgressInv, DoneInv, Delivered
  <2> QED BY <1>1, <1>3, <1>5, <2>1, <2>2 DEF ProgressInv, TransferInv, SeenInv, DoneInv, Live, Busy
<1> QED BY <1>4, <1>5

\* The error branch leaves no transfer that has not been completed.
LEMMA ErrorGoes ==
  ASSUME IInv, GoingInv, IrqError
  PROVE  GoingInv'
<1>1. caller' = caller /\ i2c' = IF Busy THEN Wakeup(i2c, "ERROR") ELSE i2c
  BY DEF IrqError
<1>2. CASE Busy
  <2>1. i2c' = Wakeup(i2c, "ERROR") /\ DeviceFields = DOMAIN i2c
    BY <1>1, <1>2 DEF IInv, StateInv, DeviceOK, Typed
  <2>2. i2c'.tx_msg = 0 /\ i2c'.rx_msg = 0 /\ i2c'.completion
    BY <2>1 DEF Wakeup, Forget, DeviceFields
  <2> QED BY <2>2 DEF GoingInv, Live, Busy
<1>3. CASE ~ Busy
  BY <1>1, <1>3 DEF GoingInv, Live, Busy
<1> QED BY <1>2, <1>3

-----------------------------------------------------------------------------
(* The receive branch of the handler.                                       *)

\* The handler clears the bits c of the interrupt status of h.
Cleared(h, g, c) == SameButIrqs(h, g) /\ g.iier = h.iier /\ g.iisr = h.iisr \ c

\* A branch goes on with the same message.
SameMessage(i, j) ==
  /\ j.tx_msg = i.tx_msg /\ j.rx_msg = i.rx_msg /\ j.nmsgs = i.nmsgs
  /\ j.tx_pos = i.tx_pos /\ j.dynamic = i.dynamic /\ j.broken = i.broken

\* n bytes of the message that is read have gone from the RX FIFO to its buffer.
Fetched(d, e, n) ==
  /\ IsPair(e) /\ SameMessage(d.i, e.i)
  /\ e.i.rx_pos = d.i.rx_pos + n /\ e.i.filled = Put(d.i.filled, d.i.rx_msg, d.i.filled[d.i.rx_msg] + n)
  /\ e.h.rxocc = d.h.rxocc - n /\ e.h.iisr = d.h.iisr /\ e.h.iier = d.h.iier
  /\ e.h.txf = d.h.txf /\ e.h.mode = d.h.mode /\ e.h.cur = d.h.cur /\ e.h.byte = d.h.byte
  /\ e.h.dyn = d.h.dyn /\ e.h.left = d.h.left /\ e.h.autostop = d.h.autostop
  /\ e.h.moved = d.h.moved

\* Nor has what was expected changed.
SameBlock(i, j) ==
  /\ j.msgs = i.msgs /\ j.smbus_block_read = i.smbus_block_read
  /\ j.smbus_actual_len = i.smbus_actual_len

\* Drain moves n bytes from the RX FIFO into the buffer of the message.
LEMMA DrainFetches ==
  ASSUME NEW d, IsPair(d), CoreOK(d.h), NEW n \in Nat, n <= d.h.rxocc
  PROVE  LET e == Drain(d, n) IN
         Fetched(d, e, n) /\ SameBlock(d.i, e.i) /\ e.h.rfd = d.h.rfd /\ e.h.cr = d.h.cr
<1> DEFINE e == Drain(d, n)
           good == MinOf(n, d.h.rxocc)
<1>1. /\ IsPair(e)
      /\ e.i = [d.i EXCEPT !.rx_pos = @ + n, !.filled = Credit(d.i, good)]
      /\ e.h = [d.h EXCEPT !.rxocc = @ - good]
  BY DrainIs
<1>2. good = n
  BY DEF MinOf, CoreOK
<1> HIDE DEF e, good
<1>3. SameMessage(d.i, e.i) /\ SameBlock(d.i, e.i) /\ e.i.rx_pos = d.i.rx_pos + n
      /\ e.i.filled = Put(d.i.filled, d.i.rx_msg, d.i.filled[d.i.rx_msg] + n)
  BY <1>1, <1>2 DEF IsPair, DeviceFields, SameMessage, SameBlock, Credit
<1>4. /\ e.h.rxocc = d.h.rxocc - n /\ e.h.iisr = d.h.iisr /\ e.h.iier = d.h.iier
      /\ e.h.txf = d.h.txf /\ e.h.mode = d.h.mode /\ e.h.cur = d.h.cur /\ e.h.byte = d.h.byte
      /\ e.h.dyn = d.h.dyn /\ e.h.left = d.h.left /\ e.h.autostop = d.h.autostop
      /\ e.h.moved = d.h.moved /\ e.h.rfd = d.h.rfd /\ e.h.cr = d.h.cr
  BY <1>1, <1>2 DEF IsPair, CoreFields
<1> QED BY <1>1, <1>3, <1>4 DEF Fetched, e

\* What a read counts, in the words of its length and position.
LEMMA ReadCounts ==
  ASSUME NEW i, NEW h, NEW q \in Seq(Message), DeviceOK(i, q), CoreOK(h), ReadingOn(i, h, q)
  PROVE  LET m == i.rx_msg
             t == ToGo(i, h)
         IN /\ m \in Nat /\ m # 0 /\ m \in DOMAIN q /\ q[m] \in Message /\ i.msgs[m] \in Message
            /\ m = i.tx_msg /\ i.rx_pos \in Nat /\ h.rxocc \in Nat /\ i.filled[m] = i.rx_pos
            /\ h.moved[m] = i.rx_pos + h.rxocc
            /\ i.msgs[m].len \in Nat /\ i.msgs[m].recv \in BOOLEAN
            /\ ~ i.msgs[m].recv => t = i.msgs[m].len - (i.rx_pos + h.rxocc)
            /\ i.msgs[m].recv /\ ~ i.dynamic => i.rx_pos = 0 /\ t = MIN_LEN - h.rxocc
<1>1. i.rx_msg # 0 /\ h.moved[i.rx_msg] = i.rx_pos + h.rxocc /\ i.filled[i.rx_msg] = i.rx_pos
  BY DEF ReadingOn
<1>2. /\ i.rx_msg \in Nat /\ i.rx_msg \in DOMAIN q /\ q[i.rx_msg] \in Message
      /\ i.msgs[i.rx_msg] \in Message /\ i.rx_msg = i.tx_msg /\ i.rx_pos \in Nat
  BY <1>1 DEF DeviceOK, Typed, Indices
<1>3. i.msgs[i.rx_msg].len \in Nat /\ i.msgs[i.rx_msg].recv \in BOOLEAN
  BY <1>2, LenType
<1>4. h.rxocc \in Nat
  BY DEF CoreOK
<1>5. i.msgs[i.rx_msg].recv /\ ~ i.dynamic => i.rx_pos = 0
  BY <1>1 DEF DeviceOK, Reading
<1>6. ~ i.msgs[i.rx_msg].recv =>
        ToGo(i, h) = i.msgs[i.rx_msg].len - (i.rx_pos + h.rxocc)
  BY <1>1 DEF ToGo, Whole
<1>7. i.msgs[i.rx_msg].recv /\ ~ i.dynamic => ToGo(i, h) = MIN_LEN - h.rxocc
  BY <1>1, <1>4, <1>5 DEF ToGo, Whole
<1> QED BY <1>1, <1>2, <1>3, <1>4, <1>5, <1>6, <1>7

\* More of the message is to come: the read goes on.
LEMMA FetchedReads ==
  ASSUME NEW d, NEW e, NEW g, NEW n \in Nat, NEW q \in Seq(Message),
         DeviceOK(d.i, q), CoreOK(d.h), ReadingOn(d.i, d.h, q), n <= d.h.rxocc,
         Receiving(d.i, d.h, ToGo(d.i, d.h)),
         Fetched(d, e, n), SameBlock(d.i, e.i), Cleared(e.h, g, {"RXFULL"}), KeepsBus(g),
         ~ d.i.dynamic => Window(g, ToGo(d.i, d.h), d.i.msgs[d.i.rx_msg].recv)
  PROVE  ReadingOn(e.i, g, q)
<1> DEFINE m == d.i.rx_msg
           t == ToGo(d.i, d.h)
<1>1. /\ m \in Nat /\ m # 0 /\ m \in DOMAIN q /\ d.i.rx_pos \in Nat /\ d.h.rxocc \in Nat
      /\ d.i.filled[m] = d.i.rx_pos /\ d.h.moved[m] = d.i.rx_pos + d.h.rxocc
  BY ReadCounts
<1>2. /\ e.i.rx_msg = m /\ e.i.tx_msg = d.i.tx_msg /\ e.i.nmsgs = d.i.nmsgs
      /\ e.i.tx_pos = d.i.tx_pos /\ e.i.dynamic = d.i.dynamic /\ e.i.msgs = d.i.msgs
      /\ e.i.smbus_block_read = d.i.smbus_block_read
      /\ e.i.smbus_actual_len = d.i.smbus_actual_len
  BY DEF Fetched, SameMessage, SameBlock
<1>3. e.i.filled[m] = e.i.rx_pos
  <2>1. d.i.filled \in [DOMAIN q -> Nat]
    BY DEF DeviceOK, Typed
  <2> QED BY <1>1, <2>1 DEF Fetched, Put
<1>4. /\ g.moved = d.h.moved /\ g.txf = d.h.txf /\ g.mode = d.h.mode /\ g.cur = d.h.cur
      /\ g.byte = d.h.byte /\ g.dyn = d.h.dyn /\ g.left = d.h.left /\ g.autostop = d.h.autostop
      /\ g.iisr = d.h.iisr \ {"RXFULL"} /\ g.iier = d.h.iier /\ g.rxocc = d.h.rxocc - n
      /\ e.i.rx_pos = d.i.rx_pos + n
  BY DEF Fetched, Cleared, SameButIrqs
<1>5. g.moved[m] = e.i.rx_pos + g.rxocc
  BY <1>1, <1>4
<1>6. ToGo(e.i, g) = t
  BY <1>2, <1>4 DEF ToGo
<1> HIDE DEF t
<1>7. SetUp(e.i, q[m]) /\ q[m].rd /\ "TXERR" \in g.iier
  <2>1. SetUp(d.i, q[m]) /\ q[m].rd /\ "TXERR" \in d.h.iier
    BY DEF ReadingOn
  <2> QED BY <1>2, <1>4, <2>1 DEF SetUp
<1>8. Receiving(e.i, g, t)
  <2>1. g.iisr \cap {"TXERR", "BNB"} = {}
    BY <1>4 DEF Receiving
  <2>2. ~ e.i.dynamic => Window(g, t, e.i.msgs[e.i.rx_msg].recv)
    BY <1>2 DEF t
  <2>3. Receiving(d.i, d.h, t)
    BY DEF t
  <2> HIDE DEF m
  <2> QED BY <1>2, <1>4, <2>1, <2>2, <2>3 DEF Receiving, Last, m
<1> QED BY <1>1, <1>2, <1>3, <1>5, <1>6, <1>7, <1>8 DEF ReadingOn, Stage

\* In standard mode the core stopped at the threshold, before a byte without NOACK.
LEMMA WindowFull ==
  ASSUME NEW h, NEW t, NEW recv, CoreOK(h), Window(h, t, recv), "RXFULL" \in h.iisr
  PROVE  "NOACK" \notin h.cr /\ h.rxocc = h.rfd + 1
<1>1. h.rxocc \in Nat /\ h.rfd \in Nat /\ h.rxocc > h.rfd
  BY DEF CoreOK, Window
<1>2. "NOACK" \notin h.cr
  BY <1>1 DEF Window
<1>3. h.rxocc <= h.rfd + 1
  BY <1>2 DEF Window
<1> QED BY <1>1, <1>2, <1>3

\* A branch changes only the message that is read; the core is where it was.
OnlyReads(d, e, q) ==
  /\ IsPair(e) /\ SameMessage(d.i, e.i) /\ e.h.moved = d.h.moved /\ e.h.iisr = d.h.iisr
  /\ e.h.iier = d.h.iier /\ e.h.txf = d.h.txf /\ e.h.mode = d.h.mode
  /\ \A k \in DOMAIN q : k # d.i.rx_msg =>
       e.i.filled[k] = d.i.filled[k] /\ e.i.msgs[k] = d.i.msgs[k]

\* The length of a block has arrived: as many bytes are expected as it has, or
\* three if it is invalid or has fewer.
LEMMA BlockReads ==
  ASSUME NEW d, NEW g, NEW q \in Seq(Message), IsPair(d), CoreOK(d.h), DeviceOK(d.i, q),
         ReadingOn(d.i, d.h, q), Receiving(d.i, d.h, ToGo(d.i, d.h)),
         ~ d.i.dynamic, d.i.msgs[d.i.rx_msg].recv, "RXFULL" \in d.h.iisr,
         Cleared(BlockReadSetup(d).h, g, {"RXFULL"})
  PROVE  LET e == BlockReadSetup(d) IN
         ReadingOn(e.i, g, q) /\ RxSpace(e) # 0 /\ OnlyReads(d, e, q) /\ e.h.cr = d.h.cr
<1> DEFINE k == d.i.rx_msg
           M == q[k]
           len == d.i.msgs[k].blk
           pec == d.i.msgs[k].len - 1
           m0 == [d.i.msgs[k] EXCEPT !.recv = FALSE]
           d0 == [d EXCEPT !.i.msgs[k].recv = FALSE, !.i.smbus_block_read = TRUE]
           d1 == Drain(d0, 1)
           e == BlockReadSetup(d)
<1>1. /\ k \in Nat /\ k # 0 /\ k \in DOMAIN q /\ M \in Message /\ k = d.i.tx_msg
      /\ d.i.msgs \in [DOMAIN q -> Message] /\ d.i.filled \in [DOMAIN q -> Nat]
      /\ d.i.rx_pos = 0 /\ d.h.rxocc \in Nat /\ d.i.filled[k] = 0
      /\ d.h.moved[k] = d.h.rxocc
  <2>1. /\ k \in Nat /\ k # 0 /\ k \in DOMAIN q /\ M \in Message /\ k = d.i.tx_msg
        /\ d.h.rxocc \in Nat /\ d.i.filled[k] = d.i.rx_pos
        /\ d.h.moved[k] = d.i.rx_pos + d.h.rxocc /\ d.i.rx_pos = 0
    BY ReadCounts
  <2>2. d.i.msgs \in [DOMAIN q -> Message] /\ d.i.filled \in [DOMAIN q -> Nat]
    BY DEF DeviceOK, Typed
  <2> QED BY <2>1, <2>2
<1>2. d.i.msgs[k] = M /\ M.recv /\ M.rd /\ d.i.tx_pos = M.len /\ d.i.smbus_actual_len = 0
  BY DEF ReadingOn, SetUp
<1>3. M.len \in {1, 2} /\ M.blk \in Nat /\ len = M.blk /\ pec = M.len - 1 /\ pec \in {0, 1}
  BY <1>1, <1>2 DEF DeviceOK, Lengths, Message
<1>4. "NOACK" \notin d.h.cr /\ d.h.rxocc = 1 /\ d.h.rfd = 0 /\ d.h.byte = "none"
  <2> DEFINE t == ToGo(d.i, d.h)
             r == d.i.msgs[k].recv
  <2>1. Window(d.h, t, r) /\ r
    BY DEF Receiving
  <2> HIDE DEF t, r
  <2>2. d.h.rfd = 0
    BY <2>1 DEF Window
  <2>3. "NOACK" \notin d.h.cr /\ d.h.rxocc = 1
    <3>1. "NOACK" \notin d.h.cr /\ d.h.rxocc = d.h.rfd + 1
      BY <2>1, WindowFull, Zenon
    <3> QED BY <2>2, <3>1
  <2> QED BY <1>1, <2>1, <2>2, <2>3 DEF Window, Receiving
<1>5. m0 \in Message /\ m0.rd /\ ~ m0.recv /\ m0.len = M.len /\ m0.blk = M.blk
  BY <1>1, <1>2 DEF Message
<1> HIDE DEF m0
<1>6. /\ IsPair(d0) /\ d0.h = d.h /\ SameMessage(d.i, d0.i) /\ d0.i.msgs = Put(d.i.msgs, k, m0)
      /\ d0.i.smbus_actual_len = 0 /\ d0.i.smbus_block_read = TRUE
      /\ d0.i.rx_pos = 0 /\ d0.i.filled = d.i.filled
  BY <1>1, <1>2 DEF IsPair, DeviceFields, SameMessage, m0, Put
<1> HIDE DEF d0
<1>7. /\ Fetched(d0, d1, 1) /\ SameBlock(d0.i, d1.i) /\ d1.h.rfd = d0.h.rfd /\ d1.h.cr = d0.h.cr
  BY <1>4, <1>6, DrainFetches
<1> HIDE DEF d1
<1>8. /\ IsPair(d1) /\ SameMessage(d.i, d1.i) /\ d1.i.msgs = Put(d.i.msgs, k, m0)
      /\ d1.i.rx_pos = 1 /\ d1.i.filled = Put(d.i.filled, k, 1) /\ d1.i.smbus_actual_len = 0
      /\ d1.h.rxocc = 0 /\ d1.h.iisr = d.h.iisr /\ d1.h.iier = d.h.iier /\ d1.h.rfd = 0
      /\ d1.h.cr = d.h.cr /\ d1.h.txf = d.h.txf /\ d1.h.mode = d.h.mode /\ d1.h.cur = d.h.cur
      /\ d1.h.byte = d.h.byte /\ d1.h.dyn = d.h.dyn /\ d1.h.left = d.h.left
      /\ d1.h.autostop = d.h.autostop /\ d1.h.moved = d.h.moved /\ d1.i.smbus_block_read = TRUE
  <2>1. d0.i.rx_msg = k /\ d0.i.filled[k] = 0
    BY <1>1, <1>6 DEF SameMessage
  <2> QED BY <1>1, <1>4, <1>6, <1>7, <2>1 DEF Fetched, SameBlock, SameMessage
<1>9. d1.i.msgs[k] = m0 /\ d1.i.rx_msg = k /\ d1.i.msgs \in [DOMAIN q -> Message]
  BY <1>1, <1>5, <1>8 DEF Put, SameMessage
<1>e. e = IF len > BLOCK_MAX
            THEN [d1 EXCEPT !.i.msgs[d.i.tx_msg].len = 3, !.i.smbus_block_read = FALSE]
          ELSE IF len + pec > DEPTH
            THEN [d1 EXCEPT !.i.msgs[k].len = len + 1 + pec, !.h.rfd = DEPTH - 1]
          ELSE IF 1 + len + pec < MIN_LEN
            THEN [[d1 EXCEPT !.i.msgs[k].len = MIN_LEN, !.h.rfd = 0] EXCEPT
                    !.i.smbus_actual_len = 1 + len + pec]
          ELSE [d1 EXCEPT !.i.msgs[k].len = len + 1 + pec, !.h.rfd = len + pec - 2]
  BY Zenon DEF BlockReadSetup, d1, d0
<1> HIDE DEF len, pec
<1> DEFINE Expects(n, r, a) ==
             /\ IsPair(e) /\ SameMessage(d1.i, e.i)
             /\ e.i.msgs = Put(d1.i.msgs, k, Resized(d1.i.msgs[k], n))
             /\ e.i.smbus_block_read \in BOOLEAN /\ (e.i.smbus_block_read <=> len <= BLOCK_MAX)
             /\ e.i.smbus_actual_len = a
             /\ e.i.rx_pos = d1.i.rx_pos /\ e.i.filled = d1.i.filled
             /\ e.h.rfd = r /\ e.h.rxocc = d1.h.rxocc /\ e.h.iisr = d1.h.iisr /\ e.h.iier = d1.h.iier
             /\ e.h.cr = d1.h.cr /\ e.h.txf = d1.h.txf /\ e.h.mode = d1.h.mode /\ e.h.cur = d1.h.cur
             /\ e.h.byte = d1.h.byte /\ e.h.dyn = d1.h.dyn /\ e.h.left = d1.h.left
             /\ e.h.autostop = d1.h.autostop /\ e.h.moved = d1.h.moved
<1>10. ASSUME NEW n \in Nat, NEW r \in Nat, NEW a \in Nat, Expects(n, r, a),
              n = IF len <= BLOCK_MAX THEN MaxOf(MIN_LEN, BlockLen(M)) ELSE MIN_LEN,
              a = IF len <= BLOCK_MAX /\ BlockLen(M) < MIN_LEN THEN BlockLen(M) ELSE 0,
              n > r + 2, r < DEPTH - 1 => n = r + 3
       PROVE  ReadingOn(e.i, g, q) /\ RxSpace(e) # 0 /\ OnlyReads(d, e, q) /\ e.h.cr = d.h.cr
  <2> HIDE DEF e
  <2>1. /\ e.i.rx_msg = k /\ e.i.nmsgs = d.i.nmsgs /\ e.i.tx_pos = M.len /\ ~ e.i.dynamic
        /\ e.i.rx_pos = 1 /\ e.i.filled = Put(d.i.filled, k, 1) /\ e.i.filled[k] = 1
    BY <1>1, <1>2, <1>8, <1>10 DEF SameMessage, Put
  <2>2. /\ e.i.msgs[k].len = n /\ ~ e.i.msgs[k].recv
        /\ \A l \in DOMAIN q : l # k => e.i.msgs[l] = d.i.msgs[l]
    <3> DEFINE m == Resized(m0, n)
    <3>1. m.len = n /\ ~ m.recv
      BY <1>5 DEF Resized, Message
    <3>2. e.i.msgs = Put(d1.i.msgs, k, m)
      BY <1>9, <1>10
    <3> HIDE DEF m
    <3>3. e.i.msgs[k] = m /\ \A l \in DOMAIN q : l # k => e.i.msgs[l] = d1.i.msgs[l]
      BY <1>1, <1>9, <3>2 DEF Put
    <3>4. \A l \in DOMAIN q : l # k => d1.i.msgs[l] = d.i.msgs[l]
      BY <1>1, <1>8 DEF Put
    <3> QED BY <3>1, <3>3, <3>4
  <2>3. /\ e.h.rfd = r /\ e.h.rxocc = 0 /\ e.h.iisr = d.h.iisr /\ e.h.iier = d.h.iier
        /\ e.h.cr = d.h.cr /\ e.h.txf = d.h.txf /\ e.h.mode = d.h.mode /\ e.h.cur = d.h.cur
        /\ e.h.byte = d.h.byte /\ e.h.dyn = d.h.dyn /\ e.h.left = d.h.left
        /\ e.h.autostop = d.h.autostop /\ e.h.moved = d.h.moved
    BY <1>8, <1>10 DEF IsPair, CoreFields
  <2>4. /\ g.rfd = r /\ g.rxocc = 0 /\ g.iisr = d.h.iisr \ {"RXFULL"} /\ g.iier = d.h.iier
        /\ g.cr = d.h.cr /\ g.txf = d.h.txf /\ g.mode = d.h.mode /\ g.cur = d.h.cur
        /\ g.byte = d.h.byte /\ g.dyn = d.h.dyn /\ g.left = d.h.left
        /\ g.autostop = d.h.autostop /\ g.moved = d.h.moved
    BY <2>3 DEF Cleared, SameButIrqs, e
  <2>5. ToGo(e.i, g) = n - 1 /\ n - 1 \in Nat /\ n - 1 > 0
    <3>1. e.i.msgs[e.i.rx_msg].len = n /\ ~ e.i.msgs[e.i.rx_msg].recv /\ g.moved[e.i.rx_msg] = 1
      BY <1>1, <1>4, <2>1, <2>2, <2>4
    <3>2. ToGo(e.i, g) = n - 1
      BY <3>1 DEF ToGo, Whole
    <3>3. n - 1 \in Nat /\ n - 1 > 0
      BY <1>10
    <3> QED BY <3>2, <3>3
  <2>6. Window(g, n - 1, e.i.msgs[k].recv)
    <3>1. /\ "RXFULL" \notin g.iisr /\ "NOACK" \notin g.cr
          /\ g.byte = "none" /\ g.rxocc = 0 /\ g.rfd = r /\ ~ e.i.msgs[k].recv
      BY <1>4, <2>2, <2>4
    <3>2. n \in Nat /\ r \in Nat /\ n > r + 2 /\ (r < DEPTH - 1 => n = r + 3)
      BY <1>10
    <3>3. 0 <= r + 1 /\ (n - 1) + 0 > r + 1 /\ (r < DEPTH - 1 => (n - 1) + 0 = r + 2)
      BY <3>2, SizesOK
    <3> HIDE DEF Expects
    <3> QED BY <3>1, <3>3 DEF Window
  <2>7. Receiving(e.i, g, n - 1)
    <3>1. g.iisr \cap {"TXERR", "BNB"} = {}
      BY <2>4 DEF Receiving
    <3>2. g.dyn = e.i.dynamic /\ ~ g.autostop
      <4>1. ~ e.i.dynamic /\ g.dyn = d.h.dyn /\ g.autostop = d.h.autostop
        BY <2>1, <2>4
      <4>2. d.h.dyn = d.i.dynamic /\ ~ d.h.autostop
        BY DEF Receiving
      <4>3. e.i.dynamic = d.i.dynamic
        BY <1>8, <1>10 DEF SameMessage
      <4> QED BY <4>1, <4>2, <4>3
    <3> QED BY <2>1, <2>2, <2>4, <2>5, <2>6, <3>1, <3>2 DEF Receiving
  <2>8. SetUp(e.i, M)
    <3> DEFINE now == e.i.msgs[e.i.rx_msg]
               block == M.recv /\ ~ now.recv
               valid == block /\ M.blk <= BLOCK_MAX
    <3>1. block /\ valid \in BOOLEAN /\ (valid <=> len <= BLOCK_MAX)
      BY <1>2, <1>3, <2>1, <2>2
    <3>2. now.len = n /\ e.i.tx_pos = M.len
      BY <2>1, <2>2
    <3> HIDE DEF now, block, valid
    <3>3. e.i.smbus_block_read = valid
      BY <1>10, <3>1
    <3>4. now.len = IF valid THEN WireLen(M) ELSE MIN_LEN
      BY <1>2, <1>10, <3>1, <3>2 DEF WireLen
    <3>5. e.i.smbus_actual_len = IF valid /\ BlockLen(M) < MIN_LEN THEN BlockLen(M) ELSE 0
      BY <1>10, <3>1
    <3> QED BY <3>1, <3>2, <3>3, <3>4, <3>5, Zenon DEF SetUp, now, block, valid
  <2>9. KeepsBus(g) /\ "TXERR" \in g.iier
    BY <2>4 DEF ReadingOn, KeepsBus
  <2>10. ReadingOn(e.i, g, q)
    BY <1>1, <1>2, <1>4, <2>1, <2>4, <2>5, <2>7, <2>8, <2>9 DEF ReadingOn, Stage
  <2>11. RxSpace(e) # 0
    <3>1. RxSpace(e) = n - 1
      BY <2>1, <2>2 DEF RxSpace
    <3> QED BY <2>5, <3>1
  <2>12. OnlyReads(d, e, q)
    <3>1. SameMessage(d.i, e.i)
      BY <1>8, <1>10 DEF SameMessage
    <3>2. \A l \in DOMAIN q : l # k => e.i.filled[l] = d.i.filled[l]
      BY <1>1, <2>1 DEF Put
    <3> QED BY <1>10, <2>2, <2>3, <3>1, <3>2 DEF OnlyReads
  <2> QED BY <2>3, <2>10, <2>11, <2>12
<1>11. BlockLen(M) = len + 1 + pec /\ len \in Nat /\ pec \in {0, 1}
  BY <1>1, <1>3 DEF BlockLen
<1> HIDE DEF M
<1> USE DEF IsPair, DeviceFields, CoreFields, SameMessage, Put, Resized
<1>12. CASE len > BLOCK_MAX
  <2>1. e = [d1 EXCEPT !.i.msgs[k].len = 3, !.i.smbus_block_read = FALSE]
    BY <1>12, <1>e, <1>1, Zenon
  <2> HIDE DEF e
  <2>2. /\ IsPair(e) /\ SameMessage(d1.i, e.i) /\ e.h = d1.h /\ e.i.smbus_actual_len = 0
        /\ e.i.smbus_block_read = FALSE /\ e.i.rx_pos = d1.i.rx_pos /\ e.i.filled = d1.i.filled
    BY <2>1, <1>8
  <2>3. e.i.msgs = Put(d1.i.msgs, k, Resized(d1.i.msgs[k], 3))
    BY <2>1, <1>8
  <2>4. d1.h.rfd = 0 /\ ~ (len <= BLOCK_MAX)
    BY <1>8, <1>11, <1>12, SizesOK
  <2> HIDE DEF IsPair, SameMessage, Put, Resized
  <2>5. Expects(3, 0, 0)
    BY <2>2, <2>3, <2>4
  <2> HIDE DEF Expects
  <2>6. DEPTH \in Nat /\ DEPTH > 1 /\ MIN_LEN = 3
    BY SizesOK DEF MIN_LEN
  <2> QED BY <1>10, <2>4, <2>5, <2>6 DEF e
<1>13. CASE ~ (len > BLOCK_MAX) /\ len + pec > DEPTH
  <2>1. e = [d1 EXCEPT !.i.msgs[k].len = len + 1 + pec, !.h.rfd = DEPTH - 1]
    BY <1>13, <1>e, Zenon
  <2> HIDE DEF e
  <2>2. /\ IsPair(e) /\ SameMessage(d1.i, e.i) /\ e.i.smbus_actual_len = 0
        /\ e.i.smbus_block_read = TRUE /\ e.i.rx_pos = d1.i.rx_pos /\ e.i.filled = d1.i.filled
    BY <2>1, <1>8
  <2>3. e.i.msgs = Put(d1.i.msgs, k, Resized(d1.i.msgs[k], len + 1 + pec))
    BY <2>1, <1>8
  <2>4. e.h = [d1.h EXCEPT !.rfd = DEPTH - 1]
    BY <2>1, <1>8
  <2>7. len <= BLOCK_MAX
    BY <1>11, <1>13, SizesOK
  <2>8. IsPair(d1)
    BY <1>8
  <2>12. /\ e.h.rfd = DEPTH - 1 /\ e.h.rxocc = d1.h.rxocc /\ e.h.iisr = d1.h.iisr
         /\ e.h.iier = d1.h.iier /\ e.h.cr = d1.h.cr /\ e.h.txf = d1.h.txf
         /\ e.h.mode = d1.h.mode /\ e.h.cur = d1.h.cur /\ e.h.byte = d1.h.byte
         /\ e.h.dyn = d1.h.dyn /\ e.h.left = d1.h.left /\ e.h.autostop = d1.h.autostop
         /\ e.h.moved = d1.h.moved
    BY <2>4, <2>8
  <2> HIDE DEF IsPair, SameMessage, Put, Resized
  <2>5. Expects(len + 1 + pec, DEPTH - 1, 0)
    BY <2>2, <2>3, <2>7, <2>12
  <2> HIDE DEF Expects
  <2>6. /\ len <= BLOCK_MAX /\ len + 1 + pec \in Nat /\ len + 1 + pec > DEPTH + 1 /\ DEPTH \in Nat
        /\ DEPTH > 1 /\ len + 1 + pec > MIN_LEN
    BY <1>11, <1>13, SizesOK DEF MIN_LEN
  <2> QED BY <1>10, <1>11, <2>5, <2>6 DEF e, MIN_LEN, MaxOf
<1>14. CASE ~ (len > BLOCK_MAX) /\ ~ (len + pec > DEPTH) /\ 1 + len + pec < MIN_LEN
  <2>1. e = [[d1 EXCEPT !.i.msgs[k].len = MIN_LEN, !.h.rfd = 0]
               EXCEPT !.i.smbus_actual_len = 1 + len + pec]
    BY <1>14, <1>e, Zenon
  <2> HIDE DEF e
  <2>2. /\ IsPair(e) /\ SameMessage(d1.i, e.i) /\ e.i.smbus_actual_len = 1 + len + pec
        /\ e.i.smbus_block_read = TRUE /\ e.i.rx_pos = d1.i.rx_pos /\ e.i.filled = d1.i.filled
    BY <2>1, <1>8
  <2>3. e.i.msgs = Put(d1.i.msgs, k, Resized(d1.i.msgs[k], MIN_LEN))
    BY <2>1, <1>8
  <2>4. e.h = [d1.h EXCEPT !.rfd = 0]
    BY <2>1, <1>8
  <2>7. len <= BLOCK_MAX
    BY <1>11, <1>14, SizesOK
  <2>8. IsPair(d1)
    BY <1>8
  <2>12. /\ e.h.rfd = 0 /\ e.h.rxocc = d1.h.rxocc /\ e.h.iisr = d1.h.iisr
         /\ e.h.iier = d1.h.iier /\ e.h.cr = d1.h.cr /\ e.h.txf = d1.h.txf
         /\ e.h.mode = d1.h.mode /\ e.h.cur = d1.h.cur /\ e.h.byte = d1.h.byte
         /\ e.h.dyn = d1.h.dyn /\ e.h.left = d1.h.left /\ e.h.autostop = d1.h.autostop
         /\ e.h.moved = d1.h.moved
    BY <2>4, <2>8
  <2> HIDE DEF IsPair, SameMessage, Put, Resized
  <2>5. Expects(MIN_LEN, 0, 1 + len + pec)
    BY <2>2, <2>3, <2>7, <2>12
  <2> HIDE DEF Expects
  <2>6. /\ len <= BLOCK_MAX /\ 1 + len + pec \in Nat /\ 1 + len + pec = len + 1 + pec
        /\ len + 1 + pec < MIN_LEN
    BY <1>11, <1>14, SizesOK DEF MIN_LEN
  <2> QED BY <1>10, <1>11, <2>5, <2>6 DEF e, MIN_LEN, MaxOf
<1>15. CASE ~ (len > BLOCK_MAX) /\ ~ (len + pec > DEPTH) /\ ~ (1 + len + pec < MIN_LEN)
  <2>1. e = [d1 EXCEPT !.i.msgs[k].len = len + 1 + pec, !.h.rfd = len + pec - 2]
    BY <1>15, <1>e, Zenon
  <2> HIDE DEF e
  <2>2. /\ IsPair(e) /\ SameMessage(d1.i, e.i) /\ e.i.smbus_actual_len = 0
        /\ e.i.smbus_block_read = TRUE /\ e.i.rx_pos = d1.i.rx_pos /\ e.i.filled = d1.i.filled
    BY <2>1, <1>8
  <2>3. e.i.msgs = Put(d1.i.msgs, k, Resized(d1.i.msgs[k], len + 1 + pec))
    BY <2>1, <1>8
  <2>4. e.h = [d1.h EXCEPT !.rfd = len + pec - 2]
    BY <2>1, <1>8
  <2>7. len <= BLOCK_MAX
    BY <1>11, <1>15, SizesOK
  <2>8. IsPair(d1)
    BY <1>8
  <2>12. /\ e.h.rfd = len + pec - 2 /\ e.h.rxocc = d1.h.rxocc /\ e.h.iisr = d1.h.iisr
         /\ e.h.iier = d1.h.iier /\ e.h.cr = d1.h.cr /\ e.h.txf = d1.h.txf
         /\ e.h.mode = d1.h.mode /\ e.h.cur = d1.h.cur /\ e.h.byte = d1.h.byte
         /\ e.h.dyn = d1.h.dyn /\ e.h.left = d1.h.left /\ e.h.autostop = d1.h.autostop
         /\ e.h.moved = d1.h.moved
    BY <2>4, <2>8
  <2> HIDE DEF IsPair, SameMessage, Put, Resized
  <2>5. Expects(len + 1 + pec, len + pec - 2, 0)
    BY <2>2, <2>3, <2>7, <2>12
  <2> HIDE DEF Expects
  <2>6. /\ len <= BLOCK_MAX /\ len + 1 + pec \in Nat /\ len + pec - 2 \in Nat
        /\ len + 1 + pec >= MIN_LEN /\ len + 1 + pec = (len + pec - 2) + 3
    BY <1>11, <1>15, SizesOK DEF MIN_LEN
  <2>9. len + 1 + pec = MaxOf(MIN_LEN, BlockLen(M)) /\ ~ (BlockLen(M) < MIN_LEN)
    BY <1>11, <2>6 DEF MaxOf, MIN_LEN
  <2>10. /\ len + 1 + pec > (len + pec - 2) + 2 /\ DEPTH \in Nat
    BY <1>11, <2>6, SizesOK
  <2> HIDE DEF Expects
  <2> QED BY <1>10, <2>5, <2>6, <2>9, <2>10 DEF e
<1> QED BY <1>12, <1>13, <1>14, <1>15, Zenon

\* A read that has bytes to come goes on: the driver does not give up the bus.
LEMMA ReadGoes ==
  ASSUME NEW d, NEW e, NEW g, NEW q, ReadingOn(d.i, d.h, q), Receiving(d.i, d.h, ToGo(d.i, d.h)),
         OnlyReads(d, e, q), "MSMS" \in d.h.cr => "MSMS" \in e.h.cr,
         Cleared(e.h, g, {"RXFULL"}), ReadingOn(e.i, g, q), Going(d.i, d.h, q)
  PROVE  Going(e.i, g, q)
<1>1. /\ g.iier = d.h.iier /\ g.iisr = d.h.iisr \ {"RXFULL"} /\ g.txf = <<>> /\ g.mode = d.h.mode
      /\ "MSMS" \in d.h.cr => "MSMS" \in g.cr
  BY DEF OnlyReads, Cleared, SameButIrqs, Receiving
<1>2. /\ e.i.rx_msg = d.i.rx_msg /\ d.i.rx_msg # 0 /\ e.i.nmsgs = d.i.nmsgs /\ e.i.dynamic = d.i.dynamic
  BY DEF OnlyReads, SameMessage, ReadingOn
<1>3. Armed(g)
  BY <1>1 DEF Going, Armed
<1> DEFINE t == ToGo(e.i, g)
<1>4. t # 0
  <2>1. "TXERR" \notin g.iisr
    BY <1>1 DEF Receiving
  <2>2. Stage(e.i, g, t)
    BY DEF ReadingOn
  <2> HIDE DEF t
  <2>3. ~ QueuedRead(e.i, g, t)
    BY <1>1 DEF QueuedRead
  <2>4. ~ Refused(e.i, g) /\ ~ Received(e.i, g, t)
    BY <2>1 DEF Refused, Received
  <2>5. Receiving(e.i, g, t)
    BY <2>2, <2>3, <2>4 DEF Stage
  <2> QED BY <2>5 DEF Receiving
<1>5. ReadingGoes(d.i, d.h)
  BY <1>2 DEF Going
<1>6. ReadingGoes(e.i, g)
  BY <1>1, <1>2, <1>4, <1>5 DEF ReadingGoes, Last
<1> QED BY <1>2, <1>3, <1>6 DEF Going

\* All that is left has been fetched: the message is complete.
ReadAll(d, e) ==
  /\ Fetched(d, e, d.h.rxocc) /\ SameBlock(d.i, e.i)
  /\ ~ d.i.dynamic => "NOACK" \notin e.h.cr
  /\ ~ Last(d.i) => KeepsBus(e.h)
  /\ ~ d.i.dynamic => ("MSMS" \in e.h.cr <=> "MSMS" \in d.h.cr /\ ~ Last(d.i))

\* xiic_read_rx() either goes on with the message, with the threshold set so that the
\* last byte can be told apart, or has fetched all of it.
LEMMA ReadRxProgress ==
  ASSUME NEW d, NEW q \in Seq(Message), IsPair(d), CoreOK(d.h), DeviceOK(d.i, q),
         Fitting(q, d.i.dynamic), ReadingOn(d.i, d.h, q),
         "RXFULL" \in d.h.iisr \/ ("TXERR" \in d.h.iisr /\ d.h.rxocc > 0)
  PROVE  LET e == ReadRx(d) IN
         /\ OnlyReads(d, e, q)
         /\ \/ /\ RxSpace(e) # 0 /\ Receiving(d.i, d.h, ToGo(d.i, d.h)) /\ "RXFULL" \in d.h.iisr
               /\ "MSMS" \in d.h.cr => "MSMS" \in e.h.cr
               /\ \A g : Cleared(e.h, g, {"RXFULL"}) => ReadingOn(e.i, g, q)
            \/ RxSpace(e) = 0 /\ Received(d.i, d.h, ToGo(d.i, d.h)) /\ ReadAll(d, e)
<1> DEFINE k == d.i.rx_msg
           t == ToGo(d.i, d.h)
           occ == d.h.rxocc
           n == MinOf(d.h.rxocc, RxSpace(d))
           rem == RxSpace(d) - n
           e == ReadRx(d)
           d1 == Drain(d, n)
           cr == d.h.cr \ (IF d.i.nmsgs = 1 THEN {"NOACK", "MSMS"} ELSE {"NOACK"})
           With(x) == [d EXCEPT !.h.cr = x]
           Goes(f) == /\ RxSpace(f) # 0 /\ OnlyReads(d, f, q)
                      /\ "MSMS" \in d.h.cr => "MSMS" \in f.h.cr
                      /\ \A g : Cleared(f.h, g, {"RXFULL"}) => ReadingOn(f.i, g, q)
<1>e. e = IF d.i.dynamic
            THEN [d1 EXCEPT !.h.rfd = IF RxSpace(d1) = 0 THEN DEPTH - 1
                                      ELSE MinOf(RxSpace(d1), DEPTH) - 1]
          ELSE IF d.i.msgs[k].recv THEN BlockReadSetup(d)
          ELSE IF rem > DEPTH THEN Drain(d, n)
          ELSE IF rem > 1 THEN Drain(d, rem - 1)
          ELSE IF rem = 1 THEN Drain(With(d.h.cr \cup {"NOACK"}), 1)
          ELSE Drain(With(cr), n)
  BY DEF ReadRx
<1>1. /\ k \in Nat /\ k # 0 /\ k \in DOMAIN q /\ occ \in Nat /\ d.i.rx_pos \in Nat
      /\ d.h.moved[k] = d.i.rx_pos + occ /\ d.i.msgs[k].len \in Nat
      /\ d.i.filled \in [DOMAIN q -> Nat] /\ d.i.msgs[k].recv \in BOOLEAN
      /\ ~ d.i.msgs[k].recv => t = d.i.msgs[k].len - (d.i.rx_pos + occ)
  <2>1. d.i.filled \in [DOMAIN q -> Nat]
    BY DEF DeviceOK, Typed
  <2> QED BY <2>1, ReadCounts
<1>2. (Receiving(d.i, d.h, t) /\ "RXFULL" \in d.h.iisr) \/ Received(d.i, d.h, t)
  <2>1. ~ QueuedRead(d.i, d.h, t)
    BY DEF QueuedRead
  <2>2. ~ Refused(d.i, d.h)
    BY <1>1 DEF Refused
  <2>3. Stage(d.i, d.h, t)
    BY DEF ReadingOn
  <2>4. Receiving(d.i, d.h, t) => "TXERR" \notin d.h.iisr
    BY DEF Receiving
  <2> QED BY <2>1, <2>2, <2>3, <2>4 DEF Stage
<1>3. d.i.dynamic => ~ d.i.msgs[k].recv
  BY <1>1 DEF DeviceOK, Lengths, Fitting
<1> HIDE DEF t
<1>4. ASSUME ~ d.i.msgs[k].recv
      PROVE  t \in Nat /\ RxSpace(d) = t + occ /\ n = occ /\ rem = t
  <2>1. t = d.i.msgs[k].len - (d.i.rx_pos + occ)
    BY <1>1, <1>4
  <2>2. t > 0 \/ t = 0
    BY <1>2 DEF Receiving, Received
  <2>3. t \in Nat /\ RxSpace(d) = t + occ
    <3> DEFINE l == d.i.msgs[k].len
               p == d.i.rx_pos
    <3>1. l \in Nat /\ p \in Nat /\ occ \in Nat /\ t = l - (p + occ) /\ RxSpace(d) = l - p
      BY <1>1, <2>1 DEF RxSpace
    <3> HIDE DEF l, p, occ
    <3>2. t \in Nat /\ l - p = t + occ
      BY <2>2, <3>1
    <3> QED BY <3>1, <3>2
  <2> QED BY <1>1, <2>3 DEF MinOf
<1> HIDE DEF n, rem
<1>5. ASSUME NEW f, NEW l \in Nat, l <= occ, Fetched(d, f, l), SameBlock(d.i, f.i)
      PROVE  /\ OnlyReads(d, f, q)
             /\ ~ d.i.msgs[k].recv => RxSpace(f) = t + occ - l
  <2>1. OnlyReads(d, f, q)
    BY <1>1, <1>5 DEF OnlyReads, Fetched, SameBlock, Put
  <2>2. f.i.rx_msg = k /\ f.i.msgs = d.i.msgs /\ f.i.rx_pos = d.i.rx_pos + l
    BY <1>5 DEF Fetched, SameMessage, SameBlock
  <2>3. ASSUME ~ d.i.msgs[k].recv PROVE RxSpace(f) = t + occ - l
    <3>1. RxSpace(f) = f.i.msgs[f.i.rx_msg].len - f.i.rx_pos
      BY DEF RxSpace
    <3>2. RxSpace(f) = d.i.msgs[k].len - (d.i.rx_pos + l)
      BY <2>2, <3>1
    <3>3. t = d.i.msgs[k].len - (d.i.rx_pos + occ) /\ t \in Nat
      BY <1>1, <1>4, <2>3
    <3> DEFINE a == d.i.msgs[k].len
               b == d.i.rx_pos
    <3>4. a \in Nat /\ b \in Nat /\ occ \in Nat /\ l \in Nat /\ l <= occ
      BY <1>1, <1>5
    <3>5. RxSpace(f) = a - (b + l) /\ t = a - (b + occ)
      BY <3>2, <3>3
    <3> HIDE DEF a, b, occ
    <3> QED BY <3>3, <3>4, <3>5
  <2> QED BY <2>1, <2>3
<1>6. ASSUME NEW f, NEW l \in Nat, l <= occ, Fetched(d, f, l), SameBlock(d.i, f.i),
             Receiving(d.i, d.h, t), ~ d.i.msgs[k].recv, KeepsBus(f.h),
             "MSMS" \in d.h.cr => "MSMS" \in f.h.cr,
             ~ d.i.dynamic => \A g : SameButIrqs(f.h, g) /\ "RXFULL" \notin g.iisr =>
                                Window(g, t, d.i.msgs[k].recv)
      PROVE  Goes(f)
  <2>1. OnlyReads(d, f, q) /\ RxSpace(f) # 0
    <3>1. t > 0
      BY <1>6 DEF Receiving
    <3>2. RxSpace(f) = t + occ - l
      BY <1>5, <1>6
    <3> QED BY <1>1, <1>4, <1>5, <1>6, <3>1, <3>2
  <2>2. ASSUME NEW g, Cleared(f.h, g, {"RXFULL"}) PROVE ReadingOn(f.i, g, q)
    <3>1. KeepsBus(g) /\ SameButIrqs(f.h, g) /\ "RXFULL" \notin g.iisr
      BY <1>6, <2>2 DEF Cleared, SameButIrqs, KeepsBus
    <3>2. ~ d.i.dynamic => Window(g, t, d.i.msgs[k].recv)
      BY <1>6, <3>1
    <3> QED BY <1>6, <2>2, <3>1, <3>2, FetchedReads DEF t
  <2> QED BY <1>6, <2>1, <2>2
<1>7. ASSUME NEW l \in Nat, l <= occ
      PROVE  LET f == Drain(d, l) IN
             Fetched(d, f, l) /\ SameBlock(d.i, f.i) /\ f.h.rfd = d.h.rfd /\ f.h.cr = d.h.cr
  BY <1>7, DrainFetches
<1>8. ASSUME NEW x \in SUBSET {"MSMS", "TX", "NOACK", "RSTA"}, NEW l \in Nat, l <= occ
      PROVE  LET f == Drain(With(x), l) IN
             Fetched(d, f, l) /\ SameBlock(d.i, f.i) /\ f.h.rfd = d.h.rfd /\ f.h.cr = x
  <2> DEFINE c == With(x)
             f == Drain(c, l)
  <2>1. IsPair(c) /\ c.i = d.i /\ c.h = [d.h EXCEPT !.cr = x]
    BY DEF IsPair, CoreFields
  <2> HIDE DEF c
  <2>2. /\ c.h.iisr = d.h.iisr /\ c.h.iier = d.h.iier /\ c.h.rfd = d.h.rfd /\ c.h.cr = x
        /\ c.h.txf = d.h.txf /\ c.h.rxocc = d.h.rxocc /\ c.h.mode = d.h.mode /\ c.h.cur = d.h.cur
        /\ c.h.byte = d.h.byte /\ c.h.dyn = d.h.dyn /\ c.h.left = d.h.left
        /\ c.h.autostop = d.h.autostop /\ c.h.moved = d.h.moved
    BY <2>1 DEF IsPair, CoreFields
  <2>3. CoreOK(c.h)
    BY <2>1, <2>2 DEF CoreOK, IsPair
  <2>4. Fetched(c, f, l) /\ SameBlock(c.i, f.i) /\ f.h.rfd = c.h.rfd /\ f.h.cr = c.h.cr
    BY <1>8, <2>1, <2>2, <2>3, DrainFetches
  <2> HIDE DEF f
  <2>5. Fetched(d, f, l)
    BY <2>1, <2>2, <2>4 DEF Fetched
  <2> QED BY <2>1, <2>2, <2>4, <2>5 DEF f, c
<1>9. KeepsBus(d.h)
  BY DEF ReadingOn
<1>10. CASE d.i.dynamic
  <2> DEFINE r == IF RxSpace(d1) = 0 THEN DEPTH - 1 ELSE MinOf(RxSpace(d1), DEPTH) - 1
  <2>1. e = [d1 EXCEPT !.h.rfd = r]
    BY <1>e, <1>10, Zenon
  <2>2. ~ d.i.msgs[k].recv /\ n = occ /\ rem = t /\ t \in Nat
    BY <1>3, <1>4, <1>10
  <2>3. Fetched(d, d1, occ) /\ SameBlock(d.i, d1.i) /\ d1.h.cr = d.h.cr
    <3>1. occ \in Nat /\ occ <= occ
      BY <1>1
    <3> QED BY <1>7, <2>2, <3>1
  <2> HIDE DEF r, d1, e
  <2>4. IsPair(e) /\ e.i = d1.i /\ e.h = [d1.h EXCEPT !.rfd = r]
    BY <2>1, <2>3 DEF Fetched, IsPair, CoreFields
  <2>5. /\ e.h.iisr = d1.h.iisr /\ e.h.iier = d1.h.iier /\ e.h.cr = d1.h.cr
        /\ e.h.txf = d1.h.txf /\ e.h.rxocc = d1.h.rxocc /\ e.h.mode = d1.h.mode /\ e.h.cur = d1.h.cur
        /\ e.h.byte = d1.h.byte /\ e.h.dyn = d1.h.dyn /\ e.h.left = d1.h.left
        /\ e.h.autostop = d1.h.autostop /\ e.h.moved = d1.h.moved
    BY <2>3, <2>4 DEF Fetched, IsPair, CoreFields
  <2>6. Fetched(d, e, occ) /\ SameBlock(d.i, e.i)
    BY <2>3, <2>4, <2>5 DEF Fetched
  <2>7. KeepsBus(e.h)
    BY <1>9, <2>3, <2>5 DEF KeepsBus, Fetched
  <2>8. OnlyReads(d, e, q) /\ RxSpace(e) = t
    <3>1. occ \in Nat /\ occ <= occ
      BY <1>1
    <3>2. OnlyReads(d, e, q) /\ RxSpace(e) = t + occ - occ
      BY <1>5, <2>2, <2>6, <3>1
    <3> HIDE DEF t, occ
    <3> QED BY <2>2, <3>1, <3>2
  <2>9. CASE Receiving(d.i, d.h, t) /\ "RXFULL" \in d.h.iisr
    <3>0. occ \in Nat /\ occ <= occ
      BY <1>1
    <3>1. Goes(e)
      BY <1>6, <1>10, <2>2, <2>3, <2>5, <2>6, <2>7, <2>9, <3>0
    <3> QED BY <2>9, <3>1 DEF e, t
  <2>10. CASE Received(d.i, d.h, t)
    <3>1. RxSpace(e) = 0
      BY <2>8, <2>10 DEF Received
    <3> QED BY <1>10, <2>6, <2>7, <2>8, <2>10, <3>1 DEF ReadAll, e, t
  <2> QED BY <1>2, <2>9, <2>10
<1>11. CASE ~ d.i.dynamic /\ d.i.msgs[k].recv
  <2>1. e = BlockReadSetup(d)
    BY <1>e, <1>11, Zenon
  <2>2. Receiving(d.i, d.h, t) /\ "RXFULL" \in d.h.iisr
    BY <1>2, <1>11 DEF Received
  <2>3. ASSUME NEW g, Cleared(e.h, g, {"RXFULL"})
        PROVE  ReadingOn(e.i, g, q) /\ RxSpace(e) # 0 /\ OnlyReads(d, e, q) /\ e.h.cr = d.h.cr
    BY <1>11, <2>1, <2>2, <2>3, BlockReads DEF t
  <2>4. \E g : Cleared(e.h, g, {"RXFULL"})
    <3> DEFINE g == [e.h EXCEPT !.iisr = @ \ {"RXFULL"}]
    <3>1. IsPair(e)
      BY ReadRxKeeps, <1>1 DEF Keeps
    <3> HIDE DEF e
    <3>2. Cleared(e.h, g, {"RXFULL"})
      BY <3>1 DEF Cleared, SameButIrqs, IsPair, CoreFields
    <3> QED BY <3>2
  <2> HIDE DEF e
  <2> QED BY <2>2, <2>3, <2>4 DEF e, t
<1>12. CASE ~ d.i.dynamic /\ ~ d.i.msgs[k].recv
  <2>1. n = occ /\ rem = t /\ t \in Nat /\ d.h.rfd \in Nat /\ d.h.rfd <= DEPTH - 1 /\ DEPTH \in Nat
    BY <1>4, <1>12, SizesOK DEF CoreOK
  <2>2. ASSUME Receiving(d.i, d.h, t), "RXFULL" \in d.h.iisr
        PROVE  /\ "NOACK" \notin d.h.cr /\ occ = d.h.rfd + 1 /\ d.h.byte = "none" /\ t > 0
               /\ d.h.rfd < DEPTH - 1 => t = 1
    <3> DEFINE r == d.i.msgs[k].recv
    <3>1. Window(d.h, t, r)
      BY <1>12, <2>2 DEF Receiving
    <3>2. ~ r
      BY <1>12
    <3> HIDE DEF r
    <3>3. "NOACK" \notin d.h.cr /\ occ = d.h.rfd + 1
      BY <2>2, <3>1, WindowFull, Zenon
    <3>4. d.h.byte = "none"
      BY <2>1, <3>1, <3>3 DEF Window
    <3>5. d.h.rfd < DEPTH - 1 => t = 1
      BY <2>1, <3>1, <3>2, <3>3 DEF Window
    <3> QED BY <2>2, <3>3, <3>4, <3>5 DEF Receiving
  <2>3. CASE rem > DEPTH
    <3>1. e = Drain(d, n)
      BY <1>e, <1>12, <2>3, Zenon
    <3>2. Receiving(d.i, d.h, t) /\ "RXFULL" \in d.h.iisr
      BY <1>2, <2>1, <2>3 DEF Received
    <3>3. Fetched(d, e, occ) /\ SameBlock(d.i, e.i) /\ e.h.rfd = d.h.rfd /\ e.h.cr = d.h.cr
      BY <1>1, <1>7, <2>1, <3>1
    <3> HIDE DEF e
    <3>4. KeepsBus(e.h)
      BY <1>9, <3>3 DEF KeepsBus, Fetched
    <3>5. ASSUME NEW g, SameButIrqs(e.h, g), "RXFULL" \notin g.iisr
          PROVE  Window(g, t, d.i.msgs[k].recv)
      <4>1. g.rxocc = 0 /\ g.rfd = d.h.rfd /\ g.cr = d.h.cr /\ g.byte = "none"
        BY <1>1, <2>2, <3>2, <3>3, <3>5 DEF SameButIrqs, Fetched
      <4>2. d.h.rfd = DEPTH - 1 /\ t > DEPTH /\ "NOACK" \notin d.h.cr
        BY <2>1, <2>2, <2>3, <3>2, SizesOK
      <4> QED BY <1>12, <2>1, <3>5, <4>1, <4>2 DEF Window
    <3>0. occ \in Nat /\ occ <= occ
      BY <1>1
    <3>6. Goes(e)
      BY <1>6, <1>12, <3>0, <3>2, <3>3, <3>4, <3>5
    <3> QED BY <3>2, <3>6 DEF e, t
  <2>4. CASE ~ (rem > DEPTH) /\ rem > 1
    <3>1. e = Drain(d, rem - 1)
      BY <1>e, <1>12, <2>4, Zenon
    <3>2. Receiving(d.i, d.h, t) /\ "RXFULL" \in d.h.iisr
      BY <1>2, <2>1, <2>4 DEF Received
    <3>3. d.h.rfd = DEPTH - 1 /\ occ = DEPTH /\ rem - 1 = t - 1 /\ t - 1 \in Nat /\ t - 1 <= occ
      BY <2>1, <2>2, <2>4, <3>2
    <3>4. Fetched(d, e, t - 1) /\ SameBlock(d.i, e.i) /\ e.h.rfd = d.h.rfd /\ e.h.cr = d.h.cr
      BY <1>7, <3>1, <3>3
    <3> HIDE DEF e
    <3>5. KeepsBus(e.h)
      BY <1>9, <3>4 DEF KeepsBus, Fetched
    <3>6. ASSUME NEW g, SameButIrqs(e.h, g), "RXFULL" \notin g.iisr
          PROVE  Window(g, t, d.i.msgs[k].recv)
      <4>1. g.rxocc = DEPTH - (t - 1) /\ g.rfd = DEPTH - 1 /\ g.cr = d.h.cr /\ g.byte = "none"
        BY <2>2, <3>2, <3>3, <3>4, <3>6 DEF SameButIrqs, Fetched
      <4>2. t > 1 /\ t <= DEPTH /\ "NOACK" \notin d.h.cr
        BY <2>1, <2>2, <2>4, <3>2
      <4> QED BY <1>12, <2>1, <3>6, <4>1, <4>2 DEF Window
    <3>7. Goes(e)
      BY <1>6, <1>12, <3>2, <3>3, <3>4, <3>5, <3>6
    <3> QED BY <3>2, <3>7 DEF e, t
  <2>5. CASE ~ (rem > DEPTH) /\ ~ (rem > 1) /\ rem = 1
    <3> DEFINE x == d.h.cr \cup {"NOACK"}
    <3>1. e = Drain(With(x), 1)
      BY <1>e, <1>12, <2>5, Zenon
    <3>2. Receiving(d.i, d.h, t) /\ "RXFULL" \in d.h.iisr
      BY <1>2, <2>1, <2>5 DEF Received
    <3>3. t = 1 /\ 1 <= occ
      BY <2>1, <2>2, <2>5, <3>2
    <3>4. x \in SUBSET {"MSMS", "TX", "NOACK", "RSTA"}
      BY DEF CoreOK
    <3> HIDE DEF x
    <3>0. 1 \in Nat /\ 1 <= occ
      BY <3>3
    <3>9. /\ Fetched(d, Drain(With(x), 1), 1) /\ SameBlock(d.i, Drain(With(x), 1).i)
          /\ Drain(With(x), 1).h.rfd = d.h.rfd /\ Drain(With(x), 1).h.cr = x
      <4> HIDE DEF With, occ
      <4> QED BY <1>8, <3>0, <3>4
    <3>5. Fetched(d, e, 1) /\ SameBlock(d.i, e.i) /\ e.h.rfd = d.h.rfd /\ e.h.cr = x
      <4> HIDE DEF With, e
      <4> QED BY <3>1, <3>9
    <3> HIDE DEF e
    <3>6. KeepsBus(e.h)
      BY <1>9, <3>5 DEF KeepsBus, Fetched, x
    <3>7. ASSUME NEW g, SameButIrqs(e.h, g), "RXFULL" \notin g.iisr
          PROVE  Window(g, t, d.i.msgs[k].recv)
      <4>1. g.rxocc = d.h.rfd /\ g.rfd = d.h.rfd /\ "NOACK" \in g.cr /\ g.byte = "none"
        BY <1>1, <2>1, <2>2, <3>2, <3>5, <3>7 DEF SameButIrqs, Fetched, x
      <4> QED BY <1>12, <2>1, <3>3, <3>7, <4>1 DEF Window
    <3>M. "MSMS" \in d.h.cr => "MSMS" \in e.h.cr
      BY <3>5 DEF x
    <3>8. Goes(e)
      BY <1>6, <1>12, <3>M, <3>2, <3>3, <3>5, <3>6, <3>7
    <3> QED BY <3>2, <3>8 DEF e, t
  <2>6. CASE ~ (rem > DEPTH) /\ ~ (rem > 1) /\ rem # 1
    <3>1. e = Drain(With(cr), n)
      BY <1>e, <1>12, <2>6, Zenon
    <3>2. cr \in SUBSET {"MSMS", "TX", "NOACK", "RSTA"}
      BY DEF CoreOK
    <3>3. "NOACK" \notin cr /\ ("MSMS" \in cr <=> "MSMS" \in d.h.cr /\ d.i.nmsgs # 1)
      OBVIOUS
    <3> HIDE DEF cr
    <3>0. occ \in Nat /\ occ <= occ
      BY <1>1
    <3>9. Fetched(d, Drain(With(cr), occ), occ) /\ SameBlock(d.i, Drain(With(cr), occ).i)
          /\ Drain(With(cr), occ).h.cr = cr
      <4> HIDE DEF With, occ
      <4> QED BY <1>8, <3>0, <3>2
    <3>4. Fetched(d, e, occ) /\ SameBlock(d.i, e.i) /\ e.h.cr = cr
      <4> HIDE DEF With, e, occ
      <4> QED BY <2>1, <3>1, <3>9
    <3> HIDE DEF e
    <3>5. t = 0 /\ Received(d.i, d.h, t)
      BY <1>2, <2>1, <2>6 DEF Receiving
    <3>6. RxSpace(e) = 0 /\ OnlyReads(d, e, q)
      BY <1>1, <1>5, <1>12, <3>4, <3>5
    <3>7. ReadAll(d, e)
      BY <1>9, <3>3, <3>4 DEF ReadAll, KeepsBus, Last, Fetched
    <3> QED BY <3>5, <3>6, <3>7 DEF e, t
  <2> QED BY <2>3, <2>4, <2>5, <2>6
<1> QED BY <1>10, <1>11, <1>12

\* A message that has been read to its end was delivered, unless the slave answered
\* with a block that is too long.
LEMMA ReadEnd ==
  ASSUME NEW d, NEW e, NEW q \in Seq(Message), IsPair(d), CoreOK(d.h), DeviceOK(d.i, q),
         Fitting(q, d.i.dynamic), ReadingOn(d.i, d.h, q), Around(d.i, d.h, q), Quiet(d),
         Received(d.i, d.h, ToGo(d.i, d.h)), ReadAll(d, e), RxSpace(e) = 0
  PROVE  LET f == [TrimLen(e) EXCEPT !.i.rx_msg = 0]
             m == d.i.tx_msg
         IN /\ IsPair(f) /\ f.h = e.h /\ f.i.rx_msg = 0 /\ f.i.tx_msg = m /\ f.i.nmsgs = d.i.nmsgs
            /\ f.i.dynamic = d.i.dynamic /\ f.i.broken = d.i.broken
            /\ Around(f.i, f.h, q)
            /\ Last(d.i) => Over(f.i, f.h, q)
            /\ ~ Last(d.i) => Delivered(f.i, f.h, q, m)
<1> DEFINE f == [TrimLen(e) EXCEPT !.i.rx_msg = 0]
           m == d.i.tx_msg
           a == d.i.smbus_actual_len
           now == d.i.msgs[m]
           w == d.h.moved[m]
<1>1. /\ m \in Nat /\ m # 0 /\ m \in DOMAIN q /\ q[m] \in Message /\ now \in Message
      /\ m = d.i.rx_msg /\ d.i.rx_pos \in Nat /\ d.h.rxocc \in Nat /\ d.i.filled[m] = d.i.rx_pos
      /\ w = d.i.rx_pos + d.h.rxocc /\ d.i.filled \in [DOMAIN q -> Nat]
      /\ d.i.msgs \in [DOMAIN q -> Message]
  <2>1. d.i.filled \in [DOMAIN q -> Nat] /\ d.i.msgs \in [DOMAIN q -> Message]
    BY DEF DeviceOK, Typed
  <2> QED BY <2>1, ReadCounts
<1>2. ~ now.recv /\ w = now.len
  <2>1. ToGo(d.i, d.h) = 0 /\ ~ now.recv
    BY <1>1 DEF Received
  <2>2. now.len \in Nat
    BY <1>1 DEF Message
  <2>3. w \in Nat
    <3> HIDE DEF w
    <3> QED BY <1>1
  <2>4. ToGo(d.i, d.h) = now.len - w
    <3>1. m = d.i.rx_msg
      BY <1>1
    <3>2. ToGo(d.i, d.h) = Whole(now) - w
      BY <3>1, Zenon DEF ToGo
    <3>3. Whole(now) = now.len
      BY <2>1, Zenon DEF Whole
    <3> QED BY <3>2, <3>3, Zenon
  <2> HIDE DEF w, now
  <2> QED BY <2>1, <2>2, <2>3, <2>4
<1>3. /\ IsPair(e) /\ e.i.tx_msg = m /\ e.i.rx_msg = m /\ e.i.nmsgs = d.i.nmsgs
      /\ e.i.tx_pos = d.i.tx_pos /\ e.i.dynamic = d.i.dynamic /\ e.i.broken = d.i.broken
      /\ e.i.filled = Put(d.i.filled, m, w) /\ e.i.msgs = d.i.msgs /\ e.i.smbus_actual_len = a
      /\ e.i.smbus_block_read = d.i.smbus_block_read
      /\ e.h.moved = d.h.moved /\ e.h.txf = d.h.txf /\ e.h.byte = d.h.byte /\ e.h.mode = d.h.mode
      /\ e.h.iier = d.h.iier
  BY <1>1 DEF ReadAll, Fetched, SameMessage, SameBlock
<1>4. /\ IsPair(TrimLen(e)) /\ TrimLen(e).h = e.h
      /\ TrimLen(e).i = IF a # 0 THEN [e.i EXCEPT !.msgs = WithLen(e.i, m, a)] ELSE e.i
  BY <1>3, TrimIs
<1> DEFINE msgs == IF a # 0 THEN WithLen(e.i, m, a) ELSE e.i.msgs
<1>5. /\ IsPair(f) /\ f.h = e.h /\ f.i.rx_msg = 0 /\ f.i.tx_msg = m /\ f.i.nmsgs = d.i.nmsgs
      /\ f.i.dynamic = d.i.dynamic /\ f.i.broken = d.i.broken /\ f.i.tx_pos = d.i.tx_pos
      /\ f.i.filled = e.i.filled /\ f.i.smbus_block_read = d.i.smbus_block_read /\ f.i.msgs = msgs
  <2>1. f.h = e.h /\ IsPair(f) /\ f.i = [TrimLen(e).i EXCEPT !.rx_msg = 0]
    BY <1>4 DEF IsPair, DeviceFields
  <2> HIDE DEF f
  <2>2. CASE a # 0
    <3>1. TrimLen(e).i = [e.i EXCEPT !.msgs = WithLen(e.i, m, a)]
      BY <1>4, <2>2
    <3> QED BY <1>3, <2>1, <2>2, <3>1 DEF IsPair, DeviceFields
  <2>3. CASE a = 0
    <3>1. TrimLen(e).i = e.i
      BY <1>4, <2>3
    <3> QED BY <1>3, <2>1, <2>3, <3>1 DEF IsPair, DeviceFields
  <2> QED BY <2>2, <2>3
<1>6. /\ \A k \in DOMAIN q : k # m => f.i.msgs[k] = d.i.msgs[k] /\ f.i.filled[k] = d.i.filled[k]
      /\ f.i.filled[m] = w /\ f.i.msgs[m].len = IF a # 0 THEN a ELSE now.len
  <2>1. f.i.filled = [d.i.filled EXCEPT ![m] = w]
    BY <1>3, <1>5 DEF Put
  <2>2. CASE a # 0
    <3>1. f.i.msgs = [d.i.msgs EXCEPT ![m] = Resized(now, a)]
      BY <1>3, <1>5, <2>2 DEF WithLen, Put
    <3>2. Resized(now, a).len = a
      BY <1>1 DEF Resized, Message
    <3> HIDE DEF f, now, w
    <3> QED BY <1>1, <2>1, <2>2, <3>1, <3>2
  <2>3. CASE a = 0
    <3>1. f.i.msgs = d.i.msgs
      BY <1>3, <1>5, <2>3
    <3> HIDE DEF f, w
    <3> QED BY <1>1, <2>1, <2>3, <3>1
  <2> QED BY <2>2, <2>3
<1> HIDE DEF f, msgs
<1>7. Around(f.i, f.h, q)
  <2>1. d.i.tx_msg = m /\ f.i.tx_msg = d.i.tx_msg /\ DOMAIN q \subseteq Nat
    BY <1>5
  <2>2. f.h.moved = d.h.moved /\ d.h.moved \in [DOMAIN q -> Nat]
    BY <1>3, <1>5 DEF Around
  <2>3. ASSUME NEW k \in DOMAIN q, k < m PROVE Delivered(f.i, f.h, q, k)
    <3>1. Delivered(d.i, d.h, q, k) /\ k # m
      BY <1>1, <2>1, <2>3 DEF Around
    <3> QED BY <1>6, <2>2, <3>1 DEF Delivered
  <2>4. ASSUME NEW k \in DOMAIN q, k > m PROVE f.h.moved[k] = 0 /\ f.i.msgs[k] = q[k]
    <3>1. d.h.moved[k] = 0 /\ d.i.msgs[k] = q[k] /\ k # m
      BY <1>1, <2>1, <2>4 DEF Around
    <3> QED BY <1>6, <2>2, <3>1
  <2> QED BY <1>5, <2>2, <2>3, <2>4 DEF Around
<1>8. SetUp(d.i, q[m]) /\ q[m].rd
  BY <1>1 DEF ReadingOn
<1>9. q[m].len \in Nat /\ q[m].blk \in Nat /\ q[m].recv \in BOOLEAN
  BY <1>1 DEF Message
<1>10. CASE ~ q[m].recv
  <2>1. now = q[m] /\ a = 0
    BY <1>1, <1>8, <1>10 DEF SetUp
  <2>2. Delivered(f.i, f.h, q, m)
    BY <1>2, <1>3, <1>5, <1>6, <1>10, <2>1 DEF Delivered, WireLen
  <2>3. Last(d.i) => Over(f.i, f.h, q)
    BY <1>3, <1>5, <1>8, <2>2, <1>1 DEF Over, Last, Received, Quiet
  <2> QED BY <1>5, <1>7, <2>2, <2>3 DEF f
<1>11. CASE q[m].recv
  <2>1. q[m].len \in {1, 2} /\ m = Len(q)
    BY <1>1, <1>11 DEF Fitting
  <2>2. Last(d.i)
    BY <1>1, <2>1 DEF DeviceOK, Indices, Last
  <2>3. CASE q[m].blk <= BLOCK_MAX
    <3>1. /\ now.len = WireLen(q[m])
          /\ a = IF BlockLen(q[m]) < MIN_LEN THEN BlockLen(q[m]) ELSE 0
      BY <1>1, <1>2, <1>8, <1>11, <2>3 DEF SetUp
    <3>2. BlockLen(q[m]) \in Nat /\ BlockLen(q[m]) # 0
      <4> DEFINE b == q[m].blk
                 l == q[m].len
      <4>1. BlockLen(q[m]) = l + b /\ b \in Nat /\ l \in {1, 2}
        BY <1>9, <2>1 DEF BlockLen
      <4> HIDE DEF b, l
      <4> QED BY <4>1
    <3>3. WireLen(q[m]) = MaxOf(MIN_LEN, BlockLen(q[m]))
      BY <1>11 DEF WireLen
    <3>4. f.i.msgs[m].len = BlockLen(q[m])
      BY <1>6, <3>1, <3>2, <3>3 DEF MaxOf, MIN_LEN
    <3>5. Delivered(f.i, f.h, q, m)
      <4>1. w = WireLen(q[m]) /\ d.h.moved[m] = w
        BY <1>2, <3>1
      <4>2. f.h.moved[m] = w /\ f.i.filled[m] = w
        BY <1>3, <1>5, <1>6, <4>1
      <4> QED BY <1>11, <2>3, <3>4, <4>1, <4>2 DEF Delivered
    <3> QED BY <1>3, <1>5, <1>7, <1>8, <2>2, <3>5, <1>1 DEF Over, Last, Received, Quiet, f
  <2>4. CASE ~ (q[m].blk <= BLOCK_MAX)
    <3>1. now.len = MIN_LEN /\ a = 0 /\ d.i.tx_pos = q[m].len /\ ~ d.i.smbus_block_read
      BY <1>1, <1>2, <1>8, <1>11, <2>4 DEF SetUp
    <3>2. f.i.msgs[m].len > f.i.tx_pos /\ ~ f.i.smbus_block_read
      BY <1>5, <1>6, <2>1, <3>1 DEF MIN_LEN
    <3> QED BY <1>3, <1>5, <1>7, <1>8, <2>2, <3>2, <1>1 DEF Over, Last, Received, Quiet, f
  <2> QED BY <2>3, <2>4
<1> QED BY <1>9, <1>10, <1>11
-----------------------------------------------------------------------------
(* The branches of xiic_process().                                          *)

\* The handler serves the interrupts of a transfer.
Serving ==
  /\ IInv /\ ProgressInv /\ Live
  /\ irq = "service" /\ (~ ErrorPending \/ ReadDoneEarly)

\* What the handler has to clear at the end.
Clears(v) == IF ReadDoneEarly /\ "RXFULL" \notin isr THEN v.clr \ {"RXFULL"} ELSE v.clr

\* The last message was delivered and the core is at rest.
Finished(i, h, q) == Last(i) /\ Delivered(i, h, q, i.tx_msg) /\ h.txf = <<>> /\ h.mode # "rx"

SameTransfer(i, j) ==
  j.dynamic = i.dynamic /\ j.broken = i.broken /\ (i.tx_msg # 0 => j.tx_msg # 0)

\* Only interrupts that the handler saw are cleared.
Seen(v) == v.d.h.iisr = hw.iisr /\ Clears(v) \subseteq isr

\* A transfer that was going on goes on.
Kept(v, q) ==
  Going(i2c, hw, q) =>
    \A g : Cleared(v.d.h, g, Clears(v)) =>
      IF v.more THEN FreshGoes(v.d.i, g) ELSE Going(v.d.i, g, q)

\* What the receive and the transmit branch may leave: the next message is to be
\* started, the last one has been read, or the current one goes on.
Served(v, q) ==
  /\ Seen(v) /\ ~ v.wake /\ SameTransfer(i2c, v.d.i) /\ Around(v.d.i, v.d.h, q) /\ Kept(v, q)
  /\ \/ /\ v.more /\ "BNB" \notin v.pend
        /\ \A g : Cleared(v.d.h, g, Clears(v)) => Fresh(v.d.i, g, q)
     \/ ~ v.more /\ Over(v.d.i, v.d.h, q)
     \/ /\ ~ v.more
        /\ "BNB" \in v.pend => v.out \/ Finished(v.d.i, v.d.h, q)
        /\ \A g : Cleared(v.d.h, g, Clears(v)) => Writing(v.d.i, g, q) \/ ReadingOn(v.d.i, g, q)

\* The handler's state when it begins.
LEMMA HandlerBegins ==
  ASSUME StateInv
  PROVE  /\ HandlerFields = DOMAIN Handler /\ Handler.d = Now /\ Handler.more = FALSE
         /\ Handler.wake = FALSE /\ Handler.code = "DONE" /\ Handler.out = FALSE
         /\ Handler.pend = (isr \cap ier) \cup (IF ReadDoneEarly THEN {"RXFULL"} ELSE {})
         /\ Handler.clr = IF ReadDoneEarly THEN {"TXERR"} ELSE {}
         /\ IsPair(Now) /\ Now.i = i2c /\ Now.h = hw /\ Working(Handler, req)
<1>1. /\ req \in Seq(Message) /\ DeviceOK(i2c, req) /\ CoreOK(hw) /\ Quiet(Now)
  BY DEF StateInv
<1>2. /\ HandlerFields = DOMAIN Handler /\ Handler.d = Now /\ Handler.more = FALSE
      /\ Handler.wake = FALSE /\ Handler.code = "DONE" /\ Handler.out = FALSE
      /\ Handler.pend = (isr \cap ier) \cup (IF ReadDoneEarly THEN {"RXFULL"} ELSE {})
      /\ Handler.clr = IF ReadDoneEarly THEN {"TXERR"} ELSE {}
  BY DEF HandlerFields, Handler, Pending
<1>3. IsPair(Now) /\ Now.i = i2c /\ Now.h = hw
  BY <1>1 DEF Now, D, IsPair, CoreOK, DeviceOK, Typed
<1>4. Handler.clr \in SUBSET Interrupts
  BY <1>2 DEF Interrupts
<1>5. Working(Handler, req)
  BY <1>1, <1>2, <1>3, <1>4 DEF Working
<1> QED BY <1>2, <1>3, <1>5

\* And what it works on.
LEMMA HandlerIs ==
  ASSUME Serving
  PROVE  /\ req \in Seq(Message) /\ DeviceOK(i2c, req) /\ CoreOK(hw) /\ Quiet(Now)
         /\ IsPair(Now) /\ Now.i = i2c /\ Now.h = hw /\ Working(Handler, req)
         /\ Handler.d = Now /\ ~ Handler.more /\ ~ Handler.wake /\ ~ Handler.out
         /\ Handler.code = "DONE"
         /\ Handler.pend = (isr \cap ier) \cup (IF ReadDoneEarly THEN {"RXFULL"} ELSE {})
         /\ Handler.clr = IF ReadDoneEarly THEN {"TXERR"} ELSE {}
         /\ isr \subseteq hw.iisr /\ ier = hw.iier /\ Unseen
         /\ i2c.tx_msg # 0 /\ i2c.tx_msg \in DOMAIN req
         /\ Fitting(req, i2c.dynamic) /\ Around(i2c, hw, req)
<1> USE DEF Serving, IInv
<1>1. /\ req \in Seq(Message) /\ DeviceOK(i2c, req) /\ CoreOK(hw) /\ Quiet(Now) /\ ier = hw.iier
  BY DEF StateInv, SnapshotInv
<1>2. /\ HandlerFields = DOMAIN Handler /\ Handler.d = Now /\ ~ Handler.more /\ ~ Handler.wake
      /\ Handler.code = "DONE" /\ ~ Handler.out
      /\ Handler.pend = (isr \cap ier) \cup (IF ReadDoneEarly THEN {"RXFULL"} ELSE {})
      /\ Handler.clr = IF ReadDoneEarly THEN {"TXERR"} ELSE {}
      /\ IsPair(Now) /\ Now.i = i2c /\ Now.h = hw /\ Working(Handler, req)
  BY HandlerBegins
<1>6. isr \subseteq hw.iisr /\ Unseen /\ Fitting(req, i2c.dynamic) /\ Around(i2c, hw, req)
  BY DEF ProgressInv, SeenInv, TransferInv
<1>7. i2c.tx_msg # 0 /\ i2c.tx_msg \in DOMAIN req
  BY <1>1 DEF Live, Busy, DeviceOK, Indices
<1> QED BY <1>1, <1>2, <1>6, <1>7

\* A message that is written goes on when an interrupt other than TX_ERROR is cleared.
LEMMA WritingCleared ==
  ASSUME NEW i, NEW h, NEW g, NEW c, NEW q, Writing(i, h, q), Cleared(h, g, c), "TXERR" \notin c
  PROVE  Writing(i, g, q)
<1>1. SameButIrqs(h, g) /\ g.iier = h.iier /\ g.iisr = h.iisr \ c
  BY DEF Cleared
<1> QED BY <1>1 DEF Writing, SameButIrqs, KeepsBus

\* And one that is read.
LEMMA ReadingCleared ==
  ASSUME NEW i, NEW h, NEW g, NEW c, NEW q, ReadingOn(i, h, q), Cleared(h, g, c), "TXERR" \notin c
  PROVE  ReadingOn(i, g, q)
<1>1. SameButIrqs(h, g) /\ g.iier = h.iier /\ g.iisr = h.iisr \ c
  BY DEF Cleared
<1>2. ToGo(i, g) = ToGo(i, h) /\ (KeepsBus(h) => KeepsBus(g))
  BY <1>1 DEF ToGo, SameButIrqs, KeepsBus
<1> DEFINE t == ToGo(i, h)
<1>3. ASSUME NEW s, NEW r, Window(h, s, r) PROVE Window(g, s, r)
  BY <1>1, <1>3 DEF Window, SameButIrqs
<1>4. Stage(i, h, t)
  BY DEF ReadingOn
<1> HIDE DEF t
<1>5. QueuedRead(i, h, t) => QueuedRead(i, g, t)
  BY <1>1, <1>3 DEF QueuedRead, SameButIrqs
<1>6. Refused(i, h) => Refused(i, g)
  BY <1>1 DEF Refused, SameButIrqs
<1>7. Receiving(i, h, t) => Receiving(i, g, t)
  BY <1>1, <1>3 DEF Receiving, SameButIrqs
<1>8. Received(i, h, t) => Received(i, g, t)
  BY <1>1 DEF Received, SameButIrqs
<1>9. Stage(i, g, t)
  BY <1>4, <1>5, <1>6, <1>7, <1>8 DEF Stage
<1> QED BY <1>1, <1>2, <1>9 DEF ReadingOn, SameButIrqs, t

\* The transfer goes on when the interrupts that end it are not among those cleared.
LEMMA GoingCleared ==
  ASSUME NEW i, NEW h, NEW g, NEW c, NEW q, Going(i, h, q), Cleared(h, g, c),
         c \cap {"ARB", "TXERR", "BNB"} = {}
  PROVE  Going(i, g, q)
<1>1. SameButIrqs(h, g) /\ g.iier = h.iier /\ g.iisr = h.iisr \ c
  BY DEF Cleared
<1>2. Armed(g)
  BY <1>1 DEF Going, Armed, SameButIrqs
<1>3. ToGo(i, g) = ToGo(i, h)
  BY <1>1 DEF ToGo, SameButIrqs
<1>4. ReadingGoes(i, h) => ReadingGoes(i, g)
  BY <1>1, <1>3 DEF ReadingGoes, SameButIrqs
<1>5. OverGoes(h) => OverGoes(g)
  BY <1>1 DEF OverGoes, SameButIrqs
<1>6. WritingGoes(i, h, q) => WritingGoes(i, g, q)
  BY <1>1 DEF WritingGoes, SameButIrqs
<1> QED BY <1>2, <1>4, <1>5, <1>6 DEF Going

\* Branches that are not taken.
LEMMA NotTaken ==
  ASSUME NEW v
  PROVE  /\ "RXFULL" \notin v.pend => OnRxFull(v) = v
         /\ v.out \/ v.pend \cap TxInterrupts = {} => OnTxEmpty(v) = v
         /\ v.out \/ "BNB" \notin v.pend => OnBusNotBusy(v) = v
<1>1. {"TXEMPTY", "TXHALF"} = TxInterrupts
  BY DEF TxInterrupts
<1>2. ASSUME v.out \/ v.pend \cap {"TXEMPTY", "TXHALF"} = {} PROVE OnTxEmpty(v) = v
  BY <1>2, Zenon DEF OnTxEmpty
<1>3. ASSUME v.out \/ "BNB" \notin v.pend PROVE OnBusNotBusy(v) = v
  BY <1>3, Zenon DEF OnBusNotBusy
<1>4. ASSUME "RXFULL" \notin v.pend PROVE OnRxFull(v) = v
  BY <1>4, Zenon DEF OnRxFull
<1> QED BY <1>1, <1>2, <1>3, <1>4

\* RX_FULL without a message to read: what is in the FIFO is dropped.
LEMMA RxDropped ==
  ASSUME StateInv, i2c.rx_msg = 0, "RXFULL" \in Handler.pend
  PROVE  LET v == OnRxFull(Handler) IN
         /\ v.out /\ ~ v.more /\ ~ v.wake /\ v.pend = Handler.pend /\ v.d.i = i2c
         /\ v.d.h.moved = hw.moved /\ v.d.h.txf = hw.txf /\ v.d.h.byte = hw.byte
         /\ v.d.h.mode = hw.mode /\ v.d.h.iier = hw.iier /\ v.d.h.iisr = hw.iisr
         /\ v.d.h.cr = hw.cr /\ v.d.h.cur = hw.cur /\ v.d.h.dyn = hw.dyn
         /\ hw.rxocc = 0 => Cleared(hw, v.d.h, {})
         /\ v.clr = {"RXFULL"}
<1> DEFINE v == OnRxFull(Handler)
<1>1. /\ IsPair(Now) /\ Now.i = i2c /\ Now.h = hw /\ CoreFields = DOMAIN hw
      /\ HandlerFields = DOMAIN Handler
      /\ Handler.d = Now /\ ~ Handler.more /\ ~ Handler.wake
      /\ Handler.clr = IF ReadDoneEarly THEN {"TXERR"} ELSE {}
  BY HandlerBegins DEF StateInv, CoreOK
<1>2. ~ ReadDoneEarly
  BY DEF ReadDoneEarly
<1>3. v = [Handler EXCEPT !.clr = @ \cup {"RXFULL"}, !.d.h.rxocc = 0, !.out = TRUE]
  BY <1>1, Zenon DEF OnRxFull
<1> DEFINE d == [Now EXCEPT !.h.rxocc = 0]
<1>4. /\ v.d = d /\ v.out = TRUE /\ v.more = Handler.more /\ v.wake = Handler.wake
      /\ v.pend = Handler.pend /\ v.clr = Handler.clr \cup {"RXFULL"}
  BY <1>1, <1>3 DEF HandlerFields, IsPair
<1>5. d.i = i2c /\ d.h = [hw EXCEPT !.rxocc = 0]
  BY <1>1 DEF IsPair
<1> HIDE DEF d, v
<1>6. /\ d.h.moved = hw.moved /\ d.h.txf = hw.txf /\ d.h.byte = hw.byte
      /\ d.h.mode = hw.mode /\ d.h.iier = hw.iier /\ d.h.iisr = hw.iisr
      /\ d.h.cr = hw.cr /\ d.h.cur = hw.cur /\ d.h.dyn = hw.dyn
      /\ hw.rxocc = 0 => Cleared(hw, d.h, {})
  BY <1>1, <1>5 DEF CoreFields, Cleared, SameButIrqs
<1> QED BY <1>1, <1>2, <1>4, <1>5, <1>6 DEF v

\* Nothing is left to do for a message that is over.
LEMMA ServedOver ==
  ASSUME Serving, Over(i2c, hw, req)
  PROVE  Served(OnTxEmpty(OnRxFull(Handler)), req)
<1> DEFINE v == OnRxFull(Handler)
<1>1. /\ Handler.d.i = i2c /\ Handler.d.h = hw /\ ~ Handler.more /\ ~ Handler.wake
      /\ Handler.pend = (isr \cap ier) \cup (IF ReadDoneEarly THEN {"RXFULL"} ELSE {})
      /\ Handler.clr = IF ReadDoneEarly THEN {"TXERR"} ELSE {}
      /\ ier = hw.iier /\ Around(i2c, hw, req)
  BY HandlerIs
<1>2. Handler.pend \cap TxInterrupts = {} /\ ~ ReadDoneEarly
  BY <1>1 DEF Over, TxInterrupts, ReadDoneEarly
<1>3. v.pend = Handler.pend /\ Served(v, req)
  <2>1. CASE "RXFULL" \notin Handler.pend
    <3>1. v = Handler
      BY <2>1, NotTaken
    <3> HIDE DEF v
    <3>2. Clears(v) = {} /\ v.d.h = hw /\ v.d.i = i2c /\ ~ v.more
      BY <1>1, <1>2, <3>1 DEF Clears
    <3>3. Kept(v, req)
      BY <3>2, GoingCleared DEF Kept
    <3> QED BY <1>1, <1>2, <3>1, <3>2, <3>3 DEF Served, SameTransfer, Seen
  <2>2. CASE "RXFULL" \in Handler.pend
    <3>1. /\ ~ v.more /\ ~ v.wake /\ v.pend = Handler.pend /\ v.d.i = i2c
          /\ v.d.h.moved = hw.moved /\ v.d.h.txf = hw.txf /\ v.d.h.byte = hw.byte
          /\ v.d.h.mode = hw.mode /\ v.d.h.iier = hw.iier /\ v.d.h.iisr = hw.iisr
          /\ v.d.h.cr = hw.cr /\ v.d.h.cur = hw.cur /\ v.d.h.dyn = hw.dyn
          /\ v.clr = {"RXFULL"}
      BY <2>2, RxDropped DEF Over, Serving, IInv
    <3> HIDE DEF v
    <3>2. Over(v.d.i, v.d.h, req)
      BY <3>1 DEF Over, Delivered
    <3>3. Around(v.d.i, v.d.h, req)
      BY <1>1, <3>1 DEF Around, Delivered
    <3>4. Seen(v)
      BY <1>1, <1>2, <2>2, <3>1 DEF Seen, Clears
    <3>5. ASSUME Going(i2c, hw, req), NEW g, Cleared(v.d.h, g, Clears(v))
          PROVE  Going(v.d.i, g, req)
      <4>1. Clears(v) = {"RXFULL"}
        BY <1>2, <3>1 DEF Clears
      <4>2. /\ g.iier = hw.iier /\ g.iisr = hw.iisr \ {"RXFULL"} /\ g.mode = hw.mode
            /\ g.cr = hw.cr /\ g.cur = hw.cur /\ g.dyn = hw.dyn
        BY <3>1, <3>5, <4>1 DEF Cleared, SameButIrqs
      <4>3. Armed(g) /\ OverGoes(g)
        BY <3>5, <4>2 DEF Going, Armed, OverGoes, Over
      <4> QED BY <3>1, <4>3 DEF Going, Over
    <3>6. Kept(v, req)
      BY <3>1, <3>5 DEF Kept
    <3> QED BY <3>1, <3>2, <3>3, <3>4, <3>6 DEF Served, SameTransfer
  <2> QED BY <2>1, <2>2
<1>4. OnTxEmpty(v) = v
  <2> HIDE DEF v
  <2> QED BY <1>2, <1>3, NotTaken
<1> QED BY <1>3, <1>4

\* Nothing of the message after one that was delivered has begun.
LEMMA NextFresh ==
  ASSUME NEW d, NEW q \in Seq(Message), IsPair(d), DeviceOK(d.i, q), d.i.tx_msg # 0, d.i.rx_msg = 0,
         ~ Last(d.i), d.i.nmsgs > 1, Around(d.i, d.h, q), Delivered(d.i, d.h, q, d.i.tx_msg),
         d.h.txf = <<>>, d.h.byte = "none", d.h.rxocc = 0, d.h.mode \in {"idle", "hold", "err"},
         KeepsBus(d.h), "BNB" \notin d.h.iisr,
         ~ d.i.dynamic => "NOACK" \notin d.h.cr /\ "TXHALF" \notin d.h.iier
  PROVE  LET e == NextMsg(d) IN
         /\ IsPair(e) /\ e.h = d.h /\ SameTransfer(d.i, e.i)
         /\ Around(e.i, e.h, q) /\ Fresh(e.i, e.h, q)
<1> DEFINE e == NextMsg(d)
           m == d.i.tx_msg
<1>1. /\ IsPair(e) /\ e.h = d.h
      /\ e.i = [d.i EXCEPT !.nmsgs = @ - 1, !.tx_msg = @ + 1]
  BY DEF NextMsg, IsPair, DeviceFields
<1> HIDE DEF e
<1>2. /\ e.i.tx_msg = m + 1 /\ e.i.rx_msg = 0 /\ e.i.broken = d.i.broken
      /\ e.i.msgs = d.i.msgs /\ e.i.filled = d.i.filled /\ e.i.dynamic = d.i.dynamic
  BY <1>1 DEF IsPair, DeviceFields
<1>3. m \in DOMAIN q /\ m + 1 \in DOMAIN q /\ m \in Nat
  <2>1. m \in 1 .. Len(q) /\ d.i.nmsgs = Len(q) - m + 1 /\ Len(q) \in Nat
    BY DEF DeviceOK, Indices
  <2>2. d.i.nmsgs # 1
    BY DEF Last
  <2> DEFINE n == d.i.nmsgs
             l == Len(q)
  <2>3. m \in 1 .. l /\ n = l - m + 1 /\ n > 1 /\ l \in Nat
    BY <2>1
  <2> HIDE DEF n, l, m
  <2>4. m + 1 \in 1 .. l /\ m \in Nat
    BY <2>3
  <2> QED BY <2>3, <2>4 DEF l
<1>4. Around(e.i, e.h, q)
  <2>1. ASSUME NEW k \in DOMAIN q, k < m + 1 PROVE Delivered(e.i, e.h, q, k)
    <3>1. k < m \/ k = m
      BY <1>3, <2>1
    <3>2. Delivered(d.i, d.h, q, k)
      BY <3>1 DEF Around
    <3> QED BY <1>1, <1>2, <3>2 DEF Delivered
  <2>2. ASSUME NEW k \in DOMAIN q, k > m + 1 PROVE d.h.moved[k] = 0 /\ e.i.msgs[k] = q[k]
    <3>1. k > m
      BY <1>3, <2>2
    <3> QED BY <1>2, <3>1 DEF Around
  <2> QED BY <1>1, <1>2, <2>1, <2>2 DEF Around
<1>5. d.h.moved[m + 1] = 0 /\ d.i.msgs[m + 1] = q[m + 1]
  <2>1. m + 1 > m
    BY <1>3
  <2> QED BY <1>3, <2>1 DEF Around
<1>6. Fresh(e.i, e.h, q)
  BY <1>1, <1>2, <1>5 DEF Fresh
<1>7. SameTransfer(d.i, e.i)
  BY <1>2, <1>3 DEF SameTransfer
<1> QED BY <1>1, <1>4, <1>6, <1>7 DEF e

\* Interrupts can always be cleared.
LEMMA CanClear ==
  ASSUME NEW d, IsPair(d), NEW c
  PROVE  \E g : Cleared(d.h, g, c)
<1> DEFINE g == [d.h EXCEPT !.iisr = @ \ c]
<1>1. Cleared(d.h, g, c)
  BY DEF Cleared, SameButIrqs, IsPair, CoreFields
<1> QED BY <1>1

\* The next message is still to begin when interrupts have been cleared.
LEMMA FreshCleared ==
  ASSUME NEW i, NEW h, NEW g, NEW c, NEW q, Fresh(i, h, q), Cleared(h, g, c)
  PROVE  Fresh(i, g, q)
BY DEF Fresh, Cleared, SameButIrqs, KeepsBus

\* More of a message goes into the TX FIFO.
LEMMA FillWrites ==
  ASSUME NEW d, NEW g, NEW c, NEW q \in Seq(Message), IsPair(d), CoreOK(d.h), DeviceOK(d.i, q),
         d.i.tx_msg # 0, Writing(d.i, d.h, q), Around(d.i, d.h, q), TxSpace(d) > 0,
         ~ Last(d.i) => "TXERR" \notin d.h.iisr /\ "TXEMPTY" \in c,
         c \cap {"ARB", "TXERR", "BNB"} = {}, Cleared(FillTxFifo(d).h, g, c)
  PROVE  LET e == FillTxFifo(d) IN
         /\ Writing(e.i, g, q) /\ SameTransfer(d.i, e.i) /\ Around(e.i, e.h, q)
         /\ e.h.iisr = d.h.iisr
         /\ Going(d.i, d.h, q) => Going(e.i, g, q)
<1> DEFINE e == FillTxFifo(d)
           m == d.i.tx_msg
           room == TxSpace(d)
           n == MinOf(TxSpace(d), TxFifoSpace(d))
           ends == Last(d.i) /\ n = room
<1>1. /\ m \in Nat /\ m \in DOMAIN q /\ q[m] \in Message /\ d.i.tx_pos \in Nat
      /\ DeviceFields = DOMAIN d.i /\ d.i.msgs[m] = q[m] /\ d.i.tx_pos <= q[m].len
      /\ d.h.moved[m] \in Nat
  BY DEF DeviceOK, Typed, Indices, Writing, Around
<1>2. /\ room \in Nat /\ room = q[m].len - d.i.tx_pos /\ d.i.tx_pos # q[m].len
      /\ q[m].len \in Nat
  <2> DEFINE l == q[m].len
             p == d.i.tx_pos
  <2>1. l \in Nat
    BY <1>1 DEF Message
  <2>2. room = l - p /\ p \in Nat /\ room > 0
    BY <1>1 DEF TxSpace
  <2> HIDE DEF l, p, room
  <2>3. room \in Nat /\ p # l
    BY <2>1, <2>2
  <2> QED BY <2>1, <2>2, <2>3 DEF l, p
<1>3. Outgoing(d.h.txf, m, d.i.nmsgs = 1 /\ TxSpace(d) = 0)
  BY <1>2 DEF Writing, Last, Outgoing
<1>4. /\ IsPair(e) /\ n \in Nat /\ n <= TxSpace(d)
      /\ e.i = [d.i EXCEPT !.tx_pos = @ + n] /\ e.i.tx_pos = d.i.tx_pos + n
      /\ Outgoing(e.h.txf, m, d.i.nmsgs = 1 /\ n = TxSpace(d))
      /\ DataIn(d.h.txf) \in Nat /\ DataIn(e.h.txf) = DataIn(d.h.txf) + n
      /\ e.h.iisr = d.h.iisr /\ e.h.iier = d.h.iier /\ e.h.cr = d.h.cr
      /\ e.h.rxocc = d.h.rxocc /\ e.h.mode = d.h.mode /\ e.h.cur = d.h.cur
      /\ e.h.byte = d.h.byte /\ e.h.dyn = d.h.dyn /\ e.h.moved = d.h.moved
  BY <1>1, <1>2, <1>3, FillSends
<1>E. /\ AddressIn(e.h.txf) <=> AddressIn(d.h.txf)
      /\ d.h.txf # <<>> => e.h.txf # <<>> /\ e.h.txf[1] = d.h.txf[1]
      /\ n = 0 => e.h.txf = d.h.txf
      /\ n # 0 => e.h.txf # <<>> /\ (e.h.txf[Len(e.h.txf)].stop <=> n = room /\ d.i.nmsgs = 1)
  BY <1>1, <1>2, FillEnds
<1> HIDE DEF e, n, room
<1>5. /\ e.i.tx_msg = m /\ e.i.rx_msg = d.i.rx_msg /\ e.i.nmsgs = d.i.nmsgs /\ e.i.dynamic = d.i.dynamic
      /\ e.i.broken = d.i.broken /\ e.i.msgs = d.i.msgs /\ e.i.filled = d.i.filled
  BY <1>1, <1>4 DEF DeviceFields
<1>6. /\ g.moved = d.h.moved /\ g.txf = e.h.txf /\ g.cr = d.h.cr /\ g.rxocc = d.h.rxocc
      /\ g.mode = d.h.mode /\ g.cur = d.h.cur /\ g.byte = d.h.byte /\ g.dyn = d.h.dyn
      /\ g.iier = d.h.iier /\ g.iisr = d.h.iisr \ c
  BY <1>4 DEF Cleared, SameButIrqs, e
<1>7. e.i.tx_pos <= q[m].len /\ (e.i.tx_pos = q[m].len <=> n = room)
  <2> DEFINE a == d.i.tx_pos
             b == q[m].len
  <2>1. e.i.tx_pos = a + n /\ room = b - a /\ a \in Nat /\ b \in Nat /\ n \in Nat /\ n <= room /\ room \in Nat
    BY <1>1, <1>2, <1>4 DEF room
  <2> HIDE DEF a, b
  <2>2. e.i.tx_pos <= b /\ (e.i.tx_pos = b <=> n = room)
    BY <2>1
  <2> QED BY <2>2 DEF b
<1>8. (Last(e.i) /\ e.i.tx_pos = q[m].len) <=> (d.i.nmsgs = 1 /\ n = TxSpace(d))
  BY <1>5, <1>7 DEF Last, room
<1>9. Outgoing(g.txf, m, Last(e.i) /\ e.i.tx_pos = q[m].len)
  BY <1>4, <1>6, <1>8 DEF Outgoing
<1>10. ASSUME "TXERR" \notin g.iisr
       PROVE  /\ g.moved[m] + DataIn(g.txf) = e.i.tx_pos
              /\ g.mode # "stop" /\ "BNB" \notin g.iisr
  <2>1. d.h.moved[m] + DataIn(d.h.txf) = d.i.tx_pos /\ d.h.mode # "stop" /\ "BNB" \notin d.h.iisr
    BY <1>2, <1>6, <1>10 DEF Writing
  <2>2. DataIn(g.txf) = DataIn(d.h.txf) + n /\ g.moved[m] = d.h.moved[m]
    BY <1>4, <1>6
  <2> DEFINE x == d.h.moved[m]
             y == DataIn(d.h.txf)
             z == d.i.tx_pos
  <2>3. x \in Nat /\ y \in Nat /\ x + y = z /\ e.i.tx_pos = z + n /\ g.moved[m] = x /\ DataIn(g.txf) = y + n
    BY <1>1, <1>4, <2>1, <2>2
  <2> HIDE DEF x, y, z
  <2>4. g.moved[m] + DataIn(g.txf) = e.i.tx_pos
    BY <1>4, <2>3
  <2> QED BY <1>6, <2>1, <2>4
<1>11. d.i.dynamic => Last(e.i)
  BY <1>2, <1>5 DEF Writing, Last
<1>12. ~ Last(e.i) => "TXERR" \notin g.iisr /\ "TXEMPTY" \notin g.iisr
  BY <1>5, <1>6 DEF Last
<1>13. /\ d.i.rx_msg = 0 /\ ~ q[m].rd /\ "TXERR" \in d.h.iier /\ d.h.byte = "none" /\ d.h.rxocc = 0
       /\ d.h.mode \in {"idle", "hold", "stop", "err"} /\ KeepsBus(d.h)
       /\ ~ d.i.dynamic => "NOACK" \notin d.h.cr /\ "TXHALF" \notin d.h.iier
  BY DEF Writing
<1>14. KeepsBus(g)
  BY <1>6, <1>13 DEF KeepsBus
<1>15. Writing(e.i, g, q)
  BY <1>1, <1>5, <1>6, <1>7, <1>9, <1>10, <1>11, <1>12, <1>13, <1>14 DEF Writing
<1>16. Around(e.i, e.h, q)
  BY <1>4, <1>5 DEF Around, Delivered
<1>17. ASSUME WritingGoes(d.i, d.h, q) PROVE WritingGoes(e.i, g, q)
  <2>1. n # 0 \/ n # room
    BY <1>2 DEF room
  <2>2. (Last(e.i) /\ e.i.tx_pos = q[m].len) <=> (d.i.nmsgs = 1 /\ n = room)
    BY <1>8 DEF room
  <2>3. AddressIn(g.txf) => g.txf[1] = d.h.txf[1] /\ AddressIn(d.h.txf)
    BY <1>6, <1>E DEF AddressIn
  <2>4. ~ AddressIn(g.txf) => ~ AddressIn(d.h.txf)
    BY <1>6, <1>E
  <2>5. Last(e.i) /\ e.i.tx_pos = q[m].len => g.txf # <<>> /\ g.txf[Len(g.txf)].stop
    <3>1. d.i.nmsgs = 1 /\ n = room => n # 0
      BY <2>1
    <3> QED BY <1>6, <1>E, <2>2, <3>1
  <2>6. /\ {"TXEMPTY", "BNB"} \subseteq g.iier
        /\ ~ e.i.dynamic => "MSMS" \in g.cr
        /\ AddressIn(g.txf) =>
             g.txf[1].dyn = e.i.dynamic /\ (~ e.i.dynamic /\ g.mode = "hold" => "RSTA" \in g.cr)
    BY <1>5, <1>6, <1>17, <2>3 DEF WritingGoes
  <2>7. "TXERR" \notin g.iisr /\ g.mode # "err" /\ ~ AddressIn(g.txf) =>
          g.mode \in {"hold", "stop"} \/ "BNB" \in g.iisr
    BY <1>6, <1>17, <2>4 DEF WritingGoes
  <2> QED BY <1>5, <2>5, <2>6, <2>7 DEF WritingGoes
<1>18. Going(d.i, d.h, q) => Going(e.i, g, q)
  <2>1. Armed(d.h) => Armed(g)
    BY <1>6 DEF Armed
  <2> QED BY <1>5, <1>13, <1>17, <2>1 DEF Going
<1> QED BY <1>4, <1>5, <1>15, <1>16, <1>18 DEF e, SameTransfer

\* The receive and the transmit branch for a message that is written.
LEMMA ServedWriting ==
  ASSUME Serving, Writing(i2c, hw, req)
  PROVE  Served(OnTxEmpty(OnRxFull(Handler)), req)
<1> DEFINE m == i2c.tx_msg
           v == OnRxFull(Handler)
           w == OnTxEmpty(v)
           bits == Handler.pend \cap TxInterrupts
<1>1. /\ Handler.d = Now /\ Now.i = i2c /\ Now.h = hw /\ ~ Handler.more /\ ~ Handler.wake /\ ~ Handler.out
      /\ Handler.pend = (isr \cap ier) \cup (IF ReadDoneEarly THEN {"RXFULL"} ELSE {})
      /\ Handler.clr = IF ReadDoneEarly THEN {"TXERR"} ELSE {}
      /\ ier = hw.iier /\ isr \subseteq hw.iisr /\ Unseen
      /\ Around(i2c, hw, req) /\ Fitting(req, i2c.dynamic)
      /\ req \in Seq(Message) /\ DeviceOK(i2c, req) /\ CoreOK(hw) /\ IsPair(Now)
      /\ m \in DOMAIN req /\ m # 0 /\ HandlerFields = DOMAIN Handler
  BY HandlerIs DEF Working
<1>2. ~ ReadDoneEarly /\ i2c.rx_msg = 0 /\ Handler.clr = {} /\ Handler.pend = isr \cap ier
  BY <1>1 DEF Writing, ReadDoneEarly
<1>5. /\ TxSpace(Now) = req[m].len - i2c.tx_pos /\ req[m].len \in Nat /\ i2c.tx_pos \in Nat
      /\ hw.moved[m] \in Nat
  <2>1. req[m] \in Message /\ i2c.msgs[m] = req[m]
    BY <1>1 DEF Writing
  <2>2. req[m].len \in Nat
    BY <2>1 DEF Message
  <2>3. hw.moved[m] \in Nat
    BY <1>1 DEF Around
  <2>4. i2c.tx_pos \in Nat
    BY <1>1 DEF DeviceOK, Typed
  <2> QED BY <1>1, <2>1, <2>2, <2>3, <2>4 DEF TxSpace
<1>3. CASE "RXFULL" \in Handler.pend
  <2>1. /\ v.out /\ ~ v.more /\ ~ v.wake /\ v.d.i = i2c /\ v.d.h.moved = hw.moved
        /\ Cleared(hw, v.d.h, {}) /\ v.clr = {"RXFULL"}
    BY <1>2, <1>3, RxDropped DEF Writing, Serving, IInv
  <2> HIDE DEF v
  <2>C. Clears(v) = {"RXFULL"}
    BY <1>2, <2>1 DEF Clears
  <2>2. ASSUME NEW g, Cleared(v.d.h, g, Clears(v)) PROVE Writing(i2c, g, req)
    <3>1. Cleared(hw, g, {"RXFULL"})
      BY <2>C, <2>1, <2>2 DEF Cleared, SameButIrqs
    <3> QED BY <3>1, WritingCleared
  <2>G. ASSUME Going(i2c, hw, req), NEW g, Cleared(v.d.h, g, Clears(v)) PROVE Going(i2c, g, req)
    <3>1. Cleared(hw, g, {"RXFULL"})
      BY <2>C, <2>1, <2>G DEF Cleared, SameButIrqs
    <3> QED BY <2>G, <3>1, GoingCleared
  <2>3. Around(v.d.i, v.d.h, req)
    BY <1>1, <2>1 DEF Around, Delivered
  <2>4. Seen(v)
    BY <1>2, <1>3, <2>1 DEF Seen, Clears, Cleared
  <2>5. Served(v, req)
    BY <2>1, <2>2, <2>3, <2>4, <2>G DEF Served, SameTransfer, Kept
  <2> QED BY <2>1, <2>5, NotTaken DEF v
<1>4. CASE "RXFULL" \notin Handler.pend
  <2>1. v = Handler
    BY <1>4, NotTaken
  <2>2. "TXERR" \notin isr
    BY <1>1, <1>2, <1>4 DEF Serving, ErrorPending, Pending, Writing
  <2>3. "BNB" \in Handler.pend => "TXERR" \notin hw.iisr /\ "BNB" \in hw.iisr
    BY <1>1, <1>2, <2>2 DEF Unseen, Serving, Writing
  <2>4. "BNB" \in Handler.pend => Finished(i2c, hw, req) /\ i2c.tx_pos = req[m].len
    <3> SUFFICES ASSUME "BNB" \in Handler.pend
                 PROVE  Finished(i2c, hw, req) /\ i2c.tx_pos = req[m].len
      OBVIOUS
    <3>1. /\ Last(i2c) /\ i2c.tx_pos = req[m].len /\ hw.txf = <<>> /\ hw.mode = "idle"
          /\ hw.moved[m] + DataIn(hw.txf) = i2c.tx_pos /\ ~ req[m].rd /\ i2c.msgs[m] = req[m]
      BY <2>3 DEF Writing
    <3>2. DataIn(hw.txf) = 0
      BY <3>1 DEF DataIn
    <3>3. ~ req[m].recv
      BY <1>1, <3>1 DEF Fitting
    <3>4. hw.moved[m] \in Nat
      BY <1>1 DEF Around
    <3> QED BY <3>1, <3>2, <3>3, <3>4 DEF Finished, Delivered, WireLen
  <2> HIDE DEF v
  <2>5. CASE bits = {}
    <3>1. w = Handler
      BY <2>1, <2>5, NotTaken
    <3> HIDE DEF w
    <3>2. ASSUME NEW g, Cleared(w.d.h, g, Clears(w))
          PROVE  Writing(i2c, g, req) /\ (Going(i2c, hw, req) => Going(i2c, g, req))
      <4>1. Cleared(hw, g, {})
        BY <1>1, <1>2, <3>1, <3>2 DEF Clears
      <4> QED BY <4>1, WritingCleared, GoingCleared
    <3>3. /\ ~ w.more /\ ~ w.wake /\ w.d.i = i2c /\ w.d.h = hw /\ w.pend = Handler.pend
      BY <1>1, <3>1
    <3>4. Seen(w)
      BY <1>1, <1>2, <3>1 DEF Seen, Clears
    <3>5. Served(w, req)
      BY <1>1, <2>4, <3>2, <3>3, <3>4 DEF Served, SameTransfer, Kept
    <3> QED BY <3>5 DEF w, v
  <2>6. CASE bits # {}
    <3> DEFINE w0 == [Handler EXCEPT !.clr = @ \cup bits]
    <3>1. w = IF TxSpace(Now) > 0 THEN [w0 EXCEPT !.d = FillTxFifo(Now)]
              ELSE IF i2c.nmsgs > 1 /\ "TXEMPTY" \in bits
                THEN [w0 EXCEPT !.d = NextMsg(Now), !.more = TRUE]
              ELSE [w0 EXCEPT !.d = IrqDis(Now, {"TXHALF"})]
      <4> DEFINE x == Handler
                 xbits == x.pend \cap {"TXEMPTY", "TXHALF"}
                 x0 == [x EXCEPT !.clr = @ \cup xbits]
      <4>1. xbits = bits
        BY DEF TxInterrupts
      <4>2. OnTxEmpty(x) =
              IF x.out \/ xbits = {} THEN x
              ELSE IF x.d.i.tx_msg = 0 THEN [x0 EXCEPT !.out = TRUE]
              ELSE IF TxSpace(x.d) > 0 THEN [x0 EXCEPT !.d = FillTxFifo(x.d)]
              ELSE IF x.d.i.nmsgs > 1 /\ "TXEMPTY" \in xbits
                THEN [x0 EXCEPT !.d = NextMsg(x.d), !.more = TRUE]
              ELSE [x0 EXCEPT !.d = IrqDis(x.d, {"TXHALF"})]
        BY Zenon DEF OnTxEmpty
      <4>3. ~ (x.out \/ xbits = {}) /\ x.d.i.tx_msg # 0 /\ x0 = w0 /\ x.d = Now /\ x.d.i.nmsgs = i2c.nmsgs
        BY <1>1, <2>6, <4>1
      <4>4. w = OnTxEmpty(x)
        BY <2>1
      <4> HIDE DEF x0, xbits, w0, w, bits
      <4> QED BY <4>1, <4>2, <4>3, <4>4
    <3>2. /\ HandlerFields = DOMAIN w0 /\ w0.d = Now /\ w0.clr = bits /\ ~ w0.more /\ ~ w0.wake
          /\ w0.pend = Handler.pend /\ ~ w0.out
      BY <1>1, <1>2 DEF HandlerFields
    <3>3. bits \cap {"ARB", "TXERR", "BNB"} = {} /\ bits \subseteq isr \cap ier
      BY <1>2 DEF TxInterrupts
    <3>4. ~ Last(i2c) => i2c.nmsgs # 1
      BY DEF Last
    <3> HIDE DEF w0, w, bits
    <3>5. CASE TxSpace(Now) > 0
      <4>1. w = [w0 EXCEPT !.d = FillTxFifo(Now)]
        BY <3>1, <3>5
      <4>2. w.d = FillTxFifo(Now) /\ w.clr = bits /\ ~ w.more /\ ~ w.wake /\ w.pend = Handler.pend
        BY <3>2, <4>1 DEF HandlerFields
      <4>3. "BNB" \notin Handler.pend
        <5>1. i2c.tx_pos # req[m].len
          BY <1>5, <3>5
        <5> QED BY <2>4, <5>1
      <4>4. ~ Last(i2c) => "TXERR" \notin hw.iisr /\ "TXEMPTY" \in bits
        <5> SUFFICES ASSUME ~ Last(i2c) PROVE "TXERR" \notin hw.iisr /\ "TXEMPTY" \in bits
          OBVIOUS
        <5>1. i2c.tx_pos # req[m].len
          BY <1>5, <3>5
        <5>2. "TXHALF" \notin ier
          BY <1>1, <5>1 DEF Writing
        <5>3. "TXEMPTY" \in bits
          BY <2>6, <3>3, <5>2 DEF bits, TxInterrupts
        <5> QED BY <1>1, <1>2, <2>2, <3>3, <5>3 DEF Unseen, Serving, Writing
      <4>5. ASSUME NEW g, Cleared(w.d.h, g, bits)
            PROVE  /\ Writing(w.d.i, g, req) /\ SameTransfer(i2c, w.d.i) /\ Around(w.d.i, w.d.h, req)
                   /\ w.d.h.iisr = hw.iisr
                   /\ Going(i2c, hw, req) => Going(w.d.i, g, req)
        <5>1. /\ IsPair(Now) /\ CoreOK(Now.h) /\ DeviceOK(Now.i, req) /\ Now.i.tx_msg # 0
              /\ Writing(Now.i, Now.h, req) /\ Around(Now.i, Now.h, req)
              /\ ~ Last(Now.i) => "TXERR" \notin Now.h.iisr /\ "TXEMPTY" \in bits
              /\ Cleared(FillTxFifo(Now).h, g, bits)
          BY <1>1, <4>2, <4>4, <4>5
        <5>2. LET e == FillTxFifo(Now) IN
              /\ Writing(e.i, g, req) /\ SameTransfer(Now.i, e.i) /\ Around(e.i, e.h, req)
              /\ e.h.iisr = Now.h.iisr
              /\ Going(Now.i, Now.h, req) => Going(e.i, g, req)
          BY <1>1, <3>3, <3>5, <5>1, FillWrites
        <5> QED BY <1>1, <4>2, <5>2
      <4>6. Clears(w) = bits
        BY <1>2, <4>2 DEF Clears
      <4>7. \E g : Cleared(w.d.h, g, bits)
        <5>1. IsPair(FillTxFifo(Now))
          BY <1>1, FillIs
        <5> QED BY <4>2, <5>1, CanClear
      <4>8. Served(w, req)
        BY <3>3, <4>2, <4>3, <4>5, <4>6, <4>7 DEF Served, Seen, Kept
      <4> QED BY <4>8 DEF w, v
    <3>6. CASE ~ (TxSpace(Now) > 0) /\ i2c.nmsgs > 1 /\ "TXEMPTY" \in bits
      <4>1. w = [w0 EXCEPT !.d = NextMsg(Now), !.more = TRUE]
        BY <3>1, <3>6
      <4>2. w.d = NextMsg(Now) /\ w.clr = bits /\ w.more /\ ~ w.wake /\ w.pend = Handler.pend
        BY <3>2, <4>1 DEF HandlerFields
      <4>3. ~ Last(i2c)
        BY <3>6 DEF Last
      <4>4. "TXERR" \notin hw.iisr /\ hw.txf = <<>>
        BY <1>1, <1>2, <2>2, <3>3, <3>6, <4>3 DEF Unseen, Serving, Writing
      <4>5. /\ hw.moved[m] + DataIn(hw.txf) = i2c.tx_pos /\ hw.mode # "stop" /\ "BNB" \notin hw.iisr
            /\ ~ req[m].rd /\ i2c.msgs[m] = req[m] /\ i2c.tx_pos <= req[m].len
        BY <4>3, <4>4 DEF Writing
      <4>6. Delivered(i2c, hw, req, m)
        <5>1. DataIn(hw.txf) = 0 /\ hw.moved[m] \in Nat /\ req[m].len \in Nat /\ i2c.tx_pos \in Nat
          BY <1>5, <4>4 DEF DataIn
        <5>2. ~ req[m].recv
          BY <1>1, <4>5 DEF Fitting
        <5>3. TxSpace(Now) = req[m].len - i2c.tx_pos
          BY <1>5
        <5> DEFINE a == req[m].len
                   b == i2c.tx_pos
        <5>4. a \in Nat /\ b \in Nat /\ b <= a /\ ~ (a - b > 0)
          BY <3>6, <4>5, <5>1, <5>3
        <5> HIDE DEF a, b
        <5>5. a = b
          BY <5>4
        <5>6. hw.moved[m] = req[m].len
          BY <4>5, <5>1, <5>5 DEF a, b
        <5> QED BY <4>5, <5>2, <5>6 DEF Delivered, WireLen
      <4>7. /\ hw.byte = "none" /\ hw.rxocc = 0 /\ hw.mode \in {"idle", "hold", "err"} /\ KeepsBus(hw)
            /\ ~ i2c.dynamic => "NOACK" \notin hw.cr /\ "TXHALF" \notin hw.iier
        BY <4>5 DEF Writing
      <4>8. LET e == NextMsg(Now) IN
            /\ IsPair(e) /\ e.h = Now.h /\ SameTransfer(Now.i, e.i)
            /\ Around(e.i, e.h, req) /\ Fresh(e.i, e.h, req)
        BY <1>1, <1>2, <3>6, <4>3, <4>4, <4>5, <4>6, <4>7, NextFresh
      <4>9. "BNB" \notin w.pend
        BY <2>3, <4>2, <4>5
      <4>10. Seen(w)
        BY <1>1, <1>2, <3>3, <4>2, <4>8 DEF Seen, Clears
      <4>12. Kept(w, req)
        <5> SUFFICES ASSUME Going(i2c, hw, req), NEW g, Cleared(w.d.h, g, bits)
                     PROVE  FreshGoes(w.d.i, g)
          BY <1>2, <4>2 DEF Kept, Clears
        <5>1. w.d.h = hw /\ w.d.i.dynamic = i2c.dynamic
          BY <1>1, <4>2, <4>8 DEF SameTransfer
        <5>2. Cleared(hw, g, bits)
          BY <5>1
        <5>3. Going(i2c, g, req)
          BY <3>3, <5>2, GoingCleared
        <5> QED BY <1>2, <4>5, <5>1, <5>3 DEF Going, WritingGoes, FreshGoes
      <4>11. Served(w, req)
        BY <1>1, <4>2, <4>8, <4>9, <4>10, <4>12, FreshCleared DEF Served
      <4> QED BY <4>11 DEF w, v
    <3>7. CASE ~ (TxSpace(Now) > 0) /\ ~ (i2c.nmsgs > 1 /\ "TXEMPTY" \in bits)
      <4> DEFINE e == IrqDis(Now, {"TXHALF"})
      <4>1. w = [w0 EXCEPT !.d = e]
        BY <3>1, <3>7
      <4>2. w.d = e /\ w.clr = bits /\ ~ w.more /\ ~ w.wake /\ w.pend = Handler.pend
        BY <3>2, <4>1 DEF HandlerFields
      <4>3. /\ IsPair(e) /\ e.i = i2c /\ SameButIrqs(hw, e.h) /\ e.h.iisr = hw.iisr
            /\ e.h.iier = hw.iier \ {"TXHALF"}
        BY <1>1, IrqDisFields
      <4> HIDE DEF e
      <4>4. Writing(i2c, e.h, req)
        BY <4>3 DEF Writing, SameButIrqs, KeepsBus
      <4>5. Around(i2c, e.h, req) /\ (Finished(i2c, hw, req) => Finished(i2c, e.h, req))
        BY <1>1, <4>3 DEF Around, Delivered, SameButIrqs, Finished
      <4>6. Clears(w) = bits
        BY <1>2, <4>2 DEF Clears
      <4>9. Going(i2c, hw, req) => Going(i2c, e.h, req)
        BY <1>2, <4>3 DEF Going, Armed, WritingGoes, OverGoes, SameButIrqs
      <4>7. ASSUME NEW g, Cleared(w.d.h, g, Clears(w))
            PROVE  Writing(w.d.i, g, req) /\ (Going(i2c, hw, req) => Going(w.d.i, g, req))
        BY <3>3, <4>2, <4>3, <4>4, <4>6, <4>7, <4>9, WritingCleared, GoingCleared
      <4>8. Served(w, req)
        BY <2>4, <3>3, <4>2, <4>3, <4>5, <4>6, <4>7 DEF Served, SameTransfer, Seen, Kept
      <4> QED BY <4>8 DEF w, v
    <3> QED BY <3>5, <3>6, <3>7
  <2> QED BY <2>5, <2>6
<1> QED BY <1>3, <1>4

\* The receive branch for a message that is read.
LEMMA ServedReading ==
  ASSUME Serving, ReadingOn(i2c, hw, req)
  PROVE  Served(OnTxEmpty(OnRxFull(Handler)), req)
<1> DEFINE m == i2c.tx_msg
           v == OnRxFull(Handler)
           e == ReadRx(Now)
           f == [TrimLen(e) EXCEPT !.i.rx_msg = 0]
           t == ToGo(i2c, hw)
<1>1. /\ Handler.d = Now /\ Now.i = i2c /\ Now.h = hw /\ ~ Handler.more /\ ~ Handler.wake /\ ~ Handler.out
      /\ Handler.pend = (isr \cap ier) \cup (IF ReadDoneEarly THEN {"RXFULL"} ELSE {})
      /\ Handler.clr = IF ReadDoneEarly THEN {"TXERR"} ELSE {}
      /\ ier = hw.iier /\ isr \subseteq hw.iisr /\ Unseen
      /\ Around(i2c, hw, req) /\ Fitting(req, i2c.dynamic)
      /\ req \in Seq(Message) /\ DeviceOK(i2c, req) /\ CoreOK(hw) /\ IsPair(Now) /\ Quiet(Now)
      /\ m \in DOMAIN req /\ m # 0 /\ HandlerFields = DOMAIN Handler
  BY HandlerIs DEF Working
<1>2. i2c.rx_msg = m /\ "TXERR" \in ier /\ Handler.pend \cap TxInterrupts = {}
  <2>1. i2c.rx_msg # 0 /\ i2c.rx_msg = m
    BY <1>1 DEF ReadingOn, DeviceOK, Indices
  <2> QED BY <1>1, <2>1 DEF Quiet, TxInterrupts, ReadingOn
<1>3. ReadDoneEarly => "TXERR" \in isr /\ "TXERR" \in hw.iisr /\ hw.rxocc > 0
  BY <1>1 DEF ReadDoneEarly, ErrorPending, Pending
<1>4. ASSUME v.pend = Handler.pend, Served(v, req) PROVE Served(OnTxEmpty(v), req)
  <2> HIDE DEF v
  <2>1. OnTxEmpty(v) = v
    BY <1>2, <1>4, NotTaken
  <2> QED BY <1>4, <2>1
<1>5. CASE "RXFULL" \notin Handler.pend
  <2>1. v = Handler
    BY <1>5, NotTaken
  <2>2. ~ ReadDoneEarly /\ Handler.pend = isr \cap ier /\ Handler.clr = {}
    BY <1>1, <1>5
  <2>3. "TXERR" \notin isr
    BY <1>2, <1>5, <2>2 DEF Serving, ErrorPending, Pending
  <2>4. "BNB" \notin Handler.pend
    BY <1>1, <1>2, <2>2, <2>3 DEF Unseen, Serving
  <2> HIDE DEF v
  <2>5. ASSUME NEW g, Cleared(v.d.h, g, Clears(v))
        PROVE  ReadingOn(v.d.i, g, req) /\ (Going(i2c, hw, req) => Going(v.d.i, g, req))
    <3>1. Cleared(hw, g, {})
      BY <1>1, <2>1, <2>2, <2>5 DEF Clears
    <3> QED BY <1>1, <2>1, <3>1, ReadingCleared, GoingCleared
  <2>6. /\ ~ v.more /\ ~ v.wake /\ v.d.i = i2c /\ v.d.h = hw /\ v.pend = Handler.pend
    BY <1>1, <2>1
  <2>7. Seen(v)
    BY <1>1, <2>1, <2>2 DEF Seen, Clears
  <2>8. Served(v, req)
    BY <1>1, <2>4, <2>5, <2>6, <2>7 DEF Served, SameTransfer, Kept
  <2> QED BY <1>4, <2>6, <2>8 DEF v
<1>6. CASE "RXFULL" \in Handler.pend
  <2>1. "RXFULL" \in hw.iisr \/ ("TXERR" \in hw.iisr /\ hw.rxocc > 0)
    BY <1>1, <1>3, <1>6
  <2>2. /\ OnlyReads(Now, e, req)
        /\ \/ /\ RxSpace(e) # 0 /\ Receiving(i2c, hw, t) /\ "RXFULL" \in hw.iisr
              /\ "MSMS" \in hw.cr => "MSMS" \in e.h.cr
              /\ \A g : Cleared(e.h, g, {"RXFULL"}) => ReadingOn(e.i, g, req)
           \/ RxSpace(e) = 0 /\ Received(i2c, hw, t) /\ ReadAll(Now, e)
    <3>1. /\ IsPair(Now) /\ CoreOK(Now.h) /\ DeviceOK(Now.i, req) /\ Fitting(req, Now.i.dynamic)
          /\ ReadingOn(Now.i, Now.h, req)
          /\ "RXFULL" \in Now.h.iisr \/ ("TXERR" \in Now.h.iisr /\ Now.h.rxocc > 0)
      BY <1>1, <2>1
    <3>2. LET x == ReadRx(Now) IN
          /\ OnlyReads(Now, x, req)
          /\ \/ /\ RxSpace(x) # 0 /\ Receiving(Now.i, Now.h, ToGo(Now.i, Now.h)) /\ "RXFULL" \in Now.h.iisr
                /\ "MSMS" \in Now.h.cr => "MSMS" \in x.h.cr
                /\ \A g : Cleared(x.h, g, {"RXFULL"}) => ReadingOn(x.i, g, req)
             \/ RxSpace(x) = 0 /\ Received(Now.i, Now.h, ToGo(Now.i, Now.h)) /\ ReadAll(Now, x)
      BY <1>1, <3>1, ReadRxProgress
    <3> HIDE DEF e
    <3> QED BY <1>1, <3>2 DEF e
  <2>3. v = IF RxSpace(e) # 0
              THEN [Handler EXCEPT !.d = e, !.clr = @ \cup {"RXFULL"}]
            ELSE [Handler EXCEPT !.d = IF e.i.nmsgs > 1 THEN NextMsg(f) ELSE f,
                                 !.clr = @ \cup {"RXFULL"} \cup (isr \cap {"TXERR"}),
                                 !.more = @ \/ e.i.nmsgs > 1]
    <3> DEFINE x == Handler
               xe == ReadRx(x.d)
               xf == [TrimLen(xe) EXCEPT !.i.rx_msg = 0]
    <3>1. OnRxFull(x) =
            IF "RXFULL" \notin x.pend THEN x
            ELSE IF x.d.i.rx_msg = 0
              THEN [x EXCEPT !.clr = @ \cup {"RXFULL"}, !.d.h.rxocc = 0, !.out = TRUE]
            ELSE IF RxSpace(xe) # 0
              THEN [x EXCEPT !.d = xe, !.clr = @ \cup {"RXFULL"}]
            ELSE [x EXCEPT !.d = IF xe.i.nmsgs > 1 THEN NextMsg(xf) ELSE xf,
                           !.clr = @ \cup {"RXFULL"} \cup (isr \cap {"TXERR"}),
                           !.more = @ \/ xe.i.nmsgs > 1]
      BY Zenon DEF OnRxFull
    <3>2. x.d = Now /\ x.d.i.rx_msg # 0 /\ ~ ("RXFULL" \notin x.pend)
      BY <1>1, <1>2, <1>6
    <3> QED BY <3>1, <3>2, Zenon
  <2>4. /\ IsPair(e) /\ SameMessage(i2c, e.i) /\ e.h.moved = hw.moved /\ e.h.iisr = hw.iisr
        /\ \A k \in DOMAIN req : k # m => e.i.filled[k] = i2c.filled[k] /\ e.i.msgs[k] = i2c.msgs[k]
    BY <1>1, <1>2, <2>2 DEF OnlyReads
  <2>5. CASE RxSpace(e) # 0
    <3>1. Receiving(i2c, hw, t) /\ \A g : Cleared(e.h, g, {"RXFULL"}) => ReadingOn(e.i, g, req)
      BY <2>2, <2>5
    <3>2. "TXERR" \notin hw.iisr /\ "BNB" \notin hw.iisr
      BY <3>1 DEF Receiving
    <3>3. ~ ReadDoneEarly /\ Handler.clr = {} /\ "BNB" \notin Handler.pend
      BY <1>1, <1>3, <3>2
    <3>4. v = [Handler EXCEPT !.d = e, !.clr = @ \cup {"RXFULL"}]
      BY <2>3, <2>5
    <3> HIDE DEF v, e
    <3>5. /\ v.d = e /\ v.clr = {"RXFULL"} /\ ~ v.more /\ ~ v.wake /\ v.pend = Handler.pend
      BY <1>1, <3>3, <3>4 DEF HandlerFields
    <3>6. Clears(v) = {"RXFULL"}
      BY <3>3, <3>5 DEF Clears
    <3>7. Around(e.i, e.h, req)
      <4>1. e.i.tx_msg = m
        BY <2>4 DEF SameMessage
      <4>2. m \in Nat /\ DOMAIN req \subseteq Nat
        BY <1>1
      <4>3. ASSUME NEW k \in DOMAIN req, k < m PROVE Delivered(e.i, e.h, req, k)
        <5>1. k # m /\ Delivered(i2c, hw, req, k)
          BY <1>1, <4>2, <4>3 DEF Around
        <5> QED BY <2>4, <5>1 DEF Delivered
      <4>4. ASSUME NEW k \in DOMAIN req, k > m PROVE e.h.moved[k] = 0 /\ e.i.msgs[k] = req[k]
        <5>1. k # m /\ hw.moved[k] = 0 /\ i2c.msgs[k] = req[k]
          BY <1>1, <4>2, <4>4 DEF Around
        <5> QED BY <2>4, <5>1
      <4>5. e.h.moved \in [DOMAIN req -> Nat]
        BY <1>1, <2>4 DEF Around
      <4> QED BY <4>1, <4>3, <4>4, <4>5 DEF Around
    <3>8. Seen(v)
      BY <1>1, <1>6, <2>4, <3>3, <3>5, <3>6 DEF Seen
    <3>10. ASSUME Going(i2c, hw, req), NEW g, Cleared(e.h, g, {"RXFULL"}) PROVE Going(e.i, g, req)
      <4>1. /\ ReadingOn(Now.i, Now.h, req) /\ Receiving(Now.i, Now.h, ToGo(Now.i, Now.h))
            /\ OnlyReads(Now, e, req) /\ ("MSMS" \in Now.h.cr => "MSMS" \in e.h.cr)
            /\ ReadingOn(e.i, g, req) /\ Going(Now.i, Now.h, req)
        BY <1>1, <2>2, <2>5, <3>1, <3>10
      <4> HIDE DEF t
      <4> QED BY <3>10, <4>1, ReadGoes
    <3>11. Kept(v, req)
      BY <3>5, <3>6, <3>10 DEF Kept
    <3>9. Served(v, req)
      BY <2>4, <3>1, <3>3, <3>5, <3>6, <3>7, <3>8, <3>11 DEF Served, SameTransfer, SameMessage
    <3> QED BY <1>4, <3>5, <3>9 DEF v
  <2>6. CASE RxSpace(e) = 0
    <3>1. Received(i2c, hw, t) /\ ReadAll(Now, e)
      BY <2>2, <2>6
    <3>2. /\ IsPair(f) /\ f.h = e.h /\ f.i.rx_msg = 0 /\ f.i.tx_msg = m /\ f.i.nmsgs = i2c.nmsgs
          /\ f.i.dynamic = i2c.dynamic /\ f.i.broken = i2c.broken
          /\ Around(f.i, f.h, req)
          /\ Last(i2c) => Over(f.i, f.h, req)
          /\ ~ Last(i2c) => Delivered(f.i, f.h, req, m)
      <4>1. /\ IsPair(Now) /\ CoreOK(Now.h) /\ DeviceOK(Now.i, req) /\ Fitting(req, Now.i.dynamic)
            /\ ReadingOn(Now.i, Now.h, req) /\ Around(Now.i, Now.h, req) /\ Quiet(Now)
            /\ Received(Now.i, Now.h, ToGo(Now.i, Now.h)) /\ ReadAll(Now, e)
        BY <1>1, <3>1
      <4> HIDE DEF e
      <4>2. LET x == [TrimLen(e) EXCEPT !.i.rx_msg = 0]
                k == Now.i.tx_msg
            IN /\ IsPair(x) /\ x.h = e.h /\ x.i.rx_msg = 0 /\ x.i.tx_msg = k /\ x.i.nmsgs = Now.i.nmsgs
               /\ x.i.dynamic = Now.i.dynamic /\ x.i.broken = Now.i.broken
               /\ Around(x.i, x.h, req)
               /\ Last(Now.i) => Over(x.i, x.h, req)
               /\ ~ Last(Now.i) => Delivered(x.i, x.h, req, k)
        <5>1. req \in Seq(Message) /\ RxSpace(e) = 0
          BY <1>1, <2>6
        <5> HIDE DEF f, t
        <5> QED BY <4>1, <5>1, ReadEnd, Zenon
      <4> HIDE DEF f
      <4> QED BY <1>1, <4>2 DEF f
    <3>3. DeviceOK(f.i, req)
      <4>1. Keeps(Now, e, req)
        BY <1>1, <1>2, ReadRxKeeps
      <4>2. e.i.rx_msg # 0
        BY <1>1, <1>2, <2>4 DEF SameMessage
      <4> HIDE DEF e
      <4> QED BY <1>1, <4>1, <4>2, ReadEnds DEF Keeps
    <3>4. /\ f.h.txf = <<>> /\ f.h.byte = "none" /\ f.h.rxocc = 0 /\ f.h.mode = hw.mode
          /\ f.h.iisr = hw.iisr /\ f.h.iier = hw.iier
          /\ ~ i2c.dynamic => "NOACK" \notin f.h.cr
          /\ ~ Last(i2c) => KeepsBus(f.h)
          /\ ~ i2c.dynamic => ("MSMS" \in f.h.cr <=> "MSMS" \in hw.cr /\ ~ Last(i2c))
          /\ f.h.cur = hw.cur /\ f.h.dyn = hw.dyn
      <4>1. /\ e.h.rxocc = hw.rxocc - hw.rxocc /\ hw.rxocc \in Nat
            /\ e.h.txf = hw.txf /\ e.h.byte = hw.byte /\ e.h.mode = hw.mode
            /\ e.h.iisr = hw.iisr /\ e.h.iier = hw.iier
            /\ ~ i2c.dynamic => "NOACK" \notin e.h.cr
            /\ ~ Last(i2c) => KeepsBus(e.h)
            /\ ~ i2c.dynamic => ("MSMS" \in e.h.cr <=> "MSMS" \in hw.cr /\ ~ Last(i2c))
            /\ e.h.cur = hw.cur /\ e.h.dyn = hw.dyn
        BY <1>1, <3>1 DEF ReadAll, Fetched, CoreOK
      <4>2. e.h.rxocc = 0
        BY <4>1
      <4> HIDE DEF e, f
      <4> QED BY <3>1, <3>2, <4>1, <4>2 DEF Received
    <3>5. /\ hw.mode \in {"idle", "hold", "stop", "err"}
          /\ hw.mode = "stop" \/ "BNB" \in hw.iisr => Last(i2c)
      BY <3>1 DEF Received
    <3>6. e.i.nmsgs = i2c.nmsgs /\ (e.i.nmsgs > 1 <=> ~ Last(i2c))
      <4>1. e.i.nmsgs = i2c.nmsgs
        BY <2>4 DEF SameMessage
      <4>2. m \in 1 .. Len(req) /\ i2c.nmsgs = Len(req) - m + 1 /\ Len(req) \in Nat
        BY <1>1 DEF DeviceOK, Indices
      <4> DEFINE l == Len(req)
                 n == i2c.nmsgs
      <4>3. m \in 1 .. l /\ n = l - m + 1 /\ l \in Nat
        BY <4>2
      <4> HIDE DEF l, m, n
      <4>4. n > 1 <=> ~ (n = 1)
        BY <4>3
      <4> QED BY <4>1, <4>4 DEF Last, n
    <3> DEFINE more == e.i.nmsgs > 1
               d == IF more THEN NextMsg(f) ELSE f
               clr == Handler.clr \cup {"RXFULL"} \cup (isr \cap {"TXERR"})
    <3>7. v = [Handler EXCEPT !.d = d, !.clr = clr, !.more = @ \/ more]
      BY <2>3, <2>6
    <3> HIDE DEF v, f, e, d, clr, more
    <3>8. v.d = d /\ v.clr = clr /\ (v.more <=> more) /\ ~ v.wake /\ v.pend = Handler.pend
      BY <1>1, <3>7 DEF HandlerFields
    <3>B. "BNB" \notin Clears(v)
      BY <1>1, <3>8 DEF Clears, clr
    <3>C. Clears(v) \subseteq isr
      <4>1. v.clr = Handler.clr \cup {"RXFULL"} \cup (isr \cap {"TXERR"})
        BY <3>8 DEF clr
      <4>2. Handler.clr \subseteq isr /\ (~ ReadDoneEarly => "RXFULL" \in isr)
        BY <1>1, <1>3, <1>6
      <4> QED BY <4>1, <4>2 DEF Clears
    <3>A. Going(i2c, hw, req) => "ARB" \notin Clears(v)
      <4>1. Going(i2c, hw, req) => "ARB" \in ier
        BY <1>1 DEF Going, Armed
      <4>2. "ARB" \notin isr \cap ier
        BY DEF Serving, ErrorPending, Pending, ReadDoneEarly
      <4> QED BY <3>C, <4>1, <4>2
    <3>9. CASE ~ Last(i2c)
      <4>1. more /\ v.more /\ v.d = NextMsg(f)
        BY <3>6, <3>8, <3>9 DEF d, more
      <4>2. "BNB" \notin hw.iisr /\ "BNB" \notin Handler.pend
        BY <1>1, <3>5, <3>9
      <4>3. ~ i2c.dynamic => "NOACK" \notin f.h.cr /\ "TXHALF" \notin f.h.iier
        BY <1>1, <1>2, <3>4 DEF Quiet, TxInterrupts
      <4>4. ~ Last(f.i) /\ f.i.nmsgs > 1
        BY <3>2, <3>6, <3>9 DEF Last
      <4>5. LET x == NextMsg(f) IN
            /\ IsPair(x) /\ x.h = f.h /\ SameTransfer(f.i, x.i)
            /\ Around(x.i, x.h, req) /\ Fresh(x.i, x.h, req)
        BY <1>1, <3>2, <3>3, <3>4, <3>5, <3>9, <4>2, <4>3, <4>4, NextFresh
      <4>7. Kept(v, req)
        <5> SUFFICES ASSUME Going(i2c, hw, req), NEW g, Cleared(v.d.h, g, Clears(v))
                     PROVE  FreshGoes(v.d.i, g)
          BY <4>1 DEF Kept
        <5>1. v.d.h = f.h /\ v.d.i.dynamic = i2c.dynamic
          BY <3>2, <4>1, <4>5 DEF SameTransfer
        <5>2. Armed(g)
          BY <3>4, <3>A, <5>1 DEF Going, Armed, Cleared, SameButIrqs
        <5>3. ~ i2c.dynamic => "MSMS" \in hw.cr
          BY <1>2, <1>1 DEF Going, ReadingGoes
        <5>4. ~ i2c.dynamic => "MSMS" \in g.cr
          BY <3>4, <3>9, <5>1, <5>3 DEF Cleared, SameButIrqs
        <5> QED BY <5>1, <5>2, <5>4 DEF FreshGoes
      <4>6. Served(v, req)
        BY <3>2, <3>4, <3>8, <3>C, <4>1, <4>2, <4>5, <4>7, FreshCleared DEF Served, SameTransfer, Seen
      <4> QED BY <1>4, <3>8, <4>6 DEF v
    <3>10. CASE Last(i2c)
      <4>1. ~ v.more /\ v.d = f
        BY <3>6, <3>8, <3>10 DEF d, more
      <4>3. Kept(v, req)
        <5> SUFFICES ASSUME Going(i2c, hw, req), NEW g, Cleared(v.d.h, g, Clears(v))
                     PROVE  Going(f.i, g, req)
          BY <4>1 DEF Kept
        <5>1. Armed(g)
          BY <3>4, <3>A, <4>1 DEF Going, Armed, Cleared, SameButIrqs
        <5>2. t = 0 /\ ReadingGoes(i2c, hw) /\ req[m].rd
          BY <1>1, <1>2, <3>1 DEF Going, Received, ReadingOn
        <5>3. /\ "BNB" \in hw.iier
              /\ hw.mode # "err" =>
                   IF i2c.dynamic THEN hw.mode = "stop" \/ "BNB" \in hw.iisr
                   ELSE hw.mode = "hold" /\ hw.cur # 0 /\ ~ hw.dyn
          BY <3>10, <5>2 DEF ReadingGoes, t
        <5>4. /\ g.iier = hw.iier /\ g.mode = hw.mode /\ g.cur = hw.cur /\ g.dyn = hw.dyn
              /\ g.cr = f.h.cr /\ ("BNB" \in hw.iisr => "BNB" \in g.iisr)
          BY <3>4, <4>1, <3>B DEF Cleared, SameButIrqs
        <5>5. ~ i2c.dynamic => "MSMS" \notin g.cr
          BY <3>4, <3>10, <5>4
        <5>6. OverGoes(g)
          BY <5>3, <5>4, <5>5 DEF OverGoes
        <5> QED BY <3>2, <5>1, <5>2, <5>6 DEF Going
      <4>2. Served(v, req)
        BY <3>2, <3>4, <3>8, <3>10, <3>C, <4>1, <4>3 DEF Served, SameTransfer, Seen
      <4> QED BY <1>4, <3>8, <4>2 DEF v
    <3> QED BY <3>9, <3>10
  <2> QED BY <2>5, <2>6
<1> QED BY <1>5, <1>6

\* What the handler leaves: the next message to be started, a transfer that goes on, or
\* one that has ended, and then a success only with every message delivered.
Outcome(v, g, q) ==
  /\ SameTransfer(i2c, v.d.i) /\ Around(v.d.i, g, q)
  /\ \/ v.more /\ ~ v.wake /\ Fresh(v.d.i, g, q)
     \/ ~ v.more /\ ~ v.wake /\ (Writing(v.d.i, g, q) \/ ReadingOn(v.d.i, g, q) \/ Over(v.d.i, g, q))
     \/ /\ ~ v.more /\ v.wake
        /\ v.code = "DONE" => /\ \A k \in DOMAIN q : Delivered(v.d.i, g, q, k)
                              /\ g.txf = <<>> /\ g.mode # "rx"
  /\ Going(i2c, hw, q) =>
       IF v.more THEN FreshGoes(v.d.i, g) ELSE v.wake \/ Going(v.d.i, g, q)

\* When the last message has been delivered, all have.
LEMMA AllDelivered ==
  ASSUME NEW i, NEW h, NEW q \in Seq(Message), DeviceOK(i, q), i.tx_msg # 0, Last(i),
         Around(i, h, q), Delivered(i, h, q, i.tx_msg)
  PROVE  \A k \in DOMAIN q : Delivered(i, h, q, k)
<1> DEFINE m == i.tx_msg
<1>1. m \in 1 .. Len(q) /\ i.nmsgs = Len(q) - m + 1 /\ i.nmsgs = 1 /\ Len(q) \in Nat
  <2>1. m \in DOMAIN q /\ i.nmsgs = Len(q) - m + 1
    BY DEF DeviceOK, Indices
  <2> QED BY <2>1 DEF Last
<1>2. m = Len(q)
  <2> DEFINE l == Len(q)
  <2>1. m \in 1 .. l /\ 1 = l - m + 1 /\ l \in Nat
    BY <1>1
  <2> HIDE DEF l, m
  <2>2. m = l
    BY <2>1
  <2> QED BY <2>2 DEF l
<1> SUFFICES ASSUME NEW k \in DOMAIN q PROVE Delivered(i, h, q, k)
  OBVIOUS
<1>3. k < m \/ k = m
  BY <1>1, <1>2
<1> QED BY <1>3 DEF Around

\* A cleared interrupt does not matter to what has been delivered.
LEMMA AroundCleared ==
  ASSUME NEW i, NEW h, NEW g, NEW c, NEW q, Cleared(h, g, c)
  PROVE  /\ Around(i, h, q) => Around(i, g, q)
         /\ Over(i, h, q) => Over(i, g, q)
         /\ \A k : Delivered(i, h, q, k) => Delivered(i, g, q, k)
<1>1. SameButIrqs(h, g) /\ g.iier = h.iier
  BY DEF Cleared
<1> QED BY <1>1 DEF SameButIrqs, Around, Over, Delivered

\* xiic_process() takes the bus for not busy only when the transfer has ended.
LEMMA BusNotBusyEnds ==
  ASSUME Serving, NEW v, Working(v, req), Served(v, req), v.pend = Handler.pend,
         NEW g, Cleared(OnBusNotBusy(v).d.h, g, Clears(OnBusNotBusy(v)))
  PROVE  Outcome(OnBusNotBusy(v), g, req) /\ Seen(OnBusNotBusy(v))
<1> DEFINE w == OnBusNotBusy(v)
<1>0. req \in Seq(Message) /\ v.d.i.tx_msg # 0
  BY HandlerIs DEF Served, SameTransfer
<1>1. CASE v.out \/ "BNB" \notin v.pend
  <2>1. w = v
    BY <1>1, NotTaken
  <2>2. Cleared(v.d.h, g, Clears(v))
    BY <2>1
  <2> HIDE DEF w
  <2>3. Around(v.d.i, g, req) /\ (Over(v.d.i, v.d.h, req) => Over(v.d.i, g, req))
    BY <2>2, AroundCleared DEF Served
  <2>4. Outcome(v, g, req)
    BY <2>2, <2>3 DEF Served, Outcome, Kept
  <2>5. Seen(v)
    BY DEF Served
  <2> QED BY <2>1, <2>4, <2>5 DEF w
<1>2. CASE ~ v.out /\ "BNB" \in v.pend
  <2> DEFINE i == v.d.i
             d1 == IrqDis(v.d, {"BNB"})
             d2 == IF i.tx_msg # 0 /\ i.smbus_block_read
                     THEN [d1 EXCEPT !.i.smbus_block_read = FALSE,
                                     !.i.tx_pos = i.msgs[i.tx_msg].len]
                     ELSE d1
             done == i.nmsgs = 1 /\ i.rx_msg = 0 /\ TxSpace(d2) = 0
             w0 == [v EXCEPT !.d = d2, !.clr = @ \cup {"BNB"}]
  <2>1. w = [w0 EXCEPT !.wake = TRUE, !.code = IF done THEN "DONE" ELSE "ERROR"]
    <3>1. w = IF v.out \/ "BNB" \notin v.pend THEN v
              ELSE IF i.tx_msg = 0 THEN w0
              ELSE [w0 EXCEPT !.wake = TRUE, !.code = IF done THEN "DONE" ELSE "ERROR"]
      BY Zenon DEF OnBusNotBusy
    <3> QED BY <1>0, <1>2, <3>1, Zenon
  <2>2. IsPair(v.d) /\ DeviceOK(i, req) /\ HandlerFields = DOMAIN v
    BY DEF Working
  <2>3. /\ IsPair(d1) /\ d1.i = i /\ SameButIrqs(v.d.h, d1.h) /\ d1.h.iisr = v.d.h.iisr
    BY <2>2, IrqDisFields
  <2> HIDE DEF d1
  <2>4. /\ d2.h = d1.h /\ d2.i.msgs = i.msgs /\ d2.i.filled = i.filled /\ d2.i.tx_msg = i.tx_msg
        /\ d2.i.nmsgs = i.nmsgs /\ d2.i.dynamic = i.dynamic /\ d2.i.broken = i.broken
        /\ ~ i.smbus_block_read => d2.i.tx_pos = i.tx_pos
    BY <2>3 DEF IsPair, DeviceFields
  <2>5. done => i.nmsgs = 1 /\ i.msgs[i.tx_msg].len - d2.i.tx_pos = 0
    BY <2>4 DEF TxSpace
  <2> HIDE DEF d2, done, w
  <2>6. /\ HandlerFields = DOMAIN w0 /\ w0.d = d2 /\ (w0.more <=> v.more)
        /\ w0.clr = v.clr \cup {"BNB"}
    BY <2>2 DEF HandlerFields
  <2> HIDE DEF w0
  <2>7. /\ w.d = d2 /\ w.wake /\ (w.code = "DONE" => done) /\ (w.more <=> v.more)
        /\ w.clr = v.clr \cup {"BNB"}
    BY <2>1, <2>6 DEF HandlerFields
  <2>8. ~ v.more /\ (Over(i, v.d.h, req) \/ Finished(i, v.d.h, req))
    BY <1>2 DEF Served
  <2>9. Around(i, v.d.h, req) /\ SameTransfer(i2c, i)
    BY DEF Served
  <2>10. SameButIrqs(v.d.h, g)
    BY <2>3, <2>4, <2>7 DEF Cleared, SameButIrqs, w
  <2>11. Around(w.d.i, g, req) /\ SameTransfer(i2c, w.d.i)
    BY <1>0, <2>4, <2>7, <2>9, <2>10 DEF Around, Delivered, SameButIrqs, SameTransfer
  <2>12. ASSUME done
         PROVE  /\ \A k \in DOMAIN req : Delivered(w.d.i, g, req, k)
                /\ g.txf = <<>> /\ g.mode # "rx"
    <3>1. Last(i) /\ Delivered(i, v.d.h, req, i.tx_msg) /\ v.d.h.txf = <<>> /\ v.d.h.mode # "rx"
      <4>1. CASE Finished(i, v.d.h, req)
        BY <4>1 DEF Finished
      <4>2. CASE Over(i, v.d.h, req)
        <5>1. ~ (i.msgs[i.tx_msg].len > i.tx_pos /\ ~ i.smbus_block_read)
          <6> DEFINE a == i.msgs[i.tx_msg].len
                     b == i.tx_pos
          <6>1. a \in Nat /\ b \in Nat
            <7>1. i.msgs[i.tx_msg] \in Message /\ i.tx_pos \in Nat
              BY <1>0, <2>2 DEF DeviceOK, Typed, Indices
            <7> QED BY <7>1 DEF Message
          <6>2. ~ i.smbus_block_read => a - b = 0
            BY <2>4, <2>5, <2>12
          <6> HIDE DEF a, b
          <6>3. ~ (a > b /\ ~ i.smbus_block_read)
            BY <6>1, <6>2
          <6> QED BY <6>3 DEF a, b
        <5> QED BY <4>2, <5>1 DEF Over
      <4> QED BY <2>8, <4>1, <4>2
    <3>2. \A k \in DOMAIN req : Delivered(i, v.d.h, req, k)
      BY <1>0, <2>2, <2>9, <3>1, AllDelivered
    <3>3. /\ g.txf = v.d.h.txf /\ g.mode = v.d.h.mode /\ g.moved = v.d.h.moved
          /\ w.d.i.filled = i.filled /\ w.d.i.msgs = i.msgs
      BY <2>4, <2>7, <2>10 DEF SameButIrqs
    <3> HIDE DEF i
    <3> QED BY <3>1, <3>2, <3>3 DEF Delivered, i
  <2>13. Seen(w)
    <3>1. v.d.h.iisr = hw.iisr /\ Clears(v) \subseteq isr
      BY DEF Served, Seen
    <3>2. "BNB" \in isr
      BY <1>2, HandlerIs
    <3> QED BY <2>3, <2>4, <2>7, <3>1, <3>2 DEF Seen, Clears
  <2> QED BY <2>7, <2>8, <2>11, <2>12, <2>13 DEF Outcome, w
<1> QED BY <1>1, <1>2

\* The handler, up to the restart of the next message, has one of these outcomes.
LEMMA HandledEnds ==
  ASSUME Serving, NEW g, Cleared(Handled.d.h, g, Clears(Handled))
  PROVE  Outcome(Handled, g, req) /\ Seen(Handled)
<1> DEFINE v1 == OnRxFull(Handler)
           v2 == OnTxEmpty(v1)
<1>1. /\ req \in Seq(Message) /\ Working(Handler, req) /\ Handler.more = FALSE
      /\ Handler.d.i = i2c /\ Handler.d.h = hw
      /\ Handler.pend = (isr \cap ier) \cup (IF ReadDoneEarly THEN {"RXFULL"} ELSE {})
      /\ ier = hw.iier /\ Quiet(Now) /\ Now.i = i2c /\ Now.h = hw
  BY HandlerIs
<1>2. Served(v2, req)
  <2>1. Writing(i2c, hw, req) \/ ReadingOn(i2c, hw, req) \/ Over(i2c, hw, req)
    BY DEF Serving, ProgressInv, TransferInv
  <2> QED BY <2>1, ServedWriting, ServedReading, ServedOver
<1>3. Serves(Handler, v1, req) /\ (i2c.rx_msg = 0 => v1.d.i = i2c /\ v1.more = FALSE)
  <2>1. /\ Serves(Handler, v1, req)
        /\ Handler.d.i.rx_msg = 0 => v1.d.i = Handler.d.i /\ v1.more = FALSE
    BY <1>1, OnRxFullKeeps, Zenon
  <2> QED BY <1>1, <2>1
<1> HIDE DEF v1
<1>4. v1.pend \cap TxInterrupts # {} => v1.d.i.rx_msg = 0 /\ v1.more = FALSE
  <2>1. hw.iier \cap TxInterrupts # {} => i2c.rx_msg = 0
    BY <1>1 DEF Quiet
  <2>2. v1.pend \cap TxInterrupts \subseteq hw.iier
    BY <1>1, <1>3 DEF Serves, TxInterrupts
  <2> QED BY <1>3, <2>1, <2>2
<1>5. Working(v2, req) /\ v2.pend = Handler.pend
  <2>1. Serves(v1, v2, req)
    BY <1>1, <1>3, <1>4, OnTxEmptyKeeps, Zenon DEF Serves
  <2> QED BY <1>3, <2>1 DEF Serves
<1>6. Handled = OnBusNotBusy(v2)
  BY Zenon DEF Handled, v1
<1> HIDE DEF v2
<1> QED BY <1>2, <1>5, <1>6, BusNotBusyEnds DEF v1

\* A late interrupt touches nothing that a finished transfer has left.
LEMMA HandledIdle ==
  ASSUME StateInv, ~ Busy
  PROVE  /\ Handled.d.h.moved = hw.moved /\ Handled.d.h.txf = hw.txf
         /\ Handled.d.h.mode = hw.mode
<1> DEFINE v1 == OnRxFull(Handler)
           v2 == OnTxEmpty(v1)
           v3 == OnBusNotBusy(v2)
           Same(v) == /\ v.d.h.moved = hw.moved /\ v.d.h.txf = hw.txf /\ v.d.h.mode = hw.mode
                      /\ v.d.i.tx_msg = 0 /\ IsPair(v.d) /\ HandlerFields = DOMAIN v
<1>1. /\ req \in Seq(Message) /\ i2c.tx_msg = 0 /\ i2c.rx_msg = 0 /\ Handler.d = Now
      /\ Now.i = i2c /\ Now.h = hw /\ Working(Handler, req) /\ Handler.more = FALSE
  BY HandlerBegins DEF StateInv, Busy
<1>2. Same(v1)
  <2>1. Serves(Handler, v1, req) /\ (Handler.d.i.rx_msg = 0 => v1.d.i = Handler.d.i)
    BY <1>1, OnRxFullKeeps, Zenon
  <2>2. IsPair(v1.d) /\ HandlerFields = DOMAIN v1 /\ v1.d.i.tx_msg = 0
    BY <1>1, <2>1 DEF Serves, Working
  <2>3. v1.d.h.moved = hw.moved /\ v1.d.h.txf = hw.txf /\ v1.d.h.mode = hw.mode
    <3>1. CASE "RXFULL" \notin Handler.pend
      <4>1. v1 = Handler
        BY <3>1, NotTaken
      <4> HIDE DEF v1
      <4> QED BY <1>1, <4>1
    <3>2. CASE "RXFULL" \in Handler.pend
      BY <1>1, <3>2, RxDropped
    <3> QED BY <3>1, <3>2
  <2> QED BY <2>2, <2>3
<1> HIDE DEF v1
<1>3. Same(v2)
  <2> DEFINE bits == v1.pend \cap {"TXEMPTY", "TXHALF"}
             w == [v1 EXCEPT !.clr = @ \cup bits]
  <2>1. v2 = v1 \/ v2 = [w EXCEPT !.out = TRUE]
    <3>1. v2 = IF v1.out \/ bits = {} THEN v1
               ELSE IF v1.d.i.tx_msg = 0 THEN [w EXCEPT !.out = TRUE]
               ELSE IF TxSpace(v1.d) > 0 THEN [w EXCEPT !.d = FillTxFifo(v1.d)]
               ELSE IF v1.d.i.nmsgs > 1 /\ "TXEMPTY" \in bits
                 THEN [w EXCEPT !.d = NextMsg(v1.d), !.more = TRUE]
               ELSE [w EXCEPT !.d = IrqDis(v1.d, {"TXHALF"})]
      BY Zenon DEF OnTxEmpty
    <3> QED BY <1>2, <3>1, Zenon
  <2>2. HandlerFields = DOMAIN w /\ w.d = v1.d
    BY <1>2 DEF HandlerFields
  <2> HIDE DEF w, v2
  <2>3. HandlerFields = DOMAIN v2 /\ v2.d = v1.d
    BY <1>2, <2>1, <2>2 DEF HandlerFields
  <2> QED BY <1>2, <2>3
<1> HIDE DEF v2
<1>4. v3.d.h.moved = hw.moved /\ v3.d.h.txf = hw.txf /\ v3.d.h.mode = hw.mode
  <2>1. CASE v2.out \/ "BNB" \notin v2.pend
    <3>1. v3 = v2
      BY <2>1, NotTaken
    <3> QED BY <1>3, <3>1
  <2>2. CASE ~ (v2.out \/ "BNB" \notin v2.pend)
    <3> DEFINE i == v2.d.i
               d1 == IrqDis(v2.d, {"BNB"})
               d2 == IF i.tx_msg # 0 /\ i.smbus_block_read
                       THEN [d1 EXCEPT !.i.smbus_block_read = FALSE,
                                       !.i.tx_pos = i.msgs[i.tx_msg].len]
                       ELSE d1
               done == i.nmsgs = 1 /\ i.rx_msg = 0 /\ TxSpace(d2) = 0
               w == [v2 EXCEPT !.d = d2, !.clr = @ \cup {"BNB"}]
    <3>1. v3 = w
      <4>1. v3 = IF v2.out \/ "BNB" \notin v2.pend THEN v2
                 ELSE IF i.tx_msg = 0 THEN w
                 ELSE [w EXCEPT !.wake = TRUE, !.code = IF done THEN "DONE" ELSE "ERROR"]
        BY Zenon DEF OnBusNotBusy
      <4> QED BY <1>3, <2>2, <4>1, Zenon
    <3>2. SameButIrqs(v2.d.h, d1.h)
      BY <1>3, IrqDisFields
    <3>3. d2 = d1
      BY <1>3
    <3> HIDE DEF d1, d2, v3
    <3>4. v3.d = d1
      BY <1>3, <3>1, <3>3 DEF HandlerFields
    <3> QED BY <1>3, <3>2, <3>4 DEF SameButIrqs
  <2> QED BY <2>1, <2>2
<1>5. Handled = v3
  BY Zenon DEF Handled, v1, v2
<1> HIDE DEF v3
<1> QED BY <1>4, <1>5

\* The end of the handler: what was served is cleared, the next message started, the
\* caller woken up.
LEMMA EventsProgress ==
  ASSUME IInv, ProgressInv, IrqEvents
  PROVE  ProgressInv' /\ (GoingInv => GoingInv')
<1> DEFINE v == Handled
           d1 == [v.d EXCEPT !.h.iisr = Toggle(@, Clears(v))]
           d2 == IF v.more THEN StartMsg(d1) ELSE d1
<1>1. /\ irq = "service" /\ (~ ErrorPending \/ ReadDoneEarly)
      /\ i2c' = IF v.wake THEN Wakeup(d2.i, v.code) ELSE d2.i
      /\ hw' = d2.h /\ irq' = "idle" /\ UNCHANGED <<load, caller, ret, req>>
  BY Zenon DEF IrqEvents, Leave, Clears
<1>2. /\ req \in Seq(Message) /\ Working(v, req) /\ v.d.i.completion = i2c.completion
      /\ ~ Busy => v.d.i = i2c /\ v.more = FALSE /\ v.wake = FALSE
      /\ DeviceFields = DOMAIN i2c
  <2>1. req \in Seq(Message) /\ DeviceOK(i2c, req) /\ CoreOK(hw) /\ Quiet(Now) /\ ier = hw.iier
    BY <1>1 DEF IInv, StateInv, SnapshotInv
  <2> QED BY <2>1, HandledKeeps DEF DeviceOK, Typed
<1>3. ~ Busy => v.d.h.moved = hw.moved /\ v.d.h.txf = hw.txf /\ v.d.h.mode = hw.mode
  BY HandledIdle DEF IInv
<1>4. ASSUME Serving, NEW g, Cleared(v.d.h, g, Clears(v)) PROVE Outcome(v, g, req) /\ Seen(v)
  BY <1>4, HandledEnds
<1> HIDE DEF v
<1>5. IsPair(d1) /\ d1.i = v.d.i /\ d1.h = [v.d.h EXCEPT !.iisr = Toggle(@, Clears(v))]
  BY <1>2 DEF Working, IsPair, CoreFields
<1> HIDE DEF d1
<1>6. /\ SameButIrqs(v.d.h, d1.h) /\ d1.h.iier = v.d.h.iier
      /\ d1.h.iisr = Toggle(v.d.h.iisr, Clears(v)) /\ CoreFields = DOMAIN d1.h
  BY <1>2, <1>5 DEF Working, IsPair, CoreFields, SameButIrqs
<1>7. CASE Busy
  <2>1. Serving /\ caller # "idle"
    BY <1>1, <1>7 DEF Serving, Live, IInv, OwnerInv
  <2>2. Seen(v) /\ i2c.broken = load.broken /\ Fitting(req, i2c.dynamic) /\ isr \subseteq hw.iisr
    <3>1. \E g : Cleared(v.d.h, g, Clears(v))
      BY <1>2, CanClear DEF Working
    <3> QED BY <1>4, <2>1, <3>1, HandlerIs DEF Serving, ProgressInv
  <2>3. Cleared(v.d.h, d1.h, Clears(v))
    BY <1>6, <2>2 DEF Seen, Toggle, Cleared
  <2>4. Outcome(v, d1.h, req)
    BY <1>4, <2>1, <2>3
  <2>5. /\ SameTransfer(i2c, d1.i) /\ Around(d1.i, d1.h, req)
        /\ Fitting(req, d1.i.dynamic) /\ d1.i.broken = load.broken
    BY <1>5, <2>2, <2>4 DEF Outcome, SameTransfer
  <2>6. i2c.completion = FALSE
    BY <1>7 DEF IInv, EndInv
  <2>10. /\ GoingInv => IF v.more THEN FreshGoes(d1.i, d1.h) ELSE v.wake \/ Going(d1.i, d1.h, req)
         /\ d1.i.tx_msg # 0
    <3>1. i2c.tx_msg # 0 /\ (GoingInv => Going(i2c, hw, req))
      BY <2>1, HandlerIs DEF Serving, GoingInv
    <3>2. Going(i2c, hw, req) =>
            IF v.more THEN FreshGoes(v.d.i, d1.h) ELSE v.wake \/ Going(v.d.i, d1.h, req)
      BY <2>4 DEF Outcome
    <3> QED BY <1>5, <2>5, <3>1, <3>2 DEF SameTransfer
  <2>7. CASE v.wake
    <3>1. i2c' = Wakeup(d2.i, v.code) /\ d2 = d1
      BY <1>1, <2>4, <2>7 DEF Outcome
    <3> HIDE DEF d2
    <3>2. /\ i2c'.tx_msg = 0 /\ i2c'.rx_msg = 0 /\ i2c'.state = v.code /\ i2c'.completion = TRUE
          /\ i2c'.msgs = d1.i.msgs /\ i2c'.filled = d1.i.filled /\ i2c'.broken = d1.i.broken
      BY <1>5, <3>1 DEF Wakeup, Forget, IsPair, DeviceFields
    <3>3. v.code = "DONE" => /\ \A k \in DOMAIN req : Delivered(d1.i, d1.h, req, k)
                             /\ d1.h.txf = <<>> /\ d1.h.mode # "rx"
      BY <1>5, <2>4, <2>7 DEF Outcome
    <3>4. DoneInv'
      BY <1>1, <2>1, <3>1, <3>2, <3>3 DEF DoneInv, Delivered
    <3>5. GoingInv'
      BY <3>2 DEF GoingInv, Live, Busy
    <3> QED BY <1>1, <2>5, <3>2, <3>4, <3>5 DEF ProgressInv, TransferInv, SeenInv, Live, Busy
  <2>8. CASE ~ v.wake /\ v.more
    <3>1. i2c' = d2.i /\ d2 = StartMsg(d1)
      BY <1>1, <2>8
    <3>2. Ready(d1, req)
      <4>1. d1.h.iisr \in SUBSET Interrupts
        BY <1>2, <2>3 DEF Cleared, Working, CoreOK
      <4>2. CoreOK(d1.h)
        BY <1>2, <1>6, <4>1 DEF Working, CoreOK, SameButIrqs
      <4> QED BY <1>2, <1>5, <2>8, <4>2 DEF Working, Ready
    <3>3. Fresh(d1.i, d1.h, req)
      BY <1>5, <2>4, <2>8 DEF Outcome
    <3>4. /\ Writing(d2.i, d2.h, req) \/ ReadingOn(d2.i, d2.h, req)
          /\ Begun(d1, d2) /\ (FreshGoes(d1.i, d1.h) => Going(d2.i, d2.h, req))
      <4>1. LET e == StartMsg(d1) IN
            /\ Writing(e.i, e.h, req) \/ ReadingOn(e.i, e.h, req)
            /\ Begun(d1, e) /\ (FreshGoes(d1.i, d1.h) => Going(e.i, e.h, req))
        BY <1>2, <2>5, <3>2, <3>3, StartMsgProgress, Zenon
      <4> HIDE DEF d2
      <4> QED BY <3>1, <4>1
    <3>5. d2.i.completion = FALSE
      <4>1. Started(d1, StartMsg(d1), req)
        BY <1>2, <3>2, StartMsgKeeps, Zenon
      <4> HIDE DEF d2
      <4> QED BY <1>2, <1>5, <2>6, <3>1, <4>1 DEF Started
    <3> HIDE DEF d2
    <3>6. Around(d2.i, d2.h, req) /\ Fitting(req, d2.i.dynamic) /\ d2.i.broken = load.broken
      BY <2>5, <3>4, AroundBegun DEF Begun
    <3>7. GoingInv => GoingInv'
      BY <1>1, <2>8, <2>10, <3>1, <3>4 DEF GoingInv, Busy, Begun
    <3> QED BY <1>1, <2>1, <3>1, <3>4, <3>5, <3>6, <3>7 DEF ProgressInv, TransferInv, SeenInv, DoneInv
  <2>9. CASE ~ v.wake /\ ~ v.more
    <3>1. i2c' = d1.i /\ hw' = d1.h
      BY <1>1, <2>9
    <3>2. Writing(d1.i, d1.h, req) \/ ReadingOn(d1.i, d1.h, req) \/ Over(d1.i, d1.h, req)
      BY <1>5, <2>4, <2>9 DEF Outcome
    <3>3. d1.i.completion = FALSE
      BY <1>2, <1>5, <2>6
    <3>4. GoingInv => GoingInv'
      BY <1>1, <2>9, <2>10, <3>1 DEF GoingInv, Busy
    <3> QED BY <1>1, <2>1, <2>5, <3>1, <3>2, <3>3, <3>4 DEF ProgressInv, TransferInv, SeenInv, DoneInv
  <2> QED BY <2>7, <2>8, <2>9
<1>8. CASE ~ Busy
  <2>1. i2c' = i2c /\ hw' = d1.h
    BY <1>1, <1>2, <1>5, <1>8
  <2>2. hw'.moved = hw.moved /\ hw'.txf = hw.txf /\ hw'.mode = hw.mode
    BY <1>3, <1>6, <1>8, <2>1 DEF SameButIrqs
  <2>3. DoneInv'
    BY <1>1, <2>1, <2>2 DEF ProgressInv, DoneInv, Delivered
  <2>4. GoingInv => GoingInv'
    BY <1>1, <1>8, <2>1 DEF GoingInv, Live, Busy
  <2> QED BY <1>1, <1>8, <2>1, <2>3, <2>4 DEF ProgressInv, TransferInv, SeenInv, Live, Busy
<1> QED BY <1>7, <1>8

\* The two parts of the invariant together.
StatusInv == IInv /\ (Fits(load) => ProgressInv)

\* Nothing has been submitted yet.
LEMMA InitProgress == Init => ProgressInv
<1> SUFFICES ASSUME Init PROVE ProgressInv
  OBVIOUS
<1>1. /\ i2c.tx_msg = 0 /\ i2c.rx_msg = 0 /\ i2c.completion = FALSE /\ i2c.broken = load.broken
      /\ irq = "idle" /\ ret = "none"
  BY DEF Init
<1> QED BY <1>1 DEF ProgressInv, TransferInv, SeenInv, DoneInv, Live, Busy

\* Every step of the program and of the core preserves it.
LEMMA NextProgress == StatusInv /\ [Next]_vars => StatusInv'
<1> SUFFICES ASSUME StatusInv, [Next]_vars PROVE StatusInv'
  OBVIOUS
<1>1. IInv /\ IInv'
  BY NextIInv DEF StatusInv
<1>2. load' = load
  BY DEF Next, Process, StartXfer, StartXferFails, StartXferRefused, WokenUp, FinishXfer,
         IrqEnter, IrqError, IrqEvents, Core, vars
<1>3. ASSUME Fits(load), ProgressInv PROVE ProgressInv'
  <2>1. CASE \E x \in load.transfers : StartXfer(x) \/ StartXferFails(x)
    BY <1>1, <1>3, <2>1, SubmitProgress
  <2>2. CASE StartXferRefused \/ WokenUp \/ FinishXfer \/ IrqEnter
    BY <1>1, <1>3, <2>2, CallerProgress
  <2>3. CASE IrqError
    BY <1>1, <1>3, <2>3, ErrorProgress
  <2>4. CASE IrqEvents
    BY <1>1, <1>3, <2>4, EventsProgress
  <2>5. CASE Core
    BY <1>1, <1>3, <2>5, CoreProgress
  <2>6. CASE UNCHANGED vars
    BY <1>3, <2>6 DEF vars, ProgressInv, TransferInv, SeenInv, Unseen, DoneInv, Live, Busy
  <2> QED BY <2>1, <2>2, <2>3, <2>4, <2>5, <2>6 DEF Next, Process
<1> QED BY <1>1, <1>2, <1>3 DEF StatusInv, Fits

\* For messages that fit: xfer() reports success only if every byte of every message
\* went over the bus and into its buffer.
THEOREM StatusCorrect == Spec => [](Fits(load) => StatusTruthful)
<1>1. Init => StatusInv
  BY InitIInv, InitProgress DEF StatusInv
<1>2. StatusInv /\ [Next]_vars => StatusInv'
  BY NextProgress
<1>3. StatusInv => (Fits(load) => StatusTruthful)
  <2> SUFFICES ASSUME StatusInv, Fits(load), caller = "idle", ret = "ok", NEW k \in 1 .. Len(req)
               PROVE  /\ hw.moved[k] = WireLen(req[k])
                      /\ req[k].rd => i2c.filled[k] = WireLen(req[k])
                      /\ req[k].recv => req[k].blk <= BLOCK_MAX
                      /\ i2c.msgs[k].len = IF req[k].recv THEN BlockLen(req[k]) ELSE req[k].len
    BY DEF StatusTruthful
  <2>1. k \in DOMAIN req
    BY DEF StatusInv, IInv, StateInv
  <2>2. Delivered(i2c, hw, req, k)
    BY <2>1 DEF StatusInv, ProgressInv, DoneInv
  <2> QED BY <2>2 DEF Delivered
<1> QED BY <1>1, <1>2, <1>3, PTL DEF Spec

\* For messages that fit: the handler never starts a message and wakes the caller up,
\* WARN_ON(xfer_more && wakeup_req).
THEOREM MoreOrWakeupCorrect == Spec => [](Fits(load) => MoreOrWakeup)
<1>1. Init => StatusInv
  BY InitIInv, InitProgress DEF StatusInv
<1>2. StatusInv /\ [Next]_vars => StatusInv'
  BY NextProgress
<1>3. StatusInv => (Fits(load) => MoreOrWakeup)
  <2> SUFFICES ASSUME StatusInv, Fits(load), irq = "service", ~ ErrorPending \/ ReadDoneEarly
               PROVE  ~ (Handled.more /\ Handled.wake)
    BY DEF MoreOrWakeup
  <2>1. IInv /\ ProgressInv
    BY DEF StatusInv
  <2>2. /\ Working(Handled, req)
        /\ ~ Busy => Handled.more = FALSE
    BY <2>1, HandledKeeps DEF IInv, StateInv, SnapshotInv
  <2>3. CASE Busy
    <3>1. Serving
      BY <2>1, <2>3 DEF Serving, Live, IInv, OwnerInv
    <3>2. \E g : Cleared(Handled.d.h, g, Clears(Handled))
      BY <2>2, CanClear DEF Working
    <3>3. PICK g : Outcome(Handled, g, req)
      BY <3>1, <3>2, HandledEnds
    <3> QED BY <3>3 DEF Outcome
  <2> QED BY <2>2, <2>3
<1> QED BY <1>1, <1>2, <1>3, PTL DEF Spec

-----------------------------------------------------------------------------
(* Nothing hangs.                                                           *)

HangInv == StatusInv /\ (Fits(load) => GoingInv)

LEMMA NextGoes == HangInv /\ [Next]_vars => HangInv'
<1> SUFFICES ASSUME HangInv, [Next]_vars PROVE HangInv'
  OBVIOUS
<1>1. StatusInv /\ StatusInv' /\ IInv
  BY NextProgress DEF HangInv, StatusInv
<1>2. load' = load
  BY DEF Next, Process, StartXfer, StartXferFails, StartXferRefused, WokenUp, FinishXfer,
         IrqEnter, IrqError, IrqEvents, Core, vars
<1>3. ASSUME Fits(load) PROVE GoingInv'
  <2>0. GoingInv /\ ProgressInv /\ ProgressInv'
    BY <1>1, <1>2, <1>3 DEF HangInv, StatusInv, Fits
  <2>1. CASE \E x \in load.transfers : StartXfer(x) \/ StartXferFails(x)
    BY <1>1, <1>3, <2>0, <2>1, SubmitProgress
  <2>2. CASE StartXferRefused \/ WokenUp \/ FinishXfer \/ IrqEnter
    BY <2>0, <2>2, CallerGoes
  <2>3. CASE IrqError
    BY <1>1, <2>0, <2>3, ErrorGoes
  <2>4. CASE IrqEvents
    BY <1>1, <2>0, <2>4, EventsProgress
  <2>5. CASE Core
    BY <1>1, <2>0, <2>5, CoreGoes
  <2>6. CASE UNCHANGED vars
    BY <2>0, <2>6 DEF vars, GoingInv, Live, Busy
  <2> QED BY <2>1, <2>2, <2>3, <2>4, <2>5, <2>6 DEF Next, Process
<1> QED BY <1>1, <1>2, <1>3 DEF HangInv, Fits

\* In a write either the core sends what is in the TX FIFO, or it is empty and the
\* handler fills it up, starts the next message or finds that the bus is free.
LEMMA WritingCanGoOn ==
  ASSUME StateInv, i2c.tx_msg # 0, Writing(i2c, hw, req), Going(i2c, hw, req),
         "TXERR" \notin hw.iisr, hw.mode # "err"
  PROVE  CoreCanGoOn \/ Useful \cap hw.iier \cap (hw.iisr \cup LevelSources) # {}
<1> DEFINE m == i2c.tx_msg
           s == hw.txf
<1>1. /\ CoreOK(hw) /\ DeviceOK(i2c, req) /\ i2c.rx_msg = 0 /\ m \in DOMAIN req
      /\ WritingGoes(i2c, hw, req) /\ s \in Seq(Entry)
  BY DEF StateInv, DeviceOK, Indices, Writing, Going, CoreOK
<1>2. /\ {"TXEMPTY", "BNB"} \subseteq hw.iier
      /\ ~ AddressIn(s) => hw.mode \in {"hold", "stop"} \/ "BNB" \in hw.iisr
  BY <1>1 DEF WritingGoes
<1>3. "BNB" \in hw.iisr => Useful \cap hw.iier \cap (hw.iisr \cup LevelSources) # {}
  BY <1>2 DEF Useful
<1>4. s # <<>> => Head(s) = s[1] /\ 1 \in DOMAIN s
  <2> HIDE DEF s
  <2> QED BY <1>1
<1>5. CASE AddressIn(s)
  <2>1. s # <<>> /\ s[1].kind = "addr" /\ ~ s[1].rd /\ s[1].dyn = i2c.dynamic
    BY <1>1, <1>4, <1>5 DEF AddressIn, WritingGoes, Writing, Outgoing
  <2>2. ~ i2c.dynamic => "MSMS" \in hw.cr /\ (hw.mode = "hold" => "RSTA" \in hw.cr)
    BY <1>1, <1>5 DEF WritingGoes
  <2>3. hw.mode \in {"idle", "hold", "stop"}
    BY DEF Writing
  <2>4. hw.mode # "stop" => CanSend
    BY <1>4, <2>1, <2>2, <2>3 DEF CanSend
  <2> QED BY <2>4 DEF CoreCanGoOn
<1>6. CASE ~ AddressIn(s) /\ s # <<>>
  <2>1. s[1].kind = "data"
    BY <1>4, <1>6 DEF AddressIn, Writing, Outgoing
  <2>2. hw.mode = "hold" => CanSend
    BY <1>4, <1>6, <2>1 DEF CanSend
  <2> QED BY <1>2, <1>3, <1>6, <2>2 DEF CoreCanGoOn
<1>7. CASE s = <<>>
  <2>1. ~ AddressIn(s)
    BY <1>7 DEF AddressIn
  <2>2. CASE TxSpace(Now) > 0 \/ i2c.nmsgs > 1
    BY <1>1, <1>2, <1>7, <2>2 DEF Useful, LevelSources
  <2>3. CASE ~ (TxSpace(Now) > 0 \/ i2c.nmsgs > 1)
    <3>1. Last(i2c)
      <4>1. m \in 1 .. Len(req) /\ i2c.nmsgs = Len(req) - m + 1 /\ Len(req) \in Nat
        BY <1>1 DEF StateInv, DeviceOK, Indices
      <4> DEFINE l == Len(req)
                 n == i2c.nmsgs
      <4>2. m \in 1 .. l /\ n = l - m + 1 /\ l \in Nat /\ ~ (n > 1)
        BY <2>3, <4>1
      <4> HIDE DEF l, m, n
      <4>3. n = 1
        BY <4>2
      <4> QED BY <4>3 DEF Last, n
    <3>2. i2c.tx_pos = req[m].len
      <4> DEFINE a == i2c.tx_pos
                 b == req[m].len
      <4>1. Now.i = i2c
        BY DEF Now, D
      <4>2. i2c.msgs[m] = req[m] /\ a <= b
        BY DEF Writing
      <4>3. TxSpace(Now) = b - a
        BY <4>1, <4>2 DEF TxSpace
      <4>4. a \in Nat /\ b \in Nat
        BY <1>1, LenType, <4>2 DEF DeviceOK, Typed
      <4> HIDE DEF a, b
      <4>5. a = b
        BY <2>3, <4>2, <4>3, <4>4
      <4> QED BY <4>5 DEF a, b
    <3>3. hw.mode # "hold"
      BY <1>1, <1>7, <3>1, <3>2 DEF WritingGoes
    <3> QED BY <1>2, <1>3, <2>1, <3>3 DEF CoreCanGoOn
  <2> QED BY <2>2, <2>3
<1> QED BY <1>5, <1>6, <1>7

\* In a read either the core sends the address or clocks in the next byte, or it has
\* stopped at the threshold and the handler makes room.
LEMMA ReadingCanGoOn ==
  ASSUME StateInv, ReadingOn(i2c, hw, req), Going(i2c, hw, req), "TXERR" \notin hw.iisr,
         hw.mode # "err"
  PROVE  CoreCanGoOn \/ Useful \cap hw.iier \cap (hw.iisr \cup LevelSources) # {}
<1> DEFINE t == ToGo(i2c, hw)
<1>1. /\ i2c.rx_msg # 0 /\ ReadingGoes(i2c, hw) /\ Stage(i2c, hw, t)
      /\ hw.rxocc \in Nat /\ hw.rfd \in Nat
  BY DEF StateInv, ReadingOn, Going, CoreOK
<1>2. /\ "RXFULL" \in hw.iier
      /\ ~ i2c.dynamic => "MSMS" \in hw.cr /\ (hw.txf # <<>> /\ hw.mode = "hold" => "RSTA" \in hw.cr)
  BY <1>1 DEF ReadingGoes
<1> HIDE DEF t
<1>3. QueuedRead(i2c, hw, t) \/ Receiving(i2c, hw, t)
  BY <1>1 DEF Stage, Refused, Received
<1>4. CASE QueuedRead(i2c, hw, t)
  <2> DEFINE m == i2c.rx_msg
  <2>1. /\ hw.mode \in {"idle", "hold"}
        /\ i2c.dynamic => hw.txf = <<Addr(m, TRUE, TRUE, FALSE), Length(m, i2c.msgs[m].len, Last(i2c))>>
        /\ ~ i2c.dynamic => hw.txf = <<Addr(m, TRUE, FALSE, FALSE)>>
    BY <1>4 DEF QueuedRead
  <2>2. CanSend
    <3>1. CASE i2c.dynamic
      <4> DEFINE x == Addr(m, TRUE, TRUE, FALSE)
                 y == Length(m, i2c.msgs[m].len, Last(i2c))
      <4>1. x.kind = "addr" /\ x.dyn = TRUE
        BY DEF Addr
      <4>2. hw.txf = <<x, y>>
        BY <2>1, <3>1
      <4> HIDE DEF x, y
      <4>3. hw.txf # <<>> /\ Head(hw.txf) = x /\ Len(hw.txf) > 1
        BY <4>2
      <4> QED BY <2>1, <4>1, <4>3 DEF CanSend
    <3>2. CASE ~ i2c.dynamic
      <4> DEFINE x == Addr(m, TRUE, FALSE, FALSE)
      <4>1. x.kind = "addr" /\ x.dyn = FALSE
        BY DEF Addr
      <4>2. hw.txf = <<x>>
        BY <2>1, <3>2
      <4> HIDE DEF x
      <4>3. hw.txf # <<>> /\ Head(hw.txf) = x
        BY <4>2
      <4> QED BY <1>2, <2>1, <3>2, <4>1, <4>3 DEF CanSend
    <3> QED BY <3>1, <3>2
  <2> QED BY <2>2 DEF CoreCanGoOn
<1>5. CASE Receiving(i2c, hw, t)
  <2>1. hw.mode = "rx" /\ (hw.dyn => hw.left > 0)
    BY <1>5 DEF Receiving
  <2>2. CASE hw.rxocc <= hw.rfd
    BY <2>1, <2>2 DEF CoreCanGoOn
  <2>3. CASE ~ (hw.rxocc <= hw.rfd)
    <3>1. hw.rxocc > hw.rfd
      BY <1>1, <2>3
    <3> QED BY <1>1, <1>2, <3>1 DEF Useful, LevelSources
  <2> QED BY <2>2, <2>3
<1> QED BY <1>3, <1>4, <1>5

\* For messages that fit: a transfer that is not completed always has a next step, of
\* the core or of the handler, so that only a slave that never answers can make it
\* wait for its timeout.
THEOREM NeverHangsCorrect == Spec => [](Fits(load) => NeverHangs)
<1>1. Init => HangInv
  <2> SUFFICES ASSUME Init PROVE HangInv
    OBVIOUS
  <2>1. caller = "idle"
    BY DEF Init
  <2> QED BY <2>1, InitIInv, InitProgress DEF HangInv, StatusInv, GoingInv, Live
<1>2. HangInv /\ [Next]_vars => HangInv'
  BY NextGoes
<1>3. HangInv => (Fits(load) => NeverHangs)
  <2> SUFFICES ASSUME HangInv, Fits(load), caller = "wait", ~ i2c.completion
               PROVE  CoreCanGoOn \/ Useful \cap hw.iier \cap (hw.iisr \cup LevelSources) # {}
    BY DEF NeverHangs
  <2>1. /\ StateInv /\ ProgressInv /\ GoingInv /\ Busy /\ Live
    BY DEF HangInv, StatusInv, IInv, GoingInv, Live
  <2>2. /\ Writing(i2c, hw, req) \/ ReadingOn(i2c, hw, req) \/ Over(i2c, hw, req)
        /\ Going(i2c, hw, req) /\ Armed(hw)
    BY <2>1 DEF ProgressInv, TransferInv, GoingInv, Going
  <2>3. CASE hw.mode = "err"
    BY <2>2, <2>3 DEF Armed, Useful
  <2>4. CASE Over(i2c, hw, req) /\ hw.mode # "err"
    <3>1. OverGoes(hw)
      BY <2>2, <2>4 DEF Over, Going
    <3> QED BY <2>4, <3>1 DEF OverGoes, CoreCanGoOn, Useful
  <2>5. CASE ~ Over(i2c, hw, req) /\ "TXERR" \in hw.iisr
    <3>1. "TXERR" \in hw.iier
      BY <2>2, <2>5 DEF Writing, ReadingOn
    <3> QED BY <2>5, <3>1 DEF Useful
  <2>6. CASE Writing(i2c, hw, req) /\ "TXERR" \notin hw.iisr /\ hw.mode # "err"
    <3>1. i2c.tx_msg # 0
      BY <2>1 DEF Busy, StateInv, DeviceOK, Indices
    <3> QED BY <2>1, <2>2, <2>6, <3>1, WritingCanGoOn
  <2>7. CASE ReadingOn(i2c, hw, req) /\ "TXERR" \notin hw.iisr /\ hw.mode # "err"
    BY <2>1, <2>2, <2>7, ReadingCanGoOn
  <2> QED BY <2>2, <2>3, <2>4, <2>5, <2>6, <2>7
<1> QED BY <1>1, <1>2, <1>3, PTL DEF Spec
=============================================================================
