-------------------------------- MODULE Xiic --------------------------------
(***************************************************************************)
(* The bp4f-xiic-i2c driver (backports/bp4f_i2c_xiic.c): one AXI IIC core,  *)
(* its threaded interrupt handler xiic_process() and the one caller that    *)
(* the i2c core lets into xiic_xfer() at a time.                            *)
(*                                                                          *)
(* i2c is struct xiic_i2c with the messages its pointers reach, hw the core *)
(* and the bus.  start_xfer, the handler and the end of xfer run under      *)
(* i2c->lock and are one action each, except that the handler first takes   *)
(* its snapshot of the interrupt registers: the core goes on in between.    *)
(* Payload bytes are counted, not represented.                              *)
(***************************************************************************)
EXTENDS Naturals, Sequences, FiniteSets

CONSTANTS
  DEPTH,        (* IIC_RX_FIFO_DEPTH and IIC_TX_FIFO_DEPTH                    *)
  BLOCK_MAX,    (* I2C_SMBUS_BLOCK_MAX                                        *)
  DYNAMIC_MAX,  (* MAX_READ_LENGTH_DYNAMIC                                    *)
  Workloads,    (* what a behaviour may bring, see Workload                   *)
  MAX_MOVED     (* bound: the bytes of one message are counted up to here     *)

MIN_LEN == 3    \* SMBUS_BLOCK_READ_MIN_LEN

ASSUME SizesOK ==
  DEPTH \in Nat \ {0, 1} /\ BLOCK_MAX \in Nat \ {0} /\ DYNAMIC_MAX \in Nat /\ MAX_MOVED \in Nat

\* A message: direction, I2C_M_RECV_LEN, length, and the length byte with which
\* the slave will answer a block read.
Message == [rd : BOOLEAN, recv : BOOLEAN, len : Nat, blk : Nat]

\* The mode xiic_start_xfer() chooses for the messages x.
Standard(x, broken) ==
  \E i \in 1 .. Len(x) :
    x[i].rd /\ (broken \/ x[i].len > DYNAMIC_MAX \/ x[i].recv)

Fault == {"nack", "arb", "busy", "timeout", "reinit"}

\* The message sequences callers submit and how many of them (a bound), the faults
\* that may occur, and the DYNAMIC_MODE_READ_BROKEN_BIT of the core.
Workload == [transfers : SUBSET Seq(Message), count : Nat, faults : SUBSET Fault,
             broken : BOOLEAN]

\* A read has at least one byte; a transfer in standard mode ends in a read.  A
\* block read is the last message and has room for the length byte, and for the
\* PEC if the caller asked for it, as the SMBus emulation of the i2c core builds it.
ASSUME WorkloadsOK ==
  \A w \in Workloads :
    /\ w \in Workload
    /\ \A x \in w.transfers :
         /\ x # <<>>
         /\ \A i \in 1 .. Len(x) :
              /\ x[i].rd => x[i].len > 0
              /\ x[i].recv => x[i].rd /\ x[i].len \in {1, 2} /\ i = Len(x)
         /\ Standard(x, w.broken) => x[Len(x)].rd

Interrupts == {"ARB", "TXERR", "TXEMPTY", "TXHALF", "RXFULL", "BNB"}
Ret == {"none", "ok", "EIO", "ETIMEDOUT", "EBUSY"}

VARIABLES
  load,     \* the workload of this behaviour, which never changes
  caller,   \* "idle", or in xfer(): "wait"s, is "woken" or has "timedout"
  ret,      \* what the last xfer() returned
  req,      \* the messages last accepted, as they were submitted
  count,    \* transfers started
  i2c,      \* struct xiic_i2c and the messages; a message pointer is an index, 0 is NULL
  irq,      \* "idle", or "service": the handler holds the lock and has its snapshot
  isr,      \* the handler's snapshot of IISR
  ier,      \* and of IIER
  hw        \* the core and the bus

vars == <<load, caller, ret, req, count, i2c, irq, isr, ier, hw>>

FAULTS == load.faults

MinOf(a, b) == IF a <= b THEN a ELSE b
MaxOf(a, b) == IF a >= b THEN a ELSE b
-----------------------------------------------------------------------------
(* The core.  hw.iisr and hw.iier are the interrupt registers, hw.cr, hw.rfd *)
(* the control bits and the RX threshold, hw.txf the TX FIFO, hw.rxocc the   *)
(* number of bytes in the RX FIFO.  hw.mode is what the core does on the bus: *)
(* "idle" (the bus is not busy), "hold" (it owns the bus and waits for the   *)
(* next FIFO entry), "rx", "stop" (a STOP is due), "err" (it needs a reset). *)
(* While it receives, hw.cur is the message, hw.byte the byte on the wire    *)
(* and the answer it will get, hw.left what a dynamic read still has to      *)
(* fetch.  hw.moved counts the acknowledged or received bytes per message.   *)

ResetCore(h) ==
  [h EXCEPT !.iisr = {}, !.iier = {"ARB"}, !.cr = {}, !.rfd = DEPTH - 1, !.txf = <<>>,
            !.rxocc = 0, !.mode = "idle", !.cur = 0, !.byte = "none", !.dyn = FALSE,
            !.left = 0, !.autostop = FALSE]

\* A reset that fails ends before the interrupts are enabled.
ResetFailed(h) == [ResetCore(h) EXCEPT !.iier = {}]

\* FIFO entries: an address, the length of a dynamic read, a data byte.
Addr(m, rd, dyn, stop) == [kind |-> "addr", msg |-> m, rd |-> rd, dyn |-> dyn, stop |-> stop]
Length(m, n, stop) == [kind |-> "len", msg |-> m, n |-> n, stop |-> stop]
Byte(m, stop) == [kind |-> "data", msg |-> m, stop |-> stop]

\* The TX FIFO q with more entries written to it; what it has no room for is lost.
Queued(q, more) == SubSeq(q \o more, 1, MinOf(Len(q) + Len(more), DEPTH))

\* Interrupt sources that are levels: the bit is set again while they last.
LevelSources ==
  (IF hw.txf = <<>> THEN {"TXEMPTY"} ELSE {})
    \cup (IF Len(hw.txf) <= DEPTH \div 2 THEN {"TXHALF"} ELSE {})
    \cup (IF hw.rxocc > hw.rfd THEN {"RXFULL"} ELSE {})

HwLevel ==
  /\ ~ (LevelSources \subseteq hw.iisr)
  /\ hw' = [hw EXCEPT !.iisr = @ \cup LevelSources]

\* The core can send the entry at the head of the TX FIFO: a dynamic address
\* starts by itself, one in standard mode needs MSMS, and RSTA if the bus is
\* owned already; data needs an owned bus; a dynamic read its length.
CanSend ==
  /\ hw.txf # <<>>
  /\ LET e == Head(hw.txf) IN
       \/ /\ e.kind = "addr" /\ hw.mode \in {"idle", "hold"}
          /\ IF e.dyn THEN e.rd => Len(hw.txf) > 1
             ELSE "MSMS" \in hw.cr /\ (hw.mode = "hold" => "RSTA" \in hw.cr)
       \/ e.kind = "data" /\ hw.mode = "hold"

\* The slave acknowledges it.
HwSend ==
  /\ CanSend
  /\ LET e == Head(hw.txf)
         size == Head(Tail(hw.txf))
     IN hw' =
          IF e.kind = "addr" /\ e.rd /\ e.dyn
            THEN [hw EXCEPT !.txf = Tail(Tail(@)), !.mode = "rx", !.cur = e.msg, !.dyn = TRUE,
                            !.left = size.n, !.autostop = size.stop]
          ELSE IF e.kind = "addr" /\ e.rd
            THEN [hw EXCEPT !.txf = Tail(@), !.mode = "rx", !.cur = e.msg, !.dyn = FALSE,
                            !.cr = @ \ {"RSTA"}, !.autostop = FALSE]
          ELSE [hw EXCEPT !.txf = Tail(@), !.mode = IF e.stop THEN "stop" ELSE "hold",
                          !.cr = IF e.kind = "addr" THEN @ \ {"RSTA"} ELSE @,
                          !.autostop = e.stop,
                          !.moved[e.msg] = IF e.kind = "data" THEN @ + 1 ELSE @]

\* It does not: the core drops what is in the TX FIFO, and may free the bus.
HwNack ==
  /\ "nack" \in FAULTS
  /\ CanSend
  /\ \E stopped \in BOOLEAN :
       hw' = [hw EXCEPT !.iisr = @ \cup {"TXERR"} \cup (IF stopped THEN {"BNB"} ELSE {}),
                        !.txf = <<>>, !.mode = IF stopped THEN "idle" ELSE "hold"]

HwArbLost ==
  /\ "arb" \in FAULTS
  /\ hw.mode \in {"hold", "rx"}
  /\ hw' = [hw EXCEPT !.iisr = @ \cup {"ARB"}, !.mode = "err"]

\* A byte is clocked in unless the RX FIFO has reached its threshold.  Whether
\* it will be acknowledged is settled when it starts.
HwByteStarts ==
  /\ hw.mode = "rx" /\ hw.byte = "none"
  /\ hw.rxocc <= hw.rfd
  /\ hw.dyn => hw.left > 0
  /\ hw' = [hw EXCEPT !.byte =
              IF (hw.dyn /\ hw.left = 1) \/ (~ hw.dyn /\ "NOACK" \in hw.cr)
                THEN "nack" ELSE "ack"]

\* With the negative acknowledgement of the last byte the core raises TXERR.
HwByteEnds ==
  /\ hw.mode = "rx" /\ hw.byte # "none"
  /\ hw' = [hw EXCEPT !.rxocc = @ + 1, !.moved[hw.cur] = MinOf(@ + 1, MAX_MOVED),
                      !.byte = "none",
                      !.left = IF hw.dyn THEN @ - 1 ELSE @,
                      !.iisr = IF hw.byte = "nack" THEN @ \cup {"TXERR"} ELSE @,
                      !.mode = IF hw.byte = "ack" THEN "rx"
                               ELSE IF hw.autostop THEN "stop" ELSE "hold"]

\* STOP: asked for by the FIFO entry, or by clearing MSMS after a last byte.
HwStop ==
  /\ \/ hw.mode = "stop"
     \/ hw.mode = "hold" /\ ~ hw.dyn /\ hw.cur # 0 /\ "MSMS" \notin hw.cr
  /\ hw' = [hw EXCEPT !.mode = "idle", !.iisr = @ \cup {"BNB"}, !.cur = 0]

BusSteps == HwSend \/ HwByteStarts \/ HwByteEnds \/ HwStop
Core ==
  /\ HwLevel \/ BusSteps \/ HwNack \/ HwArbLost
  /\ UNCHANGED <<load, caller, ret, req, count, i2c, irq, isr, ier>>
-----------------------------------------------------------------------------
(* The driver's helpers, on a pair d of i2c (d.i) and hw (d.h).             *)

D(i, h) == [i |-> i, h |-> h]

IrqDis(d, mask) == [d EXCEPT !.h.iier = @ \ mask]
IrqClrEn(d, mask) == [d EXCEPT !.h.iisr = @ \ mask, !.h.iier = @ \cup mask]

TxSpace(d) == d.i.msgs[d.i.tx_msg].len - d.i.tx_pos
RxSpace(d) == d.i.msgs[d.i.rx_msg].len - d.i.rx_pos

\* The TFO register holds the occupancy less one, and 0 for an empty FIFO.
TxFifoSpace(d) == DEPTH - MaxOf(Len(d.h.txf), 1)

\* Moving n bytes from the RX FIFO to the buffer; only bytes that are there count.
Drain(d, n) ==
  LET good == MinOf(n, d.h.rxocc) IN
  [d EXCEPT !.i.rx_pos = @ + n, !.i.filled[d.i.rx_msg] = @ + good, !.h.rxocc = @ - good]

\* Faulty variant of FillTxFifo: the stop goes with the last byte of any message.
FillTxFifoStopsEarly(d) ==
  LET n == MinOf(TxSpace(d), TxFifoSpace(d))
      entry(k) == Byte(d.i.tx_msg, k = TxSpace(d))
  IN [d EXCEPT !.i.tx_pos = @ + n, !.h.txf = @ \o [k \in 1 .. n |-> entry(k)]]

\* Faulty variant of FillTxFifo: the stop is not asked for.
FillTxFifoNoStop(d) ==
  LET n == MinOf(TxSpace(d), TxFifoSpace(d))
      entry(k) == Byte(d.i.tx_msg, FALSE)
  IN [d EXCEPT !.i.tx_pos = @ + n, !.h.txf = @ \o [k \in 1 .. n |-> entry(k)]]

FillTxFifo(d) ==
  LET n == MinOf(TxSpace(d), TxFifoSpace(d))
      entry(k) == Byte(d.i.tx_msg, k = TxSpace(d) /\ d.i.nmsgs = 1)
  IN [d EXCEPT !.i.tx_pos = @ + n, !.h.txf = @ \o [k \in 1 .. n |-> entry(k)]]

\* Faulty variants of BlockReadSetup: any length is accepted; a long block is
\* not read in chunks.
BlockReadSetupAnyLength(d) ==
  LET n == d.i.msgs[d.i.rx_msg].blk + d.i.msgs[d.i.rx_msg].len
      d1 == Drain([d EXCEPT !.i.msgs[d.i.rx_msg].recv = FALSE, !.i.smbus_block_read = TRUE], 1)
  IN [d1 EXCEPT !.i.msgs[d.i.rx_msg].len = MaxOf(n, MIN_LEN),
                !.h.rfd = IF n - 1 > DEPTH THEN DEPTH - 1 ELSE MaxOf(n, MIN_LEN) - 3]

BlockReadSetupOneChunk(d) ==
  LET n == d.i.msgs[d.i.rx_msg].blk + d.i.msgs[d.i.rx_msg].len
      d1 == Drain([d EXCEPT !.i.msgs[d.i.rx_msg].recv = FALSE, !.i.smbus_block_read = TRUE], 1)
  IN [d1 EXCEPT !.i.msgs[d.i.rx_msg].len = MaxOf(n, MIN_LEN), !.h.rfd = MaxOf(n, MIN_LEN) - 3]

\* xiic_smbus_block_read_setup(): the length byte has arrived.
BlockReadSetup(d) ==
  LET len == d.i.msgs[d.i.rx_msg].blk
      pec == d.i.msgs[d.i.rx_msg].len - 1
      d1 == Drain([d EXCEPT !.i.msgs[d.i.rx_msg].recv = FALSE, !.i.smbus_block_read = TRUE], 1)
      expect(n, rfd) == [d1 EXCEPT !.i.msgs[d.i.rx_msg].len = n, !.h.rfd = rfd]
  IN IF len > BLOCK_MAX
       THEN [d1 EXCEPT !.i.msgs[d.i.tx_msg].len = 3, !.i.smbus_block_read = FALSE]
     ELSE IF len + pec > DEPTH
       THEN expect(len + 1 + pec, DEPTH - 1)
     ELSE IF 1 + len + pec < MIN_LEN
       THEN [expect(MIN_LEN, 0) EXCEPT !.i.smbus_actual_len = 1 + len + pec]
     ELSE expect(len + 1 + pec, len + pec - 2)

\* Faulty variant of ReadRx: the last byte but one is not told from the others.
ReadRxNoNack(d) ==
  LET n == MinOf(d.h.rxocc, RxSpace(d))
      rem == RxSpace(d) - n
  IN IF d.i.dynamic
       THEN LET d1 == Drain(d, n) IN
            [d1 EXCEPT !.h.rfd = IF RxSpace(d1) = 0 THEN DEPTH - 1
                                 ELSE MinOf(RxSpace(d1), DEPTH) - 1]
     ELSE IF d.i.msgs[d.i.rx_msg].recv THEN BlockReadSetup(d)
     ELSE IF rem > DEPTH THEN Drain(d, n)
     ELSE IF rem > 0 THEN Drain(d, MaxOf(rem - 1, 1))
     ELSE Drain([d EXCEPT !.h.cr = @ \ (IF d.i.nmsgs = 1 THEN {"NOACK", "MSMS"} ELSE {"NOACK"})], n)

\* xiic_read_rx(): n bytes can be fetched now and rem are to come.  In standard
\* mode the FIFO is left so full that the last byte but one stops the core at
\* its threshold, where the driver can still ask for the last one not to be
\* acknowledged.  The handler comes here on RX_FULL only, with a byte in the FIFO
\* at least, so that the RFO register plus one is the occupancy.
ReadRx(d) ==
  LET n == MinOf(d.h.rxocc, RxSpace(d))
      rem == RxSpace(d) - n
  IN IF d.i.dynamic
       THEN LET d1 == Drain(d, n) IN
            [d1 EXCEPT !.h.rfd = IF RxSpace(d1) = 0 THEN DEPTH - 1
                                 ELSE MinOf(RxSpace(d1), DEPTH) - 1]
     ELSE IF d.i.msgs[d.i.rx_msg].recv THEN BlockReadSetup(d)
     ELSE IF rem > DEPTH THEN Drain(d, n)
     ELSE IF rem > 1 THEN Drain(d, rem - 1)
     ELSE IF rem = 1 THEN Drain([d EXCEPT !.h.cr = @ \cup {"NOACK"}], 1)
     ELSE Drain([d EXCEPT !.h.cr = @ \ (IF d.i.nmsgs = 1 THEN {"NOACK", "MSMS"} ELSE {"NOACK"})], n)

\* xiic_start_recv().  TX_EMPTY is set when it waits for it: the handler came
\* here from that interrupt, and nothing has been queued since.
StartRecv(d) ==
  LET m == d.i.tx_msg
      len == d.i.msgs[m].len
      last == d.i.nmsgs = 1
      d1 == IrqDis([d EXCEPT !.i.rx_msg = m, !.i.smbus_actual_len = 0], {"TXHALF", "TXEMPTY"})
      nack == IF len = 1 /\ ~ d.i.msgs[m].recv THEN {"NOACK"} ELSE {}
      rsta == IF "MSMS" \in d.h.cr THEN {"RSTA"} ELSE {}
      d2 == IF d.i.dynamic
              THEN [IrqClrEn(d1, {"RXFULL", "TXERR", "BNB"}) EXCEPT
                      !.h.rfd = MinOf(len, DEPTH) - 1,
                      !.h.txf = Queued(@, <<Addr(m, TRUE, TRUE, FALSE), Length(m, len, last)>>)]
              ELSE [IrqClrEn(d1, {"RXFULL", "TXERR"}) EXCEPT
                      !.h.rfd = IF len > DEPTH THEN DEPTH - 1
                                ELSE IF len = 1 THEN 0 ELSE len - 2,
                      !.h.cr = (@ \ {"TX"}) \cup nack \cup rsta \cup {"MSMS"},
                      !.h.txf = Queued(@, <<Addr(m, TRUE, FALSE, FALSE)>>)]
      d3 == IF last THEN IrqClrEn(d2, {"BNB"}) ELSE d2
  IN [d3 EXCEPT !.i.tx_pos = len, !.i.prev_msg_tx = FALSE]

\* xiic_start_send()
StartSend(d) ==
  LET m == d.i.tx_msg
      more == d.i.nmsgs > 1 \/ TxSpace(d) > 0
      rsta == IF "MSMS" \in d.h.cr THEN {"RSTA"} ELSE {}
      addr == Addr(m, FALSE, d.i.dynamic, d.i.dynamic /\ d.i.nmsgs = 1 /\ d.i.msgs[m].len = 0)
      d1 == [d EXCEPT !.h.txf = Queued(@, <<addr>>)]
      d2 == IF d.i.dynamic
              THEN FillTxFifo(IrqClrEn(d1, {"TXEMPTY", "TXERR", "BNB"}
                                             \cup (IF more THEN {"TXHALF"} ELSE {})))
              ELSE LET d0 == FillTxFifo(d1) IN
                   IrqClrEn([d0 EXCEPT !.h.cr =
                               (IF rsta = {} THEN @ ELSE @ \ {"NOACK"}) \cup rsta \cup {"MSMS", "TX"}],
                            {"TXEMPTY", "TXERR", "BNB"})
  IN [d2 EXCEPT !.i.prev_msg_tx = TRUE]

\* __xiic_start_xfer()
StartMsg(d) ==
  LET d1 == [d EXCEPT !.i.rx_pos = 0, !.i.tx_pos = 0, !.i.state = "START"] IN
  IF d.i.tx_msg = 0 THEN d
  ELSE IF d.i.msgs[d.i.tx_msg].rd THEN StartRecv(d1) ELSE StartSend(d1)

Forget(i) == [i EXCEPT !.tx_msg = 0, !.rx_msg = 0, !.nmsgs = 0]
Wakeup(i, code) == [Forget(i) EXCEPT !.state = code, !.completion = TRUE]
-----------------------------------------------------------------------------
(* The caller: xiic_xfer() and xiic_start_xfer().                           *)

Init ==
  /\ caller = "idle" /\ ret = "none" /\ req = <<>> /\ count = 0
  /\ load \in Workloads
  /\ i2c = [tx_msg |-> 0, rx_msg |-> 0, nmsgs |-> 0, tx_pos |-> 0, rx_pos |-> 0,
         state |-> "DONE", completion |-> FALSE, dynamic |-> FALSE, prev_msg_tx |-> FALSE,
         smbus_block_read |-> FALSE, smbus_actual_len |-> 0, broken |-> load.broken,
         msgs |-> <<>>, filled |-> <<>>]
  /\ irq = "idle" /\ isr = {} /\ ier = {}
  /\ hw = [iisr |-> {}, iier |-> {"ARB"}, cr |-> {}, rfd |-> DEPTH - 1, txf |-> <<>>,
           rxocc |-> 0, mode |-> "idle", cur |-> 0, byte |-> "none", dyn |-> FALSE,
           left |-> 0, autostop |-> FALSE, moved |-> <<>>]

Return(result) == caller' = "idle" /\ ret' = result

Busy == i2c.tx_msg # 0 \/ i2c.rx_msg # 0

\* Faulty variant of Submitted: without init_completion().
SubmittedOldCompletion(x) ==
  [i2c EXCEPT !.msgs = x, !.filled = [k \in 1 .. Len(x) |-> 0], !.tx_msg = 1, !.rx_msg = 0,
              !.nmsgs = Len(x), !.prev_msg_tx = FALSE, !.dynamic = ~ Standard(x, i2c.broken)]

\* The messages x become those of the transfer.
Submitted(x) ==
  [i2c EXCEPT !.msgs = x, !.filled = [k \in 1 .. Len(x) |-> 0], !.tx_msg = 1, !.rx_msg = 0,
              !.nmsgs = Len(x), !.completion = FALSE, !.prev_msg_tx = FALSE,
              !.dynamic = ~ Standard(x, i2c.broken)]
CoreFor(x) == [ResetCore(hw) EXCEPT !.moved = [k \in 1 .. Len(x) |-> 0]]

Call ==
  /\ caller = "idle" /\ irq = "idle"
  /\ count < load.count
  /\ count' = count + 1

StartXfer(x) ==
  /\ Call
  /\ ~ Busy
  /\ LET d == StartMsg(D(Submitted(x), CoreFor(x))) IN i2c' = d.i /\ hw' = d.h
  /\ caller' = "wait" /\ ret' = "none" /\ req' = x
  /\ UNCHANGED <<load, irq, isr, ier>>

\* The early returns: a transfer is under way, the bus stays busy even after a
\* reset, the reset that should have freed the bus fails.
StartXferRefused ==
  /\ Call
  /\ \/ Busy /\ Return("EBUSY") /\ UNCHANGED hw
     \/ ~ Busy /\ "busy" \in FAULTS /\ Return("EBUSY") /\ hw' = ResetCore(hw)
     \/ ~ Busy /\ {"busy", "reinit"} \subseteq FAULTS /\ Return("ETIMEDOUT") /\ hw' = ResetFailed(hw)
  /\ UNCHANGED <<load, req, i2c, irq, isr, ier>>

\* The last xiic_reinit() fails, after the messages have been taken over.
StartXferFails(x) ==
  /\ Call
  /\ ~ Busy
  /\ "reinit" \in FAULTS
  /\ i2c' = Submitted(x) /\ hw' = ResetFailed(CoreFor(x))
  /\ Return("ETIMEDOUT") /\ req' = x
  /\ UNCHANGED <<load, irq, isr, ier>>

\* Faulty variant of FinishXfer: the messages stay after a timeout.
FinishXferKeeps ==
  /\ irq = "idle"
  /\ \/ caller = "timedout" /\ Return("ETIMEDOUT")
     \/ caller = "woken" /\ Return(IF i2c.state = "DONE" THEN "ok" ELSE "EIO")
  /\ UNCHANGED <<load, req, count, i2c, irq, isr, ier, hw>>

\* wait_for_completion_timeout() returns.
WokenUp ==
  /\ caller = "wait"
  /\ \/ i2c.completion /\ caller' = "woken"
     \/ "timeout" \in FAULTS /\ ~ i2c.completion /\ caller' = "timedout"
  /\ UNCHANGED <<load, ret, req, count, i2c, irq, isr, ier, hw>>

\* The end of xiic_xfer(), under the lock.
FinishXfer ==
  /\ irq = "idle"
  /\ \/ /\ caller = "timedout"
        /\ i2c' = Forget(i2c)
        /\ Return("ETIMEDOUT")
     \/ /\ caller = "woken"
        /\ Return(IF i2c.state = "DONE" THEN "ok" ELSE "EIO")
        /\ UNCHANGED i2c
  /\ UNCHANGED <<load, req, count, irq, isr, ier, hw>>
-----------------------------------------------------------------------------
(* xiic_process().                                                          *)

IrqEnter ==
  /\ irq = "idle"
  /\ hw.iisr \cap hw.iier # {}
  /\ irq' = "service" /\ isr' = hw.iisr /\ ier' = hw.iier
  /\ UNCHANGED <<load, caller, ret, req, count, i2c, hw>>

Pending == isr \cap ier
Now == D(i2c, hw)

\* The test that may be a transmission error or the end of a read.
ErrorPending == "ARB" \in Pending \/ ("TXERR" \in Pending /\ "RXFULL" \notin Pending)

\* TX_ERROR before RX_FULL: the FIFO already holds the rest of the read.
ReadDoneEarly ==
  /\ ErrorPending /\ "ARB" \notin Pending
  /\ i2c.rx_msg # 0
  /\ hw.rxocc > 0 /\ RxSpace(Now) > 0 /\ hw.rxocc >= RxSpace(Now)

Leave == irq' = "idle" /\ isr' = {} /\ ier' = {}

\* The error branch: reset, and wake the caller up if there is one to wake.
IrqError ==
  /\ irq = "service"
  /\ ErrorPending /\ ~ ReadDoneEarly
  /\ hw' = ResetCore(hw) \/ ("reinit" \in FAULTS /\ hw' = ResetFailed(hw))
  /\ i2c' = IF Busy THEN Wakeup(i2c, "ERROR") ELSE i2c
  /\ Leave
  /\ UNCHANGED <<load, caller, ret, req, count>>

\* The handler's local variables, with the state d it works on.
Handler == [d |-> Now, pend |-> Pending \cup (IF ReadDoneEarly THEN {"RXFULL"} ELSE {}),
            clr |-> IF ReadDoneEarly THEN {"TXERR"} ELSE {},
            more |-> FALSE, wake |-> FALSE, code |-> "DONE", out |-> FALSE]

NextMsg(d) == [d EXCEPT !.i.nmsgs = @ - 1, !.i.tx_msg = @ + 1]

\* xiic_smbus_trim_len()
TrimLen(d) ==
  IF d.i.smbus_actual_len # 0
    THEN [d EXCEPT !.i.msgs[d.i.rx_msg].len = d.i.smbus_actual_len] ELSE d

\* "Receive register/FIFO is full"
OnRxFull(v) ==
  IF "RXFULL" \notin v.pend THEN v
  ELSE IF v.d.i.rx_msg = 0
    THEN [v EXCEPT !.clr = @ \cup {"RXFULL"}, !.d.h.rxocc = 0, !.out = TRUE]
  ELSE LET d1 == ReadRx(v.d)
           d2 == [TrimLen(d1) EXCEPT !.i.rx_msg = 0]
           more == d1.i.nmsgs > 1
       IN IF RxSpace(d1) # 0
            THEN [v EXCEPT !.d = d1, !.clr = @ \cup {"RXFULL"}]
            ELSE [v EXCEPT !.d = IF more THEN NextMsg(d2) ELSE d2,
                           !.clr = @ \cup {"RXFULL"} \cup (isr \cap {"TXERR"}),
                           !.more = @ \/ more]

\* Faulty variant of OnTxEmpty: the next message starts on TX_HALF already.
OnTxEmptyHalf(v) ==
  LET bits == v.pend \cap {"TXEMPTY", "TXHALF"}
      w == [v EXCEPT !.clr = @ \cup bits]
  IN IF v.out \/ bits = {} THEN v
     ELSE IF v.d.i.tx_msg = 0 THEN [w EXCEPT !.out = TRUE]
     ELSE IF TxSpace(v.d) > 0 THEN [w EXCEPT !.d = FillTxFifo(v.d)]
     ELSE IF v.d.i.nmsgs > 1
       THEN [w EXCEPT !.d = NextMsg(v.d), !.more = TRUE]
     ELSE [w EXCEPT !.d = IrqDis(v.d, {"TXHALF"})]

\* "Transmit register/FIFO is empty or half empty": "Don't move onto the next
\* message until the TX FIFO empties, to ensure that a NAK is not missed."
OnTxEmpty(v) ==
  LET bits == v.pend \cap {"TXEMPTY", "TXHALF"}
      w == [v EXCEPT !.clr = @ \cup bits]
  IN IF v.out \/ bits = {} THEN v
     ELSE IF v.d.i.tx_msg = 0 THEN [w EXCEPT !.out = TRUE]
     ELSE IF TxSpace(v.d) > 0 THEN [w EXCEPT !.d = FillTxFifo(v.d)]
     ELSE IF v.d.i.nmsgs > 1 /\ "TXEMPTY" \in bits
       THEN [w EXCEPT !.d = NextMsg(v.d), !.more = TRUE]
     ELSE [w EXCEPT !.d = IrqDis(v.d, {"TXHALF"})]

\* "IIC bus has transitioned to not busy"
OnBusNotBusy(v) ==
  IF v.out \/ "BNB" \notin v.pend THEN v
  ELSE LET i == v.d.i
           d1 == IrqDis(v.d, {"BNB"})
           d2 == IF i.tx_msg # 0 /\ i.smbus_block_read
                   THEN [d1 EXCEPT !.i.smbus_block_read = FALSE,
                                   !.i.tx_pos = i.msgs[i.tx_msg].len]
                   ELSE d1
           done == i.nmsgs = 1 /\ i.rx_msg = 0 /\ TxSpace(d2) = 0
           w == [v EXCEPT !.d = d2, !.clr = @ \cup {"BNB"}]
       IN IF i.tx_msg = 0 THEN w
          ELSE [w EXCEPT !.wake = TRUE, !.code = IF done THEN "DONE" ELSE "ERROR"]

Handled == OnBusNotBusy(OnTxEmpty(OnRxFull(Handler)))

\* IISR is toggled by the bits written; RX_FULL is not when it was not set.
Toggle(bits, clr) == (bits \ clr) \cup (clr \ bits)

\* Events, then "out:": clear, start the next message, wake the caller up.
IrqEvents ==
  /\ irq = "service"
  /\ ~ ErrorPending \/ ReadDoneEarly
  /\ LET v == Handled
         clr == IF ReadDoneEarly /\ "RXFULL" \notin isr THEN v.clr \ {"RXFULL"} ELSE v.clr
         d1 == [v.d EXCEPT !.h.iisr = Toggle(@, clr)]
         d2 == IF v.more THEN StartMsg(d1) ELSE d1
     IN /\ i2c' = IF v.wake THEN Wakeup(d2.i, v.code) ELSE d2.i
        /\ hw' = d2.h
  /\ Leave
  /\ UNCHANGED <<load, caller, ret, req, count>>

Process == IrqEnter \/ IrqError \/ IrqEvents

Next ==
  \/ \E x \in load.transfers : StartXfer(x) \/ StartXferFails(x)
  \/ StartXferRefused
  \/ WokenUp \/ FinishXfer
  \/ Process
  \/ Core

\* The interrupt thread and a woken caller are scheduled, a handler that has
\* begun ends, the slave answers, the core goes on and raises its interrupts.
\* Nothing makes a timeout or a fault happen, and no caller has to start a transfer.
Fairness ==
  /\ WF_vars(WokenUp) /\ SF_vars(FinishXfer)
  /\ WF_vars(IrqEnter) /\ []<>(irq = "idle")
  /\ WF_vars(HwLevel /\ UNCHANGED <<load, caller, ret, req, count, i2c, irq, isr, ier>>)
  /\ WF_vars(BusSteps /\ UNCHANGED <<load, caller, ret, req, count, i2c, irq, isr, ier>>)

Spec == Init /\ [][Next]_vars
FairSpec == Spec /\ Fairness
-----------------------------------------------------------------------------
(* Properties.                                                              *)

\* Type invariant: message indices, FIFO levels and byte counts of a transfer
\* stay in range.
TypeOK ==
  /\ caller \in {"idle", "wait", "woken", "timedout"}
  /\ ret \in Ret
  /\ load \in Workloads /\ count \in 0 .. load.count
  /\ irq \in {"idle", "service"}
  /\ isr \in SUBSET Interrupts /\ ier \in SUBSET Interrupts
  /\ hw.iisr \in SUBSET Interrupts /\ hw.iier \in SUBSET Interrupts
  /\ hw.cr \in SUBSET {"MSMS", "TX", "NOACK", "RSTA"}
  /\ hw.rfd \in 0 .. DEPTH - 1
  /\ Len(hw.txf) <= DEPTH /\ hw.rxocc \in 0 .. DEPTH
  /\ i2c.tx_msg \in 0 .. Len(i2c.msgs) /\ i2c.rx_msg \in 0 .. Len(i2c.msgs)
  /\ i2c.nmsgs \in Nat /\ i2c.tx_pos \in Nat /\ i2c.rx_pos \in Nat

\* A block read of a slave that answers with L: L + 1 bytes and the PEC if the
\* caller asked for it, or MIN_LEN if the core needs more.
BlockLen(m) == m.len + m.blk
WireLen(m) == IF m.recv THEN MaxOf(MIN_LEN, BlockLen(m)) ELSE m.len

\* The messages of w are shorter than the model counts, and a write that another
\* message follows in dynamic mode fits the TX FIFO behind its address.
Fits(w) ==
  \A x \in w.transfers : \A k \in 1 .. Len(x) :
    /\ WireLen(x[k]) <= MAX_MOVED
    /\ ~ x[k].rd /\ k < Len(x) /\ ~ Standard(x, w.broken) => x[k].len < DEPTH

\* xfer() reports success only if every byte of every message went over the bus
\* and was acknowledged or read into the caller's buffer, a block read had a
\* valid length, and the length the caller sees is that of the block.
StatusTruthful ==
  (caller = "idle" /\ ret = "ok") =>
    \A k \in 1 .. Len(req) :
      /\ hw.moved[k] = WireLen(req[k])
      /\ req[k].rd => i2c.filled[k] = WireLen(req[k])
      /\ req[k].recv => req[k].blk <= BLOCK_MAX
      /\ i2c.msgs[k].len = IF req[k].recv THEN BlockLen(req[k]) ELSE req[k].len

\* The handler never stores more bytes than the buffer of the message holds:
\* its length, or for a block read the BLOCK_MAX + 2 bytes of the i2c core.
BufferBounded ==
  \A k \in 1 .. Len(i2c.filled) :
    i2c.filled[k] <= IF req[k].recv THEN BLOCK_MAX + 2 ELSE req[k].len

\* The handler never works on the messages of a caller that has returned,
\* however late its interrupt comes and whichever step of start_xfer failed.
HandlerOnLiveMessages == (irq = "service" /\ Busy) => caller # "idle"

\* "cannot start a transfer while busy": a caller gets EBUSY only if the bus is
\* busy or another transfer is in progress.
RefusedOnlyWhileBusy ==
  [][(count' # count /\ ret' = "EBUSY") => (caller # "idle" \/ "busy" \in FAULTS)]_vars

\* WARN_ON(xfer_more && wakeup_req)
MoreOrWakeup ==
  (irq = "service" /\ (~ ErrorPending \/ ReadDoneEarly)) => ~ (Handled.more /\ Handled.wake)

\* A woken caller reads the state its own transfer ended with.
WokenBySelf == caller = "woken" => i2c.state # "START" /\ ~ Busy

\* What the core can still do by itself, and the interrupts on which the handler
\* does more than to clear them.
CoreCanGoOn ==
  \/ CanSend
  \/ hw.mode = "rx" /\ (hw.byte = "none" => hw.rxocc <= hw.rfd /\ (hw.dyn => hw.left > 0))
  \/ hw.mode = "stop"
  \/ hw.mode = "hold" /\ ~ hw.dyn /\ hw.cur # 0 /\ "MSMS" \notin hw.cr
Useful ==
  {"ARB", "TXERR", "BNB"}
    \cup (IF i2c.rx_msg # 0 THEN {"RXFULL"}
          ELSE IF TxSpace(Now) > 0 \/ i2c.nmsgs > 1 THEN {"TXEMPTY"} ELSE {})

\* A transfer never hangs until its timeout, whatever the faults: as long as it is
\* not completed, the core has something to do on the bus, or it raises an interrupt
\* that is enabled and that the handler will act on.
NeverHangs ==
  caller = "wait" /\ ~ i2c.completion =>
    CoreCanGoOn \/ Useful \cap hw.iier \cap (hw.iisr \cup LevelSources) # {}

\* Without faults every transfer succeeds without the help of the timeout, but
\* for a block read of a slave that answers with an invalid length.
XferSucceeds ==
  (caller = "wait" /\ FAULTS = {}) ~>
    /\ caller = "idle"
    /\ ret = "ok" \/ \E k \in 1 .. Len(req) : req[k].blk > BLOCK_MAX
=============================================================================
