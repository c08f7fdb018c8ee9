------------------------------- MODULE MCXiic -------------------------------
(* Instances of Xiic.                                                       *)
EXTENDS Xiic, TLC

W(n) == [rd |-> FALSE, recv |-> FALSE, len |-> n, blk |-> 0]
R(n) == [rd |-> TRUE, recv |-> FALSE, len |-> n, blk |-> 0]
\* A block read without (p = 0) or with (p = 1) a PEC byte.
B(n, p) == [rd |-> TRUE, recv |-> TRUE, len |-> 1 + p, blk |-> n]

\* Every read length up to 40 and every block length up to the first invalid
\* one, alone and behind the command byte of an SMBus read.
MCReads ==
  {<<R(n)>> : n \in 1 .. 40} \cup {<<W(1), R(n)>> : n \in {1, 2, 16, 17, 18, 33}}
    \cup {<<W(1), B(n, p)>> : n \in 0 .. BLOCK_MAX + 1, p \in {0, 1}}

\* Writes that fit the TX FIFO and that do not; before another message, such that fit.
MCWrites ==
  {<<W(n)>> : n \in {0, 1, 15, 16, 31, 40}}
    \cup {<<W(15), W(17)>>, <<W(15), R(18)>>, <<R(17), W(15), W(30)>>}
\* In standard mode, also such that do not.
MCLongWrites == {<<W(n), R(2)>> : n \in {15, 16, 31}}

\* Messages on both sides of the FIFO depth, where every fault falls on every byte.
MCDynamic == {<<W(0)>>, <<W(18)>>, <<R(1)>>, <<R(18)>>, <<W(1), W(2)>>, <<R(2), W(1)>>}
MCStandard ==
  {<<R(1)>>, <<R(18)>>, <<W(1), R(2)>>, <<R(1), R(2)>>, <<W(17), R(1)>>,
   <<W(1), B(0, 0)>>, <<W(1), B(3, 1)>>, <<W(1), B(17, 0)>>, <<W(1), B(33, 0)>>}

MCLoad(x, n, f, b) ==
  [transfers |-> x, count |-> n, faults |-> f, broken |-> b]

MCTransfers ==
  {MCLoad(MCReads \cup MCWrites, 1, {}, FALSE),
   MCLoad(MCReads \cup MCLongWrites, 1, {}, TRUE),
   MCLoad(MCDynamic, 2, Fault, FALSE), MCLoad(MCStandard, 2, Fault, TRUE)}

\* A write that does not fit the TX FIFO, with another message behind it.
MCLongWrite == {MCLoad({<<W(18), W(1)>>}, 1, {"nack"}, FALSE)}

MCFailingReset == {MCLoad({<<R(1)>>, <<W(1), W(2)>>}, 2, {"reinit"}, FALSE)}

\* What the theorems of XiicStatusProofs ask of the messages holds of this instance.
ASSUME TransfersFit == \A w \in MCTransfers : Fits(w)
=============================================================================
