------------------------------ MODULE MasterIrq ------------------------------
(***************************************************************************)
(* How an I2C controller finds its interrupt and its mux: the interrupt and  *)
(* mux tables of platform/*.c, nh_fpga_resolve_master_irq_clk() and           *)
(* configure_mux_support().  Both go by the controller's CSR offset, which    *)
(* user space gives with NEW_DEVICE.                                         *)
(***************************************************************************)
EXTENDS Integers, Sequences

\* i2c_csr_base and i2c_csr_channel_size, equal on every platform, and equal to
\* NH_FPGA_I2C_BLOCK_BASE and NH_FPGA_I2C_MASTER_STRIDE.
CsrBase == 262144
CsrSize == 512

Domain(ier_offset, first_master, last_master, first_hw_irq) ==
  [ier_offset |-> ier_offset, first_master |-> first_master,
   last_master |-> last_master, first_hw_irq |-> first_hw_irq]

\* One MSI vector for n onboard masters, and one for each 32 port masters.
Onboard(ier_offset, n) == <<Domain(ier_offset, 0, n - 1, 8)>>
WithPorts(ier_offset, n) ==
  Onboard(ier_offset, n) \o
    <<Domain(ier_offset + 8, n, n + 31, 0), Domain(ier_offset + 16, n + 32, n + 63, 0)>>

cf2_domains == Onboard(32, 11)
m4061nhp_domains == WithPorts(520, 5)
m4062nhp_fpga0_domains == WithPorts(368, 4)
m4062nhp_fpga1_domains == WithPorts(368, 10)
m4340nhp_domains == WithPorts(520, 7)

\* irq_cfg by platform.
Domains ==
  [cf2 |-> cf2_domains, m4061nhp |-> m4061nhp_domains,
   m4062nhp_fpga0 |-> m4062nhp_fpga0_domains,
   m4062nhp_fpga1 |-> m4062nhp_fpga1_domains, m4340nhp |-> m4340nhp_domains]

I2cPlatforms == DOMAIN Domains

\* { logical_master, num_channels, reg_offset }
MuxRow(logical_master, num_channels, reg_offset) ==
  [logical_master |-> logical_master, num_channels |-> num_channels, reg_offset |-> reg_offset]

cf2_mux == {MuxRow(0, 5, 24)}
m4061nhp_mux == {MuxRow(0, 4, 16), MuxRow(1, 4, 20), MuxRow(3, 4, 24), MuxRow(4, 4, 28)}
m4062nhp_fpga0_mux == {MuxRow(0, 4, 16)}
m4062nhp_fpga1_mux == {MuxRow(7, 4, 16), MuxRow(8, 4, 20)}
m4340nhp_mux == {MuxRow(0, 4, 16), MuxRow(1, 4, 20), MuxRow(2, 3, 24), MuxRow(3, 4, 28)}

\* mux_cfg by platform.
MuxTable ==
  [cf2 |-> cf2_mux, m4061nhp |-> m4061nhp_mux, m4062nhp_fpga0 |-> m4062nhp_fpga0_mux,
   m4062nhp_fpga1 |-> m4062nhp_fpga1_mux, m4340nhp |-> m4340nhp_mux]

\* The division truncates: an offset inside a window belongs to its master.
MasterIndex(csr_offset) == (csr_offset - CsrBase) \div CsrSize
Window(m) == CsrBase + CsrSize * m .. CsrBase + CsrSize * m + CsrSize - 1

Serves(dom, m) == dom.first_master <= m /\ m <= dom.last_master

\* hw_irq is a u8.
HwIrq(dom, m) == (dom.first_hw_irq + (m - dom.first_master)) % 256

NoIrq == <<>>

\* nh_fpga_resolve_master_irq_clk() for the domains ds: the first that serves
\* the master decides, -ENOENT if none does.
Resolve(ds, csr_offset) ==
  LET m == MasterIndex(csr_offset)
      hit == {i \in DOMAIN ds : Serves(ds[i], m)}
  IN  IF csr_offset < CsrBase \/ hit = {} THEN NoIrq
      ELSE LET i == CHOOSE i \in hit : \A j \in hit : i <= j IN <<i, HwIrq(ds[i], m)>>

\* configure_mux_support(): a misaligned controller has no mux.
MuxRowsOf(p, csr_offset) ==
  IF csr_offset < CsrBase \/ (csr_offset - CsrBase) % CsrSize # 0 THEN {}
  ELSE {r \in MuxTable[p] : r.logical_master = MasterIndex(csr_offset)}
-----------------------------------------------------------------------------
\* What a table must satisfy: domains do not overlap, and the interrupt of each
\* master has a bit in its domain's 32-bit registers.
DomainOK(dom) ==
  /\ dom.first_master \in Nat /\ dom.last_master \in Nat /\ dom.first_hw_irq \in Nat
  /\ dom.first_hw_irq + (dom.last_master - dom.first_master) <= 31

\* The tables of the present platforms satisfy it; every master from 0 to the
\* last has an interrupt; vectors have registers of their own.
ASSUME IrqTablesOK ==
  \A p \in I2cPlatforms :
    LET ds == Domains[p] IN
      /\ \A i \in DOMAIN ds : DomainOK(ds[i]) /\ ds[i].first_master <= ds[i].last_master
      /\ ds[1].first_master = 0
      /\ \A i \in DOMAIN ds \ {1} :
           /\ ds[i].first_master = ds[i - 1].last_master + 1
           /\ ds[i].ier_offset >= ds[i - 1].ier_offset + 8

\* A mux belongs to an onboard master and has a register of its own, which is
\* no interrupt register; there is at most one for each master.
ASSUME MuxTablesOK ==
  \A p \in I2cPlatforms :
    \A r \in MuxTable[p] :
      /\ Serves(Domains[p][1], r.logical_master)
      /\ r.num_channels \in 1 .. 8
      /\ \A i \in DOMAIN Domains[p] : r.reg_offset - Domains[p][i].ier_offset \notin {0, 4}
      /\ \A q \in MuxTable[p] \ {r} :
           q.logical_master # r.logical_master /\ q.reg_offset # r.reg_offset
=============================================================================
