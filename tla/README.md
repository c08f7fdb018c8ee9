# Formal models of the Nexthop FBOSS BSP kernel modules

TLA+ specifications, TLC configurations and TLAPS proofs for the kernel modules
in `src/kmods/`: the PCI driver that exposes a switch's FPGAs to FBOSS
(`fbiob_pci`), the drivers of the FPGA's sub-devices (I2C controllers and
muxes, LEDs, fans, transceiver control, PSUs, sensors) and the backported Xilinx
I2C controller driver.

## 1. The system

An FPGA is a PCI function. `fbiob_pci` binds to it and creates a character
device; the platform manager in user space opens it and creates *auxiliary
devices* (name, id, register offset) with ioctls. The sub-drivers bind to these.
An I2C controller is three drivers deep: the shim `nh_fpga_i2c` creates a
platform device, `bp4f_i2c_xiic` binds to that and registers an I2C adapter, the
shim's bus notifier reacts with an `fpga-mux` client, `nh_fpga_mux` binds to it
and registers a child adapter for each channel.

| Component | State | Operations | How it interacts | What makes it correct |
|---|---|---|---|---|
| `fbiob_pci` (`nh_fpga_fbiob_main.c`, `nh_fpga_aux.c`) | minor bitmap, per FPGA: devres stack, cdev, `/dev` node, mutex, list of auxiliary devices | PCI probe, remove, open, release, `NEW_DEVICE`, `DEL_DEVICE`, module load and unload | driver core, auxiliary bus, user threads | minors are unique and do not leak; list and bus agree; no device outlives its FPGA; teardown order |
| AXI IIC driver (`backports/bp4f_i2c_xiic.c`) | message pointers and positions, mode flags, completion, the core's registers and FIFOs | `xfer`, threaded interrupt handler, reset | one caller (adapter lock), interrupt thread, the core and the bus | a transfer reports success exactly when every byte moved; buffers are not overrun; no transfer is answered by another's completion; the adapter stays usable |
| `nh_fpga_mux` | global list of muxes and its lock, channel adapters | probe, remove, select, `nh_fpga_mux_channel_xfer()` | sibling drivers (PSU), direct users of a channel, i2c core locks | transfers only on live channels and with the right channel selected; no deadlock |
| I2C shim (`nh_fpga_i2c_main.c`) | `pdev`, `mux_client`, `master_bus_num`, compat links in sysfs | probe, remove, bus notifier | xiic and mux drivers and the i2c core call it back inside its own calls | links point at live adapters; a mux client is unregistered once; nothing is left after removal |
| Status and port LEDs (`nh_fpga_led_core_main.c`, `nh_fpga_port_led_main.c`, `nh_fpga_led_trigger.c`) | shared LED registers, the FPGA's `led_reg_lock` | `brightness_set`, `blink_set`, trigger attribute | LED core work items, sysfs writers | no lost update; at most one color of a port |
| Platform descriptors (`platform/*.c`) | constant tables | lookup by PCI device id | every sub-driver | no two LEDs on one bit; every announced port covered |
| IRQ (`nh_fpga_irq.c`) | regmap-irq chips | set-up, resolution of a controller's interrupt | PCI probe, shim probe | each master gets its own interrupt |
| Fans (`nh_fpga_fan_main.c`) | PWM and LED registers, lock, LED class devices | hwmon reads and writes, LED store | LED core works | register and class devices agree |
| Transceiver control (`nh_xcvr_ctrl_main.c`) | reset and low-power bits of all ports in shared registers, one lock for all ports, low-power shadows, driver data, attribute files | probe, unbinding, shows and stores | user threads inside the files while the driver core unbinds | no lost update; polarity; one bit per signal; callbacks find their data |
| PSU, info, ASIC temperature | driver data, attribute files or hwmon device | probe, remove, shows | the same; PSU firmware through `nh_fpga_mux_channel_xfer()` | callbacks find their data; unbinding ends |
| scripts, packaging, udev | – | module loading and removal | `rmmod` | – |

The hard behaviour is in the interleavings: ioctls against removal, interrupt
handler against timeout, a notifier that is called inside calls of the driver it
belongs to, unbinding of one of three stacked drivers in any order, LED works
against each other, an attribute in use while its device is unbound. `PROJECT.json` lists each hazard with its line.

## 2. The modules

| Module | Models |
|---|---|
| `Fbiob` | `fbiob_pci`: probe, remove, unwinding, devres, files, ioctls |
| `AuxRegistry` | the abstract promise of `fbiob_pci`: a registry of names on attached FPGAs |
| `FbiobProofs` | theorems about `Fbiob` and `AuxRegistry` |
| `Xiic` | the transfer engine of `bp4f_i2c_xiic` with the core and the bus |
| `FpgaMux` | `nh_fpga_mux` with a sibling caller and direct users |
| `I2cShim` | `nh_fpga_i2c` against the i2c core, xiic and mux being bound and unbound |
| `SharedLeds` | the read-modify-writes of status and port LEDs |
| `AtomicLeds` | the abstract promise of the LED drivers: single LEDs change in one step |
| `FanLeds` | the LEDs of the fan trays: probe, `fanN_led`, the class devices' works on one register |
| `FanProofs` | theorems about `FanLeds` and about what `FanCards` computes |
| `SubDrivers` | the drivers that are attributes of an auxiliary device: info, transceiver control, ASIC temperature, PSU |
| `XcvrSignals` | the abstract promise of the transceiver driver: a store sets its signal and no other |
| `I2cShimProofs`, `XiicProofs` | theorems about the module each is named for |
| `XiicStatusProofs` | theorems about what `Xiic` reports to its caller, and that no transfer hangs |
| `FpgaMuxProofs`, `SharedLedsProofs`, `SubDriverProofs` | theorems about the module each is named for, and about the tables it takes its constants from: `MasterIrq`, `PlatformLeds`, `PlatformXcvrs` |
| `MasterIrq` | a controller's interrupt and mux by CSR offset, with the tables of every platform |
| `PlatformLeds` | the LED tables and their lookup |
| `PlatformXcvrs` | the transceiver and PSU tables, their lookup, the permutations of m4062nhp |
| `FanCards` | the fan tables and what presence, duty cycle, speed and label compute from registers |
| `PlatformTables` | the tables of one FPGA together: which register is changed under which lock |
| `MC*` | constants and overrides of the runs |

### Fbiob
One control point per FPGA for its driver-core thread, one per user thread for
its ioctl. A step is the code between two points at which others can see or
change shared state: each failing call of probe is an action with a failing
branch, the unwinding and `remove` share their tail, `devres` is a stack that
the driver core pops when probe fails or remove returns. The per-FPGA mutex is
explicit; `auxiliary_device_add()` and the list are separate steps under it.
`HOT_UNBIND` chooses whether a bound FPGA may be unbound through sysfs or
unplugged; if not, only `rmmod` unbinds, which an open file prevents
(`.owner = THIS_MODULE`). A thread whose file outlives its FPGA is marked
`dangling` and not followed further: what it reads is arbitrary.

### Xiic
The caller and the interrupt thread share `i2c` under its mutex; because both
hold it for their whole critical section, a critical section is one step, except
that the handler takes its snapshot of the interrupt registers in one step and
works on it in the next while the core goes on. `hw` is the core: FIFOs,
interrupt registers, the master's engine. It is external and rests on these
assumptions: the level interrupts (FIFO empty, half empty, receive watermark)
latch again as long as the level holds; bus-not-busy is an edge; a byte leaves
the transmit FIFO when it is acknowledged; a NACK flushes the transmit FIFO; the
NACK of the last byte of a read raises the transmit error together with that
byte while RX_FULL may lag; whether a byte is acknowledged is decided when it
starts; the receiver is held above its watermark; what is written to a full
transmit FIFO is lost. Data bytes are counted, not represented; the only data that
matters is the length byte of a block read. `WorkloadsOK` says what callers may
submit: reads of at least one byte, and block reads as the SMBus emulation of the
i2c core builds them, the last message, with room for the length byte and the PEC.

### FpgaMux
Control points of the mux's driver-core thread and of each caller; the list
lock, the bus lock and the references that `i2c_del_adapter()` waits for are
explicit. `Direct` callers model `i2c-dev` users, which hold a reference from
the time they open the adapter; a `Sibling` reaches it through
`nh_fpga_mux_channel_xfer()`.

### I2cShim
Three threads: one each binds and unbinds the shim, xiic and the mux driver. The
i2c core's calls into the notifier (adapter and client added and removed) are
separate steps in the order in which the core makes them, nested inside the
call that caused them. A client id is fresh for each client, so that a stale
pointer is visible. xiic is bound and unbound at any time, so that its thread may
hold the platform device's lock, and run the notifier, while the shim probes or
removes itself. The history variable `order` remembers that this has happened: from
then on a freed client may be unregistered (`i2c_shim_race`), the bookkeeping that
follows is anybody's guess, and the invariants of the bookkeeping are stated up to
that point. `RemoveEnds` is not: it claims the end of a removal in every overlap, and
only leaves out what follows once a freed client was unregistered.

### SharedLeds
Each LED class device has a work item of the LED core, which takes the latest
stored brightness, and each status LED has a thread in `blink_set`. Registers
are sets of bits; reading and writing one are separate steps. The layouts are
constants; the LEDs may be lit or blink when the class devices are registered, and
the LED core then reads its values from the registers. The one thing that is assumed
of the registers is that no port comes with both colors lit: the driver clears the
other color only when it sets one. `MCSharedLeds` takes that of m4340nhp from `PlatformLeds` and adds
one with the two colors in two registers, the design `nh_fpga_port_led.h`
describes and no present table uses. `LayoutApart` is what a layout must satisfy:
no LED's bits are another's, but for the two colors of a port.
The tables of every platform satisfy it (`PlatformLedsApart`).

### FanLeds
All trays share one register and one mutex. Probe, storing threads and one work
item for each LED class device are *setters*: each takes the lock, reads and
writes, as separate steps, with the bits to set and clear in `arg`. `led_set()`
clears the sibling when it lights a color; a store sets both bits itself and
then leaves a value to each of the two class devices (`SyncGood`, `SyncFail`),
which their works apply later. Probe first exposes `fanN_led`, then clears the
bits, then registers the class devices; a store in between is possible. The trays
come as the power-up or an earlier binding has left them. A class device that cannot
be registered ends probe, and devres takes all away; that is teardown, which the
module leaves out as it does the unbinding.
`asked` is a history variable: what the last stores that overlap asked of a tray.

### SubDrivers
One control point per device for the driver core, one per thread for the
attribute it is in. The four drivers differ in the order in which probe gets
the structure, the files and the driver data (`ProbeOrder`), in whether remove
clears the driver data (`ClearsData`), and in whether the callback reads the
pointer of the auxiliary device or that of a hwmon device (`HasData`). Unbinding
is remove, then devres: the files are deactivated, wait for those inside, and
only then is the memory freed. A transceiver store takes the one lock and reads
in one step and writes in the next, on a register that several ports share.
A thread that finds no driver data used a NULL pointer and stays in its callback
(`oops`), so that the device is never freed: `UnbindEnds` excepts the devices that
have such a thread, and no others.

### Tables
`MasterIrq`, `PlatformLeds`, `PlatformXcvrs` and `FanCards` have no behaviour,
only lookups, arithmetic and the tables of every platform in closed form.
Assumptions say what the tables must satisfy; TLC evaluates them in the runs
`fpga_mux`, `shared_leds` and `sub_drivers`.

* `IrqTablesOK`, `MuxTablesOK`: the interrupt domains of a platform follow each
  other without gap or overlap, each interrupt has its bit in a 32-bit register,
  each mux has an onboard master and a register of its own. The interrupt lookup
  truncates the CSR offset to a master index, the mux lookup refuses a misaligned
  one. The instance of `fpga_mux` takes its largest mux from these tables.
* `TablesDisjoint`, `TablesComplete`: no two LEDs at one bit, every announced port
  has one. They are about the LED types that a platform lists: probe would also take
  `mgmt_qsfp_led` on m4340nhp and m4061nhp, whose zeroed entry makes its blink bit
  that of the PSU LED's color.
* `XcvrTablesOK`, `PermutationsOK`: each id is in one group and each signal at a
  bit of its own; the ids served are those the comments announce; the two
  tables of m4062nhp that rename ids are permutations. `PsuTablesOK`: presence
  bit and mux channel of a PSU belong to the same slot, and the mux has it.
* `FanTablesOK`, `RpmOK`, `ChannelsOK`, `PwmOK`: the fields of the trays are
  apart; no period the counter can hold reads as a stopped fan; the label
  of a hwmon channel names the rotor that the channel reads; a duty cycle reads
  back and leaves the limit above it alone.
* `LocksApart`: the LED, transceiver and fan drivers change registers of one FPGA
  under three locks, and no register under two.

## 3. The runs

| Run | Instance | Shows |
|---|---|---|
| `fbiob_rmmod` | 2 FPGAs, 2 threads, 1 name, 2 minors, unbinding by rmmod | invariants of minors, lists, devres, files; ioctls return; refinement of `AuxRegistry` |
| `fbiob_hot` | 2 FPGAs, 1 thread, 1 name, 1 minor, hot unbinding | types; minors running out; a removal ends |
| `fbiob_orphan` | 1 FPGA, 2 threads, hot unbinding | **violated**: a device is left behind |
| `xiic_transfers` | FIFO depth 16; every read of 1 to 40 bytes, every block read, alone and behind a command, and writes on both sides of the FIFO depth, without faults; two transfers in a row of up to two messages with NACK, lost arbitration, busy bus, timeout, failing reset; both modes | success with the right number of bytes, truthful status, no overrun, no stale pointer, no stale completion, no transfer that nobody goes on with |
| `xiic_wedge` | two transfers, failing resets only | **violated**: the adapter refuses transfers for ever |
| `fpga_mux` | a mux of 5 channels, a sibling and a direct user | transfers on live, selected channels; no deadlock; removals and calls end |
| `i2c_shim` | 2 channels, 2 bus numbers, 3 client ids, 1 failing call | the bookkeeping survives every order of binding and unbinding until the shim and xiic are at work at once; a remove ends whatever the other two threads do meanwhile |
| `i2c_shim_race` | the same, no failing call | **violated**: a freed client is unregistered |
| `shared_leds` | 1 status LED, 2 colors of a port, lit or dark at first, 3 stores, 2 layouts | no lost update, one color at a time |
| `fan_leds` | 2 trays, 2 threads, 2 stores to `fanN_led` or a class device | one color at a time, no lost update, no wrong color stays, all comes to rest |
| `sub_drivers` | 2 devices of 3 pairs of drivers, 2 threads, 2 ports at one register | callbacks of a bound device find their data; signals are set one at a time; unbinding ends |
| `xiic_long_write` | a write of 18 bytes in dynamic mode with another message behind it, NACK | **violated**: success although a byte was refused |

**Bounds.** Two FPGAs and two threads are the least with which minors and names
are contended and an ioctl meets a removal or another ioctl; `fbiob_orphan`
adds a second name, so that one is on the list while another is created. With
hot unbinding two FPGAs leave room for one thread only; `TypeCorrect` and
`MinorsCorrect` are proved for any number. A third thread adds nothing that two do
not: only one holds a mutex and all waiters are alike. In `Xiic` everything depends on
the FIFO depth, which is the real one. The lengths without faults reach both
sides of one and two fillings of the FIFO and of the largest block; with faults
the messages are just below and above one filling, so that every fault can fall
on every byte. Two transfers in a row (`count`) are enough because what one
leaves behind can only harm the next; `MAX_MOVED` is above every message length.
In dynamic mode a write with another message behind it fits the FIFO in
`xiic_transfers`, since the longer ones are those of `xiic_long_write`.
Five channels are the largest mux of a present platform and one more than the
old two-bit select field could address. `MAX_FAULTS` is 1 in `I2cShim`: one
failing call between successful ones. Three stores let every LED of `SharedLeds`
be set while the works of the others run, or one be set again while its first work
does, and the registers start in every state a port may have. In `FanLeds` two stores with
their four works already overlap each other, probe and the other tray; one
thread with three stores shows the same. In `SubDrivers` the pairs are those that
share something: two transceivers a register, a lock and the callbacks of the
other, info and PSU or temperature and PSU the threads. One port has no low-power
pin and an inverted reset, which the driver provides for and no present table
sets, so that every path of the stores occurs.

**Fairness.** A thread inside the kernel goes on (weak fairness of each step), a
mutex is handed over in the end (strong fairness of taking it; kernel mutexes
hand off to a waiter), work items and interrupt threads are scheduled (in `FanLeds`, where the number
of stores is bounded, that something goes on while anything can is enough), the
other end of the bus answers; in `Xiic` the core also latches its interrupts,
however busy the bus is. Nothing obliges anyone to bind, unbind, open,
call or fail, and no timeout has to happen. Deadlock is checked except where the
bound on transfers or stores stops a run (`xiic_*`, `shared_leds`, `fan_*`), and
in `sub_drivers`, where a thread that used a NULL pointer stays where it is.
In `SubDrivers` devres goes on once it began, and a thread inside an attribute gets
the lock in the end; `UnbindEnds` needs no more, since a thread holds the lock for
one read and write and an I2C transfer ends after its timeout.

## 4. What the checks found

* **`fbiob_orphan`.** `nh_fpga_pci_remove()` empties the list once and then
  works without the lock. With a file open during a sysfs unbind or an unplug,
  `NEW_DEVICE` can still add a device, which is never removed and whose parent
  is freed.
* **`xiic_wedge`.** `xiic_start_xfer()` returns the error of its last reset with
  `tx_msg` set; every later transfer gets `-EBUSY`.
* **`i2c_shim_race`.** `nh_fpga_i2c_remove()` reads `mux_client` and
  unregisters it while an unbind of xiic may unregister the same client.
* **`xiic_long_write`.** The handler waits for an empty FIFO before it moves on
  to the next message, "to ensure that a NAK is not missed". The TX_EMPTY it tests
  may be an old one: it is latched while the handler, called for TX_HALF, refills
  the FIFO. The next message then starts with bytes of the last one still queued,
  its start clears the error of a refused byte, and `xfer()` reports success.

Met while modelling, without a run: `fbiob-ioctl.h:82` calls `id` "the controller
instance ID within the FPGA", but the auxiliary bus name makes it one of the
system, so that `NEW_DEVICE` may get `EEXIST` for an id that only another FPGA
uses (`NewAdd` of `Fbiob`; `AuxRegistry` promises no more). `fanN_led` is exposed
before probe clears the default that `nh_fpga_fan_main.c:1084` says is cleared
first, and before the class devices it updates are registered. The sync of
`fanN_led` with the class devices runs through works in either order: after "good"
and then "fail" a work that took "on" for the good LED before the second store may
write after the work of the fail LED and clear the fail bit, its next run clears the
good bit, and the tray stays dark; the opposite color never stays
(`WrongColorNeverStays`). A long dynamic write before a read may leave the FIFO so
full that the read's length entry is lost; the read then ends in the timeout.

`nh_fpga_info_remove()` clears the driver data "to prevent further access"
(`nh_fpga_info.c:132`) while its files are still there: an access in that window
is not prevented but dereferences NULL. The info and transceiver drivers also add
their files before they set the driver data, so that a read during probe finds none.
`CallbacksFindData` excepts these two cases, both in the model, and says that there is
no other: a device that is bound has its data.

`m4062nhp_fpga1.c:117` and `:132` call the fan LED bits active-low; `led_set()`
lights a color by setting its bit, on every platform. The `inner_tach` and
`outer_tach` fields of `fanN_status` are always 0, since no table sets the masks.

## 5. What is proved

`FbiobProofs`, for every number of FPGAs, threads, names and
minors; the only assumptions are `ConstantsOK` of `Fbiob` and, where it is said,
`HOT_UNBIND = FALSE`.

* `TypeCorrect`, `MinorsCorrect` and `BarOutlivesChipsCorrect` hold with hot
  unbinding. `MinorsExact` is inductive with the type invariant.
  `BarOutlivesChips` follows from `DevresInv`: the stack is a prefix of the
  order in which probe acquires, and the control point determines its depth.
* `ServiceCorrect` is the inductive invariant without hot unbinding.
  `ListsMatchBus` and `NoOrphans` are not inductive: between the bus and the
  list a device is in the hand of a thread. `BusInv` says that the bus holds
  exactly the listed, the taken and the in-hand names, `LockInv` that only the
  holder of the mutex has one in hand, `FileInv` that no file is open on an FPGA
  that is not bound, and `RemoveInv` that a removal has no competitor.
  `ListsCorrect`, `NoOrphansCorrect` and `FilesCorrect` follow.
* `RefinementCorrect` shows that every step of `Fbiob` is a step of
  `AuxRegistry` or a stutter; `device_create()` attaches, `device_destroy()`
  detaches, and it is `BusInv` and `RemoveInv` that make detaching possible.
* `RegistryCorrect` is what a client gets from the registry: devices on attached
  FPGAs only, one device to a name. `DevicesCorrect` says it of `Fbiob`, through
  the refinement.

The service invariant fails with hot unbinding, as `fbiob_orphan` shows.

`FanProofs`, for every number of trays, threads and stores, from `ActorsOK`:

* `FanTypeCorrect`, `OneColorCorrect` and `NoLostUpdateCorrect`. `OneColor` is
  not inductive: a setter between its read and its write holds an old value.
  `LocalInv` says that it is not old, because the mutex keeps all others from
  writing; `RequestInv` that what a setter was asked to do never sets two colors
  of a tray, nor one without clearing the other.
* `WrongColorCorrect`: when all has come to rest, a tray that was asked for one
  color does not show the other. The property speaks of the end, the invariant of
  the way there: `DarkInv` says that the color that was not asked for is dark or
  that somebody will still clear it, a store that has not yet written, a class
  device to which the store will leave its value, or a pending work. `StoreInv`,
  `WorkInv` and `BoundInv` say what each of these holds in hand.

The same module on the sensors of `FanCards`, for every register value, period, duty
cycle and channel:

* `FieldCorrect` is the driver's access to a masked field of any register, and
  `DutyCycleCorrect` its use in `pwmN`.
* `RpmCorrect` is about `nh_fpga_fan_tach_to_rpm()` on every card. TLC cannot
  evaluate the 60000000000 of the code, so that `TachToRpm` divides both numbers by 80;
  the theorem shows that the quotient is that of the code, that it fits 32 bits, that
  a fan that turns is never shown as stopped, and that a longer period never gives a
  higher speed.
* `ChannelCorrect` and `LabelsCorrect`: a channel reads what its label names, and the
  labels of a card are distinct and name exactly the trays of its table. TLC evaluates
  `ChannelsOK` with chosen registers; the theorems hold for all.

`FpgaMuxProofs`, for every number of muxes, channels and callers, from `MuxesOK`:

* `FpgaMuxTypeCorrect`, `ListedMuxCorrect`, `LiveChannelCorrect` and
  `ChannelSelectedCorrect`. That a transfer is on a live channel is not inductive:
  between its search and its transfer a sibling relies on the list lock, which
  keeps the mux on the list, a direct user on its reference. `MuxInv` says that a
  mux is listed from the end of its probe to the beginning of its removal and
  complete all that time; `CallerInv` that who holds what, and that the channel
  wanted exists from the moment the bus is asked for; `BusInv` that the parent bus
  belongs to who has selected, so that the select register is his.

`SharedLedsProofs`, for every set of LEDs and every layout, from `LayoutOK` and
`LayoutApart`:

* `SharedLedsTypeCorrect`, `PortExclusiveCorrect`, `CacheCorrect` and
  `AtomicCorrect`, the refinement of `AtomicLeds`. `LocalInv` says that what a
  setter has read of the bits it will write is still what the register holds,
  because of the lock; with it a write is exactly the change of one LED. Two
  colors in two registers are written one after the other: the other color is
  cleared first, which is why `PortExclusive` holds between the two writes.

`SubDriverProofs`, for every number of devices and threads, from `PortsOK`:

* `SubDriverTypeCorrect` and `CallbacksFindDataCorrect`. The invariant relates
  control point, progress of probe, what is held and whether the pointer is set
  (`DevInv`), and says that a thread is inside files that exist (`CallInv`).
* `SignalsCorrect`, the refinement of `XcvrSignals`. A store takes effect at its
  write; that the write changes no other signal needs that nobody wrote the
  register since the read, and that no two signals share a bit. For the tables of
  the repository the second is `PlatformSignalsApart` below.

The tables, in `FpgaMuxProofs`, `SubDriverProofs` and `SharedLedsProofs`, for every table
of domains, muxes or port groups and for the LED tables of every platform:

* `IrqsNotShared`: if the domains do not overlap and fit their registers, two
  controllers that get the same interrupt lie in the same window. It is not "at
  the same offset": the lookup truncates. `MuxesNotShared` is about the same
  offset, since the mux lookup refuses a misaligned one.
* `SlotSignalsApart`: if the groups of a table are apart (`TableOK`), no two
  signals of two slots are at the same bit. `PlatformSignalsApart` says it of ids
  on the platforms of the repository, through the permutation where there is one.
  It cites the assumptions that TLC has evaluated on the tables.
* `PlatformLedsApart`: the tables of every platform of the repository place the core
  and port LEDs as `LayoutApart` of `SharedLeds` asks, so that what is proved of every
  such layout holds of the platforms. It follows from `TablesDisjoint`, which compares
  the bits of the tables but does not say what a setter relies on: one register per
  LED, and that the bit a port LED clears is that of its own other color.

`I2cShimProofs`, for every number of channels, bus numbers, clients and failing
calls, from `ShimOK`; all but the types speak of a behaviour up to the first overlap
of the shim's operations with those of xiic (`order`), beyond which lies the race that
`i2c_shim_race` shows:

* `I2cShimTypeCorrect`, `NoFreedClientCorrect`, `LinksLiveCorrect`,
  `TreeCompleteCorrect` and `NothingLeftCorrect`. `PcInv` says that of the two
  threads that register and delete the master adapter only one is at work, and xiic
  only below a bound shim; `LockInv` who holds the device locks; `TreeInv` that a
  device exists only below its parent; `MuxInv` when the channels exist; `ClientInv`
  what the shim knows of its client, `LinkInv` of its links, at every point inside
  the nested calls; `CompleteInv` that nothing is missing once all are at rest.
  All hold while `order` is "apart", to which it never returns (`OrderStep`).

`XiicProofs`, for every FIFO depth from 2, block size and set of workloads, with
every fault, from `SizesOK` and `WorkloadsOK`:

* `BufferCorrect`: no byte is stored beyond the end of a buffer. The bytes stored
  are bounded by the position, the position by the length, and the length, which a
  block read rewrites up to twice, by the buffer (`DeviceOK`). The length byte is
  the slave's; `BlockReadKeeps` goes through every answer.
* `XiicTypeCorrect`: indices, positions and FIFO levels stay in range (`CoreOK`).
* `LiveMessagesCorrect` and `WokenCorrect`: `OwnerInv` says that messages without a
  caller are those of a failed start, with all interrupts disabled; `EndInv` that a
  transfer is completed after its messages are forgotten. `Quiet`, the transmit
  interrupts are off during a read, is what keeps one call of the handler from
  starting two messages.

`XiicStatusProofs` extends it with `ProgressInv`, which accounts for every byte, and
proves `StatusCorrect`, `MoreOrWakeupCorrect` and `NeverHangsCorrect`:

* The messages before the current one are delivered, those behind it untouched
  (`Around`). The current one is in a stage: `Writing`, where the bytes moved and
  those in the TX FIFO add up to the transmit position as long as no NAK has come;
  `ReadingOn`, where the address is queued, was refused, bytes arrive or all have
  arrived; or `Over`. In standard mode `Window` is the reason why the threshold works:
  the core stops at `RX_FULL` before it begins the last byte without NOACK.
* The handler works on a snapshot of the interrupts that may be old. `SeenInv` says
  what an old snapshot may lack: without `TX_ERROR` in it there is no end of the bus
  cycle in it either, unless the last message has been sent. `ReadingOn` and `Writing`
  survive whatever the core does between the snapshot and the service.
* `DoneInv` carries the result to the caller: a completion with `STATE_DONE` means
  that all messages are delivered and the core is at rest, so a late interrupt finds
  nothing to spoil (`HandledIdle`).
* `NeverHangs` is the safety half of `XferSucceeds`: whatever the faults, a transfer
  that is not completed has a next step of the core, or an interrupt that is pending,
  enabled and acted on. `GoingInv` says for each stage why. In `WritingGoes` the
  address can be sent as it is queued, the bus is owned behind it, and the last entry
  asks for the STOP; in `ReadingGoes` the interrupts of the read are enabled, and in
  standard mode `MSMS` is set until the last byte is fetched; `OverGoes` is the time
  between the last byte and the STOP; `Armed` says that a lost arbitration is always
  reported. `FreshGoes` is what the start of the next message finds behind a repeated
  START. That the step is eventually taken is liveness and stays with TLC.
* The hypothesis `Fits(load)` says that a write which another message follows in
  dynamic mode is shorter than the TX FIFO, and that no message exceeds the model's
  counter. Without the first the first two theorems are false; `xiic_long_write` is
  the counterexample. `TransfersFit` of `MCXiic` has TLC evaluate the hypothesis on the
  workloads of `xiic_transfers`.

The helpers of the driver are functions on the pair of device and core, and most
lemmas say what one of them preserves of such a pair.

Only model-checked: the facts about the present tables that have no parameter, such
as `LocksApart`, whose evaluation by TLC is complete, and all liveness, which the
prover does not handle. `TypeOK` of `SubDrivers` and `SharedLeds` is only proved.
Every invariant and every refinement that a passing run checks is the subject of a
theorem, `StatusTruthful`, `MoreOrWakeup` and `NeverHangs` for messages that fit.

## 6. Not modelled

Clock set-up, runtime power management and register endianness of xiic, its
standard-mode transfers that end in a write, zero-length reads; names and
formatting, so also the version texts; the notifier chain's own lock;
unregistering of LED class devices and of the fan card, the fan card's type;
the interrupt chips one by one and the kernel's handling of an interrupt; the
fields of the ASIC temperature registers; values the hardware gives (presence,
versions, temperatures), which are read in one access and kept nowhere; scripts
and packaging.

## 7. Plan

1. Teardown of the LEDs, also after a failed registration: the trigger's "Stop blinking" and pending works in
   `SharedLeds`; the devres order of hwmon and class devices in `FanLeds`.
2. Standard-mode transfers of xiic that end in a write; the LED types with a zeroed
   entry.
