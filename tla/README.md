# Verification of the Moxa x86 drivers

The repository holds Linux drivers and small tools for Moxa's x86 computers:
two serial drivers (`mxser`, `mxu11x0`), the super-I/O access functions and the
watchdog on top of them, and a dozen drivers of one register each. This
directory models the parts whose correctness depends on the order of events:
threads, interrupt handlers, URB callbacks and timers that share a buffer, a
flag or a chip. TLC checks the models on small instances, TLAPS proves the
central invariants for every instance.

Every definition carries the name of the function it stands for; `PROJECT.json`
maps it to its lines. Names of the form `<Action><Something>` marked "Variant"
in a comment are deliberately wrong versions of the action after them: no
specification uses them, each shows that a property notices such a change.

## 1. Inventory

| Part | State | Operations | Interacts with | What is hard |
|---|---|---|---|---|
| `mxu11x0` transmit | circular buffer, write URB, `mxp_write_urb_in_use` | write, send, completion callback, drain, close, break | tty core, USB core | three critical sections per put; send from two contexts; a flag cleared without the lock |
| `mxu11x0` open, close, receive | read URB state, interrupt URB, open count | open with unwinding, close, throttle, unthrottle, callbacks | tty core, USB core | submission outside the lock; kill against resubmission; failure half-way |
| `mxu11x0` modem status | counters, `mxp_msr_wait_flags` | interrupt, `TIOCMIWAIT` | tty core | one flag for all waiting threads |
| `mxu11x0` line settings | shadow MCR, UART mode, break flag | set_termios, tiocmset, `MOXA_SET_INTERFACE`, `TIOCSSERIAL`, break | adapter | SET_CONFIG changes the modem lines as a side effect; settings copied without a lock; commands and opens that fail |
| `mxser` data path | transmit ring, `x_char`, IER, event bits | write, put_char, flush, stop/start, throttle, interrupt handler, work item | tty core, UART | memcpy and flow tests outside the lock; wake-ups; registers that clear on read |
| `mxser` port life | count, blocked_open, flags, `info->tty` | open, block_til_ready, close, hangup, modem interrupt | tty core, UART | opens that sleep while others close or hang up |
| `mxser` settings | termios, `info->flags`, IER, LCR, `hw_stopped`, counters | set_termios, `TIOCMIWAIT`, `TIOCMGET`, `MOXA_ASPP_MON`, `TIOCSSERIAL`, `TIOCSSOFTCAR`, break | tty core, handler | MSR clears on read and is read in five places; words changed outside the lock; a sleep between two writes of one register |
| `mxupcie` | as `mxser`, UART memory instead of ports | as `mxser`, a break made of a divisor of 0 on RS-485 | tty core, UART | as `mxser`; a block copy that must not run past the ring; an interface looked up again after a sleep; a divisor that is not always written back |
| `moxa_v2100_superio` | index/data port, `superio_lock`, `flags` | read, write | watchdog, DIO, UART mode | one global variable keeps every caller's interrupt state |
| `moxa_v2100_wdt` | status bits, timer byte, two parameters writable in sysfs | open, write, ioctl, release, reboot, load, sysfs | superio | bits set and cleared one at a time around open and release; parameters that change, unchecked, while the device is open |
| `moxa_x86_dio`, `moxa_pled`, `v2400a_epm3438` | port byte, `do_state` | ioctl, write | each other, through one port | read-modify-write without a common lock |
| `moxa_da820_uartmode`, `moxa_v2200_uart` | mode register | ioctl | superio | the same; a second register (automatic direction) follows the first; numbers of the request that are not checked |
| `moxa_v2616A_hotswap`, `mxhtspd` | LED and button register, activity samples, timer | ioctl, timer, daemon loop | each other | two disks, one LED, two tables of flags; removal against a timer that re-arms itself |
| `moxa_IRIG-B` and tools | `TimeStatus`, interrupt mask, timer | ioctl, handler or poll, remove | PCI | a mask read, changed and written back; failures half-way through probe; removal against handler, timer and ioctl |
| power, relay, reset, dkcontrol drivers | one register | ioctl | | nothing beyond the above |
| `qmi_wwan`, `r8168`, `v2400a_epm3112`, `ifenslave` | third-party | | | not this project's logic |
| `muestty_utility` and command line tools | none | one ioctl, or screens | drivers | user interface |

`PROJECT.json` lists the same parts, with what is left out and why, and the
hazards of each at its line.

## 2. Modules

| Module | Models | Runs |
|---|---|---|
| `CircBuf` | `mxu1_buf_*` and the `CIRC_*` macros | through `Mxu1Write` |
| `Mxu1Write` | transmit path of `mxu11x0.c` | `mxu1_write`, `mxu1_write_live`, `mxu1_drain` |
| `Mxu1Write_proofs` | theorems of `Mxu1Write` | |
| `Mxu1Read` | open, close, receive path, interrupt URB | `mxu1_port` |
| `Mxu1Msr` | `TIOCMIWAIT` against `mxu1_handle_new_msr` | `mxu1_port` |
| `Mxu1Modem` | line configuration and modem control | `mxu1_port` |
| `Mxu1Read_proofs` | theorems of `Mxu1Read`, `Mxu1Msr` and `Mxu1Modem` | |
| `MxserXmit`, `MC_MxserXmit` | data path of `mxser.c` | `mxser_xmit`, `mxser_live` |
| `MxserXmit_proofs` | theorems of `MxserXmit` | |
| `MxserPort` | open, close, hang-up, carrier of `mxser.c` | `mxser_port` |
| `MxserLines` | settings, modem status, break of `mxser.c` | `mxser_port`, `mxser_iwait` |
| `MxserPort_proofs` | theorems of `MxserPort` and `MxserLines` | |
| `MxupcieXmit`, `MC_MxupcieXmit` | data path and break of `mxupcie.c` | `mxupcie_xmit` |
| `MxupcieXmit_proofs` | theorems of `MxupcieXmit` | |
| `SuperioRegs` | abstract: registers read and written atomically | |
| `Superio` | `superio_read`/`superio_write` port access by port access; implements `SuperioRegs` | `v2100` |
| `Superio_proofs` | its theorems | |
| `Wdt`, `Wdt_proofs` | the watchdog driver and its theorems | `v2100` |
| `BoardPorts` | the drivers that change bits of one register: DIO, LEDs, slots, power, relay, UART mode | `boards` |
| `Hotswap` | hot-swap driver and `mxhtspd` | `boards`, `hotswap_led` |
| `IrigB` | IRIG-B card driver | `boards` |
| `Boards_proofs` | theorems of `BoardPorts`, `Hotswap` and `IrigB` | |

`MC_Mxu1Port`, `MC_MxserPort`, `MC_V2100` and `MC_Boards` each put components
that share no state (of one port, one board family) into one run: Init chooses
the component a behaviour exercises, the others stay in one start state. The
states of such a run are the union of its components' states, not their
product, and every component is checked as if alone.

### How the models are cut

A step of a model ends where another actor can see or change something: at a
release of a lock, between a test outside a lock and the action it guards, at
every port access of `superio`, at every bit operation of the watchdog. What
lies between is one action. Calls made inside a handler (the flush at the end
of a drain, the send at the end of a callback, the work item an interrupt
schedules) are part of the action or the next label of the same actor, never
an independent event.

*`Mxu1Write`.* `pc[a]` is where a writer or the callback stands in
`mxu1_write` -> `mxu1_buf_put` -> `mxu1_send`; `ctl` where the thread in open,
close or break stands. `active` is the host controller's ownership of the URB,
`inUse` the driver's flag. Bytes are numbered in the order they are accepted;
`devq` is the adapter's FIFO, `sent` the line. `lost` collects bytes of failed
transfers and flushes. `stalled` records a failed submission, after which
nobody resends (the code's own "TODO: reschedule mxu1_send"). `OutputLock`
says whether the tty core serialises writers: the runs have it. Types,
ownership of the URB, no silent stall and a quiet close are proved with and
without it; room, bounds and the order of the bytes assume it, because without
it two writers compute their chunks from the same head.

*`Mxu1Read`.* `rstate` is RUNNING/STOPPING/STOPPED, `rpc` the callback between
its status switch and its locked exit, `tpc` a thread in `mxu1_restart_read`
between the lock and the submission. Init has RUNNING because the structure is
zeroed and RUNNING is 0. `rreject`/`ireject` model `usb_kill_urb`: submissions
fail while it waits.

*`Mxu1Msr`.* Counters per line, the flag, and each thread at its copy, its
wait, or outside.

*`Mxu1Modem`.* `devMode`, `devBreak` and `devMcr` are in the adapter,
`uartMode`, `sendBreak` and `shadow` in the driver. `mxu1_set_termios` is four
steps: the settings are copied into the command (`config`; an allocation that
fails ends the call here), SET_CONFIG is sent, the modem control is written, and
recorded in the shadow. An open can fail before the configuration, which leaves
the shadow raised, or after it, which leaves the adapter configured. `failed` is
history: an allocation or a command failed.

*`MxserXmit`.* The ring, the UART (transmit FIFO, THRI enabled, interrupt
pending), the receiver side (RTS, receive interrupts, `x_char`), and a label
for each of the writer, stop/start, throttle/unthrottle, flush, the handler and
the work item. Three chips: 16450, 16550A, Moxa. The handler's passes are
modelled with the lock dropped around the push of received data. The flush's
read of the interrupt identification finds nothing pending, or takes the
transmitter's interrupt, or reports another one and leaves the transmitter's.

*`MxserPort`.* `kernel = "sleep"` are kernels whose big lock is dropped while a
thread sleeps, `"call"` those that hold `tty_lock` for the whole call. A label
per wait of open and close; `isr` the handler between its unlocked test of
`info->tty` and its lock. CLOCAL changes through `mxser_set_termios`, which tells
the handler (`ASYNC_CHECK_CD`, IER), or through `TIOCSSOFTCAR`, which does not;
`untold` is history: the second happened since the settings were last applied.
`present` is a configured port at whose address a UART answers; without it open
sets the error flag, before or after it has a ring.

*`MxserLines`.* The port is open and always has bytes to send. `tios` is
`tty->termios`, `asyncFlags`, `IER` and `LCR` what `mxser_change_speed` made of
it; `setter` is the thread in `mxser_set_termios`, which leaves the lock before
it clears `hw_stopped`. A change of any flag kept in `tios`, IXON included
(`RELEVANT_IFLAG`), reaches `mxser_change_speed`. `input` and `deltas` are MSR;
every read clears the deltas, whoever makes it. `rmw` is a caller that changes a
word outside the lock by a load and a store: `TIOCSSERIAL` `info->flags`,
`TIOCSSOFTCAR` and, twice in a row, the special baud rate `c_cflag`. `cast` says which other callers a behaviour has.
`lost` is history: an unlocked caller wrote back a word that had changed since
it was read.

*`MxupcieXmit`.* As `MxserXmit`, with the UART's FIFO (`fifo`) as memory that a
block is copied to, its enable bit, the divisor (`runs`), `FORCE_TX` and the break bit.
`rate` says that `info->speed` is one `mx_set_baud` writes a divisor for (`SetBaud`:
not B0, not above the UART's maximum). `pc.brk` is a thread asleep in a break. `hist` records a flush or a break that
destroyed data, one that took the transmitter interrupt, and a change of the
interface during a break.

*`Superio`.* Each CPU runs a thread and, for `IrqCpus`, a handler on top of
it. Spinning is a disabled `Lock`. The refinement mapping gives `SuperioRegs`
the same registers; a read takes place when the data port is read, a write when
it is written.

*`BoardPorts`.* One register per board as a set of bits that are 1. A driver
call is a record: which bits it replaces by what, and how (`direct`: read,
modify, write; `fresh` and `cached`: through the copy the driver keeps; `blind`:
written whole), under a mutex or not, and what follows. The boards differ in
the calls they have. The UART drivers also get requests for a mode or a port
there is not (`odd`): the DA-820's checks neither number and sets whatever bit it
finds past its table, the V2200's refuses only an unknown mode of an unknown port.
MC-1100 and DA-720 appear in that source but in no build of its Makefile. `phist.want` is what the register should hold if every
call had been atomic, `phist.raced` that two calls of which one takes no lock
overlapped.

*`Hotswap`.* The driver's sample per disk and its busy flag, the daemon's table
`info` and its place in the main loop, the LED of the V2616A (`lamp`). What the
timer samples for disk 2 is the register that tells whether it is plugged
(`Register`; 0x2A0), so that pulling it counts as activity; for disk 1 it is
another register. `hlog.moved` is history: the disks whose sampled register may
have changed since the last tick.
`IdleTicks`, the pass and check counters are scaled down.

*`IrigB`.* INTSTS, INTMSK and `TimeStatus` as sets of (source, event); the
handler between its reads and its write of the mask; probe and remove step by
step, each resource in `held`; `ilog` records accesses after the unmapping. The
write of `irigb_remove` that should mask the interrupts goes to byte 20 of the
registers, since `vaddr` is a `void *` there, and leaves the mask as it is.
`ioremap` is assumed to succeed.

*`Wdt`.* `pc[p]` stands between the single bit operations of open, write and
release; the counter is the byte in the chip (`Byte` values, `Truncated`);
`asked[p]` is history: the last write of `p` that the driver examined held a 'V'.
`off` records a stop by `WDIOS_DISABLECARD` or a reboot. Both parameters may be
written in sysfs at any time, with any value: `raw` says that `timeout` came from
there, `unchecked` that the timer was last loaded from such a value, `switched`
that `nowayout` changed since the device was opened.

## 3. Runs

With two workers the longest runs (`mxser_xmit`, `boards`, `mxupcie_xmit`,
`mxser_port`, `mxu1_port`: 0.4 to 4 million states) take about a minute,
the others seconds.

| Run | Instance | Shows |
|---|---|---|
| `mxu1_write` | buffer 4, URB 2, requests to 4, 5 bytes, one writer | order and exactly-once, one owner of the URB, no silent stall, bounds of an unlocked memcpy, room promised is room given, a closed port is quiet |
| `mxu1_write_live` | buffer 2, URB 1, 3 bytes | buffered data moves; close and break return |
| `mxu1_drain` | buffer 4, 2 bytes | **violated**: the drain ends with bytes still in the URB |
| `mxu1_port` | two restarting threads; 2 lines, 2 threads in `TIOCMIWAIT`, 2 changes each; models 1110, 1130, 1150, one caller | one user of the read URB, no lost read, closed is quiet, open and close return; no change missed, the ioctl returns; adapter equal to the record |
| `mxser_xmit` | ring 4, FIFO 2, wake-up below 2, 4 bytes, three chips, and in each behaviour one stop of output, one flush (not on the 16550A) or one stop of reception (two on the Moxa UART) | ring contents and counters, no stall, no lost wake-up, receiver released |
| `mxser_live` | ring 2, FIFO 1 | queued bytes leave |
| `mxser_port` | 2 interchangeable processes (a symmetry set), both kinds of kernel, one failed board; 2 formats, 2 changes of CTS and DCD, one or two other callers beside set_termios | the count, port up exactly for its users, carrier and close wake sleepers; output held exactly while CTS says so, byte format and break as asked |
| `mxser_iwait` | 2 changes, one thread | **violated**: a counted change is slept through |
| `mxupcie_xmit` | ring 4, FIFO 2, wake-up below 2, 5 bytes (4 in a behaviour with a break); one stop, CTS drop, flush or throttle, or a break with a flush, a change of speed (to one that can be set or not) or of the interface | bytes in order, no stall, no lost wake-up, a break ends with the transmitter running if the speed can be set |
| `v2100` | 2 CPUs, one with a handler, 2 devices, 1 register, 2 values; 2 processes, range 3..7 in a byte of 8, timeouts 2, 7 and 8 by ioctl, parameter and sysfs | interrupt state restored, refinement of atomic registers, calls return; watchdog armed while open unless sysfs gave the time, stopped only on request |
| `boards` | 11 boards, 2 callers, 3 calls, one of them odd; 2 disks, 2 events; 2 sources, 5 events | transceivers in one mode for sound requests, foreign bits kept, calls that do not overlap lose nothing; the LED means a warning or a change of a sampled register; a source that goes off is noticed, probe and remove give everything back |
| `hotswap_led` | 2 disks, 3 events | **violated**: a warning for disk 1 does not light the LED |

Type invariants are not listed; every inductive invariant of section 4 has the
types among its conjuncts.

Why these bounds are enough to be interesting: a buffer of 4 with requests of 4
wraps, fills, and is emptied while a put is between its sections; a URB (or
FIFO) smaller than the buffer makes several transfers necessary; 5 bytes (4
in `mxser_xmit`, whose ring holds 3) reuse slots. Two restarting threads are the most the tty core allows (unthrottle and
set_termios). Two processes suffice for count errors, because the count
distinguishes none, one and several. Two changes of the modem inputs let one
be pending and one arrive in the window between a read of MSR and its use. The watchdog's range is
scaled to a byte of 8 values, with timeouts just below, at the end of and just
beyond the range (8 is loaded as 0). Three calls let two overlap and a third
find what they left. The budgets of `mxser_xmit` and `mxupcie_xmit` bound
how often a disturbance happens, not when; a behaviour has one or two kinds of
them, since more multiply the states beyond reach.

Deadlock is checked in `v2100`, whose components never stop; elsewhere byte or
event bounds, or an unplugged adapter, end every behaviour.

### Fairness

- Threads inside a driver call, callbacks and work items keep running: the
  scheduler and the USB core guarantee it. Nobody is forced to open, write,
  throttle, stop, fail or unplug.
- The host controller finishes every transfer it was given and gives back a
  killed one; `usb_kill_urb` relies on it.
- The adapter or UART transmits (`Transmit`, `UartSend`); flow control that
  never ends is excluded in the property (`<>[](~stopped /\ ~hwStopped)`).
- Timed waits (`mxu1_drain`, `TIOCMIWAIT`) end.
- `v2100`: a CPU goes on with what it runs and handlers return; `SF(Lock)`
  stands for the kernel's fair (ticket or queued) spin locks.

## 4. Proofs

Every safety property a passing run checks is also proved, for every value of
the constants. The runs show the properties on
small instances and that mutants of the code break them; the proofs remove the
bounds on sizes, threads and numbers of events.

*`Mxu1Write_proofs`.* `TypeCorrect` and `UrbExclusive` (`[]UrbOwnership`): for
every buffer and URB size and any set of writers. Ownership alone is not
inductive: it needs the types (with `ChunkFits`: a writer never advances by more
than it has left) and `WritersOut` (no thread is in `mxu1_write` while the port
closes, so the reset of the flag at the end of `mxu1_close` meets nobody about to
submit). `QuietInv` adds that the buffer stays empty from the flush in
`mxu1_drain` to the next open (`Flushed`) and that a closed port has no transfer
and no callback (`UrbAtRest`): `NoSilentStallHolds`, `ClosedQuietly`. With
`OutputLock` there is one writer at a time (`OneWriter`), and what it found free
is still free when it copies and counts (`RoomInv`): `PutInBounds`, and the action
property `RoomIsHonoured`. `ByteInv` then says which byte every slot holds
(`SlotInv`), what a put has copied and not counted yet (`CopyInv`), and that line,
adapter, URB and buffer continue one another except for the bytes in `lost`
(`FlowInv`): `FifoHolds`, no byte twice, none out of order, none missing without
a failure or a flush.

*`Mxu1Read_proofs`.* `ReadUrbCorrect`, `ReadingCorrect` and `ClosedCorrect`:
`Spec => []ReadUrbSingle`, `[]RunningReads` and `[]ClosedIsQuiet` for any set of
threads in `mxu1_restart_read`. The inductive invariant adds the types,
`OpenInv` (`mxp_is_open` and the open count follow the thread in open or close;
only an open port has a thread about to submit), `QuietInv` (before `mxu1_open`
submits the read URB and after `mxu1_close` has killed it nobody has it; without
it the submission in `mxu1_open` could meet a second user) and `RunningReads`
extended to the moment before the port is marked open. `NoChangeMissedHolds` is
about `TIOCMIWAIT`, for any lines and waiting threads; it needs `CopiedInv`, that
the copy of the counters is the one the call started with. `AdapterAgreesHolds`
assumes `OneThread`, because `mxu1_set_termios` copies the settings, and
`mxu1_tiocmset` reads the shadow, outside any lock (section 5). Its invariant says
that the copy about to be sent is what is recorded (`CopyInv`), that a setting that
was not sent has a thread on its way to send it (`SentInv`), and that the value a
thread is about to record is in the register (`LinesInv`).

*`MxserXmit_proofs`.* `ReceiverCorrect` from `RxInv`, which says what a throttled
port has switched off on each chip. `SizeInv`: `xmit_cnt` is the distance from
tail to head (`Distance`), and room found outside the lock is still there when
the chunk is copied and counted (`RoomInv`). `CtlInv` is about the interrupt: it
is latched or taken only with an empty FIFO (`IntInv`), and while bytes are
queued and output is not held it is enabled and on its way, or a thread is about
to toggle it (`StallInv`): `NoStallHolds`. `WakeInv` is about a writer on its way
to sleep: `NoLostWakeupHolds`. `ByteInv` (`SlotInv`, `CopyInv`, `FifoInv`: which
bytes the ring, the copy outside the lock and the FIFO hold) holds until a flush
hits a copy (`torn`): `RingHoldsAlways`.

*`MxserPort_proofs`.* `CountHolds`, `PortFollowsHolds`, `CarrierHolds` and
`OrphanHolds`, for any set of processes. `PortInv` says who holds the tty core's
lock (`LockInv`), that each counter is the size of the set of processes it counts
(`CountInv`; this is where finite-set theorems are used), that a close that wakes
nobody has nobody to wake (`OrphanInv`), and, on kernels that hold the lock for a
whole call, what the one thread inside has set up or taken down at each of its
steps (`CallInv`). `CarrierHolds` has the exception of its property: after
`TIOCSSOFTCAR` the handler's flag does not follow CLOCAL. `MxserLines`: `FormatCorrect`, for any formats, callers and
number of input changes. `FormatKept` alone says nothing of a `set_termios` under
way: `FormatInv` adds that until it applies the new settings LCR has the old
format or already the new one, and `BreakInv` that a set break bit has a caller
inside the break. `FlowCorrect`: `FlagInv`, `HeldInv`, `HaltInv` and `RunInv` say
of every disagreement between CTS, `ASYNC_CTS_FLOW`, `hw_stopped` and IER which
thread is about to end it.

*`MxupcieXmit_proofs`.* The same four parts for the PCIe UART: `PciInv` (sizes and
types), `CtlInv` for `NoStallHolds`, `WakeInv` for `NoLostWakeupHolds`, `ByteInv`
for `BytesInOrderHolds`. The handler copies a block that may wrap, so `SlotInv`
is needed for every slot at once; the FIFO has to be on, which only a
flush or the end of a break changes. `BreakInv`: without a break under way its
registers are as before it, the divisor as far as the speed can be set, and a
break of an RS-232 port uses the break bit alone; hence `BreakEndsHolds`.

*`Superio_proofs`.* `IInv` = types, `Exclusion` (whoever is at the ports holds
the lock), `Selected` (the device and register the chip has selected are those
of the holder's call, as far as it has written them), `Kept` (`flags` is the
state the holder saved; a thread or handler in a call has interrupts off, and a
thread in a call is not under a handler), `IrqStateRestored`. From it: `TypeCorrect`, `FlagsSuffice` (one
global `flags` variable restores every caller's interrupt state although all
callers write it, because it is only written with the lock held), and
`Refinement`: `Spec => AtomicRegisters`, each port access being a step of
`SuperioRegs` or a stutter. For any CPUs, handlers, devices, registers, values.

*`Wdt_proofs`.* The inductive invariant ties `WDT_IN_USE` to the one process
between taking and clearing it, a registered device to a timeout that is in range
or came from sysfs (`raw`), the timer's byte to it (`unchecked`), and
`WDT_OK_TO_CLOSE` to the last examined write of the process in the driver.
`TypeCorrect`, `SingleOwner`, `Armed`, `MagicClose`; that a failed load leaves
nothing registered (`NoDangling`) is one of its conjuncts. `RearmLoads` is the lemma
that an accepted timeout is not cut to 0 by the byte; it uses the assumption
that the largest accepted timeout is the largest byte (`WdtAssumption`; 255 in
the driver).

*`Boards_proofs`.* `OffNoticedHolds` and `RemoveIsCleanHolds` for any sources:
`IrigInv` says what the driver holds at each step of probe and remove
(`HeldInv`), when the handler and the timer may run (`ActiveInv`, `StrayInv`), that
the handler works on the mask that is in the register (`MaskInv`), and that a
polled card has one status per source (`OneStatus`). `LedHolds` for any disks:
`SlotInv` ties the busy flag to the ticks since the last activity (`BusyInv`), a
register that differs from its sample to an event since (`MovedInv`), and gives the LED its reason half-way through a pass (`LitInv`). `BoardPorts`, for any
number of processes and calls: `CallShape` says of the calls of all eleven boards
which bits they replace and how (`WellMade`). `PortSaneHolds` needs `SaneInv`: what
a driver is about to write, and the copy it may be built in, is as sane as the
port; the one-mode part is claimed while no odd request was made, the V2200's
"never two modes" whatever was requested. `NoLostUpdateHolds`: calls that take the mutex never race (`MutexInv`);
without a race the only call between its read and its write has what is still in
the port (`FreshInv`; for the V2403, whose copy leads the port, `CacheInv`), and a
UART that a single call configures agrees with auto direction and `keep_opmode`
up to the steps that call has yet to take (`ModeInv`).

The assumptions on constants are the `ASSUME`s of the modules: sizes are positive
naturals, the marker values are no actors, the watchdog's range fits its byte.
`OutputLock` and `OneThread` are stated in the theorems that use them.

Model-checked only: everything about liveness and fairness (`DataMoves`,
`CtlReturns`, `IwaitReturns`, `CallsReturn`, what `mxser_live` checks), which is
out of the prover's reach, and the three properties that the code violates.

## 5. What disagrees with the code's own words

Three runs show a disagreement:

- `mxu1_drain`: "wait for data to drain from the buffer" and "from the device"
  (mxu11x0.c:2516, 2540) skip the URB between the two; a close can kill the
  last transfer.
- `mxser_iwait`: "Wait for any of the 4 modem inputs (DCD,RI,DSR,CTS) to change"
  (mxser.c:2280) sleeps without comparing the counters it noted "on entry".
- `hotswap_led`: "When one of the disk usage full, we should turn the LED on"
  (mxhtspd.c:303) looks at disk 2 only.

Met while modelling; the properties are stated so that they do not claim more
than the code gives:

- in `mxu11x0`, "no change => error" (mxu11x0.c:1461) is also reached after a
  change of a line outside the mask, because the wait flag is raised once; and
  the write callback reads `urb->status` after releasing the URB (2008);
- a read error other than EPIPE leaves RUNNING with no URB, and nothing restarts
  it before the next open (mxu11x0.c:1943);
- `MOXA_SET_INTERFACE` does not update what `TIOCGSERIAL` reports (1488);
- two concurrent callers of tiocmset and set_termios can leave the shadow and
  the adapter different (1762), and a late SET_CONFIG restores a mode or a break
  that was changed since it was copied (1597, 1667); `mxu1_port` has one caller;
- `mxser_startrx` can clear an `x_char` whose XOFF has already gone out, so no
  XON follows (mxser.c:2705);
- a flush writes back, as FIFO control, the value it read from the same address,
  which is the interrupt identification: a pending interrupt is lost and the
  FIFO may be switched off (2038); `lostInt` marks the case;
- a flush between a writer's memcpy and its update breaks the order (2032);
  `torn` marks the case;
- the test for a closing port is compiled out (3552), so on kernels that drop the
  big lock an open during close gets a port that is shut down under it:
  `PortFollowsUsers` is stated for `kernel = "call"`;
- a blocked open holds `tty_lock` (3661): closes wait for it;
- a second user that sets CLOCAL takes the carrier wake-up away from a sleeper,
  and after `TIOCSSOFTCAR` cleared CLOCAL (2244) the next open waits for a carrier
  the handler was not told to announce: `untold` marks the case;
- the watchdog's parameter text allows a timeout of 2, which the tests refuse
  (moxa_v2100_wdt.c:342, 405), and then init returns 0 without a device, and exit
  deregisters one that was never registered (387);
- `timeout` and `nowayout` are writable in sysfs (404, 406) and examined by nobody:
  a timeout of 256 there loads 0 at the next keepalive and stops the timer of an
  open device; `nowayout` switched on after a 'V' does not keep the close from
  stopping it, and later writes no longer take the 'V' back (269). `unchecked` and
  `switched` mark the cases;
- release clears `WDT_IN_USE` before `WDT_OK_TO_CLOSE` (181): the next user's 'V'
  in between is forgotten. A keepalive after the reboot notifier re-arms the
  timer (304).
- `mxser`: `MOXA_ASPP_MON` applies an MSR it read outside the lock (2418), and
  `TIOCSSERIAL` and `TIOCSSOFTCAR` write back flags they read outside it (4233,
  2244): `lost` marks the case. `mxser_change_speed` reads MSR for CTS and so
  discards a pending change of DCD (3986). The special baud rate changes `c_cflag`
  outside the lock as well (2164). A divisor is computed from a speed that is tested afterwards
  (4107), and `custom_divisor` is not tested (4245).
- `mxupcie`: the end of an RS-485 break writes FCR without its enable bit
  (3578), so the FIFO is off until the next change of speed; a change of the
  interface during a break leaves the divisor 0 (3264), and so does an RS-485
  break at B0 or at a speed above the maximum, for which `mx_set_baud` returns
  before it writes one (3053, 3090); a receiver without room
  sets `TTY_THROTTLED` and leaves its interrupt enabled (2279); a flush takes
  the transmitter interrupt as in `mxser` (1412).
- boards: overlapping unlocked calls undo each other; loading `moxa_pled` writes
  the whole port, outputs included, although a write keeps "the DO0 and DO1
  status" (moxa-pled.c:118); copies that start as a constant make the first call
  set the other outputs; on MC-7100 and MC-7200 `IOCTL_GET_DOUT` for all outputs
  returns a copy nobody updates; the V2200's range test joins its conditions with
  `&& port > 1` (moxa-device-uart.c:78), so a port above 1 is accepted, and an
  unknown mode of the first two leaves the UART without any; the DA-820's ioctl
  checks neither number (moxa_uart8250_mode.c:183); on DA-682B `moxa_pled` changes
  the port behind `do_state`, which `IOCTL_GET_DOUT` answers from.
- hot swap: disk 2 starts with the sample of another register (main.c:277, 221),
  and the one that is sampled is its plug register, so that pulling it lights the
  LED; an idle disk 2 switches the LED of a busy disk 1 off (mxhtspd.c:106);
  unloading unmaps before it deletes the timer (302); `led_last_warn` is set in
  one entry and tested in another (mxhtspd.c:312, 315); a forced check waits
  longer than the "10s" of its comment (262); a button held while a disk is
  inserted still runs the script one pass later (139).
- IRIG-B: probe returns 0 when `misc_register` or `pci_enable_device` fails, so
  the PCI core holds a device without resources; MSI stays enabled when
  `request_irq` fails; removal masks nothing (454: byte 20 instead of word 20),
  does not wait for a running poll (457), and an open file outlives it.

## 6. Not modelled

- Baud divisors, MCR, DTR, stop bits and the other fields of termios;
  `MOXA_SET_OP_MODE` and the special control ioctls of `mxser` and `mxupcie`,
  which read or set one value; received bytes in `mxupcie`; its terminators.
- Open, close, hang-up and settings of `mxupcie`: the same code as `mxser`'s under
  other names.
- Firmware download and registration of `mxu11x0`; loading and unloading of
  `mxser` and `mxupcie`; unloading of the hot-swap driver.
- `v2400a_epm3438`: its outputs follow the V2403 protocol of `BoardPorts`.
- Memory: use of a freed or null pointer is not a state of any model. `MxserPort`
  reads `info->tty` and the event bits in one step of the work item; `IrigB`
  records accesses to unmapped registers.
- The tty core and the USB core are external; what is assumed of them is said at
  the actions marked external: no write and no restart overlaps the final
  close, writers are serialised, a killed URB cannot be submitted.
- Third-party drivers (`r8168`, `qmi_wwan`, the CAN drivers: most of the
  lines under `src/`) and user interfaces: not this project's logic.

## 7. Plan

Done: the transmit path first, because data can be lost there in most ways; then
receive, open and close; `mxser`; the register functions everybody shares and the
watchdog; then the settings of `mxser`, `mxupcie`, and the boards. Next:

1. Theorems of what the code gives beyond the runs' properties, such as the
   adapter's agreement with the shadow under two threads, up to the window in
   `mxu1_tiocmset`.
2. `mxupcie` open, close and settings, if they come to differ from `mxser`.
3. `mxu11x0` start-up: firmware download, registration and its unwinding.
4. Load and unload of `mxser` and `mxupcie` against an interrupt line they share.
