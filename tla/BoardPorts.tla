----------------------------- MODULE BoardPorts -----------------------------
(***************************************************************************)
(* The drivers that change single bits of a byte-wide port other bits and  *)
(* other drivers live in too: the digital outputs (src/modules/            *)
(* moxa_x86_dio, v2400a_epm3438), the programmable LEDs (moxa_pled), slot  *)
(* and USB power (moxa_v2403_minipciepower, v2400a_dkcontrol,              *)
(* moxa_da820_usb_power, moxa_v2616A_minipcie_reset), the relay            *)
(* (moxa_da681a_relay), the disk LEDs (moxa_v2616A_hotswap) and the UART   *)
(* modes (moxa_da820_uartmode, moxa_v2200_uart).  Each call reads a byte,  *)
(* changes its bits and writes the byte back, one step per access to the   *)
(* port or to the driver's own copy; only two drivers take a mutex.        *)
(*                                                                         *)
(* A byte is the set of its bits that are 1.  A behaviour is about one     *)
(* board.                                                                  *)
(***************************************************************************)
EXTENDS Integers

CONSTANTS
    PortProcs,    \* processes that call the drivers
    MaxPortCalls, \* bound: calls in a behaviour
    MaxOddCalls,  \* bound: those with a mode or a port there is not
    NoProc        \* the holder of a free mutex

ASSUME PortAssumption ==
    NoProc \notin PortProcs /\ MaxPortCalls \in Nat /\ MaxOddCalls \in Nat

VARIABLES
    board,        \* the board
    port,         \* the port
    keep,         \* the driver's copies: do_state, DOUT[i].do_state,
                  \* do_state_keep, keep_opmode
    autodir,      \* UARTs whose auto-direction bit is set in the super-I/O
    mutex,        \* mx_usb_power_sem, mx_usb_gpio_sem
    caller,       \* per process: where it is, its request, its local byte
    pled,         \* moxa_pled: absent, registered, ready
    pcalls,       \* calls so far
    phist         \* history: the value last given to each bit, whether a
                  \* byte was written between another call's read and write,
                  \* whether a call without the mutex was made, the bits that
                  \* were given a value, how many requests for a mode or a port
                  \* there is not a UART driver let through

portVars == <<board, port, keep, autodir, mutex, caller, pled, pcalls, phist>>

-----------------------------------------------------------------------------
(* The boards. *)

Uarts == {"com1", "com2"}
UartModes == {"RS232", "RS485", "RS422"}
ModeBits(u) == {<<u, m>> : m \in UartModes}

\* The bits of each board's port; "other" stands for those no driver means
\* to change.
PortBits(b) ==
    CASE b = "DA682B" -> {"do0", "led", "other"}
      [] b \in {"V2403", "MC7100"} -> {"do0", "do1"}
      [] b = "V2201" -> {"led", "slot", "other"}
      [] b = "V2400A" -> {"slot", "other"}
      [] b \in {"DA820USB", "V2616A"} -> {"front", "rear", "other"}
      [] b = "V2416A" -> {"led1", "led2", "other"}
      [] b = "DA681A" -> {"relay"}
      [] b \in {"DA820", "V2200"} -> UNION {ModeBits(u) : u \in Uarts}

UartBoards == {"DA820", "V2200"}
PortBoards == UartBoards \cup {"DA682B", "V2403", "MC7100", "V2201", "V2400A", 
                               "DA820USB", "V2616A", "V2416A", "DA681A"}

-----------------------------------------------------------------------------
(* The calls, and the way each driver carries one out. *)

\* A call replaces the bits of mask by those of set.  how: "direct", the byte
\* is read from the port and written back; "fresh", it goes through the
\* driver's copy on the way; "cached", it is taken from the copy and the port
\* is not read; "blind", nothing is read.  What follows the write is in next.
\* A UART driver switches the auto direction of dir on or off; odd: the request
\* names a mode or a port there is not.
UartRequest(mask, set, dir, on, odd) ==
    [mask |-> mask, set |-> set, how |-> "direct", copy |-> "all",
     locked |-> FALSE, ofPled |-> FALSE, next |-> "idle",
     dir |-> dir, on |-> on, odd |-> odd]
Request(mask, set) == UartRequest(mask, set, "none", FALSE, FALSE)

SetsOneBit(bits) ==
    {r \in {Request({x}, s) : x \in bits, s \in SUBSET bits} : r.set \subseteq r.mask}

\* DA-682B: do_num is 8, so the LED's bit is a digital output too.
DA_682B_DO_dio_outb == {[r EXCEPT !.how = "fresh"] : r \in SetsOneBit({"do0", "led"})}

\* V2403, and likewise V2400A, V2416A, V2616A, V2201, DA-820 and EPM-3438.
V2403_dio_outb == {[r EXCEPT !.how = "cached"] : r \in SetsOneBit({"do0", "do1"})}

\* MC-7100 and MC-7200: a copy for each output.
MC_7130_MP_dio_outb ==
    {[r EXCEPT !.how = "fresh", !.copy = CHOOSE x \in r.mask : TRUE] :
        r \in SetsOneBit({"do0", "do1"})}

pled_write == {[r EXCEPT !.ofPled = TRUE] : r \in SetsOneBit({"led"})}

\* The V2201's slot power, an ioctl of moxa_pled.
pled_slot_ioctl == {[r EXCEPT !.ofPled = TRUE] : r \in SetsOneBit({"slot"})}

\* Slot power of the V2403: for the numbers 3 and 4, which the test lets
\* through, the byte is written back as it was.
power_control_ioctl == {Request({}, {})} \cup SetsOneBit({"slot"})

\* Slot power of the V2400A.
dkcontrol_ioctl == SetsOneBit({"slot"})

usb_power_ioctl == {[r EXCEPT !.locked = TRUE] : r \in SetsOneBit({"front", "rear"})}

\* The /proc entries do not take the mutex.
proc_write_front_end_usb_power == SetsOneBit({"front"})
proc_write_rear_end_usb_power == SetsOneBit({"rear"})

usb_gpio_ioctl == {[r EXCEPT !.locked = TRUE] : r \in SetsOneBit({"front", "rear"})}

hotswap_led_control == SetsOneBit({"led1", "led2"})

relay_write == {[r EXCEPT !.how = "blind"] : r \in SetsOneBit({"relay"})}

SetsMode ==
    {UartRequest(ModeBits(u), {<<u, m>>}, u, m = "RS485", FALSE) : u \in Uarts, m \in UartModes}

\* A bit of the mode register or none: 1 << x for whatever x is read outside
\* the table of mode bits.
AnyBit == {{}} \cup {{<<u, m>>} : u \in Uarts, m \in UartModes}

\* DA-820: neither number is checked.  A type that is none clears the UART's
\* bits and sets the bit found past its row; a port that is none clears nothing,
\* and its low byte picks the UART whose auto direction is changed.
UnknownType ==
    {UartRequest(ModeBits(u), x, u, FALSE, TRUE) : u \in Uarts, x \in AnyBit}
UnknownPort ==
    {UartRequest({}, x, d, o, TRUE) :
        x \in AnyBit, d \in Uarts \cup {"none"}, o \in BOOLEAN}

uart8250_mode_ioctl ==
    {[r EXCEPT !.next = "dir"] : r \in SetsMode \cup UnknownType \cup UnknownPort}

\* V2200: only an unknown mode of an unknown port is refused.  An unknown mode
\* of a UART clears its bits and sets none.  Port 8 or 9 with a known mode is
\* shifted by 32 or more, which the CPU takes modulo 32: the bits of COM1 or
\* COM2; the bits of the other ports are shifted out of the byte.
UnknownMode == {UartRequest(ModeBits(u), {}, u, FALSE, TRUE) : u \in Uarts}
BeyondPorts ==
    {UartRequest({}, {}, "none", FALSE, TRUE)} \cup
    {UartRequest(ModeBits(u), {<<u, m>>}, "none", FALSE, TRUE) : u \in Uarts, m \in UartModes}

v2200_io_ioctl ==
    {[r EXCEPT !.next = "opRead"] : r \in SetsMode \cup UnknownMode \cup BeyondPorts}

\* Which calls a board's drivers offer.
Requests(b) ==
    CASE b = "DA682B" -> DA_682B_DO_dio_outb \cup pled_write
      [] b = "V2403" -> V2403_dio_outb
      [] b = "MC7100" -> MC_7130_MP_dio_outb
      [] b = "V2201" -> pled_write \cup pled_slot_ioctl
      [] b = "V2400A" -> power_control_ioctl \cup dkcontrol_ioctl
      [] b = "DA820USB" -> usb_power_ioctl \cup proc_write_front_end_usb_power
                            \cup proc_write_rear_end_usb_power
      [] b = "V2616A" -> usb_gpio_ioctl
      [] b = "V2416A" -> hotswap_led_control
      [] b = "DA681A" -> relay_write
      [] b = "DA820" -> uart8250_mode_ioctl
      [] b = "V2200" -> v2200_io_ioctl

Copied == {"cached", "fresh"}  \* the byte is built in the copy
CopyNames(b) == IF b = "MC7100" THEN PortBits(b) ELSE {"all"}

\* Variant: the other bits are not kept.
ChangedAlone(r, byte) == r.set

\* What every driver does to the byte: its bits are cleared and set again.
\* The relay's driver writes its bit and nothing else.
Changed(r, byte) ==
    IF r.how = "blind" THEN r.set ELSE (byte \ r.mask) \cup r.set

-----------------------------------------------------------------------------
IdleCaller == [at |-> "idle", req |-> Request({}, {}), val |-> {}]

\* The UARTs whose mode bits say RS-485.
InRS485 == {u \in Uarts : board \in UartBoards /\ <<u, "RS485">> \in port}

\* The copy is a constant of the board's table, on DA-682B what
\* moxa_platform_dio_init reads, for the V2200 zero: RS-232 by its encoding.
PortInit ==
    /\ board \in PortBoards
    /\ port \in IF board \in UartBoards
                THEN {{<<"com1", "RS232">>, <<"com2", m>>} : m \in UartModes}
                ELSE SUBSET PortBits(board)
    /\ keep \in [CopyNames(board) ->
                    IF board = "V2200" THEN {{<<u, "RS232">> : u \in Uarts}}
                    ELSE IF board = "DA682B" THEN {port}
                    ELSE {{}, PortBits(board)}]
    /\ autodir = InRS485
    /\ mutex = NoProc /\ caller = [p \in PortProcs |-> IdleCaller]
    /\ pled = "absent" /\ pcalls = 0
    /\ phist = [want |-> port, raced |-> FALSE, unlocked |-> FALSE, given |-> {},
                odd |-> 0]

InPort(p, label) == caller[p].at = label
GoesTo(p, label) ==
    caller' = [caller EXCEPT ![p] = IF label = "idle" THEN IdleCaller ELSE [@ EXCEPT !.at = label]]

\* Another call for the same bits is under way.
SameBits(p) ==
    /\ caller[p].req.mask # {}
    /\ \E q \in PortProcs \ {p} : caller[q].req.mask = caller[p].req.mask /\ ~InPort(q, "idle")

\* A call enters its driver; one with a mutex waits for it.
PortBegin(p, r) ==
    /\ InPort(p, "idle") /\ pcalls < MaxPortCalls /\ r \in Requests(board)
    /\ r.odd => phist.odd < MaxOddCalls
    /\ r.ofPled => pled # "absent"
    /\ r.locked => mutex = NoProc
    /\ mutex' = IF r.locked THEN p ELSE mutex
    /\ caller' = [caller EXCEPT ![p] = [at |-> "read", req |-> r, val |-> {}]]
    /\ pcalls' = pcalls + 1
    /\ phist' = [phist EXCEPT !.unlocked = @ \/ ~r.locked, 
                              !.odd = IF r.odd THEN @ + 1 ELSE @]
    /\ UNCHANGED <<board, port, keep, autodir, pled>>

\* The byte is read: from the driver's copy, or with inb from the port.  On
\* DA-682B and the MC boards what inb returns is stored in the copy first.
PortRead(p) ==
    LET r == caller[p].req
        byte == IF r.how = "cached" THEN keep["all"] ELSE port
    IN  /\ InPort(p, "read")
        /\ keep' = IF r.how = "fresh"
                   THEN [keep EXCEPT ![r.copy] = byte] ELSE keep
        /\ caller' = [caller EXCEPT ![p].at = IF r.how \in Copied THEN "modify" ELSE "write",
                                    ![p].val = IF r.how \in Copied THEN byte
                                               ELSE Changed(r, byte)]
        /\ UNCHANGED <<board, port, autodir, mutex, pled, pcalls, phist>>

\* The copy is changed.  It is an ordinary variable: the compiler may use what
\* was loaded or load it again.
PortModify(p) ==
    LET r == caller[p].req
    IN  /\ InPort(p, "modify")
        /\ \E byte \in {caller[p].val, keep[r.copy]} :
              /\ keep' = [keep EXCEPT ![r.copy] = Changed(r, byte)]
              /\ caller' = [caller EXCEPT ![p].at = "write", ![p].val = Changed(r, byte)]
        /\ UNCHANGED <<board, port, autodir, mutex, pled, pcalls, phist>>

\* Some other call has read a byte it has not written back yet.
InBetween(p) == \E q \in PortProcs \ {p} : caller[q].at \in {"modify", "write"}

\* outb; mutex_unlock.  The UART drivers have more to do.
PortWrite(p) ==
    LET r == caller[p].req
    IN  /\ InPort(p, "write")
        /\ \E byte \in {caller[p].val} \cup
                       (IF r.how \in Copied THEN {keep[r.copy]} ELSE {}) :
              port' = byte
        /\ mutex' = IF r.locked THEN NoProc ELSE mutex
        /\ GoesTo(p, r.next)
        /\ phist' = [phist EXCEPT !.want = (@ \ r.mask) \cup r.set,
                                  !.raced = @ \/ InBetween(p),
                                  !.given = @ \cup r.mask]
        /\ UNCHANGED <<board, keep, autodir, pled, pcalls>>

\* keep_opmode of the V2200: read, changed, stored.
OpmodeRead(p) ==
    /\ InPort(p, "opRead")
    /\ caller' = [caller EXCEPT ![p].at = "opStore", ![p].val = keep["all"]]
    /\ UNCHANGED <<board, port, keep, autodir, mutex, pled, pcalls, phist>>

OpmodeStore(p) ==
    /\ InPort(p, "opStore") /\ GoesTo(p, "dir")
    /\ keep' = [keep EXCEPT !["all"] = Changed(caller[p].req, caller[p].val)]
    /\ phist' = [phist EXCEPT !.raced = @ \/ \E q \in PortProcs \ {p} : InPort(q, "opStore")]
    /\ UNCHANGED <<board, port, autodir, mutex, pled, pcalls>>

\* Variant: the auto direction is switched on and never off.
AutoDirectionSticks(p) ==
    LET r == caller[p].req
    IN  /\ InPort(p, "dir") /\ GoesTo(p, "idle")
        /\ autodir' = IF r.on THEN autodir \cup ({r.dir} \cap Uarts) ELSE autodir
        /\ phist' = [phist EXCEPT !.raced = @ \/ SameBits(p)]
        /\ UNCHANGED <<board, port, keep, mutex, pled, pcalls>>

\* EnableAutoDirectionControl, DisableAutoDirectionControl: a bit of the
\* UART's own super-I/O register, through superio_read and superio_write; for
\* "none" it is a register of another logical device.
AutoDirection(p) ==
    LET r == caller[p].req
    IN  /\ InPort(p, "dir") /\ GoesTo(p, "idle")
        /\ autodir' = IF r.on THEN autodir \cup ({r.dir} \cap Uarts) ELSE autodir \ {r.dir}
        /\ phist' = [phist EXCEPT !.raced = @ \/ SameBits(p)]
        /\ UNCHANGED <<board, port, keep, mutex, pled, pcalls>>

\* pled_init_module: the device is there before the LEDs are switched off, and
\* that is one byte for the whole port: everything else in it becomes 0.
PledRegister ==
    /\ board \in {"DA682B", "V2201"} /\ pled = "absent"
    /\ pled' = "registered"
    /\ UNCHANGED <<board, port, keep, autodir, mutex, caller, pcalls, phist>>

PledInit ==
    /\ pled = "registered" /\ pled' = "ready"
    /\ port' = {"led"}
    /\ phist' = [phist EXCEPT !.want = {"led"}, !.raced = @ \/ InBetween(NoProc)]
    /\ UNCHANGED <<board, keep, autodir, mutex, caller, pcalls>>

PortNext ==
    \/ \E p \in PortProcs :
          \/ \E r \in Requests(board) : PortBegin(p, r)
          \/ PortRead(p) \/ PortModify(p) \/ PortWrite(p)
          \/ OpmodeRead(p) \/ OpmodeStore(p) \/ AutoDirection(p)
    \/ PledRegister \/ PledInit

PortSpec == PortInit /\ [][PortNext]_portVars

-----------------------------------------------------------------------------
(* Properties. *)

PortQuiet == \A p \in PortProcs : InPort(p, "idle")

\* Whatever the calls overlap: as long as every request named a mode and a port
\* of the board, a UART's transceiver is never told two modes at once or none;
\* the V2200 never tells it two, whatever the requests (the DA-820's driver,
\* which looks up the bit with unchecked numbers, may).  A bit that no driver
\* means to change keeps its value (until moxa_pled is loaded, which writes the
\* whole port).
PortSane ==
    /\ board \in UartBoards /\ phist.odd = 0 =>
          \A u \in Uarts : \E m \in UartModes : port \cap ModeBits(u) = {<<u, m>>}
    /\ board = "V2200" =>
          \A u \in Uarts, m, n \in UartModes : <<u, m>> \in port /\ <<u, n>> \in port => m = n
    /\ board \notin UartBoards /\ pled # "ready" => ("other" \in port <=> "other" \in phist.want)

\* Calls that do not overlap lose nothing: each bit holds what it was last
\* given by any driver, and the copy a driver answers from agrees with it:
\* V2403's do_state from the first call on (it starts as a constant, and the
\* first call sets the other outputs as the constant says), the MC boards'
\* DOUT[i].do_state from the first call for output i on, DA-682B's as long as
\* moxa_pled is not loaded (pled_write and pled_init_module change the port
\* behind it), V2200's keep_opmode for the UARTs that were given a mode.  The
\* auto direction is on exactly for the UARTs in RS-485 mode, as long as every
\* request named a mode and a port.  Calls under the mutex never overlap.
NoLostUpdate ==
    /\ phist.raced => phist.unlocked
    /\ PortQuiet /\ ~phist.raced =>
          /\ board # "V2403" => port = phist.want
          /\ board = "V2403" /\ phist.given # {} => port = keep["all"]
          /\ board = "DA682B" /\ pled = "absent" => port = keep["all"]
          /\ board = "MC7100" => \A x \in phist.given : x \in keep[x] <=> x \in port
          /\ board = "V2200" => keep["all"] \cap phist.given = port \cap phist.given
          /\ phist.odd = 0 => autodir = InRS485

=============================================================================
