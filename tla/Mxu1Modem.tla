----------------------------- MODULE Mxu1Modem -----------------------------
(***************************************************************************)
(* Line configuration and modem control of the mxu11x0 driver              *)
(* (src/modules/mxu11x0/driver/mxu11x0.c): mxu1_set_termios and its        *)
(* callers (termios changes, mxu1_open, mxu1_break, the MOXA_SET_INTERFACE *)
(* ioctl, mxu1_set_serial_info), mxu1_tiocmset, and the adapter's copy of  *)
(* what they set.  A SET_CONFIG command raises RTS and DTR on the adapter, *)
(* so every configuration is followed by a write of the modem control      *)
(* register from mxp_shadow_mcr.                                           *)
(***************************************************************************)
EXTENDS Integers

CONSTANTS
    Threads,   \* threads that may be in the driver at the same time
    Models     \* UPort models to consider, a subset of AllModels

AllModels == {"1110", "1130", "1131", "1150", "1151", "3001"}

ASSUME ModelAssumption == Models \subseteq AllModels

VARIABLES
    model,            \* mxd_model_name
    opened,           \* the tty is "closed", "opening" or "open"
    b0,               \* termios asks for speed B0 (hang up)
    setB0,            \* mxp_set_B0
    uartMode,         \* mxp_uart_mode
    userMode,         \* mxp_user_get_uart_mode
    sendBreak,        \* mxp_send_break
    shadow,           \* mxp_shadow_mcr
    devMode, devBreak, devMcr,   \* what the adapter has
    pc, mcr,          \* a thread's position and its local mcr
    config,           \* a thread's copy of the settings it is about to send
    failed            \* history: a command or an allocation failed

settings == <<model, opened, b0, setB0, uartMode, userMode, sendBreak, shadow>>
device == <<devMode, devBreak, devMcr>>
locals == <<mcr, config>>
modemVars == <<settings, device, pc, locals, failed>>

Bits == {"RTS", "DTR", "LOOP"}

Interfaces == {"RS232", "RS4852W", "RS422", "RS4854W"}

\* The UART mode that realises an interface.
UartOf(i) ==
    CASE i = "RS232" -> "232"
      [] i = "RS4852W" -> "485_RECEIVER_DISABLED"
      [] OTHER -> "485_RECEIVER_ENABLED"

Is1130 == model \in {"1130", "1131"}

\* The interfaces MOXA_SET_INTERFACE and TIOCSSERIAL accept.
Supports(i) ==
    IF model \in {"1110", "3001"} THEN i = "RS232"
    ELSE i = "RS232" => ~Is1130

\* A thread that is not sending has no copy.
NoConfig == [mode |-> "none", brk |-> FALSE, b0 |-> FALSE]

\* mxu1_startup's settings for a fresh adapter.
ModemInit ==
    /\ model \in Models
    /\ opened = "closed" /\ b0 = FALSE /\ setB0 = FALSE /\ sendBreak = FALSE
    /\ uartMode = IF Is1130 THEN "485_RECEIVER_DISABLED" ELSE "232"
    /\ userMode = IF Is1130 THEN "RS4852W" ELSE "RS232"
    /\ shadow = {} /\ devMcr = {}
    /\ devMode = "none" /\ devBreak = FALSE
    /\ pc = [t \in Threads |-> "idle"]
    /\ mcr = [t \in Threads |-> {}]
    /\ config = [t \in Threads |-> NoConfig]
    /\ failed = FALSE

Goto(t, label) == pc' = [pc EXCEPT ![t] = label]

-----------------------------------------------------------------------------
(* Callers of mxu1_set_termios.                                            *)

\* mxu1_open raises RTS and DTR in the shadow and configures the port ...
Open(t) ==
    /\ opened = "closed" /\ pc[t] = "idle"
    /\ opened' = "opening"
    /\ shadow' = shadow \cup {"RTS", "DTR"}
    /\ Goto(t, "config")
    /\ UNCHANGED <<model, b0, setB0, uartMode, userMode, sendBreak, device,
                   locals, failed>>

\* ... unless the interrupt URB cannot be submitted: the shadow stays raised.
OpenRefused(t) ==
    /\ opened = "closed" /\ pc[t] = "idle"
    /\ shadow' = shadow \cup {"RTS", "DTR"}
    /\ UNCHANGED <<model, opened, b0, setB0, uartMode, userMode, sendBreak,
                   device, pc, locals, failed>>

\* After the configuration mxu1_open starts and purges the port and submits
\* the read URB; when one of these fails the port stays closed and what was
\* configured stays.  Nobody else is in the driver before open returns.
Opened(ok) ==
    /\ opened = "opening" /\ \A t \in Threads : pc[t] = "idle"
    /\ opened' = IF ok THEN "open" ELSE "closed"
    /\ UNCHANGED <<model, b0, setB0, uartMode, userMode, sendBreak, shadow,
                   device, pc, locals, failed>>

\* mxu1_close leaves all of this alone.
Close ==
    /\ opened = "open" /\ \A t \in Threads : pc[t] = "idle"
    /\ opened' = "closed"
    /\ UNCHANGED <<model, b0, setB0, uartMode, userMode, sendBreak, shadow,
                   device, pc, locals, failed>>

SetTermios(t, hangup) ==
    /\ opened = "open" /\ pc[t] = "idle"
    /\ b0' = hangup
    /\ Goto(t, "config")
    /\ UNCHANGED <<model, opened, setB0, uartMode, userMode, sendBreak,
                   shadow, device, locals, failed>>

Break(t, on) ==
    /\ opened = "open" /\ pc[t] = "idle"
    /\ sendBreak' = on
    /\ Goto(t, "config")
    /\ UNCHANGED <<model, opened, b0, setB0, uartMode, userMode, shadow,
                   device, locals, failed>>

\* MOXA_SET_INTERFACE: an unsupported interface is refused; otherwise only
\* the UART mode is recorded.
SetInterface(t, i) ==
    /\ opened = "open" /\ pc[t] = "idle"
    /\ Supports(i)
    /\ uartMode' = IF model \in {"1110", "3001"} THEN uartMode ELSE UartOf(i)
    /\ Goto(t, "config")
    /\ UNCHANGED <<model, opened, b0, setB0, userMode, sendBreak, shadow,
                   device, locals, failed>>

\* TIOCSSERIAL: the interface goes to both mode fields.
SetSerialInfo(t, i) ==
    /\ opened = "open" /\ pc[t] = "idle"
    /\ Supports(i)
    /\ uartMode' = IF model \in {"1110", "3001"} THEN uartMode ELSE UartOf(i)
    /\ userMode' = IF model \in {"1110", "3001"} THEN userMode ELSE i
    /\ Goto(t, "config")
    /\ UNCHANGED <<model, opened, b0, setB0, sendBreak, shadow, device, locals,
                   failed>>

-----------------------------------------------------------------------------
(* mxu1_set_termios, mxu1_tiocmset, mxu1_set_mcr.                          *)

\* mxu1_set_termios allocates the command, or gives up when it cannot, and
\* copies the speed, the mode and the break into it without a lock.
Fill(t, ok) ==
    /\ pc[t] = "config"
    /\ IF ok
       THEN /\ config' = [config EXCEPT ![t] =
                            [mode |-> uartMode, brk |-> sendBreak, b0 |-> b0]]
            /\ Goto(t, "send")
            /\ UNCHANGED failed
       ELSE /\ failed' = TRUE
            /\ Goto(t, "idle")
            /\ UNCHANGED config
    /\ UNCHANGED <<settings, device, mcr>>

\* Variant: RTS and DTR are left as SET_CONFIG leaves them.
ConfigKeepsLines(t, ok) ==
    /\ pc[t] = "send"
    /\ devMode' = config[t].mode /\ devBreak' = config[t].brk
    /\ devMcr' = devMcr \cup {"RTS", "DTR"}
    /\ setB0' = config[t].b0
    /\ config' = [config EXCEPT ![t] = NoConfig]
    /\ Goto(t, "idle")
    /\ UNCHANGED <<model, opened, b0, uartMode, userMode, sendBreak, shadow,
                   mcr, failed>>

\* SET_CONFIG with the copy, which also raises RTS and DTR; a failure is only
\* reported.  Then the modem control to restore: nothing raised while the
\* speed is B0, DTR raised again on the way out of B0, otherwise the shadow.
Config(t, ok) ==
    /\ pc[t] = "send"
    /\ IF ok
       THEN /\ devMode' = config[t].mode /\ devBreak' = config[t].brk
            /\ devMcr' = devMcr \cup {"RTS", "DTR"}
            /\ UNCHANGED failed
       ELSE /\ failed' = TRUE
            /\ UNCHANGED device
    /\ mcr' = [mcr EXCEPT ![t] =
                 IF config[t].b0 THEN shadow \ {"RTS", "DTR"}
                 ELSE IF setB0 THEN shadow \cup {"DTR"} ELSE shadow]
    /\ setB0' = config[t].b0
    /\ config' = [config EXCEPT ![t] = NoConfig]
    /\ Goto(t, "mcr")
    /\ UNCHANGED <<model, opened, b0, uartMode, userMode, sendBreak, shadow>>

\* mxu1_tiocmset: the new value is computed from the shadow without a lock.
TiocmSet(t, set, clear) ==
    /\ opened = "open" /\ pc[t] = "idle"
    /\ mcr' = [mcr EXCEPT ![t] = (shadow \cup set) \ clear]
    /\ Goto(t, "mcr")
    /\ UNCHANGED <<settings, device, config, failed>>

Return(t) == Goto(t, "idle") /\ mcr' = [mcr EXCEPT ![t] = {}]

\* mxu1_set_mcr: write the adapter's register ...
McrWrite(t, ok) ==
    /\ pc[t] = "mcr"
    /\ IF ok
       THEN devMcr' = mcr[t] /\ Goto(t, "shadow") /\ UNCHANGED <<mcr, failed>>
       ELSE failed' = TRUE /\ Return(t) /\ UNCHANGED devMcr
    /\ UNCHANGED <<settings, devMode, devBreak, config>>

\* ... and record the value if that worked.
McrShadow(t) ==
    /\ pc[t] = "shadow"
    /\ shadow' = mcr[t]
    /\ Return(t)
    /\ UNCHANGED <<model, opened, b0, setB0, uartMode, userMode, sendBreak,
                   device, config, failed>>

-----------------------------------------------------------------------------
Request(t) ==
    \/ Open(t) \/ OpenRefused(t)
    \/ \E on \in BOOLEAN : SetTermios(t, on) \/ Break(t, on)
    \/ \E i \in Interfaces : SetInterface(t, i) \/ SetSerialInfo(t, i)
    \/ \E set, clear \in SUBSET Bits : TiocmSet(t, set, clear)

Progress(t) ==
    \/ \E ok \in BOOLEAN : Fill(t, ok) \/ Config(t, ok) \/ McrWrite(t, ok)
    \/ McrShadow(t)

ModemNext ==
    \/ \E ok \in BOOLEAN : Opened(ok)
    \/ Close
    \/ \E t \in Threads : Request(t) \/ Progress(t)

ModemSpec == ModemInit /\ [][ModemNext]_modemVars

-----------------------------------------------------------------------------
Quiet == opened = "open" /\ ~failed /\ \A t \in Threads : pc[t] = "idle"

\* When no request is in progress and no command or allocation failed, an open
\* adapter runs in the mode and with the break setting the driver has on record,
\* and its modem control register is the shadow that TIOCMGET reports
\* ("SET_CONFIG asserts RTS and DTR, reset them correctly"), whatever the order
\* of the requests and of opens that fail.
AdapterAgrees ==
    Quiet => devMode = uartMode /\ devBreak = sendBreak /\ devMcr = shadow
=============================================================================
