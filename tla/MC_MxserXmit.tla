--------------------------- MODULE MC_MxserXmit ---------------------------
(* Values of MxserXmit's constants for TLC. *)
EXTENDS MxserXmit

\* A 16450-type UART, a 16550A and a Moxa UART.
MCChips == {[must |-> FALSE, auto |-> FALSE], [must |-> FALSE, auto |-> TRUE],
            [must |-> TRUE, auto |-> TRUE]}

\* One of them, for the runs that need only one.
MCPlain == {[must |-> FALSE, auto |-> FALSE]}

\* One stop of output, one flush, or stops of reception.
MCBudgets ==
    {[stop |-> 1, throttle |-> 0, flush |-> 0],
     [stop |-> 0, throttle |-> 0, flush |-> 1],
     [stop |-> 0, throttle |-> 1, flush |-> 0],
     [stop |-> 0, throttle |-> 2, flush |-> 0]}

\* Two stops of reception on the Moxa UART only; a flush on all but the 16550A,
\* which differs from the 16450 in what it does with CTS.
MCInit ==
    /\ Init
    /\ budget.throttle > 0 => (budget.throttle = 2 <=> chip.must)
    /\ budget.flush > 0 => chip.must \/ ~chip.auto

MCSpec == MCInit /\ [][Next]_vars

\* Output stopped once.
MCStop == {[stop |-> 1, throttle |-> 0, flush |-> 0]}

=============================================================================
