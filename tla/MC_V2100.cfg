CONSTANTS
    Cpus = {c1, c2}
    IrqCpus = {c1}
    Ldns = {uart1, gpio}
    Indexes = {r1}
    Vals = {0, 1}
    NoOne = NoOne
    Nothing = Nothing
    Procs = {p1, p2}
    MinTime = 2
    MaxTime = 7
    Byte = 8
    Times = {2, 7, 8}
SPECIFICATION V2100Spec
INVARIANTS IrqStateRestored ArmedWhileOpen SilentCloseRuns
PROPERTIES AtomicRegisters CallsReturn
