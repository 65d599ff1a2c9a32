SPECIFICATION Spec
CONSTANTS
    Procs = {tty, u1, u2}
    IrqTasks = {tty}
    ANY = ANY
    INTERRUPT = INTERRUPT
    NO_TASK = NO_TASK
    NULL = NULL
    HW_INT = HW_INT
    Bodies = {HW_INT, b1}
    OobSending = {TRUE, FALSE}
SYMMETRY UserSymmetry
INVARIANTS TypeOK FieldsAgree NoSendCycle AssertsThatHold NoMissedInterrupt
PROPERTIES SendDelivers ReceiveFromNamed ImplementsRendezvous
CHECK_DEADLOCK FALSE
