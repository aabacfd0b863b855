------------------------------ MODULE Eeprom24c ------------------------------
(***************************************************************************)
(* The 24Cxx EEPROM as the daemon sees it through 24cXX.c: the cells of    *)
(* the chip, and the file descriptors the process holds on /dev/i2c-*.     *)
(*                                                                         *)
(* Every operation is an action formula over mem and fds only; the         *)
(* handlers that call the driver conjoin it with their own variables.  A   *)
(* failure the driver can report is enabled when Faults names it.          *)
(***************************************************************************)
EXTENDS Integers, FiniteSets

CONSTANTS
    Addr,       \* cell addresses, __u16 values
    Byte,       \* cell contents
    Erased,     \* 0xFF: an erased cell, and what (char) -1 leaves in a buffer
    InitChips,  \* contents the chip may have when the daemon first starts
    MaxFds,     \* descriptors the process may hold on i2c devices (RLIMIT_NOFILE)
    Faults      \* the failures that can happen

ASSUME AddrAssumption == Addr \subseteq 0..65535

ASSUME ChipAssumption ==
    /\ Erased \in Byte
    /\ InitChips \subseteq [Addr -> Byte]
    /\ MaxFds \in Nat

\* "open", "ioctl", "funcs": the three ways eeprom_open fails; "write", "read":
\* an SMBus transfer that returns -1; "crash": the daemon dies and is restarted.
ASSUME FaultAssumption ==
    Faults \subseteq {"open", "ioctl", "funcs", "write", "read", "crash"}

VARIABLES
    mem,    \* the chip
    fds     \* number of open descriptors on the i2c device

chipVars == <<mem, fds>>

ChipTypeOK ==
    /\ mem \in [Addr -> Byte]
    /\ fds \in 0..MaxFds

ChipInit ==
    /\ mem \in InitChips
    /\ fds = 0

(***************************************************************************)
(* eeprom_open.  It succeeds holding a new descriptor; open(2) fails; an   *)
(* ioctl fails after open(2), and the descriptor stays open; or the        *)
(* adapter lacks a function, and CHECK_I2C_FUNC ends the whole process.    *)
(***************************************************************************)
EepromOpens ==
    /\ fds < MaxFds
    /\ fds' = fds + 1

OpenRefused ==
    /\ fds = MaxFds \/ "open" \in Faults
    /\ UNCHANGED fds

OpenAbandoned ==
    /\ "ioctl" \in Faults
    /\ EepromOpens

OpenHalts ==
    /\ "funcs" \in Faults
    /\ fds < MaxFds

\* (mutant) close(2) is forgotten.
EepromClose_Leaks == UNCHANGED fds

EepromClose == fds' = fds - 1

(***************************************************************************)
(* One cell.  A write the driver reports as failed may have reached the    *)
(* chip or not.  A read that fails is reported by -1, in band: a caller    *)
(* that keeps the low eight bits keeps 0xFF.                               *)
(***************************************************************************)
EepromWriteByte(a, data) == mem' = [mem EXCEPT ![a] = data]

EepromWriteFails(a, data) ==
    /\ "write" \in Faults
    /\ EepromWriteByte(a, data) \/ UNCHANGED mem

EepromReadByte(a) ==
    {mem[a]} \cup {b \in {Erased} : "read" \in Faults}

(* The process ends: the kernel closes its descriptors, the chip stays.    *)
ProcessEnds ==
    /\ fds' = 0
    /\ UNCHANGED mem
=============================================================================
