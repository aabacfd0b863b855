------------------------------- MODULE SfpPorts -------------------------------
(***************************************************************************)
(* The SFP commands (sfpcommands.cpp): the status pins of 32 transceiver   *)
(* ports behind sysfs GPIOs, the reset attribute of a port, and the EEPROM *)
(* inside a transceiver.  A handler opens one file, makes one transfer and *)
(* closes it; when the transfer of a pin or of a reset fails it returns    *)
(* without the close.                                                      *)
(***************************************************************************)
EXTENDS Descriptors

CONSTANTS
    Ports,      \* port numbers requests carry, a byte of the request
    LowModes,   \* lowMode bytes
    SfpLens,    \* lengths a request may have
    Counts,     \* bytes asked of a transceiver's EEPROM
    Exported,   \* GPIOs that have a directory in /sys/class/gpio
    Outputs     \* those of them that the kernel lets user space drive

ASSUME PortsAssumption == Ports \subseteq 0..255

ASSUME OutputsAssumption == Outputs \subseteq Exported

ASSUME RequestAssumption ==
    /\ LowModes \subseteq 0..255
    /\ SfpLens \subseteq 0..255
    /\ Counts \subseteq 0..255

\* "open", "transfer": the call fails; "short": a transceiver gives fewer bytes;
\* "crash": the daemon ends and is restarted.
VARIABLES
    sfpFds,     \* descriptors it has open
    pin,        \* level of each exported GPIO
    sfpPhase,   \* "idle", or what the handler in progress does next
    sfpReq,     \* its command, port and argument
    sfpReply,   \* completion code, *dataLen and first byte of the response
    asked,      \* history: what the last Set answered ok left on a port's pin
    failures    \* history: transfers that failed since the process started

sfpAll == <<sfpFds, pin, sfpPhase, sfpReq, sfpReply, asked, failures>>

Banks == {"present", "interrupt", "lpmode"}
Commands == Banks \cup {"sum", "setlp", "reset", "rom"}

BankIndex == [present |-> 192, interrupt |-> 224, lpmode |-> 256]
SfpSum == 32
BlockBase == 8

\* Blocks of eight go down from the bank's index, ports go up inside a block.
Pin(b, p) == BankIndex[b] - (p \div BlockBase) * BlockBase + (p % BlockBase)

ReqLen == [c \in Commands |->
    CASE c = "sum" -> 0
      [] c \in Banks \cup {"reset"} -> 1
      [] c = "setlp" -> 2
      [] c = "rom" -> 4]

\* (mutant) the comment "gpio value 1 : enable low power mode" taken at its word.
Status_AsCommented(b, v) == IF b = "present" THEN 1 - v ELSE v

\* What the level of a pin is reported as: 1 for the level 0 of presence and of
\* low power mode.
Status(b, v) == IF b = "interrupt" THEN v ELSE 1 - v

\* The level Set Low Power Mode drives.
Level(mode) == IF mode = 1 THEN 0 ELSE 1

NoValue == -1
Unasked == 2

NoCommand == [cmd |-> "none", port |-> 0, arg |-> 0]

SfpTypeOK ==
    /\ FdsTypeOK(sfpFds)
    /\ pin \in [Exported -> {0, 1}]
    /\ sfpPhase \in {"idle", "open", "transfer"}
    /\ sfpReq \in [cmd: Commands \cup {"none"}, port: 0..255, arg: 0..255]
    /\ sfpReply \in [cc: {"none", "ok", "badlen", "range", "invalid"},
                  len: 0..255, value: NoValue..255]
    /\ asked \in [Ports -> {0, 1, Unasked}]
    /\ failures \in Nat

SfpInit ==
    /\ sfpFds = 0
    /\ pin \in [Exported -> {0, 1}]
    /\ sfpPhase = "idle"
    /\ sfpReq = NoCommand
    /\ sfpReply = [cc |-> "none", len |-> 0, value |-> NoValue]
    /\ asked = [p \in Ports |-> Unasked]
    /\ failures = 0

-----------------------------------------------------------------------------
SfpRefuse(cc, len) ==
    /\ sfpPhase = "idle"
    /\ sfpReply' = [cc |-> cc, len |-> len, value |-> NoValue]
    /\ UNCHANGED <<sfpFds, pin, sfpPhase, sfpReq, asked, failures>>

\* The three status commands clear *dataLen first, the others leave it at the
\* length of the request.
WrongLength(c, len) ==
    /\ len # ReqLen[c]
    /\ SfpRefuse("badlen", IF c \in Banks THEN 0 ELSE len)

\* Set Low Power Mode and Reset do not look at the index.
Checked(c) == c \in Banks \cup {"rom"}

OutOfRange(c, p) ==
    /\ Checked(c)
    /\ p >= SfpSum
    /\ SfpRefuse("range", 0)

\* *dataLen is that of a good answer from here on, but for the EEPROM.
Accept(c, p, arg) ==
    /\ sfpPhase = "idle"
    /\ Checked(c) => p < SfpSum
    /\ sfpPhase' = "open"
    /\ sfpReq' = [cmd |-> c, port |-> p, arg |-> arg]
    /\ sfpReply' = [cc |-> "none", len |-> IF c = "rom" THEN 0 ELSE 1, value |-> NoValue]
    /\ UNCHANGED <<sfpFds, pin, asked, failures>>

GetStatus(b, p) == OutOfRange(b, p) \/ Accept(b, p, 0)

GetSum ==
    /\ sfpPhase = "idle"
    /\ sfpReply' = [cc |-> "ok", len |-> 1, value |-> SfpSum]
    /\ UNCHANGED <<sfpFds, pin, sfpPhase, sfpReq, asked, failures>>

SetLowPowerMode(p, mode) == Accept("setlp", p, mode)

Reset(p) == Accept("reset", p, 0)

ReadRom(p, count) == OutOfRange("rom", p) \/ Accept("rom", p, count)

SfpRequest ==
    \/ \E c \in Commands, len \in SfpLens : WrongLength(c, len)
    \/ GetSum
    \/ \E p \in Ports :
          \/ \E b \in Banks : GetStatus(b, p)
          \/ \E mode \in LowModes : SetLowPowerMode(p, mode)
          \/ Reset(p)
          \/ \E count \in Counts : ReadRom(p, count)

-----------------------------------------------------------------------------
\* The pin the request in progress is about.
CurPin == Pin(IF sfpReq.cmd = "setlp" THEN "lpmode" ELSE sfpReq.cmd, sfpReq.port)

OnPin == sfpReq.cmd \in Banks \cup {"setlp"}

\* There is a reset attribute and an EEPROM path for each port of the board.
Exists == IF OnPin THEN CurPin \in Exported ELSE sfpReq.port < SfpSum

SfpReturn(cc, len, value) ==
    /\ sfpPhase' = "idle"
    /\ sfpReq' = NoCommand
    /\ sfpReply' = [cc |-> cc, len |-> len, value |-> value]

OpenFile ==
    /\ sfpPhase = "open"
    /\ Exists
    /\ Opens(sfpFds)
    /\ sfpPhase' = "transfer"
    /\ UNCHANGED <<pin, sfpReq, sfpReply, asked, failures>>

\* (mutant) a refused open is tried again.
OpenFails_Retries ==
    /\ sfpPhase = "open"
    /\ OpenRefused(sfpFds) \/ (~Exists /\ UNCHANGED sfpFds)
    /\ UNCHANGED <<pin, sfpPhase, sfpReq, sfpReply, asked, failures>>

OpenFails ==
    /\ sfpPhase = "open"
    /\ OpenRefused(sfpFds) \/ (~Exists /\ UNCHANGED sfpFds)
    /\ SfpReturn("invalid", sfpReply.len, NoValue)
    /\ UNCHANGED <<pin, asked, failures>>

ReadPin ==
    /\ sfpPhase = "transfer"
    /\ sfpReq.cmd \in Banks
    /\ Closes(sfpFds)
    /\ SfpReturn("ok", sfpReply.len, Status(sfpReq.cmd, pin[CurPin]))
    /\ UNCHANGED <<pin, asked, failures>>

WritePin ==
    /\ sfpPhase = "transfer"
    /\ sfpReq.cmd = "setlp"
    /\ CurPin \in Outputs
    /\ pin' = [pin EXCEPT ![CurPin] = Level(sfpReq.arg)]
    /\ asked' = [asked EXCEPT ![sfpReq.port] = Level(sfpReq.arg)]
    /\ Closes(sfpFds)
    /\ SfpReturn("ok", sfpReply.len, 0)
    /\ UNCHANGED failures

WriteReset ==
    /\ sfpPhase = "transfer"
    /\ sfpReq.cmd = "reset"
    /\ Closes(sfpFds)
    /\ SfpReturn("ok", sfpReply.len, 0)
    /\ UNCHANGED <<pin, asked, failures>>

\* The answer is as long as was asked for, however little the transceiver gave;
\* value is the number of bytes that are really its own.
ReadMemory ==
    /\ sfpPhase = "transfer"
    /\ sfpReq.cmd = "rom"
    /\ \E n \in {sfpReq.arg} \cup {k \in 0..sfpReq.arg : "short" \in Faults} :
          SfpReturn("ok", sfpReq.arg, n)
    /\ Closes(sfpFds)
    /\ UNCHANGED <<pin, asked, failures>>

MemoryFails ==
    /\ sfpPhase = "transfer"
    /\ sfpReq.cmd = "rom"
    /\ "transfer" \in Faults
    /\ Closes(sfpFds)
    /\ SfpReturn("invalid", sfpReply.len, NoValue)
    /\ UNCHANGED <<pin, asked, failures>>

\* The early return keeps the descriptor.  The kernel refuses to drive an input.
TransferFails ==
    /\ sfpPhase = "transfer"
    /\ sfpReq.cmd # "rom"
    /\ "transfer" \in Faults \/ (sfpReq.cmd = "setlp" /\ CurPin \notin Outputs)
    /\ failures' = failures + 1
    /\ UNCHANGED sfpFds
    /\ SfpReturn("invalid", sfpReply.len, NoValue)
    /\ UNCHANGED <<pin, asked>>

Transferring ==
    \/ OpenFile \/ OpenFails
    \/ ReadPin \/ WritePin \/ WriteReset
    \/ ReadMemory \/ MemoryFails
    \/ TransferFails

-----------------------------------------------------------------------------
\* A module is plugged or pulled, or raises its interrupt: an input changes.
PinChanges ==
    /\ \E g \in Exported \ Outputs : pin' = [pin EXCEPT ![g] = 1 - @]
    /\ UNCHANGED <<sfpFds, sfpPhase, sfpReq, sfpReply, asked, failures>>

\* The daemon dies and is restarted; the GPIOs keep their levels.
SfpRestarted ==
    /\ ProcessEnds(sfpFds)
    /\ sfpPhase' = "idle"
    /\ sfpReq' = NoCommand
    /\ sfpReply' = [cc |-> "none", len |-> 0, value |-> NoValue]
    /\ failures' = 0
    /\ UNCHANGED <<pin, asked>>

SfpCrash == "crash" \in Faults /\ SfpRestarted

SfpNext == SfpRequest \/ Transferring \/ PinChanges \/ SfpCrash

SfpSpec == SfpInit /\ [][SfpNext]_sfpAll

-----------------------------------------------------------------------------
Holding == IF sfpPhase = "transfer" THEN 1 ELSE 0

(* Every failed transfer of a pin or a reset costs one descriptor and      *)
(* nothing else does: the leak of sfpcommands.cpp is exactly as large as   *)
(* the number of such failures since the process started.                  *)
LeakPerFailure == sfpFds = failures + Holding

(* What the last Set Low Power Mode answered ok for a port is what its pin *)
(* holds, and so what Get Low Power Mode reports, whatever commands to     *)
(* other ports, indexes past the last port, failures and restarts come in  *)
(* between.                                                                *)
SetHolds ==
    \A p \in Ports : asked[p] # Unasked => pin[Pin("lpmode", p)] = asked[p]

(* An answered status of low power mode is the mode that was last set.     *)
AnswerAsSet ==
    [][\A p \in Ports :
          /\ sfpPhase = "transfer" /\ sfpReq.cmd = "lpmode" /\ sfpReq.port = p
          /\ sfpPhase' = "idle" /\ sfpReply'.cc = "ok" /\ asked[p] # Unasked
          => Level(sfpReply'.value) = asked[p]]_sfpAll

(* A client can rely on low power mode: what it set is what is driven and  *)
(* what it is told, until it sets another; a Set whose index is past the   *)
(* last port, which the code does not refuse, moves the pin its formula    *)
(* names and no other port's.  Mode 1 and status 1 both stand for the      *)
(* level 0, as the code has it in both directions: the comment beside the  *)
(* status, "gpio value 1 : enable low power mode", says the opposite.      *)
LowPowerKept == []SetHolds /\ AnswerAsSet
=============================================================================
