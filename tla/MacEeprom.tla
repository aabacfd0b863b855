------------------------------ MODULE MacEeprom ------------------------------
(***************************************************************************)
(* Set MAC Address (i2c.cpp): six bytes at an address of an EEPROM that    *)
(* the request names by bus and device, through sysfs and a stdio stream.  *)
(* The stream buffers: the bytes reach the EEPROM when it is closed, and   *)
(* nobody looks at what fclose returns.                                    *)
(***************************************************************************)
EXTENDS Descriptors, FiniteSets, Sequences

CONSTANTS
    Devices,    \* the EEPROMs sysfs shows, by bus and device
    Size,       \* cells of an EEPROM
    Targets,    \* bus and device bytes of requests
    Starts,     \* addresses requests carry
    Macs        \* values requests carry

Mac == 6
LastAddress == 65535    \* an address is two bytes

ASSUME DevicesAssumption ==
    /\ Devices \subseteq [bus: Nat, id: 0..127]
    /\ Targets \subseteq [bus: 0..255, id: 0..255]

ASSUME SizeAssumption == Size \in Nat
ASSUME StartsAssumption == Starts \subseteq 0..LastAddress
ASSUME MacsAssumption == Macs \subseteq [1..Mac -> 0..255]

\* "open", "seek", "buffer" (stdio gets no buffer and writes at once), "flush";
\* "crash".
VARIABLES
    macFds,     \* descriptors it has open
    mem,        \* the EEPROMs
    macPhase,   \* "idle", "open", "seek", "write" or "close"
    macReq,     \* the request in progress, or the last one
    before,     \* history: the EEPROMs when that request came
    macReply    \* completion code

macVars == <<mem, macPhase, macReq, before, macReply>>
macAll == <<macFds, macVars>>

Cells == 0..(Size - 1)
NoDevice == [bus |-> 0, id |-> 128]

\* sprintf "%x-00%x": sysfs writes the bus in decimal and the device as four
\* hexadecimal digits.  The path names the bus whose decimal digits are the
\* hexadecimal digits of the request, and a device only if it has two digits.
PathBus(b) == (b \div 16) * 10 + (b % 16)

PathExists(t) ==
    /\ t.bus \div 16 < 10 /\ t.bus % 16 < 10
    /\ t.id >= 16

Named(t) ==
    LET d == [bus |-> PathBus(t.bus), id |-> t.id] IN
    IF PathExists(t) /\ d \in Devices THEN d ELSE NoDevice

MacTypeOK ==
    /\ FdsTypeOK(macFds)
    /\ mem \in [Devices -> [Cells -> 0..255]]
    /\ before \in [Devices -> [Cells -> 0..255]]
    /\ macPhase \in {"idle", "open", "seek", "write", "close"}
    /\ macReq.target \in Targets /\ macReq.start \in Starts /\ macReq.value \in Macs
    /\ macReply \in {"none", "ok", "badlen", "unspecified"}

BlankDevices == [d \in Devices |-> [a \in Cells |-> 255]]

MacRequests == [target: Targets, start: Starts, value: Macs]

MacInit ==
    /\ macFds = 0
    /\ mem = BlankDevices
    /\ macPhase = "idle"
    /\ macReq \in MacRequests
    /\ before = BlankDevices
    /\ macReply = "none"

-----------------------------------------------------------------------------
MacBadLength ==
    /\ macPhase = "idle"
    /\ macReply' = "badlen"
    /\ before' = mem
    /\ UNCHANGED <<macFds, mem, macPhase, macReq>>

SetMac(t, start, value) ==
    /\ macPhase = "idle"
    /\ macPhase' = "open"
    /\ macReq' = [target |-> t, start |-> start, value |-> value]
    /\ before' = mem
    /\ macReply' = "none"
    /\ UNCHANGED <<macFds, mem>>

Fopen ==
    /\ macPhase = "open"
    /\ Named(macReq.target) # NoDevice
    /\ Opens(macFds)
    /\ macPhase' = "seek"
    /\ UNCHANGED <<mem, macReq, before, macReply>>

MacReturn(cc) ==
    /\ macPhase' = "idle"
    /\ macReply' = cc
    /\ UNCHANGED <<macReq, before>>

\* Past the if, the handler ends in ok.
FopenFails ==
    /\ macPhase = "open"
    /\ OpenRefused(macFds) \/ (Named(macReq.target) = NoDevice /\ UNCHANGED macFds)
    /\ MacReturn("ok")
    /\ UNCHANGED mem

Fseek ==
    /\ macPhase = "seek"
    /\ macPhase' = "write"
    /\ UNCHANGED <<macFds, mem, macReq, before, macReply>>

\* (mutant) the stream is closed twice.
FseekFails_Twice ==
    /\ macPhase = "seek"
    /\ "seek" \in Faults
    /\ macFds' = macFds - 2
    /\ MacReturn("unspecified")
    /\ UNCHANGED mem

FseekFails ==
    /\ macPhase = "seek"
    /\ "seek" \in Faults
    /\ Closes(macFds)
    /\ MacReturn("unspecified")
    /\ UNCHANGED mem

\* The first k bytes of the value in a device, as far as it has cells.
Store(m, d, start, value, k) ==
    [m EXCEPT ![d] = [a \in Cells |->
        IF a - start \in 0..(k - 1) THEN value[a - start + 1] ELSE @[a]]]

\* (mutant) the value begins behind the address.
StoreFirst_Behind(k) ==
    mem' = Store(mem, Named(macReq.target), macReq.start + 1, macReq.value, k)

StoreFirst(k) ==
    mem' = Store(mem, Named(macReq.target), macReq.start, macReq.value, k)

\* The six bytes are in the buffer of the stream.
Fwrite ==
    /\ macPhase = "write"
    /\ macPhase' = "close"
    /\ UNCHANGED <<macFds, mem, macReq, before, macReply>>

\* Without a buffer they are written at once, and may be cut short.
FwriteFails ==
    /\ macPhase = "write"
    /\ "buffer" \in Faults
    /\ \E k \in 0..(Mac - 1) : StoreFirst(k)
    /\ Closes(macFds)
    /\ MacReturn("unspecified")

Fclose ==
    /\ macPhase = "close"
    /\ \E k \in {Mac} \cup {j \in 0..(Mac - 1) : "flush" \in Faults} : StoreFirst(k)
    /\ Closes(macFds)
    /\ MacReturn("ok")

\* The daemon ends; what is in the buffer is lost.
MacCrash ==
    /\ "crash" \in Faults
    /\ ProcessEnds(macFds)
    /\ MacReturn("none")
    /\ UNCHANGED mem

MacNext ==
    \/ MacBadLength
    \/ \E t \in Targets, start \in Starts, value \in Macs : SetMac(t, start, value)
    \/ Fopen \/ FopenFails
    \/ Fseek \/ FseekFails
    \/ Fwrite \/ FwriteFails
    \/ Fclose
    \/ MacCrash

MacSpec == MacInit /\ [][MacNext]_macAll

-----------------------------------------------------------------------------
(* Whatever fails, wherever the daemon ends, a request leaves the EEPROMs  *)
(* as it found them, but for the first bytes of its value at its address   *)
(* in the one device its path names.                                       *)
LeavesPrefix ==
    \E k \in 0..Mac :
        LET d == Named(macReq.target) IN
        mem = IF d = NoDevice THEN before
              ELSE Store(before, d, macReq.start, macReq.value, k)

(* The stream is closed on every way out.                                  *)
NoStreamHeld == macPhase \in {"idle", "open"} => macFds = 0
=============================================================================
