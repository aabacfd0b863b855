-------------------------------- MODULE VrInfo --------------------------------
(***************************************************************************)
(* Get VR Version (i2c.cpp): a version register of one of three voltage    *)
(* regulators, read over /dev/i2c-*.  The functions it is built from are   *)
(* those of a command line tool: a failure after the open ends the process *)
(* they run in, and that process is ipmid.                                 *)
(***************************************************************************)
EXTENDS Descriptors

CONSTANTS
    Offsets,    \* table indexes requests carry
    VrLens,     \* reply lengths requests ask for
    Registers   \* contents of a version register

ASSUME VrInputAssumption ==
    /\ Offsets \subseteq 0..255
    /\ VrLens \subseteq 0..255
    /\ Registers \subseteq 0..255

\* "open", "funcs", "slave", "read": the call that fails; "crash": the daemon
\* ends for another reason.
VARIABLES
    vrFds,      \* descriptors it has open
    regs,       \* the regulators: bus, address and register to content
    vrPhase,    \* "idle", or what the handler in progress does next
    vrReq,      \* offset, length and the strings of the table entry
    slave,      \* the address the open file is bound to
    vrReply,    \* completion code, *dataLen and the three numbers of a version
    leaked      \* history: descriptors that look-ups by name have left open

vrVars == <<regs, vrPhase, vrReq, slave, vrReply, leaked>>
vrAll == <<vrFds, vrVars>>

Vr(bus, addr, reg) == [bus |-> bus, addr |-> addr, reg |-> reg]

\* inputverinfo.
InputVerInfo ==
    [o \in 0..2 |-> CASE o = 0 -> Vr(19, 117, 117)
                      [] o = 1 -> Vr(18, 80, 137)
                      [] o = 2 -> Vr(18, 81, 137)]

Entries == {InputVerInfo[o] : o \in 0..2}

\* A bus no adapter has, and an address nobody answers to.
NoBus == -1
NoAddr == -1
Nowhere == Vr(NoBus, NoAddr, 0)

NoVersion == <<0, 0, 0>>

\* The version is the bits above bit 1, bit 1 and bit 0, each plus '0'.
Version(r) == <<r \div 4, (r % 4) \div 2, r % 2>>

VrTypeOK ==
    /\ FdsTypeOK(vrFds)
    /\ regs \in [Entries -> Registers]
    /\ vrPhase \in {"idle", "lookup", "open", "check", "slave", "read"}
    /\ vrReq \in [offset: 0..255, len: 0..255, at: Entries \cup {Nowhere}]
    /\ slave \in {NoAddr} \cup 0..127
    /\ vrReply \in [cc: {"none", "ok", "badlen", "invalid"}, len: 0..255,
                    offset: 0..255, version: (0..63) \X {0, 1} \X {0, 1}]
    /\ leaked \in 0..MaxFds

NoReq == [offset |-> 0, len |-> 0, at |-> Nowhere]
NoVrReply == [cc |-> "none", len |-> 0, offset |-> 0, version |-> NoVersion]

VrInit ==
    /\ vrFds = 0
    /\ regs \in [Entries -> Registers]
    /\ vrPhase = "idle"
    /\ vrReq = NoReq
    /\ slave = NoAddr
    /\ vrReply = NoVrReply
    /\ leaked = 0

-----------------------------------------------------------------------------
VrBadLength ==
    /\ vrPhase = "idle"
    /\ vrReply' = [NoVrReply EXCEPT !.cc = "badlen"]
    /\ UNCHANGED <<vrFds, regs, vrPhase, vrReq, slave, leaked>>

\* The offset indexes the table unchecked.  Past it the three strings are
\* whatever is found there, and the bus may be a name.
ReadVr(offset, len) ==
    /\ vrPhase = "idle"
    /\ \E at \in Entries \cup {Nowhere} :
          /\ offset \in 0..2 => at = InputVerInfo[offset]
          /\ vrReq' = [offset |-> offset, len |-> len, at |-> at]
    /\ \/ vrPhase' = "open"
       \/ offset \notin 0..2 /\ vrPhase' = "lookup"
    /\ slave' = NoAddr
    /\ UNCHANGED <<vrFds, regs, vrReply, leaked>>

\* lookup_i2c_bus_by_name: AdapterTable.  Here, what it does to the descriptors.
LookupByName ==
    /\ vrPhase = "lookup"
    /\ vrFds' \in vrFds..MaxFds
    /\ leaked' = leaked + (vrFds' - vrFds)
    /\ vrPhase' = "open"
    /\ UNCHANGED <<regs, vrReq, slave, vrReply>>

OpenI2cDev ==
    /\ vrPhase = "open"
    /\ vrReq.at.bus # NoBus
    /\ Opens(vrFds)
    /\ vrPhase' = "check"
    /\ UNCHANGED <<regs, vrReq, slave, vrReply, leaked>>

VrReturn(cc, len, version) ==
    /\ vrPhase' = "idle"
    /\ vrReq' = NoReq
    /\ slave' = NoAddr
    /\ vrReply' = [cc |-> cc, len |-> len, offset |-> vrReq.offset, version |-> version]

\* *dataLen is still that of the request.
OpenI2cDevFails ==
    /\ vrPhase = "open"
    /\ OpenRefused(vrFds) \/ (vrReq.at.bus = NoBus /\ UNCHANGED vrFds)
    /\ VrReturn("invalid", 2, NoVersion)
    /\ UNCHANGED <<regs, leaked>>

CheckFuncs ==
    /\ vrPhase = "check"
    /\ vrPhase' = "slave"
    /\ UNCHANGED <<vrFds, regs, vrReq, slave, vrReply, leaked>>

SetSlaveAddr ==
    /\ vrPhase = "slave"
    /\ slave' = vrReq.at.addr
    /\ vrPhase' = "read"
    /\ UNCHANGED <<vrFds, regs, vrReq, vrReply, leaked>>

\* confirm: the tool refuses the addresses of EEPROMs when packets carry an error
\* check, and asks nobody; pec is 0 here.
Pec == FALSE
Confirmed(addr) == ~(Pec /\ addr \in 80..87)

\* The regulator that answers on the bus to the address the file is bound to.
Selected == Vr(vrReq.at.bus, slave, vrReq.at.reg)

\* (mutant) the file is left open.
VrReadByte_Leaks ==
    /\ vrPhase = "read"
    /\ Selected \in Entries
    /\ UNCHANGED vrFds
    /\ VrReturn("ok", vrReq.len, Version(regs[Selected]))
    /\ UNCHANGED <<regs, leaked>>

VrReadByte ==
    /\ vrPhase = "read"
    /\ Confirmed(slave)
    /\ Selected \in Entries
    /\ Closes(vrFds)
    /\ VrReturn("ok", vrReq.len, Version(regs[Selected]))
    /\ UNCHANGED <<regs, leaked>>

\* exit(1) when the adapter or the address is not to be had, exit(0) when the
\* register cannot be read: the daemon ends, and is restarted.
VrRestarted ==
    /\ ProcessEnds(vrFds)
    /\ vrPhase' = "idle"
    /\ vrReq' = NoReq
    /\ slave' = NoAddr
    /\ vrReply' = NoVrReply
    /\ leaked' = 0
    /\ UNCHANGED regs

Exits ==
    /\ \/ vrPhase = "check" /\ "funcs" \in Faults
       \/ vrPhase = "slave" /\ "slave" \in Faults
       \/ vrPhase = "read" /\ ("read" \in Faults \/ ~Confirmed(slave) \/ Selected \notin Entries)
    /\ VrRestarted

VrCrash == "crash" \in Faults /\ VrRestarted

VrServing ==
    \/ LookupByName
    \/ OpenI2cDev \/ OpenI2cDevFails
    \/ CheckFuncs \/ SetSlaveAddr \/ VrReadByte

VrHandling == VrServing \/ Exits

VrRequest ==
    \/ VrBadLength
    \/ \E offset \in Offsets, len \in VrLens : ReadVr(offset, len)

VrNext ==
    \/ VrRequest
    \/ VrHandling
    \/ VrCrash

VrSpec == VrInit /\ [][VrNext]_vrAll

(* A handler that has been entered runs on.                                *)
FairVrSpec == VrSpec /\ WF_vrAll(VrHandling)

-----------------------------------------------------------------------------
VrHolding == IF vrPhase \in {"check", "slave", "read"} THEN 1 ELSE 0

(* Every way out of read_vr_info closes the file or ends the process: but  *)
(* for what look-ups by name leave open, nothing is held between requests. *)
VrHoldsNothing == vrFds = leaked + VrHolding

(* An answer for an index of the table is the version register of that     *)
(* regulator, though two of them share a bus and a register number.        *)
VrAnswerIsRegister ==
    vrReply.cc = "ok" /\ vrReply.offset \in 0..2 =>
        LET r == regs[InputVerInfo[vrReply.offset]] IN
        /\ vrReply.version[1] * 4 + vrReply.version[2] * 2 + vrReply.version[3] = r

(* A request is answered, or the daemon restarts: none is left hanging.    *)
VrEnds == vrPhase # "idle" ~> vrPhase = "idle"
=============================================================================
