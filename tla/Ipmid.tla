-------------------------------- MODULE Ipmid --------------------------------
(***************************************************************************)
(* Three providers in one ipmid: the SFP commands, Get BMC Version and Get *)
(* VR Version.  They share the descriptor table and the life of the        *)
(* process.  One handler runs at a time; what it leaves open, or that it   *)
(* ends the process, the others find.                                      *)
(***************************************************************************)
EXTENDS Integers, Sequences

CONSTANTS
    MaxFds, Faults,
    Ports, LowModes, SfpLens, Counts, Exported, Outputs,
    ReleaseFiles, VersionLens,
    Offsets, VrLens, Registers

ASSUME TableAssumption == MaxFds \in Nat

VARIABLES
    fds,
    pin, sfpPhase, sfpReq, sfpReply, asked, failures,
    file, phase, line, failed, found, answer,
    regs, vrPhase, vrReq, slave, vrReply, leaked

sfpOwn == <<pin, sfpPhase, sfpReq, sfpReply, asked, failures>>
bmcOwn == <<file, phase, line, failed, found, answer>>
vrOwn == <<regs, vrPhase, vrReq, slave, vrReply, leaked>>
ipmidVars == <<fds, sfpOwn, bmcOwn, vrOwn>>

Sfp == INSTANCE SfpPorts WITH sfpFds <- fds
Bmc == INSTANCE BmcVersion WITH bmcFds <- fds
VR == INSTANCE VrInfo WITH vrFds <- fds

(* Requests carry bytes, and what is read has the shape each provider      *)
(* assumes.                                                                *)
ASSUME SfpInputs ==
    /\ Ports \subseteq 0..255 /\ LowModes \subseteq 0..255
    /\ SfpLens \subseteq 0..255 /\ Counts \subseteq 0..255
    /\ Outputs \subseteq Exported

ASSUME BmcInputs ==
    /\ VersionLens \subseteq 0..255
    /\ \A f \in ReleaseFiles : f \in Seq([key: Bmc!Keys, quoted: BOOLEAN, value: STRING,
                                          len: 0..255, long: BOOLEAN])

ASSUME VrInputs ==
    Offsets \subseteq 0..255 /\ VrLens \subseteq 0..255 /\ Registers \subseteq 0..255

IpmidInit == Sfp!SfpInit /\ Bmc!BmcInit /\ VR!VrInit

Free == sfpPhase = "idle" /\ phase = "idle" /\ vrPhase = "idle"

\* (mutant) a second handler is entered while one runs.
Dispatch_Nested ==
    \/ Sfp!SfpRequest /\ UNCHANGED <<bmcOwn, vrOwn>>
    \/ Bmc!BmcRequest /\ UNCHANGED <<sfpOwn, vrOwn>>
    \/ VR!VrRequest /\ UNCHANGED <<sfpOwn, bmcOwn>>

(* A request is taken when no handler runs.                                *)
Dispatch ==
    /\ Free
    /\ \/ Sfp!SfpRequest /\ UNCHANGED <<bmcOwn, vrOwn>>
       \/ Bmc!BmcRequest /\ UNCHANGED <<sfpOwn, vrOwn>>
       \/ VR!VrRequest /\ UNCHANGED <<sfpOwn, bmcOwn>>

(* The handler that was entered runs on.                                   *)
Work ==
    \/ Sfp!Transferring /\ UNCHANGED <<bmcOwn, vrOwn>>
    \/ Bmc!Reading /\ UNCHANGED <<sfpOwn, vrOwn>>
    \/ VR!VrServing /\ UNCHANGED <<sfpOwn, bmcOwn>>

PinChanges == Sfp!PinChanges /\ UNCHANGED <<bmcOwn, vrOwn>>

(* The process ends, for all of them: a regulator that does not answer, a  *)
(* string that overran its field, or anything else.                        *)
Ends ==
    /\ VR!Exits \/ VR!VrCrash
    /\ Sfp!SfpRestarted
    /\ Bmc!BmcRestarted

\* (mutant) the SFP commands keep what they knew.
Overrun_Kept ==
    /\ Bmc!BmcRestart
    /\ VR!VrRestarted
    /\ UNCHANGED sfpOwn

Overrun ==
    /\ Bmc!BmcRestart
    /\ VR!VrRestarted
    /\ Sfp!SfpRestarted

IpmidNext == Dispatch \/ Work \/ PinChanges \/ Ends \/ Overrun

IpmidSpec == IpmidInit /\ [][IpmidNext]_ipmidVars

FairIpmidSpec ==
    /\ IpmidSpec
    /\ WF_ipmidVars(Work \/ (VR!Exits /\ Sfp!SfpRestarted /\ Bmc!BmcRestarted))

-----------------------------------------------------------------------------
Handlers == {"sfp", "bmc", "vr"}
Busy == {h \in Handlers : CASE h = "sfp" -> sfpPhase # "idle"
                            [] h = "bmc" -> phase # "idle"
                            [] h = "vr" -> vrPhase # "idle"}

(* The three providers keep their types over one table, and one handler    *)
(* runs at a time.                                                         *)
IpmidTypeOK ==
    /\ Sfp!SfpTypeOK
    /\ Bmc!BmcTypeOK
    /\ VR!VrTypeOK
    /\ Busy = {} \/ \E h \in Handlers : Busy = {h}

(* Between requests the process holds the descriptors that failed          *)
(* transfers of the SFP commands and look-ups of adapters by name have     *)
(* left open, and not one more, whoever left them and whoever restarted    *)
(* the process.                                                            *)
DescriptorsAccounted == Free => fds = failures + leaked

(* A request to any provider is answered, or the process restarts, even    *)
(* with no descriptor left, but for one case: Get BMC Version is in its    *)
(* loop over a stream that has failed, because os-release could not be     *)
(* opened, has an overlong line or could not be read.                      *)
EveryRequestEnds == ~Free ~> Free \/ (phase = "loop" /\ failed)

(* Every request for the version is answered: "get bmc version info" is    *)
(* what the command is registered for.                                     *)
VersionEnds == phase # "idle" ~> phase = "idle"
=============================================================================
