----------------------------- MODULE Ipmid_proofs -----------------------------
(***************************************************************************)
(* The three providers over one descriptor table, of any size, with any    *)
(* ports, files, regulators and faults: no descriptor is lost but by the   *)
(* two leaks that are counted.                                             *)
(***************************************************************************)
EXTENDS Ipmid, TLAPS

(* One handler runs at a time: what it knows of the table stays true until *)
(* it is done.                                                             *)
OneAtATime ==
    /\ sfpPhase = "idle" \/ phase = "idle"
    /\ sfpPhase = "idle" \/ vrPhase = "idle"
    /\ phase = "idle" \/ vrPhase = "idle"

(* A file of the handler in progress is open.                              *)
Holds ==
    \/ sfpPhase = "transfer"
    \/ phase = "loop"
    \/ vrPhase \in {"check", "slave", "read"}

(* Get BMC Version does not get out of the loop over a stream that failed, *)
(* and nobody knows whether it was ever open.                              *)
Lost == phase = "loop" /\ failed

Accounted ==
    /\ failures \in Nat /\ leaked \in Nat
    /\ ~Lost => fds = failures + leaked + (IF Holds THEN 1 ELSE 0)

-----------------------------------------------------------------------------
LEMMA OneAtATimeInvariant == IpmidSpec => []OneAtATime
<1>1. IpmidInit => OneAtATime
    BY DEF IpmidInit, Sfp!SfpInit, OneAtATime, Bmc!BmcInit, VR!VrInit
<1>2. OneAtATime /\ [IpmidNext]_ipmidVars => OneAtATime'
  <2> SUFFICES ASSUME OneAtATime, [IpmidNext]_ipmidVars PROVE OneAtATime'
    OBVIOUS
  <2> USE DEF OneAtATime
  <2>1. CASE Dispatch
    BY <2>1 DEF Dispatch, Free, sfpOwn, bmcOwn, vrOwn
  <2>2. CASE Sfp!Transferring /\ UNCHANGED <<bmcOwn, vrOwn>>
    <3>1. sfpPhase # "idle" /\ UNCHANGED <<phase, vrPhase>>
      BY <2>2 DEF bmcOwn, vrOwn, Sfp!Transferring, Sfp!OpenFile, Sfp!OpenFails, Sfp!ReadPin,
                  Sfp!WritePin, Sfp!WriteReset, Sfp!ReadMemory, Sfp!MemoryFails,
                  Sfp!TransferFails
    <3> QED
      BY <3>1
  <2>3. CASE Bmc!Reading /\ UNCHANGED <<sfpOwn, vrOwn>>
    <3>1. phase # "idle" /\ UNCHANGED <<sfpPhase, vrPhase>>
      BY <2>3 DEF sfpOwn, vrOwn, Bmc!Reading, Bmc!OpenStream, Bmc!OpenStreamFails,
                  Bmc!NextLine, Bmc!NextLineFails, Bmc!EndOfFile, Bmc!Spin, Bmc!Copy,
                  Bmc!CopyOverruns
    <3> QED
      BY <3>1
  <2>4. CASE VR!VrServing /\ UNCHANGED <<sfpOwn, bmcOwn>>
    <3>1. vrPhase # "idle" /\ UNCHANGED <<sfpPhase, phase>>
      BY <2>4 DEF sfpOwn, bmcOwn, VR!VrServing, VR!LookupByName, VR!OpenI2cDev,
                  VR!OpenI2cDevFails, VR!CheckFuncs, VR!SetSlaveAddr, VR!VrReadByte
    <3> QED
      BY <3>1
  <2>5. CASE PinChanges
    BY <2>5 DEF PinChanges, Sfp!PinChanges, bmcOwn, vrOwn
  <2>6. CASE Ends \/ Overrun
    BY <2>6 DEF Ends, Overrun, Sfp!SfpRestarted, Bmc!BmcRestarted, Bmc!BmcRestart
  <2>7. CASE UNCHANGED ipmidVars
    BY <2>7 DEF ipmidVars, sfpOwn, bmcOwn, vrOwn
  <2> QED
    BY <2>1, <2>2, <2>3, <2>4, <2>5, <2>6, <2>7 DEF IpmidNext, Work
<1> QED
    BY <1>1, <1>2, PTL DEF IpmidSpec

-----------------------------------------------------------------------------
(* The three ways a step moves the account.                                *)
LEMMA Stays ==
    ASSUME Accounted, UNCHANGED <<fds, failures, leaked>>, Holds' <=> Holds, Lost' => Lost,
           ~Lost \/ Lost'
    PROVE  Accounted'
BY DEF Accounted

LEMMA Takes ==
    ASSUME Accounted, fds' = fds + 1, UNCHANGED <<failures, leaked>>, ~Holds, Holds', ~Lost
    PROVE  Accounted'
BY DEF Accounted

LEMMA GivesBack ==
    ASSUME Accounted, fds' = fds - 1, UNCHANGED <<failures, leaked>>, Holds, ~Holds', ~Lost
    PROVE  Accounted'
BY DEF Accounted

LEMMA Restarts ==
    ASSUME fds' = 0, failures' = 0, leaked' = 0, ~Holds'
    PROVE  Accounted'
BY DEF Accounted

(* A table that grows by what a look-up leaves open: arithmetic.           *)
LEMMA Grows ==
    ASSUME NEW f \in Nat, NEW l \in Nat, NEW u \in Int, u >= f + l
    PROVE  l + (u - (f + l)) \in Nat /\ u = f + (l + (u - (f + l)))
OBVIOUS

LEMMA AccountedInvariant == IpmidSpec => []Accounted
<1>1. IpmidInit => Accounted
  <2> SUFFICES ASSUME IpmidInit PROVE Accounted
    OBVIOUS
  <2>1. fds = 0 /\ failures = 0 /\ leaked = 0
    BY DEF IpmidInit, Sfp!SfpInit, VR!VrInit
  <2>2. sfpPhase = "idle" /\ phase = "idle" /\ vrPhase = "idle"
    BY DEF IpmidInit, Sfp!SfpInit, Bmc!BmcInit, VR!VrInit
  <2> QED
    BY <2>1, <2>2 DEF Accounted, Holds
<1>2. OneAtATime /\ Accounted /\ [IpmidNext]_ipmidVars => Accounted'
  <2> SUFFICES ASSUME OneAtATime, Accounted, [IpmidNext]_ipmidVars PROVE Accounted'
    OBVIOUS
  <2>1. ASSUME Free, Sfp!SfpRequest, UNCHANGED <<bmcOwn, vrOwn>> PROVE Accounted'
    <3>1. UNCHANGED <<fds, failures, leaked, phase, failed, vrPhase>>
      BY <2>1 DEF bmcOwn, vrOwn, Sfp!SfpRequest, Sfp!WrongLength, Sfp!GetSum,
                  Sfp!GetStatus, Sfp!OutOfRange, Sfp!SetLowPowerMode, Sfp!Reset,
                  Sfp!ReadRom, Sfp!SfpRefuse, Sfp!Accept
    <3>2. sfpPhase' \in {"idle", "open"}
      BY <2>1 DEF Free, Sfp!SfpRequest, Sfp!WrongLength, Sfp!GetSum,
                  Sfp!GetStatus, Sfp!OutOfRange, Sfp!SetLowPowerMode, Sfp!Reset,
                  Sfp!ReadRom, Sfp!SfpRefuse, Sfp!Accept
    <3> QED
      BY <2>1, <3>1, <3>2, Stays DEF Free, Holds, Lost
  <2>2. ASSUME Free, Bmc!BmcRequest, UNCHANGED <<sfpOwn, vrOwn>> PROVE Accounted'
    <3>1. /\ UNCHANGED <<fds, failures, leaked, sfpPhase, vrPhase>>
          /\ phase' \in {"idle", "open"}
      BY <2>2 DEF Free, sfpOwn, vrOwn, Bmc!BmcRequest, Bmc!GetVersion
    <3> QED
      BY <2>2, <3>1, Stays DEF Free, Holds, Lost
  <2>3. ASSUME Free, VR!VrRequest, UNCHANGED <<sfpOwn, bmcOwn>> PROVE Accounted'
    <3>1. /\ UNCHANGED <<fds, failures, leaked, sfpPhase, phase>>
          /\ vrPhase' \in {"idle", "open", "lookup"}
      BY <2>3 DEF Free, sfpOwn, bmcOwn, VR!VrRequest, VR!VrBadLength, VR!ReadVr
    <3> QED
      BY <2>3, <3>1, Stays DEF Free, Holds, Lost
  <2>4. CASE Sfp!Transferring /\ UNCHANGED <<bmcOwn, vrOwn>>
    <3>1. UNCHANGED <<leaked, phase, failed, vrPhase>> /\ sfpPhase # "idle"
      BY <2>4 DEF bmcOwn, vrOwn, Sfp!Transferring, Sfp!OpenFile, Sfp!OpenFails, Sfp!ReadPin,
                  Sfp!WritePin, Sfp!WriteReset, Sfp!ReadMemory, Sfp!MemoryFails,
                  Sfp!TransferFails
    <3>2. phase = "idle" /\ vrPhase = "idle" /\ ~Lost /\ ~Lost'
      BY <3>1 DEF OneAtATime, Lost
    <3>3. CASE Sfp!OpenFile
      BY <3>1, <3>2, <3>3, Takes DEF Sfp!OpenFile, Sfp!Opens, Holds
    <3>4. CASE Sfp!OpenFails
      BY <3>1, <3>2, <3>4, Stays DEF Sfp!OpenFails, Sfp!OpenRefused, Sfp!SfpReturn, Holds
    <3>5. CASE Sfp!ReadPin \/ Sfp!WritePin \/ Sfp!WriteReset
      BY <3>1, <3>2, <3>5, GivesBack DEF Sfp!ReadPin, Sfp!WritePin, Sfp!WriteReset,
                                         Sfp!Closes, Sfp!SfpReturn, Holds
    <3>6. CASE Sfp!ReadMemory \/ Sfp!MemoryFails
      BY <3>1, <3>2, <3>6, GivesBack DEF Sfp!ReadMemory, Sfp!MemoryFails, Sfp!Closes,
                                         Sfp!SfpReturn, Holds
    <3>7. CASE Sfp!TransferFails
      <4>1. /\ sfpPhase = "transfer" /\ sfpPhase' = "idle"
            /\ failures' = failures + 1 /\ fds' = fds
        BY <3>7 DEF Sfp!TransferFails, Sfp!SfpReturn
      <4> QED
        BY <3>1, <3>2, <4>1 DEF Accounted, Holds
    <3> QED
      BY <2>4, <3>3, <3>4, <3>5, <3>6, <3>7 DEF Sfp!Transferring
  <2>5. CASE Bmc!Reading /\ UNCHANGED <<sfpOwn, vrOwn>>
    <3>1. UNCHANGED <<failures, leaked, sfpPhase, vrPhase>> /\ phase # "idle"
      BY <2>5 DEF sfpOwn, vrOwn, Bmc!Reading, Bmc!OpenStream, Bmc!OpenStreamFails,
                  Bmc!NextLine, Bmc!NextLineFails, Bmc!EndOfFile, Bmc!Spin, Bmc!Copy,
                  Bmc!CopyOverruns
    <3>2. sfpPhase = "idle" /\ vrPhase = "idle"
      BY <3>1 DEF OneAtATime
    <3>3. CASE Bmc!OpenStream
      BY <3>1, <3>2, <3>3, Takes DEF Bmc!OpenStream, Bmc!Opens, Holds, Lost
    <3>4. CASE Bmc!OpenStreamFails
      BY <3>1, <3>4 DEF Bmc!OpenStreamFails, Accounted, Lost
    <3>5. CASE Bmc!NextLine \/ Bmc!NextLineFails
      <4>1. /\ phase = "loop" /\ ~failed
            /\ UNCHANGED <<fds, phase>>
        BY <3>5 DEF Bmc!NextLine, Bmc!NextLineFails
      <4>2. CASE Lost'
        BY <3>1, <4>2 DEF Accounted
      <4>3. CASE ~Lost'
        BY <3>1, <4>1, <4>3, Stays DEF Holds, Lost
      <4> QED
        BY <4>2, <4>3
    <3>6. CASE Bmc!EndOfFile
      BY <3>1, <3>2, <3>6, GivesBack DEF Bmc!EndOfFile, Bmc!Closes, Holds, Lost
    <3>7. CASE Bmc!Spin
      <4>1. UNCHANGED <<fds, phase, failed>>
        BY <3>7 DEF Bmc!Spin, Bmc!bmcAll, Bmc!bmcVars
      <4> QED
        BY <3>1, <4>1, Stays DEF Holds, Lost
    <3>8. CASE Bmc!Copy \/ Bmc!CopyOverruns
      BY <3>1, <3>8, Stays DEF Bmc!Copy, Bmc!CopyOverruns, Holds, Lost
    <3> QED
      BY <2>5, <3>3, <3>4, <3>5, <3>6, <3>7, <3>8 DEF Bmc!Reading
  <2>6. CASE VR!VrServing /\ UNCHANGED <<sfpOwn, bmcOwn>>
    <3>1. UNCHANGED <<failures, sfpPhase, phase, failed>> /\ vrPhase # "idle"
      BY <2>6 DEF sfpOwn, bmcOwn, VR!VrServing, VR!LookupByName, VR!OpenI2cDev,
                  VR!OpenI2cDevFails, VR!CheckFuncs, VR!SetSlaveAddr, VR!VrReadByte
    <3>2. sfpPhase = "idle" /\ phase = "idle" /\ ~Lost /\ ~Lost'
      BY <3>1 DEF OneAtATime, Lost
    <3>3. CASE VR!LookupByName
      <4>1. /\ vrPhase = "lookup" /\ vrPhase' = "open"
            /\ fds' \in fds..MaxFds /\ leaked' = leaked + (fds' - fds)
        BY <3>3 DEF VR!LookupByName
      <4>2. ~Holds /\ ~Holds'
        BY <3>1, <3>2, <4>1 DEF Holds
      <4>3. fds = failures + leaked /\ failures \in Nat /\ leaked \in Nat
        BY <3>2, <4>2 DEF Accounted
      <4>4. fds' \in Int /\ fds' >= fds
        BY <4>1, <4>3, TableAssumption
      <4>5. /\ failures' = failures /\ fds \in Int
            /\ leaked' = leaked + (fds' - fds)
        BY <3>1, <4>1, <4>3
      <4>6. leaked' \in Nat /\ fds' = failures' + leaked'
        BY <4>3, <4>4, <4>5, Grows
      <4> QED
        BY <3>1, <4>2, <4>3, <4>6 DEF Accounted
    <3>4. CASE VR!OpenI2cDev
      BY <3>1, <3>2, <3>4, Takes DEF VR!OpenI2cDev, VR!Opens, Holds
    <3>5. CASE VR!OpenI2cDevFails
      BY <3>1, <3>2, <3>5, Stays DEF VR!OpenI2cDevFails, VR!OpenRefused, VR!VrReturn, Holds
    <3>6. CASE VR!CheckFuncs \/ VR!SetSlaveAddr
      BY <3>1, <3>2, <3>6, Stays DEF VR!CheckFuncs, VR!SetSlaveAddr, Holds
    <3>7. CASE VR!VrReadByte
      BY <3>1, <3>2, <3>7, GivesBack DEF VR!VrReadByte, VR!Closes, VR!VrReturn, Holds
    <3> QED
      BY <2>6, <3>3, <3>4, <3>5, <3>6, <3>7 DEF VR!VrServing
  <2>7. CASE PinChanges
    <3>1. UNCHANGED <<fds, failures, leaked, sfpPhase, phase, failed, vrPhase>>
      BY <2>7 DEF PinChanges, Sfp!PinChanges, bmcOwn, vrOwn
    <3> QED
      BY <3>1, Stays DEF Holds, Lost
  <2>8. CASE Ends
    <3>1. Sfp!SfpRestarted /\ Bmc!BmcRestarted /\ VR!VrRestarted
      BY <2>8 DEF Ends, VR!Exits, VR!VrCrash
    <3> QED
      BY <3>1, Restarts DEF Sfp!SfpRestarted, Bmc!BmcRestarted, VR!VrRestarted,
                            Sfp!ProcessEnds, Holds
  <2>9. CASE Overrun
    BY <2>9, Restarts DEF Overrun, Bmc!BmcRestart, Sfp!SfpRestarted, Bmc!BmcRestarted,
                          VR!VrRestarted, Sfp!ProcessEnds, Holds
  <2>10. CASE UNCHANGED ipmidVars
    <3>1. UNCHANGED <<fds, failures, leaked, sfpPhase, phase, failed, vrPhase>>
      BY <2>10 DEF ipmidVars, sfpOwn, bmcOwn, vrOwn
    <3> QED
      BY <3>1, Stays DEF Holds, Lost
  <2> QED
    BY <2>1, <2>2, <2>3, <2>4, <2>5, <2>6, <2>7, <2>8, <2>9, <2>10
       DEF IpmidNext, Dispatch, Work
<1> QED
    BY <1>1, <1>2, OneAtATimeInvariant, PTL DEF IpmidSpec

(* Between requests the process holds what failed transfers and look-ups   *)
(* have left open, and not one descriptor more: for every size of the      *)
(* table and every order of requests, failures and restarts.               *)
THEOREM TableAccounted == IpmidSpec => []DescriptorsAccounted
<1>1. Accounted => DescriptorsAccounted
  <2> SUFFICES ASSUME Accounted, Free PROVE fds = failures + leaked
    BY DEF DescriptorsAccounted
  <2>1. ~Lost /\ ~Holds
    BY DEF Free, Lost, Holds
  <2> QED
    BY <2>1 DEF Accounted
<1> QED
    BY <1>1, AccountedInvariant, PTL

-----------------------------------------------------------------------------
(* What the SFP commands keep beside the table.  A port in progress is one *)
(* that a request named, and what is transferred to or from exists.        *)
SfpRequests == [cmd: Sfp!Commands \cup {"none"}, port: 0..255, arg: 0..255]
SfpCodes == {"none", "ok", "badlen", "range", "invalid"}
SfpReplies == [cc: SfpCodes, len: 0..255, value: Sfp!NoValue..255]

SfpPart ==
    /\ pin \in [Exported -> {0, 1}]
    /\ sfpPhase \in {"idle", "open", "transfer"}
    /\ sfpReq \in SfpRequests
    /\ sfpPhase # "idle" => sfpReq.port \in Ports
    /\ sfpReply \in SfpReplies
    /\ asked \in [Ports -> {0, 1, Sfp!Unasked}]
    /\ sfpPhase = "transfer" => Sfp!Exists

LEMMA SfpRequestTyped ==
    ASSUME NEW c \in Sfp!Commands \cup {"none"}, NEW p \in 0..255, NEW arg \in 0..255
    PROVE  [cmd |-> c, port |-> p, arg |-> arg] \in SfpRequests
BY DEF SfpRequests

LEMMA SfpReplyTyped ==
    ASSUME NEW cc \in SfpCodes, NEW len \in 0..255, NEW value \in Sfp!NoValue..255
    PROVE  [cc |-> cc, len |-> len, value |-> value] \in SfpReplies
BY DEF SfpReplies

LEMMA SfpBytes ==
    /\ Sfp!NoValue \in Sfp!NoValue..255 /\ 0 \in Sfp!NoValue..255 /\ 1 \in Sfp!NoValue..255
    /\ \A n \in 0..255 : n \in Sfp!NoValue..255
    /\ 0 \in 0..255 /\ 1 \in 0..255 /\ Sfp!SfpSum \in 0..255 /\ Sfp!SfpSum \in Sfp!NoValue..255
<1>1. Sfp!NoValue \in Int /\ Sfp!NoValue <= 0
    BY DEF Sfp!NoValue
<1>2. Sfp!SfpSum \in 0..255
    BY DEF Sfp!SfpSum
<1> QED
    BY <1>1, <1>2

LEMMA SfpWords ==
    /\ Sfp!Banks \subseteq Sfp!Commands /\ "setlp" \in Sfp!Commands /\ "reset" \in Sfp!Commands
    /\ "rom" \in Sfp!Commands
    /\ \A cc \in {"none", "ok", "badlen", "range", "invalid"} : cc \in SfpCodes
    /\ Sfp!NoCommand \in SfpRequests
<1>1. "none" \in Sfp!Commands \cup {"none"} /\ 0 \in 0..255
    OBVIOUS
<1>2. Sfp!NoCommand \in SfpRequests
    BY <1>1, SfpRequestTyped, Zenon DEF Sfp!NoCommand
<1> QED
    BY <1>2 DEF Sfp!Commands, SfpCodes

(* A reply of a handler that is done, and one of a request refused.        *)
LEMMA SfpPartKept ==
    ASSUME SfpPart, sfpPhase' \in {"idle", "open"}, sfpReply' \in SfpReplies,
           sfpReq' \in SfpRequests, sfpPhase' = "idle" \/ sfpReq'.port \in Ports,
           UNCHANGED <<pin, asked>>
    PROVE  SfpPart'
BY DEF SfpPart

LEMMA SfpRequestKeeps == SfpPart /\ Sfp!SfpRequest => SfpPart'
<1> SUFFICES ASSUME SfpPart, Sfp!SfpRequest PROVE SfpPart'
    OBVIOUS
<1>0. sfpReq \in SfpRequests /\ Ports \subseteq 0..255 /\ LowModes \subseteq 0..255
      /\ Counts \subseteq 0..255 /\ SfpLens \subseteq 0..255
    BY SfpInputs DEF SfpPart
<1>1. ASSUME NEW cc \in SfpCodes, NEW len \in 0..255, Sfp!SfpRefuse(cc, len) PROVE SfpPart'
  <2>1. sfpReply' \in SfpReplies
    BY <1>1, SfpReplyTyped, SfpBytes, Zenon DEF Sfp!SfpRefuse
  <2> QED
    BY <1>0, <1>1, <2>1, SfpPartKept DEF Sfp!SfpRefuse
<1>2. ASSUME NEW c \in Sfp!Commands, NEW p \in Ports, NEW arg \in 0..255, Sfp!Accept(c, p, arg)
      PROVE SfpPart'
  <2>1. /\ sfpPhase' = "open" /\ UNCHANGED <<pin, asked>>
        /\ sfpReq' = [cmd |-> c, port |-> p, arg |-> arg]
        /\ sfpReply' = [cc |-> "none", len |-> IF c = "rom" THEN 0 ELSE 1,
                         value |-> Sfp!NoValue]
    BY <1>2 DEF Sfp!Accept
  <2>2. p \in 0..255 /\ c \in Sfp!Commands \cup {"none"}
    BY <1>0
  <2>3. sfpReq' \in SfpRequests
    BY <2>1, <2>2, SfpRequestTyped, Zenon
  <2>4. sfpReply' \in SfpReplies
    <3>1. /\ "none" \in SfpCodes /\ (IF c = "rom" THEN 0 ELSE 1) \in 0..255
          /\ Sfp!NoValue \in Sfp!NoValue..255
      BY SfpBytes DEF SfpCodes
    <3> QED
      BY <2>1, <3>1, SfpReplyTyped, Zenon
  <2>5. sfpReq'.port \in Ports
    BY <2>1
  <2> QED
    BY <2>1, <2>3, <2>4, <2>5, SfpPartKept
<1>3. ASSUME NEW c, NEW p, Sfp!OutOfRange(c, p) PROVE SfpPart'
  <2>1. "range" \in SfpCodes /\ 0 \in 0..255 /\ Sfp!SfpRefuse("range", 0)
    BY <1>3 DEF Sfp!OutOfRange, SfpCodes
  <2> QED
    BY <1>1, <2>1, Zenon
<1>4. CASE \E c \in Sfp!Commands, len \in SfpLens : Sfp!WrongLength(c, len)
  <2>1. PICK c \in Sfp!Commands, len \in SfpLens : Sfp!WrongLength(c, len)
    BY <1>4
  <2>2. "badlen" \in SfpCodes /\ 0 \in 0..255 /\ len \in 0..255
    BY <1>0 DEF SfpCodes
  <2>3. Sfp!SfpRefuse("badlen", 0) \/ Sfp!SfpRefuse("badlen", len)
    BY <2>1 DEF Sfp!WrongLength
  <2> QED
    BY <1>1, <2>2, <2>3, Zenon
<1>5. CASE Sfp!GetSum
  <2>1. /\ sfpReply' = [cc |-> "ok", len |-> 1, value |-> Sfp!SfpSum]
        /\ "ok" \in SfpCodes /\ 1 \in 0..255 /\ Sfp!SfpSum \in Sfp!NoValue..255
    BY <1>5, SfpBytes DEF Sfp!GetSum, SfpCodes
  <2>2. sfpReply' \in SfpReplies
    BY <2>1, SfpReplyTyped, Zenon
  <2> QED
    BY <1>0, <1>5, <2>2, SfpPartKept DEF Sfp!GetSum
<1>6. ASSUME NEW p \in Ports, NEW b \in Sfp!Banks, Sfp!GetStatus(b, p) PROVE SfpPart'
  <2>1. b \in Sfp!Commands /\ 0 \in 0..255
    BY SfpWords
  <2> QED
    BY <1>2, <1>3, <1>6, <2>1, Zenon DEF Sfp!GetStatus
<1>7. ASSUME NEW p \in Ports, NEW mode \in LowModes, Sfp!SetLowPowerMode(p, mode) PROVE SfpPart'
  <2>1. "setlp" \in Sfp!Commands /\ mode \in 0..255
    BY <1>0, SfpWords
  <2> QED
    BY <1>2, <1>7, <2>1, Zenon DEF Sfp!SetLowPowerMode
<1>8. ASSUME NEW p \in Ports, Sfp!Reset(p) PROVE SfpPart'
  <2>1. "reset" \in Sfp!Commands /\ 0 \in 0..255
    BY SfpWords
  <2> QED
    BY <1>2, <1>8, <2>1, Zenon DEF Sfp!Reset
<1>9. ASSUME NEW p \in Ports, NEW count \in Counts, Sfp!ReadRom(p, count) PROVE SfpPart'
  <2>1. "rom" \in Sfp!Commands /\ count \in 0..255
    BY <1>0, SfpWords
  <2> QED
    BY <1>2, <1>3, <1>9, <2>1, Zenon DEF Sfp!ReadRom
<1> QED
    BY <1>4, <1>5, <1>6, <1>7, <1>8, <1>9, Zenon DEF Sfp!SfpRequest

LEMMA TransferKeeps == SfpPart /\ Sfp!Transferring => SfpPart'
<1> SUFFICES ASSUME SfpPart, Sfp!Transferring PROVE SfpPart'
    OBVIOUS
<1>0. /\ sfpReply.len \in 0..255
      /\ sfpReq.arg \in 0..255
      /\ sfpPhase # "idle" => sfpReq.port \in Ports
    BY DEF SfpPart, SfpReplies, SfpRequests
<1>1. ASSUME NEW cc \in SfpCodes, NEW len \in 0..255, NEW value \in Sfp!NoValue..255,
             Sfp!SfpReturn(cc, len, value)
      PROVE  sfpPhase' = "idle" /\ sfpReq' \in SfpRequests /\ sfpReply' \in SfpReplies
  <2>1. sfpReply' \in SfpReplies
    BY <1>1, SfpReplyTyped, Zenon DEF Sfp!SfpReturn
  <2> QED
    BY <1>1, <2>1, SfpWords DEF Sfp!SfpReturn
<1>2. "ok" \in SfpCodes /\ "invalid" \in SfpCodes
    BY SfpWords
<1>3. CASE Sfp!OpenFile
    BY <1>3 DEF Sfp!OpenFile, SfpPart, Sfp!Exists, Sfp!OnPin, Sfp!CurPin
<1>4. CASE Sfp!OpenFails \/ Sfp!MemoryFails \/ Sfp!TransferFails
  <2>1. Sfp!SfpReturn("invalid", sfpReply.len, Sfp!NoValue) /\ UNCHANGED <<pin, asked>>
    BY <1>4 DEF Sfp!OpenFails, Sfp!MemoryFails, Sfp!TransferFails
  <2>2. sfpPhase' = "idle" /\ sfpReq' \in SfpRequests /\ sfpReply' \in SfpReplies
    BY <1>0, <1>1, <1>2, <2>1, SfpBytes, Zenon
  <2> QED
    BY <2>1, <2>2, SfpPartKept
<1>5. CASE Sfp!ReadPin
  <2>1. pin[Sfp!CurPin] \in {0, 1}
    BY <1>5 DEF Sfp!ReadPin, SfpPart, Sfp!Exists, Sfp!OnPin
  <2>2. Sfp!Status(sfpReq.cmd, pin[Sfp!CurPin]) \in Sfp!NoValue..255
    BY <2>1, SfpBytes DEF Sfp!Status
  <2>3. Sfp!SfpReturn("ok", sfpReply.len, Sfp!Status(sfpReq.cmd, pin[Sfp!CurPin]))
        /\ UNCHANGED <<pin, asked>>
    BY <1>5 DEF Sfp!ReadPin
  <2>4. sfpPhase' = "idle" /\ sfpReq' \in SfpRequests /\ sfpReply' \in SfpReplies
    BY <1>0, <1>1, <1>2, <2>2, <2>3, Zenon
  <2> QED
    BY <2>3, <2>4, SfpPartKept
<1>6. CASE Sfp!WriteReset
  <2>1. Sfp!SfpReturn("ok", sfpReply.len, 0) /\ UNCHANGED <<pin, asked>>
    BY <1>6 DEF Sfp!WriteReset
  <2>2. sfpPhase' = "idle" /\ sfpReq' \in SfpRequests /\ sfpReply' \in SfpReplies
    BY <1>0, <1>1, <1>2, <2>1, SfpBytes, Zenon
  <2> QED
    BY <2>1, <2>2, SfpPartKept
<1>7. CASE Sfp!ReadMemory
  <2>1. PICK n \in {sfpReq.arg} \cup {k \in 0..sfpReq.arg : "short" \in Faults} :
           Sfp!SfpReturn("ok", sfpReq.arg, n)
    BY <1>7 DEF Sfp!ReadMemory
  <2>2. n \in Sfp!NoValue..255
    BY <1>0, SfpBytes
  <2>3. sfpPhase' = "idle" /\ sfpReq' \in SfpRequests /\ sfpReply' \in SfpReplies
    BY <1>0, <1>1, <1>2, <2>1, <2>2, Zenon
  <2>4. UNCHANGED <<pin, asked>>
    BY <1>7 DEF Sfp!ReadMemory
  <2> QED
    BY <2>3, <2>4, SfpPartKept
<1>8. CASE Sfp!WritePin
  <2>1. /\ Sfp!CurPin \in Exported /\ sfpReq.port \in Ports /\ Sfp!Level(sfpReq.arg) \in {0, 1}
    BY <1>0, <1>8, SfpInputs DEF Sfp!WritePin, Sfp!Level
  <2>2. /\ pin' = [pin EXCEPT ![Sfp!CurPin] = Sfp!Level(sfpReq.arg)]
        /\ asked' = [asked EXCEPT ![sfpReq.port] = Sfp!Level(sfpReq.arg)]
        /\ Sfp!SfpReturn("ok", sfpReply.len, 0)
    BY <1>8 DEF Sfp!WritePin
  <2>3. pin' \in [Exported -> {0, 1}] /\ asked' \in [Ports -> {0, 1, Sfp!Unasked}]
    BY <2>1, <2>2 DEF SfpPart
  <2>4. sfpPhase' = "idle" /\ sfpReq' \in SfpRequests /\ sfpReply' \in SfpReplies
    BY <1>0, <1>1, <1>2, <2>2, SfpBytes, Zenon
  <2> QED
    BY <2>3, <2>4 DEF SfpPart
<1> QED
    BY <1>3, <1>4, <1>5, <1>6, <1>7, <1>8 DEF Sfp!Transferring

(* Everything that may happen to the SFP commands while others run.        *)
LEMMA SfpKeeps ==
    ASSUME SfpPart,
           \/ Sfp!SfpRequest \/ Sfp!Transferring \/ Sfp!PinChanges
           \/ Sfp!SfpRestarted \/ UNCHANGED sfpOwn
    PROVE  SfpPart'
<1>1. CASE Sfp!PinChanges
  <2>1. PICK g \in Exported \ Outputs : pin' = [pin EXCEPT ![g] = 1 - @]
    BY <1>1 DEF Sfp!PinChanges
  <2>2. pin[g] \in {0, 1}
    BY DEF SfpPart
  <2>3. pin' \in [Exported -> {0, 1}]
    BY <2>1, <2>2 DEF SfpPart
  <2> QED
    BY <1>1, <2>3 DEF Sfp!PinChanges, SfpPart, Sfp!Exists, Sfp!OnPin, Sfp!CurPin
<1>2. CASE Sfp!SfpRestarted
  <2>1. sfpReply' \in SfpReplies
    BY <1>2, SfpReplyTyped, SfpBytes, SfpWords, Zenon DEF Sfp!SfpRestarted
  <2>2. sfpPhase' = "idle" /\ sfpReq' \in SfpRequests /\ UNCHANGED <<pin, asked>>
    BY <1>2, SfpWords DEF Sfp!SfpRestarted
  <2> QED
    BY <2>1, <2>2, SfpPartKept
<1>3. CASE UNCHANGED sfpOwn
    BY <1>3 DEF sfpOwn, SfpPart, Sfp!Exists, Sfp!OnPin, Sfp!CurPin
<1> QED
    BY <1>1, <1>2, <1>3, SfpRequestKeeps, TransferKeeps

LEMMA SfpBegins == Sfp!SfpInit => SfpPart
<1> SUFFICES ASSUME Sfp!SfpInit PROVE SfpPart
    OBVIOUS
<1>1. sfpReply \in SfpReplies
    BY SfpReplyTyped, SfpBytes, SfpWords, Zenon DEF Sfp!SfpInit
<1> QED
    BY <1>1, SfpWords DEF Sfp!SfpInit, SfpPart, Sfp!Unasked

-----------------------------------------------------------------------------
(* What Get BMC Version keeps: strings of the lines it has read.           *)
ReleaseLine == [key: Bmc!Keys, quoted: BOOLEAN, value: STRING, len: 0..255, long: BOOLEAN]
Strings == [value: Bmc!Texts, len: 0..255]
VersionTexts == [Bmc!VersionFields -> Bmc!Texts]
VersionReplies == [cc: {"none", "ok", "badlen"}, len: {0, Bmc!ResSize}, text: VersionTexts]

BmcPart ==
    /\ file \in ReleaseFiles
    /\ phase \in {"idle", "open", "loop", "copy"}
    /\ line \in 0..Len(file)
    /\ failed \in BOOLEAN
    /\ found \in [Bmc!VersionFields -> Strings]
    /\ answer \in VersionReplies

LEMMA Element ==
    ASSUME NEW S, NEW s \in Seq(S), NEW i \in 1..Len(s) PROVE s[i] \in S
OBVIOUS

LEMMA ReleaseTyped ==
    ASSUME NEW f \in ReleaseFiles
    PROVE  /\ f \in Seq(ReleaseLine) /\ Len(f) \in Nat
           /\ \A i \in 1..Len(f) : f[i] \in ReleaseLine
<1>1. f \in Seq(ReleaseLine)
    BY BmcInputs DEF ReleaseLine
<1> QED
    BY <1>1, Element

LEMMA StringTyped ==
    /\ Bmc!Nothing \in [Bmc!VersionFields -> Strings]
    /\ Bmc!NoText \in VersionTexts /\ Bmc!Garbage \in Bmc!Texts
<1>1. Bmc!NoString \in Bmc!Texts /\ Bmc!Garbage \in Bmc!Texts
    BY DEF Bmc!Texts
<1>2. Bmc!Empty \in Strings
    BY <1>1 DEF Bmc!Empty, Strings
<1> QED
    BY <1>1, <1>2 DEF Bmc!Nothing, Bmc!NoText, VersionTexts

LEMMA CutTyped ==
    ASSUME NEW f \in ReleaseFiles, NEW i \in 1..Len(f)
    PROVE  Bmc!Cut(f[i]) \in Strings
<1>1. f[i].len \in 0..255
    BY ReleaseTyped DEF ReleaseLine
<1>2. f[i].value \in Bmc!Texts /\ Bmc!WholeLine \in Bmc!Texts
    BY DEF Bmc!Texts, Bmc!FileValues
<1>3. (IF f[i].quoted THEN f[i].value ELSE Bmc!WholeLine) \in Bmc!Texts
    BY <1>2
<1> QED
    BY <1>1, <1>3 DEF Bmc!Cut, Strings

LEMMA VersionReplyTyped ==
    ASSUME NEW cc \in {"none", "ok", "badlen"}, NEW len \in {0, Bmc!ResSize},
           NEW text \in VersionTexts
    PROVE  [cc |-> cc, len |-> len, text |-> text] \in VersionReplies
BY DEF VersionReplies

LEMMA VersionWords ==
    /\ 0 \in {0, Bmc!ResSize} /\ Bmc!ResSize \in {0, Bmc!ResSize}
    /\ "none" \in {"none", "ok", "badlen"} /\ "ok" \in {"none", "ok", "badlen"}
    /\ "badlen" \in {"none", "ok", "badlen"}
OBVIOUS

(* A handler that begins, or whose process was restarted.                  *)
LEMMA BmcFresh ==
    ASSUME file' \in ReleaseFiles, phase' \in {"idle", "open"}, line' = 0, failed' = FALSE,
           found' = Bmc!Nothing, answer' \in VersionReplies
    PROVE  BmcPart'
<1>1. Len(file') \in Nat /\ line' \in 0..Len(file')
    BY ReleaseTyped
<1> QED
    BY <1>1, StringTyped DEF BmcPart

LEMMA CopyKeeps == BmcPart /\ (Bmc!Copy \/ Bmc!CopyOverruns) => BmcPart'
<1> SUFFICES ASSUME BmcPart, Bmc!Copy \/ Bmc!CopyOverruns PROVE BmcPart'
    OBVIOUS
<1>1. \A k \in Bmc!VersionFields : found[k].value \in Bmc!Texts
    BY DEF BmcPart, Strings
<1>2. UNCHANGED <<file, line, failed, found>> /\ phase' = "idle"
    BY DEF Bmc!Copy, Bmc!CopyOverruns
<1>3. CASE Bmc!Copy
  <2>1. [k \in Bmc!VersionFields |-> found[k].value] \in VersionTexts
    BY <1>1 DEF VersionTexts
  <2>2. answer' \in VersionReplies
    BY <1>3, <2>1, VersionWords, VersionReplyTyped, Zenon DEF Bmc!Copy
  <2> QED
    BY <1>2, <2>2 DEF BmcPart
<1>4. CASE Bmc!CopyOverruns
  <2>1. {found[k].value : k \in Bmc!VersionFields} \cup {Bmc!Garbage} \subseteq Bmc!Texts
    BY <1>1, StringTyped
  <2>2. PICK text \in [Bmc!VersionFields ->
                        {found[k].value : k \in Bmc!VersionFields} \cup {Bmc!Garbage}] :
           answer' = [cc |-> "ok", len |-> Bmc!ResSize, text |-> text]
    BY <1>4 DEF Bmc!CopyOverruns
  <2>3. text \in VersionTexts
    BY <2>1, <2>2 DEF VersionTexts
  <2>4. answer' \in VersionReplies
    BY <2>2, <2>3, VersionWords, VersionReplyTyped, Zenon
  <2> QED
    BY <1>2, <2>4 DEF BmcPart
<1> QED
    BY <1>3, <1>4

(* Everything that may happen to Get BMC Version while others run.         *)
LEMMA BmcKeeps ==
    ASSUME BmcPart, Bmc!BmcRequest \/ Bmc!Reading \/ Bmc!BmcRestarted \/ UNCHANGED bmcOwn
    PROVE  BmcPart'
<1>1. CASE Bmc!BmcRequest
  <2>1. /\ file' = file /\ phase' \in {"idle", "open"} /\ line' = 0 /\ failed' = FALSE
        /\ found' = Bmc!Nothing
        /\ answer' = answer \/ answer' = [cc |-> "badlen", len |-> 0, text |-> Bmc!NoText]
    BY <1>1 DEF Bmc!BmcRequest, Bmc!GetVersion
  <2>2. answer' \in VersionReplies
    BY <2>1, VersionWords, VersionReplyTyped, StringTyped, Zenon DEF BmcPart
  <2> QED
    BY <2>1, <2>2, BmcFresh DEF BmcPart
<1>2. CASE Bmc!BmcRestarted
  <2>1. answer' \in VersionReplies
    BY <1>2, VersionWords, VersionReplyTyped, StringTyped, Zenon DEF Bmc!BmcRestarted
  <2> QED
    BY <1>2, <2>1, BmcFresh DEF Bmc!BmcRestarted, BmcPart
<1>3. CASE Bmc!OpenStream \/ Bmc!OpenStreamFails \/ Bmc!NextLineFails \/ Bmc!EndOfFile
    BY <1>3 DEF Bmc!OpenStream, Bmc!OpenStreamFails, Bmc!NextLineFails, Bmc!EndOfFile, BmcPart
<1>4. CASE Bmc!NextLine
  <2> DEFINE l == file[line + 1]
  <2>1. /\ line' = line + 1 /\ line < Len(file)
        /\ UNCHANGED <<file, phase, answer>> /\ failed' = l.long
        /\ found' = IF l.key \in Bmc!VersionFields
                    THEN [found EXCEPT ![l.key] = Bmc!Cut(l)] ELSE found
    BY <1>4 DEF Bmc!NextLine
  <2>2. Len(file) \in Nat /\ line \in 0..Len(file) /\ file \in ReleaseFiles
        /\ found \in [Bmc!VersionFields -> Strings]
    BY ReleaseTyped DEF BmcPart
  <2>3. line + 1 \in 1..Len(file) /\ line' \in 0..Len(file)
    BY <2>1, <2>2
  <2>4. l.long \in BOOLEAN /\ Bmc!Cut(l) \in Strings
    BY <2>2, <2>3, ReleaseTyped, CutTyped DEF ReleaseLine
  <2> HIDE DEF l
  <2>5. found' \in [Bmc!VersionFields -> Strings]
    BY <2>1, <2>2, <2>4
  <2> QED
    BY <2>1, <2>3, <2>4, <2>5 DEF BmcPart
<1>5. CASE Bmc!Spin \/ UNCHANGED bmcOwn
    BY <1>5 DEF Bmc!Spin, Bmc!bmcAll, Bmc!bmcVars, bmcOwn, BmcPart
<1> QED
    BY <1>1, <1>2, <1>3, <1>4, <1>5, CopyKeeps DEF Bmc!Reading

LEMMA BmcBegins == Bmc!BmcInit => BmcPart
<1> SUFFICES ASSUME Bmc!BmcInit PROVE BmcPart
    OBVIOUS
<1>1. Len(file) \in Nat /\ line \in 0..Len(file)
    BY ReleaseTyped DEF Bmc!BmcInit
<1>2. answer \in VersionReplies
    BY VersionWords, VersionReplyTyped, StringTyped, Zenon DEF Bmc!BmcInit
<1> QED
    BY <1>1, <1>2, StringTyped DEF Bmc!BmcInit, BmcPart

-----------------------------------------------------------------------------
(* What Get VR Version keeps: the regulator it goes to.                    *)
VrPlaces == VR!Entries \cup {VR!Nowhere}
VrAddresses == {VR!NoAddr} \cup 0..127
VrRequests == [offset: 0..255, len: 0..255, at: VrPlaces]
VrCodes == {"none", "ok", "badlen", "invalid"}
VrNumbers == (0..63) \X {0, 1} \X {0, 1}
VrReplies == [cc: VrCodes, len: 0..255, offset: 0..255, version: VrNumbers]

VrPart ==
    /\ regs \in [VR!Entries -> Registers]
    /\ vrPhase \in {"idle", "lookup", "open", "check", "slave", "read"}
    /\ vrReq \in VrRequests
    /\ slave \in VrAddresses
    /\ vrReply \in VrReplies

LEMMA PlacesTyped == VR!Nowhere \in VrPlaces /\ \A at \in VrPlaces : at.addr \in VrAddresses
<1>1. /\ VR!InputVerInfo[0] = VR!Vr(19, 117, 117)
      /\ VR!InputVerInfo[1] = VR!Vr(18, 80, 137)
      /\ VR!InputVerInfo[2] = VR!Vr(18, 81, 137)
    BY DEF VR!InputVerInfo
<1>2. \A o \in 0..2 : o = 0 \/ o = 1 \/ o = 2
    OBVIOUS
<1>3. ASSUME NEW at \in VrPlaces
      PROVE  at = VR!Vr(19, 117, 117) \/ at = VR!Vr(18, 80, 137)
                \/ at = VR!Vr(18, 81, 137) \/ at = VR!Nowhere
    BY <1>1, <1>2 DEF VrPlaces, VR!Entries
<1>4. ASSUME NEW at \in VrPlaces PROVE at.addr \in VrAddresses
    BY <1>3 DEF VR!Vr, VR!Nowhere, VR!NoAddr, VrAddresses
<1> QED
    BY <1>4 DEF VrPlaces

LEMMA VersionBits == ASSUME NEW r \in 0..255 PROVE VR!Version(r) \in VrNumbers
<1>1. r \div 4 \in 0..63 /\ r % 4 \in 0..3 /\ r % 2 \in {0, 1}
    OBVIOUS
<1>2. (r % 4) \div 2 \in {0, 1}
    BY <1>1
<1> DEFINE q == r \div 4
           t == (r % 4) \div 2
           u == r % 2
<1>3. VR!Version(r) = <<q, t, u>> /\ q \in 0..63 /\ t \in {0, 1} /\ u \in {0, 1}
    BY <1>1, <1>2 DEF VR!Version
<1> HIDE DEF q, t, u
<1> QED
    BY <1>3 DEF VrNumbers

LEMMA VrRequestTyped ==
    ASSUME NEW offset \in 0..255, NEW len \in 0..255, NEW at \in VrPlaces
    PROVE  [offset |-> offset, len |-> len, at |-> at] \in VrRequests
BY DEF VrRequests

LEMMA VrReplyTyped ==
    ASSUME NEW cc \in VrCodes, NEW len \in 0..255, NEW offset \in 0..255, NEW v \in VrNumbers
    PROVE  [cc |-> cc, len |-> len, offset |-> offset, version |-> v] \in VrReplies
BY DEF VrReplies

LEMMA VrWords ==
    /\ \A cc \in {"none", "ok", "badlen", "invalid"} : cc \in VrCodes
    /\ 0 \in 0..255 /\ 2 \in 0..255 /\ VR!NoVersion \in VrNumbers
    /\ VR!NoReq \in VrRequests /\ VR!NoAddr \in VrAddresses
    /\ VR!NoVrReply \in VrReplies /\ [VR!NoVrReply EXCEPT !.cc = "badlen"] \in VrReplies
<1>1. /\ "none" \in VrCodes /\ "badlen" \in VrCodes
      /\ 0 \in 0..255 /\ 2 \in 0..255 /\ VR!NoVersion \in VrNumbers
    BY DEF VrCodes, VR!NoVersion, VrNumbers
<1>2. VR!NoReq \in VrRequests
    BY <1>1, PlacesTyped, VrRequestTyped, Zenon DEF VR!NoReq
<1>3. [VR!NoVrReply EXCEPT !.cc = "badlen"]
        = [cc |-> "badlen", len |-> 0, offset |-> 0, version |-> VR!NoVersion]
    BY DEF VR!NoVrReply
<1>4. [cc |-> "badlen", len |-> 0, offset |-> 0, version |-> VR!NoVersion] \in VrReplies
    BY <1>1, VrReplyTyped, Zenon
<1>5. VR!NoVrReply \in VrReplies
    BY <1>1, VrReplyTyped, Zenon DEF VR!NoVrReply
<1>6. \A cc \in {"none", "ok", "badlen", "invalid"} : cc \in VrCodes
    BY DEF VrCodes
<1>7. VR!NoAddr \in VrAddresses
    BY DEF VrAddresses
<1> QED
    BY <1>1, <1>2, <1>3, <1>4, <1>5, <1>6, <1>7

LEMMA VrRequestKeeps == VrPart /\ VR!VrRequest => VrPart'
<1> SUFFICES ASSUME VrPart, VR!VrRequest PROVE VrPart'
    OBVIOUS
<1>1. CASE VR!VrBadLength
    BY <1>1, VrWords DEF VR!VrBadLength, VrPart
<1>2. ASSUME NEW offset \in Offsets, NEW len \in VrLens, VR!ReadVr(offset, len) PROVE VrPart'
  <2>1. offset \in 0..255 /\ len \in 0..255
    BY VrInputs
  <2>2. PICK at \in VrPlaces : vrReq' = [offset |-> offset, len |-> len, at |-> at]
    BY <1>2 DEF VR!ReadVr, VrPlaces
  <2>3. vrReq' \in VrRequests
    BY <2>1, <2>2, VrRequestTyped, Zenon
  <2>4. vrPhase' \in {"open", "lookup"} /\ slave' = VR!NoAddr /\ UNCHANGED <<regs, vrReply>>
    BY <1>2 DEF VR!ReadVr
  <2> QED
    BY <2>3, <2>4, VrWords DEF VrPart
<1> QED
    BY <1>1, <1>2 DEF VR!VrRequest

LEMMA ServingKeeps == VrPart /\ VR!VrServing => VrPart'
<1> SUFFICES ASSUME VrPart, VR!VrServing PROVE VrPart'
    OBVIOUS
<1>0. vrReq.offset \in 0..255 /\ vrReq.len \in 0..255 /\ vrReq.at \in VrPlaces
    BY DEF VrPart, VrRequests
<1>1. ASSUME NEW cc \in VrCodes, NEW len \in 0..255, NEW v \in VrNumbers,
             VR!VrReturn(cc, len, v), UNCHANGED regs
      PROVE  VrPart'
  <2>1. vrReply' \in VrReplies
    BY <1>0, <1>1, VrReplyTyped, Zenon DEF VR!VrReturn
  <2> QED
    BY <1>1, <2>1, VrWords DEF VR!VrReturn, VrPart
<1>2. CASE VR!LookupByName \/ VR!OpenI2cDev \/ VR!CheckFuncs
    BY <1>2 DEF VR!LookupByName, VR!OpenI2cDev, VR!CheckFuncs, VrPart
<1>3. CASE VR!SetSlaveAddr
    BY <1>0, <1>3, PlacesTyped DEF VR!SetSlaveAddr, VrPart
<1>4. CASE VR!OpenI2cDevFails
  <2>1. VR!VrReturn("invalid", 2, VR!NoVersion) /\ UNCHANGED regs /\ "invalid" \in VrCodes
    BY <1>4, VrWords DEF VR!OpenI2cDevFails
  <2> QED
    BY <1>1, <2>1, VrWords, Zenon
<1>5. CASE VR!VrReadByte
  <2>1. /\ VR!Selected \in VR!Entries /\ "ok" \in VrCodes
        /\ VR!VrReturn("ok", vrReq.len, VR!Version(regs[VR!Selected])) /\ UNCHANGED regs
    BY <1>5, VrWords DEF VR!VrReadByte
  <2>2. regs[VR!Selected] \in 0..255
    BY <2>1, VrInputs DEF VrPart
  <2> QED
    BY <1>0, <1>1, <2>1, <2>2, VersionBits, Zenon
<1> QED
    BY <1>2, <1>3, <1>4, <1>5 DEF VR!VrServing

(* Everything that may happen to Get VR Version while others run.          *)
LEMMA VrKeeps ==
    ASSUME VrPart, VR!VrRequest \/ VR!VrServing \/ VR!VrRestarted \/ UNCHANGED vrOwn
    PROVE  VrPart'
<1>1. CASE VR!VrRestarted
    BY <1>1, VrWords DEF VR!VrRestarted, VrPart
<1>2. CASE UNCHANGED vrOwn
    BY <1>2 DEF vrOwn, VrPart
<1> QED
    BY <1>1, <1>2, VrRequestKeeps, ServingKeeps

LEMMA VrBegins == VR!VrInit => VrPart
BY VrWords DEF VR!VrInit, VrPart

-----------------------------------------------------------------------------
(* What a step of ipmid is to each provider: a step of its own, the end of *)
(* the process, or nothing, but that the table is not what it was.         *)
LEMMA Views ==
    ASSUME [IpmidNext]_ipmidVars
    PROVE  /\ \/ Sfp!SfpRequest \/ Sfp!Transferring \/ Sfp!PinChanges
              \/ Sfp!SfpRestarted \/ UNCHANGED sfpOwn
           /\ Bmc!BmcRequest \/ Bmc!Reading \/ Bmc!BmcRestarted \/ UNCHANGED bmcOwn
           /\ VR!VrRequest \/ VR!VrServing \/ VR!VrRestarted \/ UNCHANGED vrOwn
<1>1. CASE Dispatch
    BY <1>1 DEF Dispatch
<1>2. CASE Work
    BY <1>2 DEF Work
<1>3. CASE PinChanges
    BY <1>3 DEF PinChanges
<1>4. CASE Ends
    BY <1>4 DEF Ends, VR!Exits, VR!VrCrash
<1>5. CASE Overrun
    BY <1>5 DEF Overrun, Bmc!BmcRestart
<1>6. CASE UNCHANGED ipmidVars
    BY <1>6 DEF ipmidVars
<1> QED
    BY <1>1, <1>2, <1>3, <1>4, <1>5, <1>6 DEF IpmidNext

Parts == SfpPart /\ BmcPart /\ VrPart

LEMMA PartsInvariant == IpmidSpec => []Parts
<1>1. IpmidInit => Parts
    BY SfpBegins, BmcBegins, VrBegins DEF IpmidInit, Parts
<1>2. Parts /\ [IpmidNext]_ipmidVars => Parts'
    BY Views, SfpKeeps, BmcKeeps, VrKeeps DEF Parts
<1> QED
    BY <1>1, <1>2, PTL DEF IpmidSpec

(* The table is never overrun: a descriptor is taken only where there is   *)
(* one.  In a loop over a stream that failed nothing moves.                *)
Bounded ==
    /\ fds \in Int /\ fds <= MaxFds
    /\ Lost => failures + leaked <= fds

LEMMA Moves ==
    ASSUME OneAtATime, [IpmidNext]_ipmidVars
    PROVE  /\ \/ fds' = fds
              \/ fds < MaxFds /\ fds' = fds + 1
              \/ fds' = fds - 1
              \/ fds' = 0
              \/ fds' \in fds..MaxFds
           /\ Lost' => UNCHANGED <<failures, leaked>> /\ fds' \in {fds, fds + 1}
<1> DEFINE Steps ==
        \/ fds' = fds \/ (fds < MaxFds /\ fds' = fds + 1) \/ fds' = fds - 1
        \/ fds' = 0 \/ fds' \in fds..MaxFds
<1>1. CASE Dispatch
  <2>1. phase' \in {"idle", "open"} /\ fds' = fds
    BY <1>1 DEF Dispatch, Free, bmcOwn, sfpOwn, vrOwn,
         Sfp!SfpRequest, Sfp!WrongLength, Sfp!GetSum, Sfp!GetStatus, Sfp!OutOfRange,
         Sfp!SetLowPowerMode, Sfp!Reset, Sfp!ReadRom, Sfp!SfpRefuse, Sfp!Accept,
         Bmc!BmcRequest, Bmc!GetVersion, VR!VrRequest, VR!VrBadLength, VR!ReadVr
  <2> QED
    BY <2>1 DEF Lost
<1>2. CASE Sfp!Transferring /\ UNCHANGED <<bmcOwn, vrOwn>>
  <2>1. sfpPhase # "idle" /\ phase' = phase
    BY <1>2 DEF bmcOwn, Sfp!Transferring, Sfp!OpenFile, Sfp!OpenFails, Sfp!ReadPin,
         Sfp!WritePin, Sfp!WriteReset, Sfp!ReadMemory, Sfp!MemoryFails, Sfp!TransferFails
  <2>2. ~Lost'
    BY <2>1 DEF OneAtATime, Lost
  <2>3. Steps
    BY <1>2 DEF Sfp!Transferring, Sfp!OpenFile, Sfp!OpenFails, Sfp!ReadPin, Sfp!WritePin,
         Sfp!WriteReset, Sfp!ReadMemory, Sfp!MemoryFails, Sfp!TransferFails,
         Sfp!Opens, Sfp!OpenRefused, Sfp!Closes
  <2> QED
    BY <2>2, <2>3
<1>3. CASE Bmc!Reading /\ UNCHANGED <<sfpOwn, vrOwn>>
  <2>1. UNCHANGED <<failures, leaked>>
    BY <1>3 DEF sfpOwn, vrOwn
  <2>2. CASE Bmc!OpenStream
    BY <2>1, <2>2 DEF Bmc!OpenStream, Bmc!Opens
  <2>3. CASE Bmc!EndOfFile
    BY <2>3 DEF Bmc!EndOfFile, Bmc!Closes, Lost
  <2>4. CASE \/ Bmc!OpenStreamFails \/ Bmc!NextLine \/ Bmc!NextLineFails \/ Bmc!Spin
             \/ Bmc!Copy \/ Bmc!CopyOverruns
    BY <2>1, <2>4 DEF Bmc!OpenStreamFails, Bmc!OpenRefused, Bmc!NextLine, Bmc!NextLineFails,
                      Bmc!Spin, Bmc!bmcAll, Bmc!Copy, Bmc!CopyOverruns
  <2> QED
    BY <1>3, <2>2, <2>3, <2>4 DEF Bmc!Reading
<1>4. CASE VR!VrServing /\ UNCHANGED <<sfpOwn, bmcOwn>>
  <2>1. vrPhase # "idle" /\ phase' = phase
    BY <1>4 DEF bmcOwn, VR!VrServing, VR!LookupByName, VR!OpenI2cDev,
         VR!OpenI2cDevFails, VR!CheckFuncs, VR!SetSlaveAddr, VR!VrReadByte
  <2>2. ~Lost'
    BY <2>1 DEF OneAtATime, Lost
  <2>3. Steps
    BY <1>4 DEF VR!VrServing, VR!LookupByName, VR!OpenI2cDev, VR!OpenI2cDevFails,
         VR!CheckFuncs, VR!SetSlaveAddr, VR!VrReadByte, VR!Opens, VR!OpenRefused, VR!Closes
  <2> QED
    BY <2>2, <2>3
<1>5. CASE PinChanges \/ UNCHANGED ipmidVars
    BY <1>5 DEF PinChanges, Sfp!PinChanges, vrOwn, sfpOwn, ipmidVars
<1>6. CASE Ends \/ Overrun
    BY <1>6 DEF Ends, Overrun, Bmc!BmcRestart, Bmc!BmcRestarted, Bmc!ProcessEnds, Lost
<1> QED
    BY <1>1, <1>2, <1>3, <1>4, <1>5, <1>6 DEF IpmidNext, Work

LEMMA BoundedInvariant == IpmidSpec => []Bounded
<1>1. IpmidInit => Bounded
    BY TableAssumption DEF IpmidInit, Sfp!SfpInit, Bmc!BmcInit, Bounded, Lost
<1>2. OneAtATime /\ Accounted /\ Bounded /\ [IpmidNext]_ipmidVars => Bounded'
  <2> SUFFICES ASSUME OneAtATime, Accounted, Bounded, [IpmidNext]_ipmidVars PROVE Bounded'
    OBVIOUS
  <2>1. fds' \in Int /\ fds' <= MaxFds
    BY Moves, TableAssumption DEF Bounded
  <2>2. failures \in Nat /\ leaked \in Nat /\ fds \in Int /\ failures + leaked <= fds
    BY DEF Accounted, Bounded
  <2>3. Lost' => UNCHANGED <<failures, leaked>> /\ fds' \in {fds, fds + 1}
    BY Moves
  <2>4. Lost' => failures' + leaked' <= fds'
    BY <2>2, <2>3
  <2> QED
    BY <2>1, <2>4 DEF Bounded
<1> QED
    BY <1>1, <1>2, OneAtATimeInvariant, AccountedInvariant, PTL DEF IpmidSpec

(* The three providers keep their types in one process: the table is never *)
(* overrun and never given back more than was taken from it, and one       *)
(* handler runs at a time, whatever fails and whoever ends the process.    *)
THEOREM IpmidTypeCorrect == IpmidSpec => []IpmidTypeOK
<1>1. OneAtATime /\ Accounted /\ Parts /\ Bounded => IpmidTypeOK
  <2> SUFFICES ASSUME OneAtATime, Accounted, Parts, Bounded PROVE IpmidTypeOK
    OBVIOUS
  <2>1. failures \in Nat /\ leaked \in Nat /\ failures + leaked <= fds
    BY DEF Accounted, Bounded
  <2>2. fds \in 0..MaxFds /\ leaked \in 0..MaxFds
    BY <2>1, TableAssumption DEF Bounded
  <2>3. Sfp!SfpTypeOK
    BY <2>1, <2>2 DEF Sfp!SfpTypeOK, Sfp!FdsTypeOK, Parts, SfpPart, SfpRequests, SfpReplies,
                      SfpCodes
  <2>4. Bmc!BmcTypeOK
    BY <2>2 DEF Bmc!BmcTypeOK, Bmc!FdsTypeOK, Parts, BmcPart, Strings, VersionReplies,
                VersionTexts
  <2>5. VR!VrTypeOK
    BY <2>2 DEF VR!VrTypeOK, VR!FdsTypeOK, Parts, VrPart, VrPlaces, VrAddresses, VrRequests,
                VrCodes, VrNumbers, VrReplies
  <2>6. Busy = {} \/ \E h \in Handlers : Busy = {h}
    <3>1. /\ Busy \subseteq {"sfp", "bmc", "vr"}
          /\ "sfp" \in Busy <=> sfpPhase # "idle"
          /\ "bmc" \in Busy <=> phase # "idle"
          /\ "vr" \in Busy <=> vrPhase # "idle"
      <4> DEFINE Runs(h) == CASE h = "sfp" -> sfpPhase # "idle"
                              [] h = "bmc" -> phase # "idle"
                              [] h = "vr" -> vrPhase # "idle"
      <4>1. Busy = {h \in {"sfp", "bmc", "vr"} : Runs(h)}
        BY DEF Busy, Handlers
      <4>2. /\ Runs("sfp") <=> sfpPhase # "idle"
            /\ Runs("bmc") <=> phase # "idle"
            /\ Runs("vr") <=> vrPhase # "idle"
        OBVIOUS
      <4> HIDE DEF Runs
      <4> QED
        BY <4>1, <4>2
    <3>2. \/ "bmc" \notin Busy /\ "vr" \notin Busy
          \/ "sfp" \notin Busy /\ "vr" \notin Busy
          \/ "sfp" \notin Busy /\ "bmc" \notin Busy
      BY <3>1 DEF OneAtATime
    <3>3. Busy = {} \/ Busy = {"sfp"} \/ Busy = {"bmc"} \/ Busy = {"vr"}
      BY <3>1, <3>2
    <3> QED
      BY <3>3 DEF Handlers
  <2> QED
    BY <2>3, <2>4, <2>5, <2>6 DEF IpmidTypeOK
<1> QED
    BY <1>1, OneAtATimeInvariant, AccountedInvariant, PartsInvariant, BoundedInvariant, PTL
=============================================================================
