------------------------ MODULE FileProviders_proofs ------------------------
(***************************************************************************)
(* The commands that go through files and devices, each for every value of *)
(* its constants: the SFP ports, the table of I2C adapters, the MAC        *)
(* address, fan control, the voltage regulators, the CPLD and the version  *)
(* of the BMC.                                                             *)
(***************************************************************************)
EXTENDS SfpPorts, BmcVersion, VrInfo, AdapterTable, FanControl, MacEeprom,
        CpldVersion, FiniteSetTheorems, TLAPS

-----------------------------------------------------------------------------
(* SFP commands: whatever ports, pins, faults and lengths of requests      *)
(* there are, what they leak is one descriptor per failed transfer, and    *)
(* what Set Low Power Mode drove stays driven and is what Get reports.     *)
(* The number of the request's port and the command that is in progress.   *)
Requests ==
    /\ sfpPhase \in {"idle", "open", "transfer"}
    /\ sfpReq \in [cmd: Commands \cup {"none"}, port: 0..255, arg: 0..255]
    /\ sfpPhase # "idle" => sfpReq.port \in Ports

(* Descriptors are counted from none, and each is accounted for.           *)
Leaks == failures \in Nat /\ LeakPerFailure

(* A port that was set has a pin that can be driven, and it is as it was   *)
(* set.                                                                    *)
Driven ==
    /\ pin \in [Exported -> {0, 1}]
    /\ asked \in [Ports -> {0, 1, Unasked}]
    /\ \A p \in Ports : asked[p] # Unasked =>
          Pin("lpmode", p) \in Outputs /\ pin[Pin("lpmode", p)] = asked[p]

-----------------------------------------------------------------------------
LEMMA Arguments ==
    /\ Banks \subseteq Commands
    /\ "setlp" \in Commands /\ "reset" \in Commands /\ "rom" \in Commands
    /\ LowModes \subseteq 0..255 /\ Counts \subseteq 0..255 /\ 0 \in 0..255
BY RequestAssumption DEF Commands

LEMMA RequestsInvariant == SfpSpec => []Requests
<1>1. SfpInit => Requests
    BY DEF SfpInit, Requests, NoCommand
<1>2. Requests /\ [SfpNext]_sfpAll => Requests'
  <2> SUFFICES ASSUME Requests, [SfpNext]_sfpAll PROVE Requests'
    OBVIOUS
  <2> USE DEF Requests
  <2>1. ASSUME NEW cc, NEW len, SfpRefuse(cc, len) PROVE Requests'
    BY <2>1 DEF SfpRefuse
  <2>2. ASSUME NEW c \in Commands, NEW p \in Ports, NEW arg \in 0..255, Accept(c, p, arg)
        PROVE Requests'
    BY <2>2, PortsAssumption DEF Accept
  <2>3. ASSUME NEW cc, NEW len, NEW value, SfpReturn(cc, len, value) PROVE Requests'
    BY <2>3 DEF SfpReturn, NoCommand
  <2>4. CASE SfpRequest
    <3>1. CASE \E c \in Commands, len \in SfpLens : WrongLength(c, len)
      BY <3>1, <2>1 DEF WrongLength
    <3>2. CASE GetSum
      BY <3>2 DEF GetSum
    <3>3. ASSUME NEW p \in Ports, NEW b \in Banks, GetStatus(b, p) PROVE Requests'
      <4>1. b \in Commands /\ 0 \in 0..255
        BY Arguments, Zenon
      <4>2. OutOfRange(b, p) => Requests'
        BY <2>1 DEF OutOfRange
      <4>3. Accept(b, p, 0) => Requests'
        BY <2>2, <4>1, Zenon
      <4> QED
        BY <3>3, <4>2, <4>3 DEF GetStatus
    <3>4. ASSUME NEW p \in Ports, NEW mode \in LowModes, SetLowPowerMode(p, mode)
          PROVE Requests'
      <4>1. "setlp" \in Commands /\ mode \in 0..255
        BY Arguments, Zenon
      <4> QED
        BY <3>4, <2>2, <4>1, Zenon DEF SetLowPowerMode
    <3>5. ASSUME NEW p \in Ports, Reset(p) PROVE Requests'
      <4>1. "reset" \in Commands /\ 0 \in 0..255
        BY Arguments, Zenon
      <4> QED
        BY <3>5, <2>2, <4>1, Zenon DEF Reset
    <3>6. ASSUME NEW p \in Ports, NEW count \in Counts, ReadRom(p, count) PROVE Requests'
      <4>1. "rom" \in Commands /\ count \in 0..255
        BY Arguments, Zenon
      <4>2. OutOfRange("rom", p) => Requests'
        BY <2>1 DEF OutOfRange
      <4>3. Accept("rom", p, count) => Requests'
        BY <2>2, <4>1, Zenon
      <4> QED
        BY <3>6, <4>2, <4>3 DEF ReadRom
    <3> QED
      BY <2>4, <3>1, <3>2, <3>3, <3>4, <3>5, <3>6 DEF SfpRequest
  <2>5. CASE Transferring
    <3>1. CASE OpenFile
      BY <3>1 DEF OpenFile
    <3>2. CASE OpenFails
      BY <3>2, <2>3 DEF OpenFails
    <3>3. CASE ReadPin
      BY <3>3, <2>3 DEF ReadPin
    <3>4. CASE WritePin
      BY <3>4, <2>3 DEF WritePin
    <3>5. CASE WriteReset
      BY <3>5, <2>3 DEF WriteReset
    <3>6. CASE ReadMemory
      BY <3>6, <2>3 DEF ReadMemory
    <3>7. CASE MemoryFails
      BY <3>7, <2>3 DEF MemoryFails
    <3>8. CASE TransferFails
      BY <3>8, <2>3 DEF TransferFails
    <3> QED
      BY <2>5, <3>1, <3>2, <3>3, <3>4, <3>5, <3>6, <3>7, <3>8 DEF Transferring
  <2>6. CASE PinChanges
    BY <2>6 DEF PinChanges
  <2>7. CASE SfpCrash
    BY <2>7 DEF SfpCrash, SfpRestarted, NoCommand
  <2>8. CASE UNCHANGED sfpAll
    BY <2>8 DEF sfpAll
  <2> QED
    BY <2>4, <2>5, <2>6, <2>7, <2>8 DEF SfpNext
<1> QED
    BY <1>1, <1>2, PTL DEF SfpSpec

-----------------------------------------------------------------------------
LEMMA LeaksInvariant == SfpSpec => []Leaks
<1>1. SfpInit => Leaks
    BY DEF SfpInit, Leaks, LeakPerFailure, Holding
<1>2. Leaks /\ [SfpNext]_sfpAll => Leaks'
  <2> SUFFICES ASSUME Leaks, [SfpNext]_sfpAll PROVE Leaks'
    OBVIOUS
  <2> USE DEF Leaks, LeakPerFailure, Holding
  <2>1. ASSUME NEW cc, NEW len, SfpRefuse(cc, len) PROVE Leaks'
    BY <2>1 DEF SfpRefuse
  <2>2. ASSUME NEW c, NEW p, NEW arg, Accept(c, p, arg) PROVE Leaks'
    BY <2>2 DEF Accept
  <2>3. CASE SfpRequest
    BY <2>3, <2>1, <2>2 DEF SfpRequest, WrongLength, GetSum, GetStatus, OutOfRange,
                            SetLowPowerMode, Reset, ReadRom
  <2>4. ASSUME sfpPhase = "transfer", sfpPhase' = "idle", Closes(sfpFds), UNCHANGED failures
        PROVE Leaks'
    BY <2>4 DEF Closes
  <2>5. CASE Transferring
    <3>1. CASE OpenFile
      BY <3>1 DEF OpenFile, Opens
    <3>2. CASE OpenFails
      BY <3>2 DEF OpenFails, OpenRefused, SfpReturn
    <3>3. CASE ReadPin \/ WritePin \/ WriteReset
      BY <3>3, <2>4 DEF ReadPin, WritePin, WriteReset, SfpReturn
    <3>4. CASE ReadMemory \/ MemoryFails
      BY <3>4, <2>4 DEF ReadMemory, MemoryFails, SfpReturn
    <3>5. CASE TransferFails
      BY <3>5 DEF TransferFails, SfpReturn
    <3> QED
      BY <2>5, <3>1, <3>2, <3>3, <3>4, <3>5 DEF Transferring
  <2>6. CASE PinChanges
    BY <2>6 DEF PinChanges
  <2>7. CASE SfpCrash
    BY <2>7 DEF SfpCrash, SfpRestarted, ProcessEnds
  <2>8. CASE UNCHANGED sfpAll
    BY <2>8 DEF sfpAll
  <2> QED
    BY <2>3, <2>5, <2>6, <2>7, <2>8 DEF SfpNext
<1> QED
    BY <1>1, <1>2, PTL DEF SfpSpec

(* Every failed transfer of a pin or a reset costs one descriptor and      *)
(* nothing else does, for every number of ports and descriptors.           *)
THEOREM LeakIsFailures == SfpSpec => []LeakPerFailure
<1>1. Leaks => LeakPerFailure
    BY DEF Leaks
<1> QED
    BY <1>1, LeaksInvariant, PTL

-----------------------------------------------------------------------------
(* Ports do not share a pin of low power mode, not even ports that do not  *)
(* exist: blocks go down by eights, ports go up inside a block.            *)
LEMMA PinInjective ==
    ASSUME NEW p \in 0..255, NEW q \in 0..255, Pin("lpmode", p) = Pin("lpmode", q)
    PROVE  p = q
<1> DEFINE a == p \div 8
           b == q \div 8
           r == p % 8
           t == q % 8
<1>1. /\ a \in Int /\ b \in Int /\ r \in 0..7 /\ t \in 0..7
      /\ p = 8 * a + r /\ q = 8 * b + t
    BY SMT
<1>2. 256 - a * 8 + r = 256 - b * 8 + t
    BY DEF Pin, BankIndex, BlockBase
<1> HIDE DEF a, b, r, t
<1>3. a = b /\ r = t
    BY <1>1, <1>2, SMT
<1> QED
    BY <1>1, <1>3

LEMMA DrivenInvariant == SfpSpec => []Driven
<1>1. SfpInit => Driven
    BY DEF SfpInit, Driven, Unasked
<1>2. Requests /\ Driven /\ [SfpNext]_sfpAll => Driven'
  <2> SUFFICES ASSUME Requests, Driven, [SfpNext]_sfpAll PROVE Driven'
    OBVIOUS
  <2>1. ASSUME UNCHANGED <<pin, asked>> PROVE Driven'
    BY <2>1 DEF Driven
  <2>2. CASE SfpRequest
    BY <2>2, <2>1 DEF SfpRequest, WrongLength, GetSum, GetStatus, OutOfRange,
                      SetLowPowerMode, Reset, ReadRom, SfpRefuse, Accept
  <2>3. CASE Transferring
    <3>1. CASE WritePin
      <4>1. sfpReq.port \in Ports /\ sfpReq.port \in 0..255
        BY <3>1, PortsAssumption DEF WritePin, Requests
      <4>2. CurPin = Pin("lpmode", sfpReq.port)
        BY <3>1 DEF WritePin, CurPin
      <4>3. CurPin \in Outputs /\ CurPin \in Exported
        BY <3>1, OutputsAssumption DEF WritePin
      <4>4. Level(sfpReq.arg) \in {0, 1}
        BY DEF Level
      <4>5. /\ pin' = [pin EXCEPT ![CurPin] = Level(sfpReq.arg)]
            /\ asked' = [asked EXCEPT ![sfpReq.port] = Level(sfpReq.arg)]
        BY <3>1 DEF WritePin
      <4>6. pin' \in [Exported -> {0, 1}] /\ asked' \in [Ports -> {0, 1, Unasked}]
        BY <4>1, <4>3, <4>4, <4>5 DEF Driven
      <4>7. ASSUME NEW p \in Ports, asked'[p] # Unasked
            PROVE  Pin("lpmode", p) \in Outputs /\ pin'[Pin("lpmode", p)] = asked'[p]
        <5>1. CASE p = sfpReq.port
          BY <5>1, <4>1, <4>2, <4>3, <4>5 DEF Driven
        <5>2. CASE p # sfpReq.port
          <6>0. p \in 0..255
            BY PortsAssumption
          <6>1. Pin("lpmode", p) # CurPin
            BY <5>2, <4>1, <4>2, <6>0, PinInjective, Zenon
          <6>2. asked'[p] = asked[p]
            BY <5>2, <4>5 DEF Driven
          <6>3. Pin("lpmode", p) \in Outputs /\ pin[Pin("lpmode", p)] = asked[p]
            BY <6>2, <4>7 DEF Driven
          <6> QED
            BY <6>1, <6>2, <6>3, <4>5, OutputsAssumption DEF Driven
        <5> QED
          BY <5>1, <5>2
      <4> QED
        BY <4>6, <4>7 DEF Driven
    <3>2. CASE ~WritePin
      BY <2>3, <3>2, <2>1 DEF Transferring, OpenFile, OpenFails, ReadPin, WriteReset,
                              ReadMemory, MemoryFails, TransferFails
    <3> QED
      BY <3>1, <3>2
  <2>4. CASE PinChanges
    <3>1. PICK g \in Exported \ Outputs : pin' = [pin EXCEPT ![g] = 1 - @]
      BY <2>4 DEF PinChanges
    <3>2. asked' = asked
      BY <2>4 DEF PinChanges
    <3>3. pin[g] \in {0, 1}
      BY DEF Driven
    <3>4. pin' \in [Exported -> {0, 1}]
      BY <3>1, <3>3 DEF Driven
    <3>5. ASSUME NEW o \in Outputs PROVE pin'[o] = pin[o]
      BY <3>1, OutputsAssumption DEF Driven
    <3> QED
      BY <3>2, <3>4, <3>5 DEF Driven
  <2>5. CASE SfpCrash
    BY <2>5, <2>1 DEF SfpCrash, SfpRestarted
  <2>6. CASE UNCHANGED sfpAll
    BY <2>6, <2>1 DEF sfpAll
  <2> QED
    BY <2>2, <2>3, <2>4, <2>5, <2>6 DEF SfpNext
<1> QED
    BY <1>1, <1>2, RequestsInvariant, PTL DEF SfpSpec

(* What Set Low Power Mode drove for a port stays, and is what Get Low     *)
(* Power Mode answers, however many ports there are, valid or not.         *)
THEOREM SetsAreKept == SfpSpec => LowPowerKept
<1> DEFINE Answers ==
      \A p \in Ports :
          /\ sfpPhase = "transfer" /\ sfpReq.cmd = "lpmode" /\ sfpReq.port = p
          /\ sfpPhase' = "idle" /\ sfpReply'.cc = "ok" /\ asked[p] # Unasked
          => Level(sfpReply'.value) = asked[p]
<1>1. Driven => SetHolds
    BY DEF Driven, SetHolds
<1>2. Driven /\ [SfpNext]_sfpAll => [Answers]_sfpAll
  <2> SUFFICES ASSUME Driven, SfpNext, NEW p \in Ports,
                      sfpPhase = "transfer", sfpReq.cmd = "lpmode", sfpReq.port = p,
                      sfpPhase' = "idle", sfpReply'.cc = "ok", asked[p] # Unasked
               PROVE  Level(sfpReply'.value) = asked[p]
    OBVIOUS
  <2>1. CASE ReadPin
    <3>1. sfpReply' = [cc |-> "ok", len |-> sfpReply.len, value |-> Status("lpmode", pin[CurPin])]
      BY <2>1 DEF ReadPin, SfpReturn
    <3>2. CurPin = Pin("lpmode", p)
      BY DEF CurPin
    <3>3. pin[CurPin] = asked[p] /\ asked[p] \in {0, 1}
      BY <3>2 DEF Driven
    <3>4. sfpReply'.value = 1 - asked[p]
      BY <3>1, <3>3 DEF Status
    <3> QED
      BY <3>3, <3>4 DEF Level
  <2>2. CASE SfpCrash
    BY <2>2 DEF SfpCrash, SfpRestarted
  <2>3. CASE OpenFails \/ TransferFails \/ MemoryFails
    BY <2>3 DEF OpenFails, TransferFails, MemoryFails, SfpReturn
  <2>4. ~SfpRequest
    BY DEF SfpRequest, WrongLength, GetSum, GetStatus, OutOfRange, SetLowPowerMode,
           Reset, ReadRom, SfpRefuse, Accept
  <2>5. ~OpenFile /\ ~WritePin /\ ~WriteReset /\ ~ReadMemory /\ ~PinChanges
    BY DEF OpenFile, WritePin, WriteReset, ReadMemory, PinChanges
  <2> QED
    BY <2>1, <2>2, <2>3, <2>4, <2>5 DEF SfpNext, Transferring
<1> QED
    BY <1>1, <1>2, DrivenInvariant, PTL DEF SfpSpec, LowPowerKept, AnswerAsSet

-----------------------------------------------------------------------------
(* Replies are bytes, and only a file that exists is read or written.      *)
SfpCodes == {"none", "ok", "badlen", "range", "invalid"}

SfpReplies ==
    /\ sfpFds \in 0..MaxFds
    /\ sfpReply \in [cc: SfpCodes, len: 0..255, value: NoValue..255]
    /\ sfpPhase = "transfer" => Exists

LEMMA SfpReplyTyped ==
    ASSUME NEW cc \in SfpCodes, NEW len \in 0..255, NEW value \in NoValue..255
    PROVE  [cc |-> cc, len |-> len, value |-> value]
              \in [cc: SfpCodes, len: 0..255, value: NoValue..255]
OBVIOUS

LEMMA SfpBytes ==
    /\ NoValue \in NoValue..255 /\ 0 \in NoValue..255 /\ 1 \in NoValue..255
    /\ \A n \in 0..255 : n \in NoValue..255
    /\ 0 \in 0..255 /\ 1 \in 0..255 /\ SfpSum \in 0..255
<1>1. NoValue \in Int /\ NoValue <= 0
    BY DEF NoValue
<1>2. SfpSum \in 0..255
    BY DEF SfpSum
<1> QED
    BY <1>1, <1>2

LEMMA SfpRepliesInvariant == SfpSpec => []SfpReplies
<1>1. SfpInit => SfpReplies
  <2> SUFFICES ASSUME SfpInit PROVE SfpReplies
    OBVIOUS
  <2>1. sfpReply \in [cc: SfpCodes, len: 0..255, value: NoValue..255]
    BY SfpReplyTyped, SfpBytes, Zenon DEF SfpInit, SfpCodes
  <2> QED
    BY <2>1, MaxFdsAssumption DEF SfpInit, SfpReplies
<1>2. Requests /\ Leaks /\ Driven /\ SfpReplies /\ [SfpNext]_sfpAll => SfpReplies'
  <2> SUFFICES ASSUME Requests, Leaks, Driven, SfpReplies, [SfpNext]_sfpAll
               PROVE  SfpReplies'
    OBVIOUS
  <2> DEFINE Replies == [cc: SfpCodes, len: 0..255, value: NoValue..255]
  <2>0. sfpFds \in 0..MaxFds /\ sfpReply \in Replies /\ sfpReply.len \in 0..255
    BY DEF SfpReplies
  <2> HIDE DEF Replies
  <2>1. ASSUME NEW cc \in SfpCodes, NEW len \in 0..255, NEW value \in NoValue..255,
               sfpReply' = [cc |-> cc, len |-> len, value |-> value]
        PROVE  sfpReply' \in Replies
    BY <2>1, SfpReplyTyped, Zenon DEF Replies
  <2>2. ASSUME sfpReply' \in Replies, sfpFds' \in 0..MaxFds, sfpPhase' # "transfer"
        PROVE  SfpReplies'
    BY <2>2 DEF SfpReplies, Replies
  <2>3. ASSUME NEW cc \in SfpCodes, NEW len \in 0..255, SfpRefuse(cc, len) PROVE SfpReplies'
    <3>1. sfpReply' \in Replies
      BY <2>3, <2>1, SfpBytes, Zenon DEF SfpRefuse
    <3> QED
      BY <2>0, <2>2, <2>3, <3>1 DEF SfpRefuse
  <2>4. ASSUME NEW c, NEW p, NEW arg, Accept(c, p, arg) PROVE SfpReplies'
    <3>1. CASE c = "rom"
      <4>1. sfpReply' = [cc |-> "none", len |-> 0, value |-> NoValue]
        BY <2>4, <3>1 DEF Accept
      <4>2. sfpReply' \in Replies
        BY <4>1, <2>1, SfpBytes, Zenon DEF SfpCodes
      <4> QED
        BY <2>0, <2>2, <2>4, <4>2 DEF Accept
    <3>2. CASE c # "rom"
      <4>1. sfpReply' = [cc |-> "none", len |-> 1, value |-> NoValue]
        BY <2>4, <3>2 DEF Accept
      <4>2. sfpReply' \in Replies
        BY <4>1, <2>1, SfpBytes, Zenon DEF SfpCodes
      <4> QED
        BY <2>0, <2>2, <2>4, <4>2 DEF Accept
    <3> QED
      BY <3>1, <3>2
  <2>5. CASE SfpRequest
    <3>1. ASSUME NEW c \in Commands, NEW len \in SfpLens, WrongLength(c, len)
          PROVE  SfpReplies'
      <4>1. "badlen" \in SfpCodes /\ 0 \in 0..255 /\ len \in 0..255
        BY RequestAssumption DEF SfpCodes
      <4>2. SfpRefuse("badlen", 0) \/ SfpRefuse("badlen", len)
        BY <3>1 DEF WrongLength
      <4> QED
        BY <2>3, <4>1, <4>2, Zenon
    <3>2. CASE GetSum
      <4>1. /\ sfpReply' = [cc |-> "ok", len |-> 1, value |-> SfpSum]
            /\ "ok" \in SfpCodes /\ 1 \in 0..255 /\ SfpSum \in NoValue..255
        BY <3>2, SfpBytes DEF GetSum, SfpCodes
      <4>2. sfpReply' \in Replies
        BY <4>1, <2>1, Zenon
      <4> QED
        BY <2>0, <2>2, <3>2, <4>2 DEF GetSum
    <3>3. ASSUME NEW c, NEW p, OutOfRange(c, p) PROVE SfpReplies'
      <4>1. "range" \in SfpCodes /\ 0 \in 0..255 /\ SfpRefuse("range", 0)
        BY <3>3 DEF OutOfRange, SfpCodes
      <4> QED
        BY <2>3, <4>1, Zenon
    <3> QED
      BY <2>5, <2>4, <3>1, <3>2, <3>3, Zenon
      DEF SfpRequest, GetStatus, SetLowPowerMode, Reset, ReadRom
  <2>6. ASSUME sfpPhase = "transfer", Closes(sfpFds) PROVE sfpFds' \in 0..MaxFds
    BY <2>6, <2>0, MaxFdsAssumption DEF Closes, Leaks, LeakPerFailure, Holding
  <2>7. ASSUME NEW cc \in SfpCodes, NEW len \in 0..255, NEW value \in NoValue..255,
               SfpReturn(cc, len, value), sfpFds' \in 0..MaxFds
        PROVE  SfpReplies'
    <3>1. sfpReply' \in Replies
      BY <2>7, <2>1, Zenon DEF SfpReturn
    <3> QED
      BY <2>2, <2>7, <3>1 DEF SfpReturn
  <2>8. "ok" \in SfpCodes /\ "invalid" \in SfpCodes /\ NoValue \in NoValue..255
        /\ 0 \in NoValue..255 /\ 1 \in NoValue..255
    BY SfpBytes DEF SfpCodes
  <2>9. CASE OpenFile
    <3>1. Exists' /\ sfpFds' \in 0..MaxFds /\ UNCHANGED sfpReply
      BY <2>9, <2>0, MaxFdsAssumption DEF OpenFile, Opens, Exists, OnPin, CurPin
    <3> QED
      BY <2>0, <3>1 DEF SfpReplies, Replies
  <2>10. CASE OpenFails
    <3>1. sfpFds' \in 0..MaxFds /\ SfpReturn("invalid", sfpReply.len, NoValue)
      BY <2>10, <2>0 DEF OpenFails, OpenRefused
    <3> QED
      BY <2>0, <2>7, <2>8, <3>1, Zenon
  <2>11. CASE ReadPin
    <3>1. pin[CurPin] \in {0, 1}
      BY <2>11 DEF ReadPin, SfpReplies, Exists, OnPin, Driven
    <3>2. Status(sfpReq.cmd, pin[CurPin]) \in NoValue..255
      BY <3>1, <2>8 DEF Status
    <3>3. sfpFds' \in 0..MaxFds
      BY <2>11, <2>6 DEF ReadPin
    <3>4. SfpReturn("ok", sfpReply.len, Status(sfpReq.cmd, pin[CurPin]))
      BY <2>11 DEF ReadPin
    <3> QED
      BY <2>0, <2>7, <2>8, <3>2, <3>3, <3>4, Zenon
  <2>12. CASE WritePin \/ WriteReset
    <3>1. sfpFds' \in 0..MaxFds /\ SfpReturn("ok", sfpReply.len, 0)
      BY <2>12, <2>6 DEF WritePin, WriteReset
    <3> QED
      BY <2>0, <2>7, <2>8, <3>1, Zenon
  <2>13. CASE ReadMemory
    <3>1. sfpReq.arg \in 0..255
      BY DEF Requests
    <3>2. PICK n \in {sfpReq.arg} \cup {k \in 0..sfpReq.arg : "short" \in Faults} :
             SfpReturn("ok", sfpReq.arg, n)
      BY <2>13 DEF ReadMemory
    <3>3. n \in NoValue..255
      BY <3>1 DEF NoValue
    <3>4. sfpFds' \in 0..MaxFds
      BY <2>13, <2>6 DEF ReadMemory
    <3> QED
      BY <2>7, <2>8, <3>1, <3>2, <3>3, <3>4, Zenon
  <2>14. CASE MemoryFails \/ TransferFails
    <3>1. sfpFds' \in 0..MaxFds /\ SfpReturn("invalid", sfpReply.len, NoValue)
      BY <2>0, <2>6, <2>14 DEF MemoryFails, TransferFails
    <3> QED
      BY <2>0, <2>7, <2>8, <3>1, Zenon
  <2>15. CASE PinChanges \/ UNCHANGED sfpAll
    BY <2>15 DEF PinChanges, sfpAll, SfpReplies, Exists, OnPin, CurPin
  <2>16. CASE SfpCrash
    <3>0. /\ sfpReply' = [cc |-> "none", len |-> 0, value |-> NoValue]
          /\ "none" \in SfpCodes /\ 0 \in 0..255 /\ NoValue \in NoValue..255
      BY <2>16, SfpBytes DEF SfpCrash, SfpRestarted, SfpCodes
    <3>1. sfpReply' \in Replies
      BY <3>0, <2>1, Zenon
    <3>2. sfpFds' \in 0..MaxFds /\ sfpPhase' # "transfer"
      BY <2>16, MaxFdsAssumption DEF SfpCrash, SfpRestarted, ProcessEnds
    <3> QED
      BY <2>2, <3>1, <3>2
  <2> QED
    BY <2>5, <2>9, <2>10, <2>11, <2>12, <2>13, <2>14, <2>15, <2>16 DEF SfpNext, Transferring
<1>3. SfpSpec => []Leaks
    BY LeaksInvariant
<1> QED
    BY <1>1, <1>2, <1>3, RequestsInvariant, DrivenInvariant, PTL DEF SfpSpec

(* What the SFP commands keep and answer has its type; the count of        *)
(* descriptors never leaves the table.                                     *)
THEOREM SfpTypeCorrect == SfpSpec => []SfpTypeOK
<1>1. Requests /\ Leaks /\ Driven /\ SfpReplies => SfpTypeOK
    BY DEF SfpTypeOK, FdsTypeOK, Requests, Leaks, Driven, SfpReplies, SfpCodes
<1> QED
    BY <1>1, RequestsInvariant, LeaksInvariant, DrivenInvariant, SfpRepliesInvariant, PTL

-----------------------------------------------------------------------------
(* The table of adapters, for every directory, every number of adapters    *)
(* and every failure: its terminator is inside the allocation, it grows    *)
(* from the size it has, and all of it is freed.                           *)
DirEntries == [kind: Kinds, nr: Nat, name: STRING]
Adapters == [nr: Nat, name: STRING]

(* An entry that is being taken over exists.                               *)
Walk ==
    /\ directory \in Directories
    /\ step \in {"start", "open", "entry", "grow", "name", "search", "done"}
    /\ next \in 0..Len(directory.entries)
    /\ step \in {"grow", "name"} => next < Len(directory.entries)
    /\ table \in Seq(Adapters)

(* The allocation is whole bunches, and at each step has the room that the *)
(* step relies on.                                                         *)
Room ==
    /\ cap \in Nat
    /\ step # "done" => cap % BUNCH = 0
    /\ step = "start" => table = <<>>
    /\ step \in {"open", "entry", "search"} => Len(table) < cap /\ cap <= Len(table) + BUNCH
    /\ step = "grow" => cap = Len(table) + 1
    /\ step = "name" => Len(table) + 1 < cap /\ cap <= Len(table) + 1 + BUNCH

(* The table is one allocation, and so is each name in it.                 *)
Owned ==
    CASE step = "start" -> heap = 0
      [] step = "done" -> heap = 0
      [] OTHER -> heap = Len(table) + 1

-----------------------------------------------------------------------------
LEMMA Element ==
    ASSUME NEW S, NEW s \in Seq(S), NEW i \in 1..Len(s) PROVE s[i] \in S
OBVIOUS

LEMMA EntriesTyped ==
    ASSUME NEW d \in Directories
    PROVE  d.entries \in Seq(DirEntries) /\ Len(d.entries) \in Nat
<1>1. d.entries \in Seq(DirEntries)
    BY DirectoriesAssumption DEF DirEntries
<1> QED
    BY <1>1

LEMMA WalkInvariant == TableSpec => []Walk
<1>1. TableInit => Walk
  <2> SUFFICES ASSUME TableInit PROVE Walk
    OBVIOUS
  <2>1. Len(directory.entries) \in Nat
    BY EntriesTyped DEF TableInit
  <2>2. /\ directory \in Directories /\ step = "start"
        /\ next = 0 /\ next \in 0..Len(directory.entries)
        /\ table = <<>> /\ table \in Seq(Adapters)
    BY <2>1 DEF TableInit
  <2> QED
    BY <2>2 DEF Walk
<1>2. Walk /\ [TableNext]_tableAll => Walk'
  <2> SUFFICES ASSUME Walk, [TableNext]_tableAll PROVE Walk'
    OBVIOUS
  <2> DEFINE entries == directory.entries
  <2>1. entries \in Seq(DirEntries) /\ Len(entries) \in Nat
    BY EntriesTyped DEF Walk
  <2>2. ASSUME GivesUp, UNCHANGED directory PROVE Walk'
    BY <2>2 DEF GivesUp, Walk
  <2>3. CASE OthersOpen
    BY <2>3 DEF OthersOpen, Walk
  <2>4. CASE Calloc
    BY <2>4 DEF Calloc, Walk
  <2>5. CASE CallocFails
    BY <2>5, <2>2 DEF CallocFails, GivesUp
  <2>6. CASE OpenDirectory
    BY <2>6 DEF OpenDirectory, Walk
  <2>7. CASE OpenDirectoryFails
    BY <2>7 DEF OpenDirectoryFails, Walk
  <2>8. CASE Plain \/ Nested
    <3>1. step' \in {"grow", "name"} /\ next < Len(entries)
      BY <2>8 DEF Plain, Nested, Visiting, RoomStep
    <3>2. UNCHANGED <<directory, next, table>>
      BY <2>8 DEF Plain, Nested
    <3> QED
      BY <3>1, <3>2 DEF Walk
  <2>9. CASE Nameless \/ Skip
    <3>1. next < Len(entries) /\ step = "entry" /\ next' = next + 1
      BY <2>9 DEF Nameless, Skip, Visiting
    <3>2. UNCHANGED <<directory, step, table>>
      BY <2>9 DEF Nameless, Skip
    <3> QED
      BY <3>1, <3>2, <2>1 DEF Walk
  <2>10. CASE MoreAdapters
    BY <2>10 DEF MoreAdapters, Walk
  <2>11. CASE AddAdapter
    <3>1. step = "name" /\ next < Len(entries)
      BY <2>11 DEF AddAdapter, Walk
    <3>2. next + 1 \in 1..Len(entries)
      BY <3>1, <2>1 DEF Walk
    <3>3. Entry \in DirEntries
      BY <3>2, <2>1, Element DEF Entry
    <3>4. [nr |-> Entry.nr, name |-> Entry.name] \in Adapters
      BY <3>3 DEF Adapters, DirEntries
    <3>5. table' = Append(table, [nr |-> Entry.nr, name |-> Entry.name])
      BY <2>11 DEF AddAdapter
    <3>6. table' \in Seq(Adapters)
      BY <3>4, <3>5 DEF Walk
    <3>7. next' = next + 1 /\ step' = "entry" /\ directory' = directory
      BY <2>11 DEF AddAdapter
    <3> QED
      BY <3>1, <3>6, <3>7, <2>1 DEF Walk
  <2>12. CASE AllocationFails
    BY <2>12, <2>2 DEF AllocationFails, GivesUp
  <2>13. CASE CloseDirectory
    BY <2>13 DEF CloseDirectory, Walk
  <2>14. CASE Search
    BY <2>14 DEF Search, Walk
  <2>15. CASE Finished \/ UNCHANGED tableAll
    BY <2>15 DEF Finished, tableAll, tableVars, Walk
  <2> QED
    BY <2>3, <2>4, <2>5, <2>6, <2>7, <2>8, <2>9, <2>10, <2>11, <2>12, <2>13, <2>14,
       <2>15 DEF TableNext
<1> QED
    BY <1>1, <1>2, PTL DEF TableSpec

(* A step that keeps table and allocation, and goes on as far as it may.   *)
LEMMA RoomKept ==
    ASSUME Room, UNCHANGED <<table, cap>>,
           \/ step' = step
           \/ step \in {"open", "entry"} /\ step' \in {"entry", "search"}
    PROVE  Room'
BY DEF Room

LEMMA RoomInvariant == TableSpec => []Room
<1>1. TableInit => Room
    BY DEF TableInit, Room, BUNCH
<1>2. Walk /\ Room /\ [TableNext]_tableAll => Room'
  <2> SUFFICES ASSUME Walk, Room, [TableNext]_tableAll PROVE Room'
    OBVIOUS
  <2>1. Len(table) \in Nat
    BY DEF Walk
  <2>2. ASSUME GivesUp, UNCHANGED cap PROVE Room'
    BY <2>2 DEF GivesUp, Room
  <2>3. CASE OthersOpen
    BY <2>3, RoomKept DEF OthersOpen
  <2>4. CASE Calloc
    <3>1. table = <<>> /\ Len(table) = 0 /\ table' = table
      BY <2>4 DEF Calloc, Room
    <3> QED
      BY <2>4, <3>1 DEF Calloc, Room, BUNCH
  <2>5. CASE CallocFails \/ AllocationFails
    BY <2>5, <2>2 DEF CallocFails, AllocationFails, GivesUp
  <2>6. CASE OpenDirectory
    BY <2>6, RoomKept DEF OpenDirectory
  <2>7. CASE OpenDirectoryFails
    BY <2>7, RoomKept DEF OpenDirectoryFails
  <2>8. CASE Plain \/ Nested
    <3>1. step = "entry" /\ UNCHANGED <<table, cap>> /\ step' = RoomStep
      BY <2>8 DEF Plain, Nested, Visiting
    <3>2. cap \in Nat /\ cap % 8 = 0 /\ Len(table) < cap /\ cap <= Len(table) + 8
      BY <3>1 DEF Room, BUNCH
    <3>3. CASE (Len(table) + 1) % 8 = 0
      <4>1. cap = Len(table) + 1
        BY <2>1, <3>2, <3>3
      <4> QED
        BY <3>1, <3>2, <3>3, <4>1 DEF Room, RoomStep, BUNCH
    <3>4. CASE (Len(table) + 1) % 8 # 0
      <4>1. Len(table) + 1 < cap
        BY <2>1, <3>2, <3>4
      <4> QED
        BY <3>1, <3>2, <3>4, <4>1, <2>1 DEF Room, RoomStep, BUNCH
    <3> QED
      BY <3>3, <3>4
  <2>9. CASE Nameless \/ Skip
    BY <2>9, RoomKept DEF Nameless, Skip
  <2>10. CASE MoreAdapters
    <3>1. step = "grow" /\ step' = "name" /\ table' = table /\ cap' = Len(table) + 1 + 8
      BY <2>10 DEF MoreAdapters, BUNCH
    <3>2. cap = Len(table) + 1 /\ cap % 8 = 0
      BY <3>1 DEF Room, BUNCH
    <3>3. cap' \in Nat /\ cap' % 8 = 0
      BY <3>1, <3>2, <2>1
    <3> QED
      BY <3>1, <3>3, <2>1 DEF Room, BUNCH
  <2>11. CASE AddAdapter
    <3>1. step = "name" /\ step' = "entry" /\ cap' = cap /\ Len(table') = Len(table) + 1
      BY <2>11 DEF AddAdapter, Walk
    <3> QED
      BY <3>1, <2>1 DEF Room
  <2>12. CASE CloseDirectory
    BY <2>12, RoomKept DEF CloseDirectory
  <2>13. CASE Search
    BY <2>13 DEF Search, Room
  <2>14. CASE Finished \/ UNCHANGED tableAll
    BY <2>14, RoomKept DEF Finished, tableAll, tableVars
  <2> QED
    BY <2>3, <2>4, <2>5, <2>6, <2>7, <2>8, <2>9, <2>10, <2>11, <2>12, <2>13, <2>14
       DEF TableNext
<1> QED
    BY <1>1, <1>2, WalkInvariant, PTL DEF TableSpec

-----------------------------------------------------------------------------
(* However many adapters there are, the entry that ends the table is in    *)
(* it.                                                                     *)
THEOREM AlwaysTerminated == TableSpec => []Terminated
<1>1. Walk /\ Room => Terminated
  <2> SUFFICES ASSUME Walk, Room, step \notin {"start", "done"} PROVE Len(table) < cap
    BY DEF Terminated
  <2>1. Len(table) \in Nat
    BY DEF Walk
  <2> QED
    BY <2>1 DEF Walk, Room
<1> QED
    BY <1>1, WalkInvariant, RoomInvariant, PTL

(* However many adapters there are, the table grows from the size it has.  *)
THEOREM GrowsByBunch == TableSpec => GrowthMatches
<1>1. Walk /\ Room /\ [TableNext]_tableAll
        => [step = "grow" /\ step' = "name" => cap' = cap + BUNCH]_tableAll
  <2> SUFFICES ASSUME Walk, Room, TableNext, step = "grow", step' = "name"
               PROVE  cap' = cap + BUNCH
    OBVIOUS
  <2>1. MoreAdapters
    BY DEF TableNext, OthersOpen, Calloc, CallocFails, OpenDirectory, OpenDirectoryFails,
           Plain, Nested, Nameless, Skip, Visiting, AddAdapter, AllocationFails, GivesUp,
           CloseDirectory, Search, Finished
  <2>2. cap = Len(table) + 1
    BY DEF Room
  <2> QED
    BY <2>1, <2>2 DEF MoreAdapters
<1> QED
    BY <1>1, WalkInvariant, RoomInvariant, PTL DEF TableSpec, GrowthMatches

LEMMA OwnedInvariant == TableSpec => []Owned
<1>1. TableInit => Owned
    BY DEF TableInit, Owned
<1>2. Walk /\ Room /\ Owned /\ [TableNext]_tableAll => Owned'
  <2> SUFFICES ASSUME Walk, Room, Owned, [TableNext]_tableAll PROVE Owned'
    OBVIOUS
  <2>1. Len(table) \in Nat
    BY DEF Walk
  <2>2. CASE OthersOpen
    BY <2>2 DEF OthersOpen, Owned
  <2>3. CASE Calloc
    BY <2>3 DEF Calloc, Owned, Room
  <2>4. CASE CallocFails \/ AllocationFails
    BY <2>4 DEF CallocFails, AllocationFails, GivesUp, Owned
  <2>5. CASE OpenDirectory \/ OpenDirectoryFails
    BY <2>5 DEF OpenDirectory, OpenDirectoryFails, Owned
  <2>6. CASE Plain \/ Nested
    BY <2>6 DEF Plain, Nested, Visiting, RoomStep, Owned
  <2>7. CASE Nameless \/ Skip
    BY <2>7 DEF Nameless, Skip, Owned
  <2>8. CASE MoreAdapters
    BY <2>8 DEF MoreAdapters, Owned
  <2>9. CASE AddAdapter
    <3>1. Len(table') = Len(table) + 1
      BY <2>9 DEF AddAdapter, Walk
    <3> QED
      BY <2>9, <3>1 DEF AddAdapter, Owned
  <2>10. CASE CloseDirectory
    BY <2>10 DEF CloseDirectory, Owned, Visiting
  <2>11. CASE Search
    BY <2>11, <2>1 DEF Search, Owned
  <2>12. CASE Finished \/ UNCHANGED tableAll
    BY <2>12 DEF Finished, tableAll, tableVars, Owned
  <2> QED
    BY <2>2, <2>3, <2>4, <2>5, <2>6, <2>7, <2>8, <2>9, <2>10, <2>11, <2>12 DEF TableNext
<1> QED
    BY <1>1, <1>2, WalkInvariant, RoomInvariant, PTL DEF TableSpec

(* Every allocation is freed once, on every way out.                       *)
THEOREM NothingLost == TableSpec => []AllFreed
<1>1. Owned => AllFreed
    BY DEF Owned, AllFreed
<1> QED
    BY <1>1, OwnedInvariant, PTL

(* While a directory is walked it is open, and everything else the look-up *)
(* opened it has kept open.                                                *)
Walked == IF step \in {"entry", "grow", "name"} THEN 1 ELSE 0

Open == kept \in Nat /\ tableFds \in 0..MaxFds /\ tableFds = kept + Walked

LEMMA OpenInvariant == TableSpec => []Open
<1>1. TableInit => Open
    BY MaxFdsAssumption DEF TableInit, Open, Walked
<1>2. Open /\ [TableNext]_tableAll => Open'
  <2> SUFFICES ASSUME Open, [TableNext]_tableAll PROVE Open'
    OBVIOUS
  <2> USE MaxFdsAssumption DEF Open, Walked
  <2>1. CASE OthersOpen
    BY <2>1 DEF OthersOpen, Opens
  <2>2. CASE Calloc \/ CallocFails
    BY <2>2 DEF Calloc, CallocFails, GivesUp
  <2>3. CASE OpenDirectory \/ OpenDirectoryFails
    BY <2>3 DEF OpenDirectory, OpenDirectoryFails, Opens, OpenRefused
  <2>4. CASE Plain
    BY <2>4 DEF Plain, Visiting, RoomStep
  <2>5. CASE Nested
    BY <2>5 DEF Nested, Visiting, RoomStep, Opens
  <2>6. CASE Nameless
    BY <2>6 DEF Nameless, Visiting, Opens
  <2>7. CASE Skip
    BY <2>7 DEF Skip
  <2>8. CASE MoreAdapters \/ AddAdapter
    BY <2>8 DEF MoreAdapters, AddAdapter
  <2>9. CASE AllocationFails
    BY <2>9 DEF AllocationFails, GivesUp
  <2>10. CASE CloseDirectory
    BY <2>10 DEF CloseDirectory, Closes
  <2>11. CASE Search
    BY <2>11 DEF Search
  <2>12. CASE Finished \/ UNCHANGED tableAll
    BY <2>12 DEF Finished, tableAll, tableVars
  <2> QED
    BY <2>1, <2>2, <2>3, <2>4, <2>5, <2>6, <2>7, <2>8, <2>9, <2>10, <2>11, <2>12 DEF TableNext
<1> QED
    BY <1>1, <1>2, PTL DEF TableSpec

(* What a look-up leaves open is what it found open, the directories it    *)
(* went into below device and, without memory, the one it was walking,     *)
(* whatever the system shows and whatever fails.                           *)
THEOREM LeavesOpenExactly == TableSpec => []KeepsOpen
<1>1. Open => KeepsOpen
    BY DEF Open, Walked, KeepsOpen
<1> QED
    BY <1>1, OpenInvariant, PTL

-----------------------------------------------------------------------------
(* The table holds the adapters of the entries visited, each once: f tells *)
(* which entry an adapter comes from.                                      *)
Taken(i) == directory.entries[i].kind \in {"plain", "nested"}

ComesFrom(f) ==
    /\ f \in [1..Len(table) -> 1..next]
    /\ \A j, k \in 1..Len(table) : f[j] = f[k] => j = k
    /\ \A j \in 1..Len(table) :
          /\ Taken(f[j])
          /\ table[j].nr = directory.entries[f[j]].nr
          /\ table[j].name = directory.entries[f[j]].name
    /\ \A i \in 1..next : Taken(i) => \E j \in 1..Len(table) : f[j] = i

Complete ==
    /\ sound /\ step # "done" => \E f \in [1..Len(table) -> 1..next] : ComesFrom(f)
    /\ sound /\ step \in {"start", "open"} => next = 0 /\ table = <<>>
    /\ sound /\ step \in {"grow", "name"} => Taken(next + 1)
    /\ sound /\ step = "search" => next = Len(directory.entries)

LEMMA CompleteInvariant == TableSpec => []Complete
<1>1. TableInit => Complete
  <2> SUFFICES ASSUME TableInit PROVE Complete
    OBVIOUS
  <2>1. next = 0 /\ table = <<>> /\ step = "start" /\ Len(table) = 0
    BY DEF TableInit
  <2> DEFINE f == [j \in 1..Len(table) |-> 1]
  <2>2. f \in [1..Len(table) -> 1..next] /\ ComesFrom(f)
    BY <2>1 DEF ComesFrom
  <2> HIDE DEF f
  <2> QED
    BY <2>1, <2>2 DEF Complete
<1>2. Walk /\ Complete /\ [TableNext]_tableAll => Complete'
  <2> SUFFICES ASSUME Walk, Complete, [TableNext]_tableAll PROVE Complete'
    OBVIOUS
  <2>0. Len(table) \in Nat /\ next \in Nat /\ Len(directory.entries) \in Nat
    BY EntriesTyped DEF Walk
  <2>1. ASSUME UNCHANGED <<directory, table, next>>, sound' => sound
        PROVE  /\ sound' /\ step # "done" =>
                     (\E f \in [1..Len(table) -> 1..next] : ComesFrom(f))'
               /\ (\A i : Taken(i) <=> Taken(i)')
    BY <2>1 DEF Complete, ComesFrom, Taken
  <2>2. CASE ~sound'
    BY <2>2 DEF Complete
  <2>3. CASE OthersOpen
    BY <2>3, <2>1 DEF OthersOpen, Complete
  <2>4. CASE Calloc
    BY <2>4, <2>1 DEF Calloc, Complete
  <2>5. CASE CallocFails \/ AllocationFails
    BY <2>5, <2>2 DEF CallocFails, AllocationFails, GivesUp
  <2>6. CASE OpenDirectory
    BY <2>6, <2>1 DEF OpenDirectory, Complete
  <2>7. CASE OpenDirectoryFails
    BY <2>7, <2>2 DEF OpenDirectoryFails
  <2>8. CASE Plain \/ Nested
    <3>1. step = "entry" /\ step' \in {"grow", "name"} /\ Taken(next + 1)
          /\ UNCHANGED <<directory, table, next, sound>>
      BY <2>8 DEF Plain, Nested, Visiting, RoomStep, Entry, Taken
    <3> QED
      BY <3>1, <2>1 DEF Complete
  <2>9. CASE Nameless \/ Skip
    <3>1. CASE sound'
      <4>1. /\ step = "entry" /\ UNCHANGED <<directory, table, step>> /\ sound
            /\ next' = next + 1 /\ ~Taken(next + 1)
        BY <2>9, <3>1 DEF Nameless, Skip, Visiting, Entry, Taken
      <4>2. PICK f \in [1..Len(table) -> 1..next] : ComesFrom(f)
        BY <4>1 DEF Complete
      <4>3. f \in [1..Len(table') -> 1..next'] /\ ComesFrom(f)'
        <5>1. \A i \in 1..next' : i \in 1..next \/ i = next + 1
          BY <4>1, <2>0
        <5>2. \A j \in 1..Len(table) : f[j] \in 1..next'
          BY <4>1, <4>2, <2>0
        <5> QED
          BY <4>1, <4>2, <5>1, <5>2 DEF ComesFrom, Taken
      <4> QED
        BY <4>1, <4>3 DEF Complete
    <3> QED
      BY <3>1, <2>2
  <2>10. CASE MoreAdapters
    BY <2>10, <2>1 DEF MoreAdapters, Complete
  <2>11. CASE AddAdapter
    <3>1. CASE sound
      <4>1. /\ step = "name" /\ step' = "entry" /\ UNCHANGED <<directory, sound>>
            /\ next' = next + 1 /\ Taken(next + 1)
            /\ table' = Append(table, [nr |-> Entry.nr, name |-> Entry.name])
        BY <2>11, <3>1 DEF AddAdapter, Complete
      <4>2. PICK f \in [1..Len(table) -> 1..next] : ComesFrom(f)
        BY <3>1, <4>1 DEF Complete
      <4>3. /\ Len(table') = Len(table) + 1
            /\ \A j \in 1..Len(table) : table'[j] = table[j]
            /\ table'[Len(table) + 1].nr = directory.entries[next + 1].nr
            /\ table'[Len(table) + 1].name = directory.entries[next + 1].name
        BY <4>1 DEF Walk, Entry
      <4>g. PICK g : g = [j \in 1..Len(table') |-> IF j = Len(table) + 1 THEN next + 1 ELSE f[j]]
        OBVIOUS
      <4>4. /\ \A j \in 1..Len(table') : j \in 1..Len(table) \/ j = Len(table) + 1
            /\ \A j \in 1..Len(table) : j \in 1..Len(table') /\ j # Len(table) + 1
            /\ Len(table) + 1 \in 1..Len(table')
        BY <4>3, <2>0
      <4>5. /\ \A j \in 1..Len(table) : g[j] = f[j] /\ f[j] \in 1..next
            /\ g[Len(table) + 1] = next + 1
        BY <4>2, <4>4, <4>g
      <4>6. g \in [1..Len(table') -> 1..next']
        BY <4>1, <4>4, <4>5, <4>g, <2>0
      <4>7. \A i \in 1..next' : i \in 1..next \/ i = next + 1
        BY <4>1, <2>0
      <4>8. \A i \in 1..next : i # next + 1
        BY <2>0
      <4>9. \A j, k \in 1..Len(table') : g[j] = g[k] => j = k
        BY <4>2, <4>4, <4>5, <4>8 DEF ComesFrom
      <4>10. \A j \in 1..Len(table') :
                /\ Taken(g[j])'
                /\ table'[j].nr = directory'.entries[g[j]].nr
                /\ table'[j].name = directory'.entries[g[j]].name
        BY <4>1, <4>2, <4>3, <4>4, <4>5 DEF ComesFrom, Taken
      <4>11. \A i \in 1..next' : Taken(i)' => \E j \in 1..Len(table') : g[j] = i
        BY <4>1, <4>2, <4>4, <4>5, <4>7 DEF ComesFrom, Taken
      <4>12. ComesFrom(g)'
        BY <4>6, <4>9, <4>10, <4>11 DEF ComesFrom
      <4> QED
        BY <4>1, <4>6, <4>12 DEF Complete
    <3> QED
      BY <2>11, <3>1, <2>2 DEF AddAdapter
  <2>12. CASE CloseDirectory
    BY <2>12, <2>1 DEF CloseDirectory, Complete
  <2>13. CASE Search
    BY <2>13 DEF Search, Complete
  <2>14. CASE Finished \/ UNCHANGED tableAll
    BY <2>14, <2>1 DEF Finished, tableAll, tableVars, Complete
  <2> QED
    BY <2>3, <2>4, <2>5, <2>6, <2>7, <2>8, <2>9, <2>10, <2>11, <2>12, <2>13, <2>14 DEF TableNext
<1> QED
    BY <1>1, <1>2, WalkInvariant, PTL DEF TableSpec

(* A set that is counted is empty, has one element or has several.         *)
LEMMA Counted ==
    ASSUME NEW n \in Nat, NEW S \in SUBSET (1..n)
    PROVE  /\ Cardinality(S) = 0 <=> S = {}
           /\ Cardinality(S) = 1 <=> \E x \in 1..n : S = {x}
<1>1. IsFiniteSet(1..n)
    BY FS_Interval
<1>2. IsFiniteSet(S)
    BY <1>1, FS_Subset
<1>3. Cardinality(S) = 0 <=> S = {}
    BY <1>2, FS_EmptySet
<1>4. Cardinality(S) = 1 <=> \E x : S = {x}
    BY <1>2, FS_Singleton
<1> QED
    BY <1>3, <1>4

(* The table found complete answers like the directory.                    *)
LEMMA SearchExact ==
    ASSUME Walk, Complete, sound, Search
    PROVE  LookupExact'
<1>1. /\ step = "search" /\ next = Len(directory.entries) /\ directory' = directory
      /\ Len(table) \in Nat /\ next \in Nat
    BY EntriesTyped DEF Search, Complete, Walk
<1>2. PICK f \in [1..Len(table) -> 1..next] : ComesFrom(f)
    BY <1>1 DEF Complete
<1>3. Matches \in SUBSET (1..Len(table)) /\ Names(Wanted) \in SUBSET (1..next)
    BY <1>1 DEF Matches, Names
<1>4. \A j \in 1..Len(table) : j \in Matches <=> f[j] \in Names(Wanted)
    BY <1>1, <1>2 DEF ComesFrom, Matches, Names, Taken
<1>5. \A i \in Names(Wanted) : \E j \in Matches : f[j] = i
    BY <1>1, <1>2, <1>4 DEF ComesFrom, Names, Taken
<1>6. bus' = CASE Cardinality(Matches) = 0 -> NoMatch
               [] Cardinality(Matches) = 1 -> table[CHOOSE i \in Matches : TRUE].nr
               [] OTHER -> NotUnique
    BY DEF Search
<1>7. Names(Wanted)' = Names(Wanted)
    BY <1>1 DEF Names
<1>8. CASE Names(Wanted) = {}
  <2>1. Matches = {}
    BY <1>3, <1>4, <1>8
  <2>2. Cardinality(Matches) = 0 /\ Cardinality(Names(Wanted)) # 1
    BY <1>1, <1>3, <1>8, <2>1, Counted
  <2> QED
    BY <1>6, <1>7, <1>8, <2>2 DEF LookupExact
<1>9. ASSUME NEW x \in 1..next, Names(Wanted) = {x} PROVE LookupExact'
  <2>1. PICK j \in Matches : f[j] = x
    BY <1>5, <1>9
  <2>2. Matches = {j}
    <3>1. \A k \in Matches : k \in 1..Len(table) /\ f[k] = f[j]
      BY <1>3, <1>4, <1>9, <2>1
    <3>2. \A k \in Matches : k = j
      BY <1>2, <1>3, <2>1, <3>1 DEF ComesFrom
    <3> QED
      BY <2>1, <3>2
  <2>3. j \in 1..Len(table)
    BY <1>3, <2>1
  <2>4. Cardinality(Matches) = 1 /\ Cardinality(Matches) # 0
    BY <1>1, <1>3, <2>2, <2>3, Counted
  <2>5. (CHOOSE i \in Matches : TRUE) = j /\ (CHOOSE i \in Names(Wanted) : TRUE) = x
    BY <1>9, <2>2
  <2>6. bus' = table[j].nr
    BY <1>6, <2>4, <2>5
  <2>7. bus' = directory.entries[x].nr
    BY <1>2, <2>1, <2>3, <2>6 DEF ComesFrom
  <2>8. Names(Wanted) # {} /\ Cardinality(Names(Wanted)) = 1
    BY <1>1, <1>3, <1>9, Counted
  <2> QED
    BY <1>1, <1>7, <2>5, <2>7, <2>8 DEF LookupExact
<1>10. CASE Names(Wanted) # {} /\ ~\E x \in 1..next : Names(Wanted) = {x}
  <2>1. Cardinality(Names(Wanted)) # 1
    BY <1>1, <1>3, <1>10, Counted
  <2>2. Matches # {}
    BY <1>5, <1>10
  <2>3. ASSUME NEW j \in 1..Len(table), Matches = {j} PROVE FALSE
    <3>1. Names(Wanted) = {f[j]}
      BY <1>4, <1>5, <1>10, <2>3
    <3>2. f[j] \in 1..next
      BY <1>2
    <3> QED
      BY <1>10, <3>1, <3>2
  <2>4. Cardinality(Matches) # 0 /\ Cardinality(Matches) # 1
    BY <1>1, <1>3, <2>2, <2>3, Counted
  <2>5. bus' = NotUnique
    BY <1>6, <2>4
  <2> QED
    BY <1>7, <1>10, <2>1, <2>5 DEF LookupExact
<1> QED
    BY <1>8, <1>9, <1>10

(* However many adapters there are, in whatever order and of whatever      *)
(* kind: a look-up during which nothing failed answers with the one        *)
(* adapter of that name, and says so when there is none or more than one.  *)
THEOREM LookupFindsTheOne == TableSpec => []LookupExact
<1>1. TableInit => LookupExact
    BY DEF TableInit, LookupExact
<1>2. Walk /\ Complete /\ LookupExact /\ [TableNext]_tableAll => LookupExact'
  <2> SUFFICES ASSUME Walk, Complete, LookupExact, [TableNext]_tableAll PROVE LookupExact'
    OBVIOUS
  <2>1. ASSUME step' # "done" \/ ~sound' PROVE LookupExact'
    BY <2>1 DEF LookupExact
  <2>2. CASE Search
    <3>1. CASE sound
      BY <2>2, <3>1, SearchExact
    <3> QED
      BY <2>1, <2>2, <3>1 DEF Search
  <2>3. CASE Finished \/ UNCHANGED tableAll
    BY <2>3 DEF Finished, tableAll, tableVars, LookupExact, Names
  <2>4. CASE CallocFails \/ AllocationFails
    BY <2>1, <2>4 DEF CallocFails, AllocationFails, GivesUp
  <2>5. CASE OthersOpen \/ Calloc \/ OpenDirectory \/ OpenDirectoryFails \/ CloseDirectory
    BY <2>1, <2>5 DEF OthersOpen, Calloc, OpenDirectory, OpenDirectoryFails, CloseDirectory
  <2>6. CASE Plain \/ Nested \/ Nameless \/ Skip \/ MoreAdapters \/ AddAdapter
    BY <2>1, <2>6 DEF Plain, Nested, Nameless, Skip, MoreAdapters, AddAdapter, Visiting, RoomStep
  <2> QED
    BY <2>2, <2>3, <2>4, <2>5, <2>6 DEF TableNext
<1> QED
    BY <1>1, <1>2, WalkInvariant, CompleteInvariant, PTL DEF TableSpec

(* The state of a look-up has its type.                                    *)
BusTyped == bus \in Nat \cup {NoMatch, NoMemory, NotUnique}

LEMMA BusInvariant == TableSpec => []BusTyped
<1>1. TableInit => BusTyped
    BY DEF TableInit, BusTyped
<1>2. Walk /\ BusTyped /\ [TableNext]_tableAll => BusTyped'
  <2> SUFFICES ASSUME Walk, BusTyped, [TableNext]_tableAll PROVE BusTyped'
    OBVIOUS
  <2>1. CASE Search
    <3>1. Len(table) \in Nat /\ Matches \in SUBSET (1..Len(table))
      BY DEF Walk, Matches
    <3>2. ASSUME Cardinality(Matches) = 1
          PROVE  table[CHOOSE i \in Matches : TRUE].nr \in Nat
      <4>1. PICK j \in 1..Len(table) : Matches = {j}
        BY <3>1, <3>2, Counted
      <4>2. (CHOOSE i \in Matches : TRUE) = j
        BY <4>1
      <4>3. table[j] \in Adapters
        BY Element DEF Walk
      <4> QED
        BY <4>2, <4>3 DEF Adapters
    <3> QED
      BY <2>1, <3>2 DEF Search, BusTyped
  <2>2. CASE ~Search
    BY <2>2 DEF TableNext, OthersOpen, Calloc, CallocFails, OpenDirectory, OpenDirectoryFails,
       Plain, Nested, Nameless, Skip, MoreAdapters, AddAdapter, AllocationFails, GivesUp,
       CloseDirectory, Finished, tableAll, tableVars, BusTyped
  <2> QED
    BY <2>1, <2>2
<1> QED
    BY <1>1, <1>2, WalkInvariant, PTL DEF TableSpec

Sound == sound \in BOOLEAN

LEMMA SoundInvariant == TableSpec => []Sound
<1>1. TableInit => Sound
    BY DEF TableInit, Sound
<1>2. Sound /\ [TableNext]_tableAll => Sound'
    BY DEF TableNext, OthersOpen, Calloc, CallocFails, OpenDirectory, OpenDirectoryFails,
       Plain, Nested, Nameless, Skip, MoreAdapters, AddAdapter, AllocationFails, GivesUp,
       CloseDirectory, Search, Finished, tableAll, tableVars, Sound
<1> QED
    BY <1>1, <1>2, PTL DEF TableSpec

(* Look-up, table and descriptors keep their types; no count leaves the    *)
(* table of descriptors.                                                   *)
THEOREM TableTypeCorrect == TableSpec => []TableTypeOK
<1>1. Walk /\ Room /\ Owned /\ Open /\ BusTyped /\ Sound => TableTypeOK
  <2> SUFFICES ASSUME Walk, Room, Owned, Open, BusTyped, Sound PROVE TableTypeOK
    OBVIOUS
  <2>1. Len(table) \in Nat
    BY DEF Walk
  <2>2. heap \in Nat
    BY <2>1 DEF Owned
  <2>3. kept \in 0..MaxFds
    BY MaxFdsAssumption DEF Open, Walked
  <2> QED
    BY <2>2, <2>3 DEF TableTypeOK, FdsTypeOK, Walk, Room, Open, BusTyped, Sound, Adapters
<1> QED
    BY <1>1, WalkInvariant, RoomInvariant, OwnedInvariant, OpenInvariant, BusInvariant,
       SoundInvariant, PTL

-----------------------------------------------------------------------------
(* Set MAC Address over any EEPROMs, requests and failures.                *)
(* Until the stream is closed nothing has reached an EEPROM, and a stream  *)
(* is there only for a path that names one.                                *)
Buffered ==
    /\ macPhase \in {"idle", "open", "seek", "write", "close"}
    /\ mem \in [Devices -> [Cells -> 0..255]]
    /\ before \in [Devices -> [Cells -> 0..255]]
    /\ macReq \in MacRequests
    /\ macPhase # "idle" => mem = before
    /\ macPhase \in {"seek", "write", "close"} => Named(macReq.target) # NoDevice

LEMMA NamedExists == ASSUME NEW t PROVE Named(t) \in Devices \cup {NoDevice}
BY DEF Named

(* No byte of the value leaves everything as it was.                       *)
LEMMA StoreNothing ==
    ASSUME NEW m \in [Devices -> [Cells -> 0..255]], NEW d \in Devices,
           NEW start, NEW value
    PROVE  Store(m, d, start, value, 0) = m
<1>1. 0..(0 - 1) = {}
    OBVIOUS
<1>2. [a \in Cells |-> IF a - start \in 0..(0 - 1) THEN value[a - start + 1] ELSE m[d][a]]
        = [a \in Cells |-> m[d][a]]
    BY <1>1
<1>3. m[d] \in [Cells -> 0..255]
    OBVIOUS
<1>4. [a \in Cells |-> m[d][a]] = m[d]
    BY <1>3
<1>5. Store(m, d, start, value, 0) = [m EXCEPT ![d] = m[d]]
    BY <1>2, <1>4 DEF Store
<1> QED
    BY <1>5

(* What was stored are bytes.                                              *)
LEMMA StoreTyped ==
    ASSUME NEW m \in [Devices -> [Cells -> 0..255]], NEW d,
           NEW start \in Starts, NEW value \in Macs, NEW k \in 0..Mac
    PROVE  Store(m, d, start, value, k) \in [Devices -> [Cells -> 0..255]]
<1> DEFINE new == [a \in Cells |->
                     IF a - start \in 0..(k - 1) THEN value[a - start + 1] ELSE m[d][a]]
<1>1. value \in [1..Mac -> 0..255] /\ start \in 0..LastAddress /\ Size \in Nat
    BY SizeAssumption, StartsAssumption, MacsAssumption
<1>2. ASSUME d \in Devices PROVE new \in [Cells -> 0..255]
  <2>1. ASSUME NEW a \in Cells, a - start \in 0..(k - 1)
        PROVE  value[a - start + 1] \in 0..255
    <3>1. a - start + 1 \in 1..Mac
      <4>1. a \in Int /\ start \in Int /\ k \in Int /\ k <= 6
        BY <1>1 DEF Cells, Mac, LastAddress
      <4>2. a - start \in Int /\ 0 <= a - start /\ a - start <= k - 1
        BY <2>1, <4>1
      <4> QED
        BY <4>1, <4>2 DEF Mac
    <3> QED
      BY <3>1, <1>1
  <2>2. ASSUME NEW a \in Cells PROVE m[d][a] \in 0..255
    BY <1>2
  <2> QED
    BY <2>1, <2>2
<1>3. Store(m, d, start, value, k) = [m EXCEPT ![d] = new]
    BY DEF Store
<1> HIDE DEF new
<1> QED
    BY <1>2, <1>3

LEMMA BufferedInvariant == MacSpec => []Buffered
<1>1. MacInit => Buffered
    BY DEF MacInit, Buffered, BlankDevices
<1>2. Buffered /\ [MacNext]_macAll => Buffered'
  <2> SUFFICES ASSUME Buffered, [MacNext]_macAll PROVE Buffered'
    OBVIOUS
  <2> USE DEF Buffered
  <2>1. ASSUME NEW cc, MacReturn(cc), UNCHANGED mem PROVE Buffered'
    BY <2>1 DEF MacReturn
  <2>2. ASSUME NEW cc, MacReturn(cc), NEW k \in 0..Mac, StoreFirst(k) PROVE Buffered'
    <3>1. macReq.start \in Starts /\ macReq.value \in Macs
      BY DEF MacRequests
    <3>2. mem' = Store(mem, Named(macReq.target), macReq.start, macReq.value, k)
      BY <2>2 DEF StoreFirst
    <3>3. mem' \in [Devices -> [Cells -> 0..255]]
      BY <3>1, <3>2, StoreTyped
    <3> QED
      BY <2>2, <3>3 DEF MacReturn
  <2>3. CASE MacBadLength
    BY <2>3 DEF MacBadLength
  <2>4. ASSUME NEW t \in Targets, NEW start \in Starts, NEW value \in Macs,
               SetMac(t, start, value)
        PROVE  Buffered'
    <3>1. macReq' \in MacRequests
      BY <2>4 DEF SetMac, MacRequests
    <3> QED
      BY <2>4, <3>1 DEF SetMac
  <2>5. CASE Fopen
    BY <2>5 DEF Fopen
  <2>6. CASE FopenFails
    BY <2>6, <2>1 DEF FopenFails
  <2>7. CASE Fseek
    BY <2>7 DEF Fseek
  <2>8. CASE FseekFails
    BY <2>8, <2>1 DEF FseekFails
  <2>9. CASE Fwrite
    BY <2>9 DEF Fwrite
  <2>10. CASE FwriteFails
    <3>1. PICK k \in 0..(Mac - 1) : StoreFirst(k)
      BY <2>10 DEF FwriteFails
    <3>2. k \in 0..Mac
      BY DEF Mac
    <3> QED
      BY <2>10, <3>1, <3>2, <2>2 DEF FwriteFails
  <2>11. CASE Fclose
    <3>1. PICK k \in {Mac} \cup {j \in 0..(Mac - 1) : "flush" \in Faults} : StoreFirst(k)
      BY <2>11 DEF Fclose
    <3>2. k \in 0..Mac
      BY DEF Mac
    <3> QED
      BY <2>11, <3>1, <3>2, <2>2 DEF Fclose
  <2>12. CASE MacCrash
    BY <2>12, <2>1 DEF MacCrash
  <2>13. CASE UNCHANGED macAll
    BY <2>13 DEF macAll, macVars
  <2> QED
    BY <2>3, <2>4, <2>5, <2>6, <2>7, <2>8, <2>9, <2>10, <2>11, <2>12, <2>13 DEF MacNext
<1> QED
    BY <1>1, <1>2, PTL DEF MacSpec

-----------------------------------------------------------------------------
(* Whatever fails, wherever the daemon ends: a request changes nothing but *)
(* the first bytes of its value at its address in the one EEPROM its path  *)
(* names.                                                                  *)
THEOREM OnlyItsPrefix == MacSpec => []LeavesPrefix
<1>1. ASSUME Buffered, mem = before PROVE LeavesPrefix
  <2>1. 0 \in 0..Mac
    BY DEF Mac
  <2>2. CASE Named(macReq.target) = NoDevice
    BY <1>1, <2>1, <2>2 DEF LeavesPrefix
  <2>3. CASE Named(macReq.target) # NoDevice
    <3>1. Named(macReq.target) \in Devices
      BY <2>3, NamedExists
    <3>2. mem = Store(before, Named(macReq.target), macReq.start, macReq.value, 0)
      BY <1>1, <3>1, StoreNothing DEF Buffered
    <3> QED
      BY <2>1, <2>3, <3>2, Zenon DEF LeavesPrefix
  <2> QED
    BY <2>2, <2>3
<1>2. MacInit => LeavesPrefix
    <2> SUFFICES ASSUME MacInit PROVE LeavesPrefix
      OBVIOUS
    <2>1. Buffered /\ mem = before
      BY DEF MacInit, Buffered, BlankDevices
    <2> QED
      BY <2>1, <1>1
<1>3. Buffered /\ Buffered' /\ LeavesPrefix /\ [MacNext]_macAll => LeavesPrefix'
  <2> SUFFICES ASSUME Buffered, Buffered', LeavesPrefix, [MacNext]_macAll
               PROVE  LeavesPrefix'
    OBVIOUS
  <2>1. (Buffered /\ mem = before => LeavesPrefix)'
    BY <1>1, PTL
  <2>2. ASSUME UNCHANGED <<mem, macReq, before>> PROVE LeavesPrefix'
    BY <2>2 DEF LeavesPrefix
  <2>3. CASE MacBadLength \/ \E t \in Targets, start \in Starts, value \in Macs :
                              SetMac(t, start, value)
    <3>1. mem' = mem /\ before' = mem
      BY <2>3 DEF MacBadLength, SetMac
    <3> QED
      BY <3>1, <2>1
  <2>4. ASSUME macPhase \in {"write", "close"}, UNCHANGED <<macReq, before>>,
               NEW k \in 0..Mac, StoreFirst(k)
        PROVE  LeavesPrefix'
    <3>1. Named(macReq.target) # NoDevice /\ mem = before
      BY <2>4 DEF Buffered
    <3>2. mem' = Store(before, Named(macReq.target), macReq.start, macReq.value, k)
      BY <2>4, <3>1 DEF StoreFirst
    <3>3. Named(macReq'.target) = Named(macReq.target)
      BY <2>4
    <3> QED
      BY <2>4, <3>1, <3>2, <3>3 DEF LeavesPrefix
  <2>5. CASE FwriteFails
    <3>1. PICK k \in 0..(Mac - 1) : StoreFirst(k)
      BY <2>5 DEF FwriteFails
    <3>2. k \in 0..Mac
      BY DEF Mac
    <3> QED
      BY <2>5, <3>1, <3>2, <2>4 DEF FwriteFails, MacReturn
  <2>6. CASE Fclose
    <3>1. PICK k \in {Mac} \cup {j \in 0..(Mac - 1) : "flush" \in Faults} : StoreFirst(k)
      BY <2>6 DEF Fclose
    <3>2. k \in 0..Mac
      BY DEF Mac
    <3> QED
      BY <2>6, <3>1, <3>2, <2>4 DEF Fclose, MacReturn
  <2>7. CASE Fopen \/ FopenFails \/ Fseek \/ FseekFails \/ Fwrite \/ MacCrash
    BY <2>7, <2>2 DEF Fopen, FopenFails, Fseek, FseekFails, Fwrite, MacCrash, MacReturn
  <2>8. CASE UNCHANGED macAll
    BY <2>8, <2>2 DEF macAll, macVars
  <2> QED
    BY <2>3, <2>5, <2>6, <2>7, <2>8 DEF MacNext
<1> QED
    BY <1>2, <1>3, BufferedInvariant, PTL DEF MacSpec

(* One stream, from fopen to fclose.                                       *)
Stream ==
    /\ macFds \in 0..MaxFds
    /\ macFds = IF macPhase \in {"seek", "write", "close"} THEN 1 ELSE 0
    /\ macReply \in {"none", "ok", "badlen", "unspecified"}

LEMMA StreamInvariant == MacSpec => []Stream
<1>1. MacInit => Stream
    BY MaxFdsAssumption DEF MacInit, Stream
<1>2. Buffered /\ Stream /\ [MacNext]_macAll => Stream'
  <2> SUFFICES ASSUME Buffered, Stream, [MacNext]_macAll PROVE Stream'
    OBVIOUS
  <2> USE MaxFdsAssumption DEF Stream
  <2>1. CASE MacBadLength
    BY <2>1 DEF MacBadLength
  <2>2. CASE \E t \in Targets, start \in Starts, value \in Macs : SetMac(t, start, value)
    BY <2>2 DEF SetMac
  <2>3. CASE Fopen
    BY <2>3 DEF Fopen, Opens
  <2>4. CASE FopenFails
    BY <2>4 DEF FopenFails, OpenRefused, MacReturn
  <2>5. CASE Fseek \/ Fwrite
    BY <2>5 DEF Fseek, Fwrite
  <2>6. CASE FseekFails
    BY <2>6 DEF FseekFails, Closes, MacReturn
  <2>7. CASE FwriteFails
    BY <2>7 DEF FwriteFails, Closes, MacReturn
  <2>8. CASE Fclose
    BY <2>8 DEF Fclose, Closes, MacReturn
  <2>9. CASE MacCrash
    BY <2>9 DEF MacCrash, ProcessEnds, MacReturn
  <2>10. CASE UNCHANGED macAll
    BY <2>10 DEF macAll, macVars
  <2> QED
    BY <2>1, <2>2, <2>3, <2>4, <2>5, <2>6, <2>7, <2>8, <2>9, <2>10 DEF MacNext
<1> QED
    BY <1>1, <1>2, BufferedInvariant, PTL DEF MacSpec

(* The stream is closed on every way out, whatever fails.                  *)
THEOREM StreamIsClosed == MacSpec => []NoStreamHeld
<1>1. Stream => NoStreamHeld
    BY DEF Stream, NoStreamHeld
<1> QED
    BY <1>1, StreamInvariant, PTL

(* Whatever is written where and in however many parts: the EEPROMs keep   *)
(* bytes in their cells, and the request its parts.                        *)
THEOREM MacTypeCorrect == MacSpec => []MacTypeOK
<1>1. Buffered /\ Stream => MacTypeOK
  <2> SUFFICES ASSUME Buffered, Stream PROVE MacTypeOK
    OBVIOUS
  <2>1. macReq.target \in Targets /\ macReq.start \in Starts /\ macReq.value \in Macs
    BY DEF Buffered, MacRequests
  <2> QED
    BY <2>1 DEF MacTypeOK, FdsTypeOK, Buffered, Stream
<1> QED
    BY <1>1, BufferedInvariant, StreamInvariant, PTL

-----------------------------------------------------------------------------
(* The CPLD version.  What the buffer holds begins with what was read.     *)
CpldReplies == [cc: {"none", "ok", "badlen"}, len: 0..255,
                fields: (0..7) \X (0..3) \X (0..7)]

Read ==
    /\ version \in VersionFiles
    /\ cpld \in {"idle", "decode"}
    /\ temp \in [1..2 -> Chars]
    /\ shown \in VersionFiles
    /\ \A i \in 1..Len(shown) : temp[i] = shown[i]
    /\ result \in CpldReplies
    /\ cpld = "idle" /\ result.cc = "ok" => result.fields = CpldFields(CpldByte(temp))

LEMMA CpldDigits ==
    ASSUME NEW t \in [1..2 -> Chars]
    PROVE  /\ HexDigit(t[1]) \in 0..15 /\ HexDigit(t[2]) \in 0..15
           /\ CpldByte(t) = HexDigit(t[1]) * 16 + HexDigit(t[2])
           /\ CpldByte(t) \in 0..255
<1>1. ASSUME NEW c \in Chars PROVE HexDigit(c) \in 0..15
  <2>1. c \in Int /\ 0 <= c /\ c <= 16
    BY CpldAssumption DEF NotHex
  <2> QED
    BY <2>1 DEF HexDigit, NotHex
<1>2. t[1] \in Chars /\ t[2] \in Chars
    OBVIOUS
<1>3. HexDigit(t[1]) \in 0..15 /\ HexDigit(t[2]) \in 0..15
    BY <1>1, <1>2
<1> QED
    BY <1>3 DEF CpldByte

(* The three bit fields of a byte, put together, are the byte.             *)
LEMMA FieldsEncode ==
    ASSUME NEW b \in 0..255
    PROVE  /\ CpldFields(b) \in (0..7) \X (0..3) \X (0..7)
           /\ Encoded(CpldFields(b)) = b
<1>1. b \div 32 \in 0..7 /\ (b % 32) \div 8 \in 0..3 /\ b % 8 \in 0..7
    OBVIOUS
<1>2. (b \div 32) * 32 + ((b % 32) \div 8) * 8 + (b % 8) = b
  <2> DEFINE q == b \div 32
             r == b % 32
             s == r \div 8
             u == r % 8
  <2>1. q \in Int /\ r \in 0..31 /\ b = 32 * q + r
    OBVIOUS
  <2>2. s \in Int /\ u \in 0..7 /\ r = 8 * s + u
    BY <2>1
  <2>3. b % 8 = u
    <3> HIDE DEF q, r, s, u
    <3>1. b = 8 * (4 * q + s) + u
      BY <2>1, <2>2
    <3> QED
      BY <2>1, <2>2, <3>1
  <2> QED
    BY <2>1, <2>2, <2>3
<1>3. CpldFields(b) = <<b \div 32, (b % 32) \div 8, b % 8>>
    BY DEF CpldFields
<1>4. CpldFields(b) \in (0..7) \X (0..3) \X (0..7)
    BY <1>1, <1>3
<1> QED
    BY <1>2, <1>3, <1>4 DEF Encoded

LEMMA CpldReplyTyped ==
    ASSUME NEW cc \in {"none", "ok", "badlen"}, NEW len \in 0..255,
           NEW fields \in (0..7) \X (0..3) \X (0..7)
    PROVE  [cc |-> cc, len |-> len, fields |-> fields] \in CpldReplies
BY DEF CpldReplies

LEMMA ReadInvariant == CpldSpec => []Read
<1>0. <<0, 0, 0>> \in (0..7) \X (0..3) \X (0..7) /\ 0 \in 0..255
    OBVIOUS
<1>1. CpldInit => Read
  <2> SUFFICES ASSUME CpldInit PROVE Read
    OBVIOUS
  <2>1. result = [cc |-> "none", len |-> 0, fields |-> <<0, 0, 0>>] /\ shown = <<>>
    BY DEF CpldInit
  <2>2. "none" \in {"none", "ok", "badlen"}
    OBVIOUS
  <2>3. result \in CpldReplies
    BY <1>0, <2>1, <2>2, CpldReplyTyped, Zenon
  <2>4. <<>> \in VersionFiles
    BY DEF VersionFiles
  <2> QED
    BY <2>1, <2>3, <2>4 DEF CpldInit, Read
<1>2. Read /\ [CpldNext]_cpldVars => Read'
  <2> SUFFICES ASSUME Read, [CpldNext]_cpldVars PROVE Read'
    OBVIOUS
  <2>1. CASE CpldBadLength
    <3>1. result' = [cc |-> "badlen", len |-> 0, fields |-> <<0, 0, 0>>]
      BY <2>1 DEF CpldBadLength
    <3>2. "badlen" \in {"none", "ok", "badlen"}
      OBVIOUS
    <3>3. result' \in CpldReplies
      BY <1>0, <3>1, <3>2, CpldReplyTyped, Zenon
    <3> QED
      BY <2>1, <3>1, <3>3 DEF CpldBadLength, Read
  <2>2. CASE ReadCpld
    <3>1. shown' \in VersionFiles
      <4>1. <<>> \in VersionFiles
        BY DEF VersionFiles
      <4> QED
        BY <2>2, <4>1 DEF ReadCpld, Read
    <3>2. /\ temp' \in [1..2 -> Chars]
          /\ \A i \in 1..Len(shown') : temp'[i] = shown'[i]
      BY <2>2 DEF ReadCpld
    <3> QED
      BY <2>2, <3>1, <3>2 DEF ReadCpld, Read
  <2>3. ASSUME NEW len \in CpldLens, Decode(len) PROVE Read'
    <3>1. result' = [cc |-> "ok", len |-> len, fields |-> CpldFields(CpldByte(temp))]
          /\ UNCHANGED <<version, temp, shown>> /\ cpld' = "idle"
      BY <2>3 DEF Decode
    <3>2. CpldFields(CpldByte(temp)) \in (0..7) \X (0..3) \X (0..7)
      BY CpldDigits, FieldsEncode DEF Read
    <3>3. "ok" \in {"none", "ok", "badlen"} /\ len \in 0..255
      BY CpldAssumption
    <3>4. result' \in CpldReplies
      BY <3>1, <3>2, <3>3, CpldReplyTyped, Zenon
    <3>5. result'.fields = CpldFields(CpldByte(temp))'
      BY <3>1
    <3> QED
      BY <3>1, <3>4, <3>5 DEF Read
  <2>4. CASE Programmed \/ UNCHANGED cpldVars
    BY <2>4 DEF Programmed, cpldVars, Read
  <2> QED
    BY <2>1, <2>2, <2>3, <2>4 DEF CpldNext
<1> QED
    BY <1>1, <1>2, PTL DEF CpldSpec

(* For every file, read whole: the fields of the answer put together are   *)
(* the byte its two characters say.                                        *)
THEOREM FieldsDecode == CpldSpec => []AnswerDecodes
<1>1. Read => AnswerDecodes
  <2> SUFFICES ASSUME Read, cpld = "idle", result.cc = "ok", Len(shown) = 2
               PROVE  Encoded(result.fields) = HexDigit(shown[1]) * 16 + HexDigit(shown[2])
    BY DEF AnswerDecodes
  <2>1. temp \in [1..2 -> Chars] /\ result.fields = CpldFields(CpldByte(temp))
    BY DEF Read
  <2>2. temp[1] = shown[1] /\ temp[2] = shown[2]
    BY DEF Read
  <2>3. Encoded(result.fields) = CpldByte(temp)
    BY <2>1, CpldDigits, FieldsEncode
  <2>4. CpldByte(temp) = HexDigit(temp[1]) * 16 + HexDigit(temp[2])
    BY <2>1, CpldDigits
  <2> QED
    BY <2>2, <2>3, <2>4
<1> QED
    BY <1>1, ReadInvariant, PTL

(* Whatever the heap held: the answer has three fields of their widths.    *)
THEOREM CpldTypeCorrect == CpldSpec => []CpldTypeOK
<1>1. Read => CpldTypeOK
    BY DEF Read, CpldTypeOK, CpldReplies
<1> QED
    BY <1>1, ReadInvariant, PTL

(* Get BMC Version.  The strings are those of the last lines read, and the *)
(* stream is there until the end of the file.                              *)
ReleaseLine == [key: Keys, quoted: BOOLEAN, value: STRING, len: 0..255, long: BOOLEAN]
Strings == [value: Texts, len: 0..255]
VersionTexts == [VersionFields -> Texts]
VersionReplies == [cc: {"none", "ok", "badlen"}, len: {0, ResSize}, text: VersionTexts]

ReadOf(k) == {i \in 1..line : file[i].key = k}

LastRead(k) ==
    \/ ReadOf(k) = {} /\ found[k] = Empty
    \/ \E i \in ReadOf(k) : (\A j \in ReadOf(k) : j <= i) /\ found[k] = Cut(file[i])

Scan ==
    /\ file \in ReleaseFiles
    /\ phase \in {"idle", "open", "loop", "copy"}
    /\ line \in 0..Len(file)
    /\ failed \in BOOLEAN
    /\ found \in [VersionFields -> Strings]
    /\ \A k \in VersionFields : LastRead(k)
    /\ phase = "copy" => line = Len(file)

\* The stream is open unless it could not be opened.
Streams ==
    /\ bmcFds \in 0..MaxFds
    /\ phase # "loop" => bmcFds = 0
    /\ phase = "loop" /\ ~failed => bmcFds = 1

LEMMA ReleaseTyped ==
    ASSUME NEW f \in ReleaseFiles
    PROVE  /\ f \in Seq(ReleaseLine) /\ Len(f) \in Nat
           /\ \A i \in 1..Len(f) : f[i] \in ReleaseLine
<1>1. f \in Seq(ReleaseLine)
    BY FilesAssumption DEF ReleaseLine
<1> QED
    BY <1>1, Element

LEMMA StringTyped ==
    /\ Empty \in Strings /\ Nothing \in [VersionFields -> Strings] /\ NoText \in VersionTexts
    /\ Garbage \in Texts
<1>1. NoString \in Texts /\ Garbage \in Texts
    BY DEF Texts
<1>2. Empty \in Strings
    BY <1>1 DEF Empty, Strings
<1> QED
    BY <1>1, <1>2 DEF Nothing, NoText, VersionTexts

LEMMA CutTyped ==
    ASSUME NEW f \in ReleaseFiles, NEW i \in 1..Len(f)
    PROVE  Cut(f[i]) \in Strings
<1>1. f[i].len \in 0..255
    BY ReleaseTyped DEF ReleaseLine
<1>2. f[i].value \in Texts /\ WholeLine \in Texts
    BY DEF Texts, FileValues
<1>3. (IF f[i].quoted THEN f[i].value ELSE WholeLine) \in Texts
    BY <1>2
<1> QED
    BY <1>1, <1>3 DEF Cut, Strings

(* The line read becomes the last one with its key.                        *)
LEMMA NextLineScans == Scan /\ NextLine => Scan'
<1> SUFFICES ASSUME Scan, NextLine PROVE Scan'
    OBVIOUS
<1> DEFINE l == file[line + 1]
<1>1. /\ line' = line + 1 /\ line < Len(file) /\ phase = "loop"
      /\ UNCHANGED <<file, phase>> /\ failed' = l.long
      /\ found' = IF l.key \in VersionFields THEN [found EXCEPT ![l.key] = Cut(l)] ELSE found
    BY DEF NextLine
<1>2. Len(file) \in Nat /\ line \in Nat /\ line + 1 \in 1..Len(file) /\ l \in ReleaseLine
  <2>1. Len(file) \in Nat /\ line \in 0..Len(file)
    BY ReleaseTyped DEF Scan
  <2>2. line + 1 \in 1..Len(file) /\ line \in Nat
    BY <1>1, <2>1
  <2> QED
    BY <2>1, <2>2, ReleaseTyped DEF Scan
<1>3. l.long \in BOOLEAN /\ Cut(l) \in Strings
    BY <1>2, CutTyped DEF ReleaseLine, Scan
<1> HIDE DEF l
<1>4. found \in [VersionFields -> Strings]
    BY DEF Scan
<1>5. found' \in [VersionFields -> Strings]
    BY <1>1, <1>3, <1>4
<1>6. \A i \in 1..line' : i \in 1..line \/ i = line + 1
    BY <1>1, <1>2
<1>7. ASSUME NEW k \in VersionFields PROVE LastRead(k)'
  <2>1. CASE l.key = k
    <3>1. found'[k] = Cut(file[line + 1])
      BY <1>1, <1>4, <2>1 DEF l
    <3>2. line + 1 \in ReadOf(k)'
      BY <1>1, <1>2, <2>1 DEF ReadOf, l
    <3>3. \A j \in ReadOf(k)' : j <= line + 1
      BY <1>1, <1>2 DEF ReadOf
    <3> QED
      BY <1>1, <3>1, <3>2, <3>3 DEF LastRead
  <2>2. CASE l.key # k
    <3>1. found'[k] = found[k]
      BY <1>1, <1>4, <2>2
    <3>2. ReadOf(k)' = ReadOf(k)
      BY <1>1, <1>2, <1>6, <2>2 DEF ReadOf, l
    <3>3. LastRead(k)
      BY DEF Scan
    <3> QED
      BY <1>1, <3>1, <3>2, <3>3 DEF LastRead
  <2> QED
    BY <2>1, <2>2
<1>8. line' \in 0..Len(file')
    BY <1>1, <1>2
<1> QED
    BY <1>1, <1>3, <1>5, <1>7, <1>8 DEF Scan

(* A scan that begins has read nothing.                                    *)
LEMMA ScanBegins ==
    ASSUME file' \in ReleaseFiles, phase' \in {"idle", "open"}, line' = 0, failed' = FALSE,
           found' = Nothing
    PROVE  Scan'
<1>1. Len(file') \in Nat /\ line' \in 0..Len(file')
    BY ReleaseTyped
<1>2. ASSUME NEW k \in VersionFields PROVE LastRead(k)'
    BY DEF LastRead, ReadOf, Nothing
<1> QED
    BY <1>1, <1>2, StringTyped DEF Scan

LEMMA ScanInvariant == BmcSpec => []Scan
<1>1. BmcInit => Scan
  <2> SUFFICES ASSUME BmcInit PROVE Scan
    OBVIOUS
  <2>1. Len(file) \in Nat /\ line \in 0..Len(file)
    BY ReleaseTyped DEF BmcInit
  <2>2. ASSUME NEW k \in VersionFields PROVE LastRead(k)
    BY DEF BmcInit, LastRead, ReadOf, Nothing
  <2> QED
    BY <2>1, <2>2, StringTyped DEF BmcInit, Scan
<1>2. Scan /\ [BmcNext]_bmcAll => Scan'
  <2> SUFFICES ASSUME Scan, [BmcNext]_bmcAll PROVE Scan'
    OBVIOUS
  <2>1. ASSUME UNCHANGED <<file, line, failed, found>>, phase' \in {"idle", "loop"}
        PROVE  Scan'
    BY <2>1 DEF Scan, LastRead, ReadOf
  <2>2. CASE BmcRequest
    BY <2>2, ScanBegins DEF BmcRequest, GetVersion, Scan
  <2>3. CASE OpenStream \/ Copy \/ CopyOverruns
    BY <2>1, <2>3 DEF OpenStream, Copy, CopyOverruns
  <2>4. CASE OpenStreamFails
    BY <2>4 DEF OpenStreamFails, Scan, LastRead, ReadOf
  <2>5. CASE NextLine
    BY <2>5, NextLineScans
  <2>6. CASE NextLineFails
    BY <2>6 DEF NextLineFails, Scan, LastRead, ReadOf
  <2>7. CASE EndOfFile
    BY <2>7 DEF EndOfFile, Scan, LastRead, ReadOf
  <2>8. CASE Spin \/ UNCHANGED bmcAll
    BY <2>8 DEF Spin, bmcAll, bmcVars, Scan, LastRead, ReadOf
  <2>9. CASE BmcRestart
    BY <2>9, ScanBegins DEF BmcRestart, BmcRestarted, Scan
  <2> QED
    BY <2>2, <2>3, <2>4, <2>5, <2>6, <2>7, <2>8, <2>9 DEF BmcNext, Reading
<1> QED
    BY <1>1, <1>2, PTL DEF BmcSpec

LEMMA StreamsInvariant == BmcSpec => []Streams
<1>1. BmcInit => Streams
    BY MaxFdsAssumption DEF BmcInit, Streams
<1>2. Streams /\ [BmcNext]_bmcAll => Streams'
  <2> SUFFICES ASSUME Streams, [BmcNext]_bmcAll PROVE Streams'
    OBVIOUS
  <2> USE MaxFdsAssumption DEF Streams
  <2>1. CASE BmcRequest
    BY <2>1 DEF BmcRequest, GetVersion
  <2>2. CASE OpenStream
    BY <2>2 DEF OpenStream, Opens
  <2>3. CASE OpenStreamFails
    BY <2>3 DEF OpenStreamFails, OpenRefused
  <2>4. CASE NextLine \/ NextLineFails
    BY <2>4 DEF NextLine, NextLineFails
  <2>5. CASE EndOfFile
    BY <2>5 DEF EndOfFile, Closes
  <2>6. CASE Copy \/ CopyOverruns
    BY <2>6 DEF Copy, CopyOverruns
  <2>7. CASE Spin \/ UNCHANGED bmcAll
    BY <2>7 DEF Spin, bmcAll, bmcVars
  <2>8. CASE BmcRestart
    BY <2>8 DEF BmcRestart, BmcRestarted, ProcessEnds
  <2> QED
    BY <2>1, <2>2, <2>3, <2>4, <2>5, <2>6, <2>7, <2>8 DEF BmcNext, Reading
<1> QED
    BY <1>1, <1>2, PTL DEF BmcSpec

(* The stream is closed on every way out of the handler: a loop that ends  *)
(* had it open.                                                            *)
THEOREM StreamsAreClosed == BmcSpec => []NoStreamLeft
<1>1. Streams => NoStreamLeft
    BY DEF Streams, NoStreamLeft
<1> QED
    BY <1>1, StreamsInvariant, PTL

-----------------------------------------------------------------------------
(* What a whole scan has found is what the file says.                      *)
LEMMA ScanFinds ==
    ASSUME Scan, WellFormed, line = Len(file), NEW k \in VersionFields
    PROVE  /\ found[k].value = LastValue(k)
           /\ k = "version" => found[k].len <= VersionLength
           /\ k = "buildtime" => found[k].len <= BuildtimeLength
<1>1. LinesOf(k) = ReadOf(k) /\ LastRead(k)
    BY DEF LinesOf, ReadOf, Scan
<1>2. CASE ReadOf(k) = {} /\ found[k] = Empty
  <2>1. found[k].value = NoString /\ found[k].len = 0
    BY <1>2 DEF Empty
  <2> QED
    BY <1>1, <1>2, <2>1 DEF LastValue, VersionLength, BuildtimeLength
<1>3. ASSUME NEW i \in ReadOf(k), \A j \in ReadOf(k) : j <= i, found[k] = Cut(file[i])
      PROVE  /\ found[k].value = LastValue(k)
             /\ k = "version" => found[k].len <= VersionLength
             /\ k = "buildtime" => found[k].len <= BuildtimeLength
  <2>1. i \in 1..Len(file) /\ file[i].key = k
    BY DEF ReadOf
  <2>2. /\ file[i].quoted
        /\ file[i].key = "version" => file[i].len <= VersionLength
        /\ file[i].key = "buildtime" => file[i].len <= BuildtimeLength
    BY <2>1 DEF WellFormed
  <2>3. found[k].value = file[i].value /\ found[k].len = file[i].len
    BY <1>3, <2>2 DEF Cut
  <2>4. \A j \in ReadOf(k) : (\A m \in ReadOf(k) : m <= j) => j = i
    <3>1. ReadOf(k) \subseteq Int
      BY DEF ReadOf
    <3> QED
      BY <1>3, <3>1
  <2>5. (CHOOSE j \in ReadOf(k) : \A m \in ReadOf(k) : m <= j) = i
    BY <1>3, <2>4
  <2>6. LastValue(k) = file[i].value
    BY <1>1, <1>3, <2>5 DEF LastValue
  <2> QED
    BY <2>1, <2>2, <2>3, <2>6
<1> QED
    BY <1>1, <1>2, <1>3 DEF LastRead

(* Whatever lines os-release has, in whatever order and however often: an  *)
(* ok answer from a well-formed file has the value of the last line for    *)
(* each field, and nothing for a field without one.                        *)
THEOREM AnswerIsFile == BmcSpec => []VersionIsFile
<1>1. BmcInit => VersionIsFile
    BY DEF BmcInit, VersionIsFile
<1>2. Scan /\ VersionIsFile /\ [BmcNext]_bmcAll => VersionIsFile'
  <2> SUFFICES ASSUME Scan, VersionIsFile, [BmcNext]_bmcAll, answer'.cc = "ok", WellFormed'
               PROVE  answer'.text = [k \in VersionFields |-> LastValue(k)']
    BY DEF VersionIsFile
  <2>1. file' = file
    BY DEF BmcNext, BmcRequest, GetVersion, Reading, OpenStream, OpenStreamFails, NextLine,
       NextLineFails, EndOfFile, Spin, Copy, CopyOverruns, BmcRestart, BmcRestarted, bmcAll, bmcVars
  <2>2. WellFormed /\ \A k \in VersionFields : LastValue(k)' = LastValue(k)
    BY <2>1 DEF WellFormed, LastValue, LinesOf
  <2>3. CASE answer' = answer
    BY <2>2, <2>3 DEF VersionIsFile
  <2>4. ASSUME phase = "copy"
        PROVE  /\ \A k \in VersionFields : found[k].value = LastValue(k)
               /\ Fits
    <3>1. line = Len(file)
      BY <2>4 DEF Scan
    <3>2. "version" \in VersionFields /\ "buildtime" \in VersionFields
      BY DEF VersionFields
    <3> QED
      BY <2>2, <3>1, <3>2, ScanFinds DEF Fits
  <2>5. CASE Copy
    <3>1. answer'.text = [k \in VersionFields |-> found[k].value]
      BY <2>5 DEF Copy
    <3> QED
      BY <2>2, <2>4, <2>5, <3>1 DEF Copy
  <2>6. ~CopyOverruns
    BY <2>4 DEF CopyOverruns
  <2>7. CASE BmcRequest
    BY <2>3, <2>7 DEF BmcRequest, GetVersion
  <2>8. CASE BmcRestart
    BY <2>8 DEF BmcRestart, BmcRestarted
  <2>9. CASE \/ OpenStream \/ OpenStreamFails \/ NextLine \/ NextLineFails \/ EndOfFile
          \/ Spin \/ UNCHANGED bmcAll
    BY <2>3, <2>9 DEF OpenStream, OpenStreamFails, NextLine, NextLineFails, EndOfFile, Spin,
       bmcAll, bmcVars
  <2> QED
    BY <2>5, <2>6, <2>7, <2>8, <2>9 DEF BmcNext, Reading
<1> QED
    BY <1>1, <1>2, ScanInvariant, PTL DEF BmcSpec

VersionAnswers == answer \in VersionReplies

LEMMA VersionReplyTyped ==
    ASSUME NEW cc \in {"none", "ok", "badlen"}, NEW len \in {0, ResSize},
           NEW text \in VersionTexts
    PROVE  [cc |-> cc, len |-> len, text |-> text] \in VersionReplies
BY DEF VersionReplies

LEMMA VersionAnswersInvariant == BmcSpec => []VersionAnswers
<1>0. "none" \in {"none", "ok", "badlen"} /\ "ok" \in {"none", "ok", "badlen"}
      /\ "badlen" \in {"none", "ok", "badlen"} /\ 0 \in {0, ResSize} /\ ResSize \in {0, ResSize}
    OBVIOUS
<1>1. BmcInit => VersionAnswers
    BY <1>0, VersionReplyTyped, StringTyped, Zenon DEF BmcInit, VersionAnswers
<1>2. Scan /\ VersionAnswers /\ [BmcNext]_bmcAll => VersionAnswers'
  <2> SUFFICES ASSUME Scan, VersionAnswers, [BmcNext]_bmcAll PROVE VersionAnswers'
    OBVIOUS
  <2>1. CASE answer' = answer
    BY <2>1 DEF VersionAnswers
  <2>2. \A k \in VersionFields : found[k].value \in Texts
    BY DEF Scan, Strings
  <2>3. CASE BmcRequest
    <3>1. answer' = answer \/ answer' = [cc |-> "badlen", len |-> 0, text |-> NoText]
      BY <2>3 DEF BmcRequest, GetVersion
    <3> QED
      BY <1>0, <2>1, <3>1, VersionReplyTyped, StringTyped, Zenon DEF VersionAnswers
  <2>4. CASE Copy
    <3>1. [k \in VersionFields |-> found[k].value] \in VersionTexts
      BY <2>2 DEF VersionTexts
    <3> QED
      BY <1>0, <2>4, <3>1, VersionReplyTyped, Zenon DEF Copy, VersionAnswers
  <2>5. CASE CopyOverruns
    <3>1. {found[k].value : k \in VersionFields} \cup {Garbage} \subseteq Texts
      BY <2>2, StringTyped
    <3>2. answer' \in [cc: {"ok"}, len: {ResSize},
                       text: [VersionFields ->
                                {found[k].value : k \in VersionFields} \cup {Garbage}]]
      BY <2>5 DEF CopyOverruns
    <3>3. PICK text \in [VersionFields ->
                            {found[k].value : k \in VersionFields} \cup {Garbage}] :
             answer' = [cc |-> "ok", len |-> ResSize, text |-> text]
      BY <3>2
    <3>4. text \in VersionTexts
      BY <3>1, <3>3 DEF VersionTexts
    <3> QED
      BY <1>0, <3>3, <3>4, VersionReplyTyped, Zenon DEF VersionAnswers
  <2>6. CASE BmcRestart
    BY <1>0, <2>6, VersionReplyTyped, StringTyped, Zenon
    DEF BmcRestart, BmcRestarted, VersionAnswers
  <2>7. CASE \/ OpenStream \/ OpenStreamFails \/ NextLine \/ NextLineFails \/ EndOfFile
          \/ Spin \/ UNCHANGED bmcAll
    BY <2>1, <2>7 DEF OpenStream, OpenStreamFails, NextLine, NextLineFails, EndOfFile, Spin,
       bmcAll, bmcVars
  <2> QED
    BY <2>3, <2>4, <2>5, <2>6, <2>7 DEF BmcNext, Reading
<1> QED
    BY <1>1, <1>2, ScanInvariant, PTL DEF BmcSpec

(* Whatever os-release holds, even when a value overruns its field: what   *)
(* the handler keeps and answers has its type.                             *)
THEOREM BmcTypeCorrect == BmcSpec => []BmcTypeOK
<1>1. Scan /\ Streams /\ VersionAnswers => BmcTypeOK
    BY DEF BmcTypeOK, FdsTypeOK, Scan, Streams, VersionAnswers, VersionReplies, VersionTexts,
       Strings
<1> QED
    BY <1>1, ScanInvariant, StreamsInvariant, VersionAnswersInvariant, PTL

-----------------------------------------------------------------------------
(* Get VR Version.  A handler goes to the regulator of the table entry it  *)
(* was asked for, and the file it reads is bound to that one's address.    *)
VrPlaces == Entries \cup {Nowhere}
VrRequests == [offset: 0..255, len: 0..255, at: VrPlaces]
VrReplies == [cc: {"none", "ok", "badlen", "invalid"}, len: 0..255,
              offset: 0..255, version: (0..63) \X {0, 1} \X {0, 1}]

VrHandled ==
    /\ regs \in [Entries -> Registers]
    /\ vrPhase \in {"idle", "lookup", "open", "check", "slave", "read"}
    /\ vrReq \in VrRequests
    /\ vrPhase # "idle" /\ vrReq.offset \in 0..2 => vrReq.at = InputVerInfo[vrReq.offset]
    /\ slave = IF vrPhase = "read" THEN vrReq.at.addr ELSE NoAddr

VrFiles ==
    /\ vrFds \in 0..MaxFds /\ leaked \in Nat
    /\ VrHoldsNothing

VrAnswered == vrReply \in VrReplies /\ VrAnswerIsRegister

LEMMA PlacesTyped ==
    /\ \A o \in 0..2 : InputVerInfo[o] \in Entries
    /\ \A at \in VrPlaces : /\ at = Vr(at.bus, at.addr, at.reg)
                            /\ at.addr \in {NoAddr} \cup 0..127
    /\ Nowhere \in VrPlaces
<1>1. \A o \in 0..2 : InputVerInfo[o] \in Entries
    BY DEF Entries
<1>2. /\ InputVerInfo[0] = Vr(19, 117, 117)
      /\ InputVerInfo[1] = Vr(18, 80, 137)
      /\ InputVerInfo[2] = Vr(18, 81, 137)
    BY DEF InputVerInfo
<1>3. \A o \in 0..2 : o = 0 \/ o = 1 \/ o = 2
    OBVIOUS
<1>4. ASSUME NEW at \in VrPlaces
      PROVE  at = Vr(19, 117, 117) \/ at = Vr(18, 80, 137) \/ at = Vr(18, 81, 137) \/ at = Nowhere
    BY <1>2, <1>3 DEF VrPlaces, Entries
<1>5. ASSUME NEW at \in VrPlaces
      PROVE  at = Vr(at.bus, at.addr, at.reg) /\ at.addr \in {NoAddr} \cup 0..127
    BY <1>4 DEF Vr, Nowhere, NoAddr
<1> QED
    BY <1>1, <1>5 DEF VrPlaces

(* The three numbers of a version are the bits of the register.            *)
LEMMA VersionBits ==
    ASSUME NEW r \in 0..255
    PROVE  /\ Version(r) \in (0..63) \X {0, 1} \X {0, 1}
           /\ Version(r)[1] * 4 + Version(r)[2] * 2 + Version(r)[3] = r
<1> DEFINE q == r \div 4
           s == r % 4
           t == s \div 2
           u == s % 2
<1>1. q \in 0..63 /\ s \in 0..3 /\ r = 4 * q + s
    OBVIOUS
<1>2. t \in {0, 1} /\ u \in {0, 1} /\ s = 2 * t + u
    BY <1>1
<1>3. r % 2 = u
  <2> HIDE DEF q, s, t, u
  <2>1. r = 2 * (2 * q + t) + u
    BY <1>1, <1>2
  <2> QED
    BY <1>1, <1>2, <2>1
<1>4. Version(r) = <<q, t, u>>
    BY <1>3 DEF Version
<1> HIDE DEF q, s, t, u
<1> QED
    BY <1>1, <1>2, <1>4

LEMMA VrRequestTyped ==
    ASSUME NEW offset \in 0..255, NEW len \in 0..255, NEW at \in VrPlaces
    PROVE  [offset |-> offset, len |-> len, at |-> at] \in VrRequests
BY DEF VrRequests

LEMMA VrReplyTyped ==
    ASSUME NEW cc \in {"none", "ok", "badlen", "invalid"}, NEW len \in 0..255,
           NEW offset \in 0..255, NEW v \in (0..63) \X {0, 1} \X {0, 1}
    PROVE  [cc |-> cc, len |-> len, offset |-> offset, version |-> v] \in VrReplies
BY DEF VrReplies

LEMMA NoReqTyped == NoReq \in VrRequests
<1>1. 0 \in 0..255 /\ Nowhere \in VrPlaces
    BY PlacesTyped
<1> QED
    BY <1>1, VrRequestTyped, Zenon DEF NoReq

LEMMA NoVrReplyTyped ==
    /\ NoVrReply \in VrReplies /\ NoVrReply.cc = "none"
    /\ [NoVrReply EXCEPT !.cc = "badlen"] \in VrReplies
    /\ [NoVrReply EXCEPT !.cc = "badlen"].cc = "badlen"
<1>1. 0 \in 0..255 /\ NoVersion \in (0..63) \X {0, 1} \X {0, 1}
    BY DEF NoVersion
<1>2. "none" \in {"none", "ok", "badlen", "invalid"} /\ "badlen" \in {"none", "ok", "badlen", "invalid"}
    OBVIOUS
<1>3. NoVrReply = [cc |-> "none", len |-> 0, offset |-> 0, version |-> NoVersion]
    BY DEF NoVrReply
<1>4. [NoVrReply EXCEPT !.cc = "badlen"]
        = [cc |-> "badlen", len |-> 0, offset |-> 0, version |-> NoVersion]
    BY DEF NoVrReply
<1>5. NoVrReply \in VrReplies
    BY <1>1, <1>2, <1>3, VrReplyTyped, Zenon
<1>6. [cc |-> "badlen", len |-> 0, offset |-> 0, version |-> NoVersion] \in VrReplies
    BY <1>1, <1>2, VrReplyTyped, Zenon
<1> QED
    BY <1>3, <1>4, <1>5, <1>6

-----------------------------------------------------------------------------
LEMMA VrHandledInvariant == VrSpec => []VrHandled
<1>1. VrInit => VrHandled
    BY NoReqTyped DEF VrInit, VrHandled
<1>2. VrHandled /\ [VrNext]_vrAll => VrHandled'
  <2> SUFFICES ASSUME VrHandled, [VrNext]_vrAll PROVE VrHandled'
    OBVIOUS
  <2>1. ASSUME vrPhase' = "idle", vrReq' = NoReq, slave' = NoAddr, UNCHANGED regs
        PROVE  VrHandled'
    BY <2>1, NoReqTyped DEF VrHandled
  <2>2. CASE VrBadLength
    BY <2>2 DEF VrBadLength, VrHandled
  <2>3. ASSUME NEW offset \in Offsets, NEW len \in VrLens, ReadVr(offset, len)
        PROVE  VrHandled'
    <3>1. offset \in 0..255 /\ len \in 0..255
      BY VrInputAssumption
    <3>2. PICK at \in VrPlaces : /\ offset \in 0..2 => at = InputVerInfo[offset]
                                 /\ vrReq' = [offset |-> offset, len |-> len, at |-> at]
      BY <2>3 DEF ReadVr, VrPlaces
    <3>3. vrReq' \in VrRequests
      BY <3>1, <3>2, VrRequestTyped, Zenon
    <3>4. vrReq'.offset = offset /\ vrReq'.at = at
      BY <3>2
    <3>5. vrPhase' \in {"open", "lookup"} /\ slave' = NoAddr /\ regs' = regs
      BY <2>3 DEF ReadVr
    <3> QED
      BY <3>2, <3>3, <3>4, <3>5 DEF VrHandled
  <2>4. CASE LookupByName \/ OpenI2cDev \/ CheckFuncs \/ SetSlaveAddr
    BY <2>4 DEF LookupByName, OpenI2cDev, CheckFuncs, SetSlaveAddr, VrHandled
  <2>5. CASE OpenI2cDevFails \/ VrReadByte
    BY <2>1, <2>5 DEF OpenI2cDevFails, VrReadByte, VrReturn
  <2>6. CASE Exits \/ VrCrash
    BY <2>1, <2>6 DEF Exits, VrCrash, VrRestarted
  <2>7. CASE UNCHANGED vrAll
    BY <2>7 DEF vrAll, vrVars, VrHandled
  <2> QED
    BY <2>2, <2>3, <2>4, <2>5, <2>6, <2>7 DEF VrNext, VrRequest, VrHandling, VrServing
<1> QED
    BY <1>1, <1>2, PTL DEF VrSpec

LEMMA Reached ==
    ASSUME NEW a \in 0..MaxFds, NEW b \in a..MaxFds
    PROVE  b \in 0..MaxFds /\ b \in Nat /\ a + (b - a) = b /\ b + 0 = b
<1>1. a \in Int /\ b \in Int /\ 0 <= a /\ a <= b /\ b <= MaxFds
    BY MaxFdsAssumption
<1> QED
    BY <1>1, MaxFdsAssumption

LEMMA VrFilesInvariant == VrSpec => []VrFiles
<1>1. VrInit => VrFiles
    BY MaxFdsAssumption DEF VrInit, VrFiles, VrHoldsNothing, VrHolding
<1>2. VrFiles /\ [VrNext]_vrAll => VrFiles'
  <2> SUFFICES ASSUME VrFiles, [VrNext]_vrAll PROVE VrFiles'
    OBVIOUS
  <2> USE MaxFdsAssumption DEF VrFiles, VrHoldsNothing, VrHolding
  <2>1. CASE VrRequest
    BY <2>1 DEF VrRequest, VrBadLength, ReadVr
  <2>2. CASE LookupByName
    <3>1. vrFds = leaked /\ vrFds \in Int /\ vrFds' \in vrFds..MaxFds /\ vrPhase' = "open"
          /\ leaked' = leaked + (vrFds' - vrFds)
      BY <2>2 DEF LookupByName
    <3>2. vrFds \in 0..MaxFds
      OBVIOUS
    <3>3. vrFds' \in 0..MaxFds /\ vrFds' \in Nat /\ leaked' = vrFds' /\ vrFds' + 0 = vrFds'
      BY <3>1, <3>2, Reached, Zenon
    <3>4. vrFds' = leaked' + 0
      BY <3>3, Zenon
    <3> QED
      BY <3>1, <3>3, <3>4
  <2>3. CASE OpenI2cDev
    BY <2>3 DEF OpenI2cDev, Opens
  <2>4. CASE OpenI2cDevFails
    BY <2>4 DEF OpenI2cDevFails, OpenRefused, VrReturn
  <2>5. CASE CheckFuncs \/ SetSlaveAddr
    BY <2>5 DEF CheckFuncs, SetSlaveAddr
  <2>6. CASE VrReadByte
    BY <2>6 DEF VrReadByte, Closes, VrReturn
  <2>7. CASE Exits \/ VrCrash
    BY <2>7 DEF Exits, VrCrash, VrRestarted, ProcessEnds
  <2>8. CASE UNCHANGED vrAll
    BY <2>8 DEF vrAll, vrVars
  <2> QED
    BY <2>1, <2>2, <2>3, <2>4, <2>5, <2>6, <2>7, <2>8 DEF VrNext, VrHandling, VrServing
<1> QED
    BY <1>1, <1>2, PTL DEF VrSpec

LEMMA VrAnsweredInvariant == VrSpec => []VrAnswered
<1>1. VrInit => VrAnswered
    BY NoVrReplyTyped DEF VrInit, VrAnswered, VrAnswerIsRegister
<1>2. VrHandled /\ VrAnswered /\ [VrNext]_vrAll => VrAnswered'
  <2> SUFFICES ASSUME VrHandled, VrAnswered, [VrNext]_vrAll PROVE VrAnswered'
    OBVIOUS
  <2>0. vrReq.offset \in 0..255 /\ vrReq.len \in 0..255 /\ vrReq.at \in VrPlaces
    BY DEF VrHandled, VrRequests
  <2>1. ASSUME UNCHANGED <<vrReply, regs>> PROVE VrAnswered'
    BY <2>1 DEF VrAnswered, VrAnswerIsRegister
  <2>2. ASSUME vrReply' \in VrReplies, vrReply'.cc # "ok" PROVE VrAnswered'
    BY <2>2 DEF VrAnswered, VrAnswerIsRegister
  <2>3. CASE VrBadLength
    BY <2>2, <2>3, NoVrReplyTyped DEF VrBadLength
  <2>4. CASE (\E offset \in Offsets, len \in VrLens : ReadVr(offset, len))
             \/ LookupByName \/ OpenI2cDev \/ CheckFuncs \/ SetSlaveAddr
    BY <2>1, <2>4 DEF ReadVr, LookupByName, OpenI2cDev, CheckFuncs, SetSlaveAddr
  <2>5. CASE OpenI2cDevFails
    <3>1. vrReply' = [cc |-> "invalid", len |-> 2, offset |-> vrReq.offset, version |-> NoVersion]
      BY <2>5 DEF OpenI2cDevFails, VrReturn
    <3>2. /\ "invalid" \in {"none", "ok", "badlen", "invalid"} /\ 2 \in 0..255
          /\ NoVersion \in (0..63) \X {0, 1} \X {0, 1}
      BY DEF NoVersion
    <3>3. vrReply' \in VrReplies
      BY <2>0, <3>1, <3>2, VrReplyTyped, Zenon
    <3> QED
      BY <2>2, <3>1, <3>3
  <2>6. CASE VrReadByte
    <3>1. /\ vrPhase = "read" /\ Selected \in Entries /\ regs' = regs
          /\ vrReply' = [cc |-> "ok", len |-> vrReq.len, offset |-> vrReq.offset,
                         version |-> Version(regs[Selected])]
      BY <2>6 DEF VrReadByte, VrReturn
    <3>2. Selected = vrReq.at
      BY <2>0, <3>1, PlacesTyped DEF Selected, VrHandled
    <3>3. regs[Selected] \in 0..255
      BY <3>1, VrInputAssumption DEF VrHandled
    <3>4. "ok" \in {"none", "ok", "badlen", "invalid"}
      OBVIOUS
    <3>5. vrReply' \in VrReplies
      BY <2>0, <3>1, <3>3, <3>4, VersionBits, VrReplyTyped, Zenon
    <3>6. vrReply'.offset = vrReq.offset /\ vrReply'.version = Version(regs[Selected])
      BY <3>1
    <3>7. ASSUME vrReply'.offset \in 0..2
          PROVE  vrReply'.version[1] * 4 + vrReply'.version[2] * 2 + vrReply'.version[3]
                    = regs'[InputVerInfo[vrReply'.offset]]
      <4>1. vrReq.at = InputVerInfo[vrReply'.offset]
        BY <3>1, <3>6, <3>7 DEF VrHandled
      <4>2. regs'[InputVerInfo[vrReply'.offset]] = regs[Selected]
        BY <3>1, <3>2, <4>1
      <4>3. Version(regs[Selected])[1] * 4 + Version(regs[Selected])[2] * 2
               + Version(regs[Selected])[3] = regs[Selected]
        BY <3>3, VersionBits, Zenon
      <4> QED
        BY <3>6, <4>2, <4>3
    <3> QED
      BY <3>5, <3>7 DEF VrAnswered, VrAnswerIsRegister
  <2>7. CASE Exits \/ VrCrash
    BY <2>2, <2>7, NoVrReplyTyped DEF Exits, VrCrash, VrRestarted
  <2>8. CASE UNCHANGED vrAll
    BY <2>1, <2>8 DEF vrAll, vrVars
  <2> QED
    BY <2>3, <2>4, <2>5, <2>6, <2>7, <2>8 DEF VrNext, VrRequest, VrHandling, VrServing
<1> QED
    BY <1>1, <1>2, VrHandledInvariant, PTL DEF VrSpec

(* Whatever the registers hold: an answer for an index of the table is the *)
(* register of that regulator, though two share a bus and a register       *)
(* number.                                                                 *)
THEOREM AnswerIsRegister == VrSpec => []VrAnswerIsRegister
<1>1. VrAnswered => VrAnswerIsRegister
    BY DEF VrAnswered
<1> QED
    BY <1>1, VrAnsweredInvariant, PTL

(* Whatever fails, every way out closes the file or ends the process.      *)
THEOREM VrFilesAreClosed == VrSpec => []VrHoldsNothing
<1>1. VrFiles => VrHoldsNothing
    BY DEF VrFiles
<1> QED
    BY <1>1, VrFilesInvariant, PTL

(* What the handler keeps and answers has its type, for every offset of a  *)
(* request, inside the table or past it.                                   *)
THEOREM VrTypeCorrect == VrSpec => []VrTypeOK
<1>1. VrHandled /\ VrFiles /\ VrAnswered => VrTypeOK
  <2> SUFFICES ASSUME VrHandled, VrFiles, VrAnswered PROVE VrTypeOK
    OBVIOUS
  <2>1. slave \in {NoAddr} \cup 0..127
    BY PlacesTyped DEF VrHandled, VrRequests
  <2>2. leaked \in 0..MaxFds
    BY MaxFdsAssumption DEF VrFiles, VrHoldsNothing, VrHolding
  <2> QED
    BY <2>1, <2>2 DEF VrTypeOK, FdsTypeOK, VrHandled, VrFiles, VrAnswered, VrRequests,
       VrPlaces, VrReplies
<1> QED
    BY <1>1, VrHandledInvariant, VrFilesInvariant, VrAnsweredInvariant, PTL

-----------------------------------------------------------------------------
(* Fan control.  While a Set is under way nothing is held, and a Get that  *)
(* has read a speed in manual mode has the speed of now.                   *)
Under ==
    /\ fanPhase \in {"truncate", "echo", "update", "getSpeed", "getMode"} =>
          fanReq.sensor \in DOMAIN Sensor
    /\ fanPhase \in {"truncate", "echo", "update"} =>
          held = NoneHeld /\ fanReq.value \in Speeds
    /\ fanPhase \in {"truncate", "echo"} => ~wrote
    /\ fanPhase = "update" => fanReq.mode = Manual /\ (wrote => modeFile = "0")
    /\ fanPhase = "getMode" /\ modeFile = "0" => fanReq.value = speed[fanReq.sensor]

FanInv == FanTypeOK /\ Under /\ SetTakesEffect

FanRequests == [sensor: DOMAIN Sensor \cup {"none"}, mode: {Manual, Automatic}, value: FanValues]
FanReplies == [cc: {"none", "ok", "illegal", "badlen", "sensor", "unspecified"},
               len: {0, 2}, mode: {0, 1, NoMode}, value: FanValues]

LEMMA FanRequestTyped ==
    ASSUME NEW s \in DOMAIN Sensor \cup {"none"}, NEW m \in {Manual, Automatic}, NEW v \in FanValues
    PROVE  [sensor |-> s, mode |-> m, value |-> v] \in FanRequests
    BY DEF FanRequests

LEMMA FanReplyTyped ==
    ASSUME NEW cc \in {"none", "ok", "illegal", "badlen", "sensor", "unspecified"},
           NEW len \in {0, 2}, NEW m \in {0, 1, NoMode}, NEW v \in FanValues
    PROVE  [cc |-> cc, len |-> len, mode |-> m, value |-> v] \in FanReplies
    BY DEF FanReplies

LEMMA FanRequestParts ==
    ASSUME NEW r \in FanRequests
    PROVE  /\ r.sensor \in DOMAIN Sensor \cup {"none"} /\ r.mode \in {Manual, Automatic}
           /\ r.value \in FanValues
           /\ \A v \in FanValues : /\ [r EXCEPT !.value = v] \in FanRequests
                                   /\ [r EXCEPT !.value = v].sensor = r.sensor
                                   /\ [r EXCEPT !.value = v].mode = r.mode
                                   /\ [r EXCEPT !.value = v].value = v
    BY DEF FanRequests

LEMMA NoneTyped == NoFanReq \in FanRequests /\ NoneHeld \in FanRequests
    BY FanRequestTyped DEF NoFanReq, NoneHeld, FanValues, Manual

LEMMA FanTyped ==
    FanTypeOK <=>
        /\ modeFile \in {"absent", "emptied", "0", "1"}
        /\ speed \in [DOMAIN Sensor -> Speeds]
        /\ fanPhase \in {"idle", "truncate", "echo", "update", "getSpeed", "getMode"}
        /\ fanReq \in FanRequests /\ fanReply \in FanReplies /\ held \in FanRequests
        /\ wrote \in BOOLEAN
    BY DEF FanTypeOK, FanRequests, FanReplies

LEMMA FanReturnTyped ==
    ASSUME NEW cc \in {"none", "ok", "illegal", "badlen", "sensor", "unspecified"},
           FanReturn(cc)
    PROVE  fanPhase' = "idle" /\ fanReq' \in FanRequests /\ fanReply' \in FanReplies
<1>1. 0 \in {0, 2} /\ 0 \in {0, 1, NoMode} /\ 0 \in FanValues
    BY DEF FanValues
<1>2. [cc |-> cc, len |-> 0, mode |-> 0, value |-> 0] \in FanReplies
    BY <1>1, FanReplyTyped, Zenon
<1> QED
    BY <1>2, NoneTyped DEF FanReturn

LEMMA ModeOfRequest ==
    ASSUME NEW mode \in FanModes, mode \div 2 = 0
    PROVE  mode \in {Manual, Automatic}
<1>1. mode \in Int /\ 0 <= mode
    BY FanInputAssumption
<1> QED
    BY <1>1 DEF Manual, Automatic

(* A return that takes nothing: errors, refusals, a crash.                 *)
LEMMA FanReturnKeeps ==
    ASSUME FanInv, NEW cc \in {"none", "ok", "illegal", "badlen", "sensor", "unspecified"},
           FanReturn(cc), UNCHANGED <<modeFile, speed, held, wrote>>
    PROVE  FanInv'
<1>1. FanTypeOK'
    BY FanTyped, FanReturnTyped DEF FanInv, FanTypeOK, FanRequests, FanReplies
<1>2. Under' /\ SetTakesEffect'
    BY FanReturnTyped DEF FanInv, Under, SetTakesEffect
<1> QED
    BY <1>1, <1>2 DEF FanInv

LEMMA NextFanInv == FanInv /\ [FanNext]_fanVars => FanInv'
<1> SUFFICES ASSUME FanInv, [FanNext]_fanVars PROVE FanInv'
    OBVIOUS
<1> USE DEF FanInv
<1>0. /\ modeFile \in {"absent", "emptied", "0", "1"}
      /\ speed \in [DOMAIN Sensor -> Speeds]
      /\ fanReq \in FanRequests /\ fanReply \in FanReplies /\ held \in FanRequests
      /\ wrote \in BOOLEAN
    BY FanTyped
<1>1. ASSUME NEW cc \in {"illegal", "badlen", "sensor"}, FanRefuse(cc) PROVE FanInv'
    BY <1>1, FanReturnKeeps DEF FanRefuse
<1>2. ASSUME NEW s \in DOMAIN Sensor, NEW mode \in FanModes, NEW value \in Speeds,
             SetFan(s, mode, value)
      PROVE  FanInv'
  <2>1. /\ fanPhase' = "truncate" /\ held' = NoneHeld /\ wrote' = FALSE
        /\ fanReq' = [sensor |-> s, mode |-> mode, value |-> value]
        /\ UNCHANGED <<modeFile, speed, fanReply>>
    BY <1>2 DEF SetFan, FanEnter
  <2>2. fanReq' \in FanRequests /\ fanReq'.sensor = s /\ fanReq'.value = value
    BY <1>2, <2>1, ModeOfRequest, FanRequestTyped DEF SetFan, FanValues
  <2>3. FanTypeOK'
    BY <1>0, <2>1, <2>2, NoneTyped DEF FanTypeOK, FanRequests, FanReplies
  <2> QED
    BY <2>1, <2>2, <2>3 DEF Under, SetTakesEffect
<1>3. CASE Truncate
  <2>1. FanTypeOK'
    BY <1>3 DEF Truncate, FanTypeOK
  <2> QED
    BY <1>3, <2>1 DEF Truncate, Under, SetTakesEffect
<1>4. ASSUME ModeTaken, fanPhase \in {"truncate", "echo"}, UNCHANGED speed,
             \/ modeFile' = ModeDigit(fanReq.mode) /\ wrote' = TRUE
             \/ UNCHANGED <<modeFile, wrote>>
      PROVE  FanInv'
  <2>1. modeFile' \in {"absent", "emptied", "0", "1"} /\ wrote' \in BOOLEAN
    BY <1>0, <1>4 DEF ModeDigit
  <2>2. /\ held = NoneHeld /\ ~wrote /\ fanReq.sensor \in DOMAIN Sensor
        /\ fanReq.value \in Speeds
    BY <1>4 DEF Under
  <2>3. CASE fanReq.mode = Automatic /\ FanReturn("ok") /\ held' = fanReq
    <3>1. fanPhase' = "idle" /\ fanReq' \in FanRequests /\ fanReply' \in FanReplies
      BY <2>3, FanReturnTyped
    <3>2. FanTypeOK'
      BY <1>0, <1>4, <2>1, <2>3, <3>1 DEF FanTypeOK, FanRequests, FanReplies
    <3> QED
      BY <1>4, <2>2, <2>3, <3>1, <3>2 DEF Under, SetTakesEffect, Automatic, Manual
  <2>4. CASE FanReturn("illegal") /\ UNCHANGED held
    <3>1. fanPhase' = "idle" /\ fanReq' \in FanRequests /\ fanReply' \in FanReplies
      BY <2>4, FanReturnTyped
    <3>2. FanTypeOK'
      BY <1>0, <1>4, <2>1, <2>4, <3>1 DEF FanTypeOK, FanRequests, FanReplies
    <3> QED
      BY <2>2, <2>4, <3>1, <3>2 DEF Under, SetTakesEffect
  <2>5. CASE /\ fanReq.mode = Manual /\ fanPhase' = "update"
             /\ UNCHANGED <<fanReq, fanReply, held>>
    <3>1. FanTypeOK'
      BY <1>0, <1>4, <2>1, <2>5 DEF FanTypeOK, FanRequests, FanReplies
    <3> QED
      BY <1>4, <2>2, <2>5, <3>1 DEF Under, SetTakesEffect, ModeDigit, Automatic, Manual
  <2> QED
    BY <1>4, <2>3, <2>4, <2>5 DEF ModeTaken
<1>5. CASE Echo
    BY <1>4, <1>5 DEF Echo
<1>6. CASE ShellFails
    BY <1>6, FanReturnKeeps DEF ShellFails
<1>7. CASE ShellFailsUnseen
    BY <1>4, <1>7 DEF ShellFailsUnseen
<1>8. CASE UpdateSpeed \/ UpdateFails
  <2>1. /\ held = NoneHeld /\ fanReq.sensor \in DOMAIN Sensor /\ fanReq.value \in Speeds
        /\ fanReq.mode = Manual /\ (wrote => modeFile = "0")
        /\ UNCHANGED <<modeFile, wrote>>
    BY <1>8 DEF UpdateSpeed, UpdateFails, Under
  <2>2. /\ speed' \in [DOMAIN Sensor -> Speeds]
        /\ speed' = [speed EXCEPT ![fanReq.sensor] = fanReq.value] =>
              speed'[fanReq.sensor] = fanReq.value
    BY <1>0, <1>8, <2>1 DEF UpdateSpeed, UpdateFails
  <2>3. fanPhase' = "idle" /\ fanReq' \in FanRequests /\ fanReply' \in FanReplies
    BY <1>8, FanReturnTyped DEF UpdateSpeed, UpdateFails
  <2>4. \/ held' = fanReq /\ speed'[fanReq.sensor] = fanReq.value
        \/ held' = NoneHeld
    BY <1>8, <2>1, <2>2 DEF UpdateSpeed, UpdateFails
  <2>5. FanTypeOK'
    BY <1>0, <2>1, <2>2, <2>3, <2>4, NoneTyped DEF FanTypeOK, FanRequests, FanReplies
  <2> QED
    BY <2>1, <2>3, <2>4, <2>5 DEF Under, SetTakesEffect, ModeDigit, Automatic, Manual
<1>9. ASSUME NEW s \in DOMAIN Sensor, GetFan(s) PROVE FanInv'
  <2>1. CASE FanEnter("getSpeed", s, 0, 0) /\ UNCHANGED <<held, wrote>>
    <3>1. /\ fanPhase' = "getSpeed" /\ fanReq' = [sensor |-> s, mode |-> 0, value |-> 0]
          /\ UNCHANGED <<modeFile, speed, fanReply, held, wrote>>
      BY <2>1 DEF FanEnter
    <3>2. fanReq' \in FanRequests /\ fanReq'.sensor = s
      BY <3>1, FanRequestTyped DEF FanValues, Manual
    <3>3. FanTypeOK'
      BY <1>0, <3>1, <3>2 DEF FanTypeOK, FanRequests, FanReplies
    <3> QED
      BY <3>1, <3>2, <3>3 DEF Under, SetTakesEffect
  <2> QED
    BY <1>1, <1>9, <2>1 DEF GetFan
<1>10. CASE GetSpeed
  <2>1. /\ fanPhase = "getSpeed" /\ fanPhase' = "getMode"
        /\ UNCHANGED <<modeFile, speed, fanReply, held, wrote>>
        /\ fanReq' = [fanReq EXCEPT !.value = speed[fanReq.sensor]]
    BY <1>10 DEF GetSpeed
  <2>2. fanReq.sensor \in DOMAIN Sensor /\ speed[fanReq.sensor] \in FanValues
    BY <1>0, <2>1 DEF Under, FanValues
  <2>3. fanReq' \in FanRequests /\ fanReq'.sensor = fanReq.sensor
        /\ fanReq'.value = speed[fanReq.sensor]
    BY <1>0, <2>1, <2>2, FanRequestParts
  <2>4. FanTypeOK'
    BY <1>0, <2>1, <2>3 DEF FanTypeOK, FanRequests, FanReplies
  <2> QED
    BY <2>1, <2>2, <2>3, <2>4 DEF Under, SetTakesEffect
<1>11. CASE GetSpeedFails
    BY <1>11, FanReturnKeeps DEF GetSpeedFails
<1>12. CASE GetMode
  <2>1. /\ fanPhase' = "idle" /\ fanReq' = NoFanReq
        /\ UNCHANGED <<modeFile, speed, held, wrote>>
    BY <1>12 DEF GetMode
  <2>2. fanReply' \in FanReplies
    <3>1. PICK f : fanReply' = [cc |-> "ok", len |-> 2, mode |-> Parsed(f), value |-> fanReq.value]
      BY <1>12 DEF GetMode
    <3>2. Parsed(f) \in {0, 1, NoMode} /\ fanReq.value \in FanValues
      BY <1>0, FanRequestParts DEF Parsed
    <3>3. "ok" \in {"none", "ok", "illegal", "badlen", "sensor", "unspecified"} /\ 2 \in {0, 2}
      OBVIOUS
    <3>4. [cc |-> "ok", len |-> 2, mode |-> Parsed(f), value |-> fanReq.value] \in FanReplies
      BY <3>2, <3>3, FanReplyTyped, Zenon
    <3> QED
      BY <3>1, <3>4
  <2>3. FanTypeOK'
    BY <1>0, <2>1, <2>2, NoneTyped DEF FanTypeOK, FanRequests, FanReplies
  <2> QED
    BY <2>1, <2>3 DEF Under, SetTakesEffect
<1>13. CASE Regulate
  <2>1. /\ modeFile # "0"
        /\ UNCHANGED <<modeFile, fanPhase, fanReq, fanReply, held, wrote>>
    BY <1>13 DEF Regulate
  <2>2. speed' \in [DOMAIN Sensor -> Speeds]
    BY <1>0, <1>13 DEF Regulate
  <2>3. FanTypeOK'
    BY <2>1, <2>2 DEF FanTypeOK
  <2> QED
    BY <2>1, <2>3 DEF Under, SetTakesEffect, ModeDigit, Manual, Automatic
<1>14. CASE FanCrash
    BY <1>14, FanReturnKeeps DEF FanCrash
<1>15. CASE UNCHANGED fanVars
    BY <1>15 DEF fanVars, FanTypeOK, Under, SetTakesEffect
<1> QED
    BY <1>1, <1>2, <1>3, <1>5, <1>6, <1>7, <1>8, <1>9, <1>10, <1>11, <1>12, <1>13, <1>14, <1>15
    DEF FanNext, FanRequest, FanHandling, SetBadMode, SetBadLength, GetBadLength

LEMMA FanInvariant == FanSpec => []FanInv
<1>1. FanInit => FanInv
  <2> SUFFICES ASSUME FanInit PROVE FanInv
    OBVIOUS
  <2>1. fanReply \in FanReplies
    <3>1. /\ "none" \in {"none", "ok", "illegal", "badlen", "sensor", "unspecified"}
          /\ 0 \in {0, 2} /\ 0 \in {0, 1, NoMode} /\ 0 \in FanValues
      BY DEF FanValues
    <3>2. [cc |-> "none", len |-> 0, mode |-> 0, value |-> 0] \in FanReplies
      BY <3>1, FanReplyTyped, Zenon
    <3> QED
      BY <3>2 DEF FanInit
  <2>2. FanTypeOK
    BY <2>1, FanTyped, NoneTyped DEF FanInit
  <2> QED
    BY <2>2 DEF FanInit, FanInv, Under, SetTakesEffect
<1> QED
    BY <1>1, NextFanInv, PTL DEF FanSpec

(* Mode, speed and what a request carries keep their types.                *)
THEOREM FanTypeCorrect == FanSpec => []FanTypeOK
<1>1. FanInv => FanTypeOK
    BY DEF FanInv
<1> QED
    BY <1>1, FanInvariant, PTL

(* Whatever fails and however the fan service and restarts come between:   *)
(* what a Set was answered ok for is in place until the next, no fan is    *)
(* set while the service regulates it, and an answer that says manual      *)
(* carries the speed of now.                                               *)
THEOREM ManualModeKept == FanSpec => ManualMode
<1>1. FanInv => SetTakesEffect
    BY DEF FanInv
<1>2. ASSUME FanInv, FanNext, fanPhase = "getMode", fanPhase' = "idle",
             fanReply'.cc = "ok", fanReply'.mode = Manual
      PROVE  modeFile = "0" /\ fanReply'.value = speed[fanReq.sensor]
  <2>1. GetMode
    BY <1>2 DEF FanNext, FanRequest, SetBadMode, SetBadLength, FanRefuse, GetBadLength, SetFan,
       FanEnter, GetFan, FanHandling, Truncate, Echo, ShellFails, ShellFailsUnseen, UpdateSpeed,
       UpdateFails, GetSpeed, GetSpeedFails, Regulate, FanCrash, FanReturn
  <2>2. PICK f \in {modeFile} \cup {g \in {"absent"} : "fork" \in FanFaults} :
            fanReply' = [cc |-> "ok", len |-> 2, mode |-> Parsed(f), value |-> fanReq.value]
    BY <2>1 DEF GetMode
  <2>3. Parsed(f) = 0
    BY <1>2, <2>2 DEF Manual
  <2>4. NoMode = 208
    BY DEF NoMode
  <2>5. f = "0"
    BY <2>3, <2>4 DEF Parsed
  <2>6. modeFile = "0"
    BY <2>2, <2>5
  <2> QED
    BY <1>2, <2>2, <2>6 DEF FanInv, Under
<1>3. ASSUME FanInv, FanNext, fanPhase = "update", fanPhase' = "idle", speed' # speed, wrote
      PROVE  modeFile = ModeDigit(Manual)
    BY <1>3 DEF FanInv, Under, ModeDigit, Manual, Automatic
<1>4. FanInv /\ [FanNext]_fanVars =>
          /\ [/\ fanPhase = "getMode" /\ fanPhase' = "idle"
              /\ fanReply'.cc = "ok" /\ fanReply'.mode = Manual
              => modeFile = "0" /\ fanReply'.value = speed[fanReq.sensor]]_fanVars
          /\ [/\ fanPhase = "update" /\ fanPhase' = "idle"
              /\ speed' # speed
              /\ wrote
              => modeFile = ModeDigit(Manual)]_fanVars
    BY <1>2, <1>3
<1> QED
    BY <1>1, <1>4, FanInvariant, PTL
    DEF FanSpec, ManualMode, ManualAnswerHolds, SpeedOnlyInManual
=============================================================================
