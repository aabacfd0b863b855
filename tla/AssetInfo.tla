------------------------------- MODULE AssetInfo -------------------------------
(***************************************************************************)
(* The Set/Get System Information commands of bios.cpp: one block per      *)
(* asset type, kept in RAM with a flag that says whether the RAM copy is   *)
(* valid, and in a region of the EEPROM.                                   *)
(*                                                                         *)
(* ipmid runs one handler at a time to its end, so a request is a sequence *)
(* of steps that no other request interleaves: one step per transfer on    *)
(* the I2C bus, because each transfer can fail, and the daemon can die     *)
(* between any two of them.                                                *)
(***************************************************************************)
EXTENDS Eeprom24c

CONSTANTS
    Types,          \* device types bios.cpp stores: CPU, MEM, FW_REVISION
    FW,             \* DEVICE_TYPE_FW_REVISION
    UnknownTypes,   \* other values of the DeviceType byte
    BeyondArray,    \* those of them past asset_info_got_flag[DEVICE_TYPE_MAX]
    Base,           \* Base[t]: EEPROM offset of the block of type t
    Size,            \* Size[t]: its size in bytes
    Payload         \* Payload[t]: the blocks a Set request may carry

Idx(t) == 0..(Size[t] - 1)
Block(t) == [Idx(t) -> Byte]

ASSUME TypesAssumption ==
    /\ IsFiniteSet(Types)
    /\ FW \in Types
    /\ Types \cap UnknownTypes = {}
    /\ BeyondArray \subseteq UnknownTypes
    /\ 0 \in Byte

ASSUME BlockAssumption ==
    /\ Size \in [Types -> Nat \ {0}]
    /\ Base \in [Types -> Nat]
    /\ Size[FW] % 2 = 0

ASSUME PayloadAssumption == \A t \in Types : Payload[t] \subseteq Block(t)

\* The regions lie on the chip, and apart.
ASSUME LayoutAssumption ==
    /\ \A t \in Types : \A i \in Idx(t) : Base[t] + i \in Addr
    /\ \A s, t \in Types : s # t =>
          \/ Base[s] + Size[s] <= Base[t]
          \/ Base[t] + Size[t] <= Base[s]

VARIABLES
    ram,    \* cpu_infodata, mem_infodata, revision_info
    got,    \* asset_info_got_flag of the stored types
    pc,     \* where the handler in progress is
    dev,    \* its DeviceType
    pos,    \* bytes it has transferred
    reply   \* its completion code and data, once it has returned

vars == <<mem, fds, ram, got, pc, dev, pos, reply>>

DeviceTypes == Types \cup UnknownTypes

Steps == {"idle", "openWrite", "write", "close", "openRead", "read"}

NoReply == [cc |-> "none", data |-> <<>>]
BadLength == [cc |-> "badlen", data |-> <<>>]
Unspecified == [cc |-> "unspecified", data |-> <<>>]
Done == [cc |-> "ok", data |-> <<0>>]

\* (mutant) addr is advanced before the transfer.
CellAddr_Late(t, i) == Base[t] + i + 1

(* addr after i turns of the byte loop; a __u16 that cannot wrap, because  *)
(* LayoutAssumption keeps every region inside Addr.                        *)
CellAddr(t, i) == Base[t] + i

\* (mutants) the loop runs once too often, and once too few times.
LastByte_TooLate(i, n) == i = n
LastByte_TooEarly(i, n) == i + 2 >= n

LastByte(i, n) == i + 1 = n

\* (mutant) ME_INDEX in place of BIOS_INDEX.
BiosRevision_Me(b) == [i \in 0..((Size[FW] \div 2) - 1) |-> b[i]]

(* &revision_info[BIOS_INDEX]: the second of the two revisions.            *)
BiosRevision(b) ==
    LET size == Size[FW] \div 2
    IN  [i \in 0..(size - 1) |-> b[size + i]]

Init ==
    /\ ChipInit
    /\ ram = [t \in Types |-> [i \in Idx(t) |-> 0]]
    /\ got = [t \in Types |-> 0]
    /\ pc = "idle"
    /\ dev = FW
    /\ pos = 0
    /\ reply = NoReply

-----------------------------------------------------------------------------
(* How a handler is entered, and how it returns.                           *)

Enter(t, step) ==
    /\ pc = "idle"
    /\ dev' = t
    /\ pos' = 0
    /\ pc' = step
    /\ reply' = NoReply

Return(r) ==
    /\ pc' = "idle"
    /\ reply' = r
    /\ UNCHANGED <<dev, pos>>

(* prepare_eeprom fails: the chip cannot be opened, or it has been opened  *)
(* and the type turns out to be none of the stored ones.                   *)
PrepareFails ==
    \/ OpenRefused
    \/ OpenAbandoned
    \/ dev \notin Types /\ EepromOpens

-----------------------------------------------------------------------------
(* Set System Information.                                                 *)

(* A request no longer than its header is refused.                         *)
SetTooShort ==
    /\ pc = "idle"
    /\ Return(BadLength)
    /\ UNCHANGED <<mem, fds, ram, got>>

\* (mutant) the flag is left alone.
UpdateShareMemory_NoFlag(t) ==
    \/ /\ t \in Types
       /\ \E b \in Payload[t] : ram' = [ram EXCEPT ![t] = b]
       /\ UNCHANGED got
    \/ t \in UnknownTypes /\ UNCHANGED <<ram, got>>

(* update_asset_info_share_memory: the block is copied whole, whatever the *)
(* length of the request, and the RAM copy counts as valid from here on.   *)
UpdateShareMemory(t) ==
    \/ /\ t \in Types
       /\ \E b \in Payload[t] : ram' = [ram EXCEPT ![t] = b]
       /\ got' = [got EXCEPT ![t] = 1]
    \/ /\ t \in UnknownTypes
       /\ UNCHANGED <<ram, got>>

SetSystemInfo(t) ==
    /\ UpdateShareMemory(t)
    /\ Enter(t, "openWrite")
    /\ UNCHANGED <<mem, fds>>

(* The completion code is update_asset_info_share_memory's: what happened  *)
(* to the EEPROM does not show in it.                                      *)
ReturnFromSet == Return(IF dev \in Types THEN Done ELSE Unspecified)

WriteOpens ==
    /\ pc = "openWrite"
    /\ dev \in Types
    /\ EepromOpens
    /\ pc' = "write"
    /\ UNCHANGED <<mem, ram, got, dev, pos, reply>>

WriteOpenFails ==
    /\ pc = "openWrite"
    /\ PrepareFails
    /\ ReturnFromSet
    /\ UNCHANGED <<mem, ram, got>>

WriteCell ==
    /\ pc = "write"
    /\ EepromWriteByte(CellAddr(dev, pos), ram[dev][pos])
    /\ IF LastByte(pos, Size[dev])
       THEN pc' = "close" /\ UNCHANGED pos
       ELSE pos' = pos + 1 /\ UNCHANGED pc
    /\ UNCHANGED <<fds, ram, got, dev, reply>>

\* (mutant) a failed write takes the block out of the cache.
WriteCellFails_Invalidates ==
    /\ pc = "write"
    /\ EepromWriteFails(CellAddr(dev, pos), ram[dev][pos])
    /\ got' = [got EXCEPT ![dev] = 0]
    /\ ReturnFromSet
    /\ UNCHANGED <<fds, ram>>

(* The loop gives up at the first byte that fails, and leaves the          *)
(* descriptor open.                                                        *)
WriteCellFails ==
    /\ pc = "write"
    /\ EepromWriteFails(CellAddr(dev, pos), ram[dev][pos])
    /\ ReturnFromSet
    /\ UNCHANGED <<fds, ram, got>>

CloseAndReturn ==
    /\ pc = "close"
    /\ EepromClose
    /\ ReturnFromSet
    /\ UNCHANGED <<mem, ram, got>>

-----------------------------------------------------------------------------
(* Get System Information.                                                 *)

GetWrongLength ==
    /\ pc = "idle"
    /\ Return(BadLength)
    /\ UNCHANGED <<mem, fds, ram, got>>

(* Only the firmware revisions are answered.                               *)
Answer(t, blocks) ==
    IF t = FW THEN [cc |-> "ok", data |-> BiosRevision(blocks[FW])]
              ELSE Unspecified

(* asset_info_got_flag[DeviceType] # 0.  The index is not checked: past    *)
(* the array the byte read there may be anything.                          *)
FlagSet(t) == IF t \in Types THEN got[t] # 0 ELSE t \in BeyondArray
FlagClear(t) == IF t \in Types THEN got[t] = 0 ELSE TRUE

GetCached(t) ==
    /\ pc = "idle"
    /\ FlagSet(t)
    /\ pc' = "idle"
    /\ dev' = t
    /\ pos' = 0
    /\ reply' = Answer(t, ram)
    /\ UNCHANGED <<mem, fds, ram, got>>

\* (mutant) the flag is set before the block has been read.
GetUncached_FlagFirst(t) ==
    /\ FlagClear(t)
    /\ got' = [got EXCEPT ![t] = 1]
    /\ Enter(t, "openRead")
    /\ UNCHANGED <<mem, fds, ram>>

GetUncached(t) ==
    /\ FlagClear(t)
    /\ Enter(t, "openRead")
    /\ UNCHANGED <<mem, fds, ram, got>>

ReadOpens ==
    /\ pc = "openRead"
    /\ dev \in Types
    /\ EepromOpens
    /\ pc' = "read"
    /\ UNCHANGED <<mem, ram, got, dev, pos, reply>>

ReadOpenFails ==
    /\ pc = "openRead"
    /\ PrepareFails
    /\ Return(Unspecified)
    /\ UNCHANGED <<mem, ram, got>>

ReadCell ==
    /\ pc = "read"
    /\ \E b \in EepromReadByte(CellAddr(dev, pos)) :
          ram' = [ram EXCEPT ![dev][pos] = b]

\* (mutant) the loop does not advance.
LoadCell_Again ==
    /\ ReadCell
    /\ ~LastByte(pos, Size[dev])
    /\ UNCHANGED <<mem, fds, got, pc, dev, pos, reply>>

LoadCell ==
    /\ ReadCell
    /\ ~LastByte(pos, Size[dev])
    /\ pos' = pos + 1
    /\ UNCHANGED <<mem, fds, got, pc, dev, reply>>

(* The flag is set whatever the reads returned, and the descriptor is      *)
(* never closed.                                                           *)
LoadLastCell ==
    /\ ReadCell
    /\ LastByte(pos, Size[dev])
    /\ got' = [got EXCEPT ![dev] = 1]
    /\ Return(Answer(dev, ram'))
    /\ UNCHANGED <<mem, fds>>

-----------------------------------------------------------------------------
(* The daemon dies and systemd starts it again: statics are zero.          *)
Boot ==
    /\ ProcessEnds
    /\ ram' = [t \in Types |-> [i \in Idx(t) |-> 0]]
    /\ got' = [t \in Types |-> 0]
    /\ pc' = "idle"
    /\ dev' = FW
    /\ pos' = 0
    /\ reply' = NoReply

Crash == "crash" \in Faults /\ Boot

(* CHECK_I2C_FUNC found a function missing and called exit(1).             *)
Halt ==
    /\ pc \in {"openWrite", "openRead"}
    /\ OpenHalts
    /\ Boot

-----------------------------------------------------------------------------
Request ==
    \/ SetTooShort
    \/ GetWrongLength
    \/ \E t \in DeviceTypes : SetSystemInfo(t) \/ GetCached(t) \/ GetUncached(t)

Work ==
    \/ WriteOpens \/ WriteOpenFails
    \/ WriteCell \/ WriteCellFails
    \/ CloseAndReturn
    \/ ReadOpens \/ ReadOpenFails
    \/ LoadCell \/ LoadLastCell
    \/ Halt

Next == Request \/ Work \/ Crash

Spec == Init /\ [][Next]_vars

(* A handler that has been entered runs on: nothing else runs in ipmid     *)
(* until it returns, and the kernel bounds every transfer by a time-out.   *)
FairSpec == Spec /\ WF_vars(Work)

-----------------------------------------------------------------------------
(* Properties.  Regions of the chip are named by Base and Size, apart from  *)
(* the address computation of the handlers.                                *)

(* Each variable has its type, and a transfer stays inside its block.      *)
TypeOK ==
    /\ ChipTypeOK
    /\ DOMAIN ram = Types
    /\ \A t \in Types : ram[t] \in Block(t)
    /\ got \in [Types -> {0, 1}]
    /\ pc \in Steps
    /\ dev \in DeviceTypes
    /\ pc \in {"write", "close", "read"} => dev \in Types /\ pos \in Idx(dev)
    /\ pos \in Nat
    /\ reply.cc \in {"none", "ok", "badlen", "unspecified"}

OnChip(t, b, n) == \A i \in 0..(n - 1) : mem[Base[t] + i] = b[i]

(* write_asset_info_to_eeprom reaches eeprom_close only with the whole RAM *)
(* block on the chip, and at every turn of its loop the bytes before pos   *)
(* are there: whatever fails, a torn block is a prefix of the new one.     *)
WritePrefix ==
    /\ pc = "write" => OnChip(dev, ram[dev], pos)
    /\ pc = "close" => OnChip(dev, ram[dev], Size[dev])

\* No call fails; the daemon may be killed at any step.
OnlyRestarts == Faults \subseteq {"crash"}

(* A request whose type is none of the stored ones: prepare_eeprom opens   *)
(* the chip before it looks at the type, and leaves the descriptor open.   *)
Stray ==
    /\ pc \in {"openWrite", "openRead"}
    /\ dev \notin Types
    /\ EepromOpens

(* When only restarts happen, every request names a stored type, which     *)
(* ipmid does not see to (Stray), and the process may hold more            *)
(* descriptors than there are types:                                       *)
NothingFails ==
    /\ OnlyRestarts
    /\ UnknownTypes = {}
    /\ Cardinality(Types) < MaxFds

(* the block in RAM, once its flag says it is valid, is the block on the   *)
(* chip, except while a Set is writing it.  Needs every open to succeed,   *)
(* and so depends on how few descriptors read_asset_info_from_eeprom leaks.*)
CacheCoherent ==
    \A t \in Types :
        got[t] = 1 /\ ~(dev = t /\ pc \in {"openWrite", "write"})
            => OnChip(t, ram[t], Size[t])

(* The descriptors read_asset_info_from_eeprom leaks are at most one for   *)
(* each type loaded since the daemon started, since the flag it sets keeps *)
(* the type from being loaded again.  A statement about requests for the   *)
(* stored types: EepromDaemon counts what the others leave open.           *)
Busy == IF pc \in {"write", "close", "read"} THEN 1 ELSE 0

Got == {t \in Types : got[t] = 1}

LeakBound == fds <= Cardinality(Got) + Busy

(* What get_system_info answers for the firmware revisions is, byte for    *)
(* byte, the second revision stored on the chip: no Set that was cut short *)
(* by a restart is forgotten or served half.                               *)
AnswerIsOnChip ==
    reply.cc = "ok" /\ reply # Done =>
        \A i \in 0..((Size[FW] \div 2) - 1) :
            reply.data[i] = mem[Base[FW] + (Size[FW] \div 2) + i]

(* A block that read_asset_info_from_eeprom flagged as got is the block on *)
(* the chip, as eeprom_read_byte's comment (24cXX.h) promises of each byte.*)
LoadedBlockIsOnChip ==
    \A t \in Types : got[t] = 1 /\ pc = "idle" => OnChip(t, ram[t], Size[t])

(* No step changes a cell outside the region of the type whose Set is in   *)
(* progress: neither another type's block nor the rest of the EEPROM.      *)
Isolation ==
    [][\A a \in Addr : mem'[a] # mem[a] =>
          /\ pc = "write"
          /\ a \in Base[dev]..(Base[dev] + Size[dev] - 1)]_vars

(* Every request gets its reply, or the daemon that had it restarts.       *)
RequestsAnswered == pc # "idle" ~> pc = "idle"

(* When no call fails, a block that a Set request put in RAM gets to the   *)
(* chip whole, even if no other request ever comes, unless a restart takes  *)
(* the RAM copy and its flag away.                                         *)
SetReachesChip ==
    \A t \in Types :
        pc = "openWrite" /\ dev = t ~>
            pc = "idle" /\ (got[t] = 0 \/ OnChip(t, ram[t], Size[t]))

(* The handlers keep the promises of AssetStore.  The durable block of a   *)
(* type is its region of the chip, the served one is RAM where the flag is *)
(* set; requests for unknown types are refusals that take a while.         *)
Writing(t) == pc \in {"write", "close"} /\ dev = t

\* The block of t on a chip with contents c.
Region(c, t) == [i \in Idx(t) |-> c[Base[t] + i]]

Durable == [t \in Types |-> IF Writing(t) THEN <<>> ELSE Region(mem, t)]

Served == [t \in Types |-> IF got[t] = 1 THEN ram[t] ELSE <<>>]

InProgress ==
    IF pc = "idle" \/ dev \notin Types THEN <<>>
    ELSE IF pc \in {"openRead", "read"} THEN <<"get", dev>>
    ELSE <<"set", dev>>

Store == INSTANCE AssetStore WITH
    store <- Durable,
    view <- Served,
    op <- InProgress,
    InitStores <- {[t \in Types |-> Region(c, t)] : c \in InitChips},
    Requests <- Payload,
    MayFail <- ~(Faults \subseteq {"crash"}),
    MayCrash <- Faults \cap {"crash", "funcs"} # {}

StoreSpec == Store!Spec
=============================================================================
