---------------------------- MODULE AssetInfo_proofs ----------------------------
(***************************************************************************)
(* The safety properties of AssetInfo, for every set of types, layout,     *)
(* chip and combination of faults.                                         *)
(***************************************************************************)
EXTENDS AssetInfo, FiniteSetTheorems, TLAPS

(* What the layout gives the handlers: cells of blocks are cells of the    *)
(* chip, and those of two types are different cells.                       *)
LEMMA CellsOfBlocks ==
    ASSUME NEW t \in Types, NEW i \in Idx(t)
    PROVE  /\ CellAddr(t, i) \in Addr
           /\ CellAddr(t, i) = Base[t] + i
           /\ CellAddr(t, i) \in Base[t]..(Base[t] + Size[t] - 1)
           /\ Base[t] \in Nat
           /\ Size[t] \in Nat \ {0}
           /\ i \in Nat
    BY BlockAssumption, LayoutAssumption DEF CellAddr, Idx

LEMMA CellsApart ==
    ASSUME NEW s \in Types, NEW t \in Types, NEW i \in Idx(s), NEW j \in Idx(t),
           Base[s] + i = Base[t] + j
    PROVE  s = t /\ i = j
    BY BlockAssumption, LayoutAssumption DEF Idx

LEMMA FirstByte == ASSUME NEW t \in Types PROVE 0 \in Idx(t)
    BY BlockAssumption DEF Idx

LEMMA NextByte ==
    ASSUME NEW t \in Types, NEW i \in Idx(t), ~LastByte(i, Size[t])
    PROVE  i + 1 \in Idx(t)
    BY BlockAssumption DEF Idx, LastByte

LEMMA ZeroBlock == ASSUME NEW t \in Types PROVE [i \in Idx(t) |-> 0] \in Block(t)
    BY TypesAssumption DEF Block

-----------------------------------------------------------------------------
(* A transfer loop starts at its first byte, and a descriptor is open as   *)
(* long as it runs: eeprom_close never closes what is not open.            *)
TypeInv ==
    /\ TypeOK
    /\ pc \in {"openWrite", "openRead"} => pos = 0
    /\ Busy <= fds

LEMMA InitTypeInv == Init => TypeInv
    BY ChipAssumption, TypesAssumption, BlockAssumption
    DEF Init, ChipInit, TypeInv, TypeOK, ChipTypeOK, Busy, Steps, Block, Idx,
        NoReply, DeviceTypes

LEMMA NextTypeInv == TypeInv /\ [Next]_vars => TypeInv'
<1> SUFFICES ASSUME TypeInv, [Next]_vars PROVE TypeInv'
    OBVIOUS
<1> USE ChipAssumption, TypesAssumption
<1> USE DEF TypeInv, TypeOK, ChipTypeOK, Busy, Steps, DeviceTypes
<1>1. CASE SetTooShort \/ GetWrongLength
    BY <1>1 DEF SetTooShort, GetWrongLength, Return, BadLength
<1>2. ASSUME NEW t \in DeviceTypes, SetSystemInfo(t) PROVE TypeInv'
  <2>1. DOMAIN ram' = Types /\ \A s \in Types : ram'[s] \in Block(s)
    <3>1. CASE t \in UnknownTypes /\ UNCHANGED ram
        BY <3>1
    <3>2. ASSUME t \in Types, NEW b \in Payload[t], ram' = [ram EXCEPT ![t] = b]
          PROVE  DOMAIN ram' = Types /\ \A s \in Types : ram'[s] \in Block(s)
      <4>1. b \in Block(t)
        BY <3>2, PayloadAssumption
      <4> QED
        BY <3>2, <4>1
    <3> QED
        BY <1>2, <3>1, <3>2 DEF SetSystemInfo, UpdateShareMemory
  <2>2. got' \in [Types -> {0, 1}]
    BY <1>2 DEF SetSystemInfo, UpdateShareMemory
  <2> QED
    BY <1>2, <2>1, <2>2 DEF SetSystemInfo, Enter, NoReply
<1>3. ASSUME NEW t \in DeviceTypes, GetCached(t) PROVE TypeInv'
    BY <1>3 DEF GetCached, Answer, Unspecified
<1>4. ASSUME NEW t \in DeviceTypes, GetUncached(t) PROVE TypeInv'
    BY <1>4 DEF GetUncached, Enter, NoReply
<1>5. CASE WriteOpens
    BY <1>5, FirstByte DEF WriteOpens, EepromOpens
<1>6. CASE WriteOpenFails
    BY <1>6
    DEF WriteOpenFails, PrepareFails, OpenRefused, OpenAbandoned, EepromOpens,
        ReturnFromSet, Return, Done, Unspecified
<1>7. CASE WriteCell
  <2>1. ram[dev][pos] \in Byte /\ CellAddr(dev, pos) \in Addr
    BY <1>7, CellsOfBlocks DEF WriteCell, Block
  <2>2. mem' \in [Addr -> Byte]
    BY <1>7, <2>1 DEF WriteCell, EepromWriteByte
  <2>3. ~LastByte(pos, Size[dev]) => pos + 1 \in Idx(dev) /\ pos + 1 \in Nat
    BY <1>7, NextByte DEF WriteCell
  <2> QED
    BY <1>7, <2>2, <2>3 DEF WriteCell
<1>8. CASE WriteCellFails
  <2>1. ram[dev][pos] \in Byte /\ CellAddr(dev, pos) \in Addr
    BY <1>8, CellsOfBlocks DEF WriteCellFails, Block
  <2>2. mem' \in [Addr -> Byte]
    BY <1>8, <2>1 DEF WriteCellFails, EepromWriteFails, EepromWriteByte
  <2> QED
    BY <1>8, <2>2 DEF WriteCellFails, ReturnFromSet, Return, Done, Unspecified
<1>9. CASE CloseAndReturn
    BY <1>9 DEF CloseAndReturn, EepromClose, ReturnFromSet, Return, Done, Unspecified
<1>10. CASE ReadOpens
    BY <1>10, FirstByte DEF ReadOpens, EepromOpens
<1>11. CASE ReadOpenFails
    BY <1>11
    DEF ReadOpenFails, PrepareFails, OpenRefused, OpenAbandoned, EepromOpens,
        Return, Unspecified
<1>12. ASSUME ReadCell
       PROVE DOMAIN ram' = Types /\ \A t \in Types : ram'[t] \in Block(t)
  <2>1. PICK b \in EepromReadByte(CellAddr(dev, pos)) :
            ram' = [ram EXCEPT ![dev][pos] = b]
    BY <1>12, Zenon DEF ReadCell
  <2>2. b \in Byte
    BY <1>12, <2>1, CellsOfBlocks DEF EepromReadByte, ReadCell
  <2> QED
    BY <1>12, <2>1, <2>2 DEF Block, ReadCell
<1>13. CASE LoadCell
  <2>1. DOMAIN ram' = Types /\ \A t \in Types : ram'[t] \in Block(t)
    BY <1>12, <1>13 DEF LoadCell
  <2>2. pc = "read" /\ pos + 1 \in Idx(dev) /\ pos + 1 \in Nat
    BY <1>13, NextByte DEF LoadCell, ReadCell
  <2> QED
    BY <1>13, <2>1, <2>2 DEF LoadCell
<1>14. CASE LoadLastCell
  <2>1. reply'.cc \in {"ok", "unspecified"}
    BY <1>14 DEF LoadLastCell, Return, Answer, Unspecified
  <2>2. DOMAIN ram' = Types /\ \A t \in Types : ram'[t] \in Block(t)
    BY <1>12, <1>14 DEF LoadLastCell
  <2>3. got' \in [Types -> {0, 1}]
    BY <1>14 DEF LoadLastCell, ReadCell
  <2> QED
    BY <1>14, <2>1, <2>2, <2>3 DEF LoadLastCell, Return
<1>15. CASE Crash \/ Halt
    BY <1>15, ZeroBlock DEF Crash, Halt, Boot, ProcessEnds, NoReply
<1>16. CASE UNCHANGED vars
    BY <1>16 DEF vars, Block, Idx
<1> QED
    BY <1>1, <1>2, <1>3, <1>4, <1>5, <1>6, <1>7, <1>8, <1>9, <1>10, <1>11,
       <1>13, <1>14, <1>15, <1>16
    DEF Next, Request, Work

(* Every variable of the system information handlers keeps its type, and   *)
(* no transfer is outside the block of bios.cpp it belongs to.             *)
THEOREM TypeCorrect == Spec => []TypeOK
<1>1. Spec => []TypeInv
    BY InitTypeInv, NextTypeInv, PTL DEF Spec
<1>2. TypeInv => TypeOK
    BY DEF TypeInv
<1> QED
    BY <1>1, <1>2, PTL

-----------------------------------------------------------------------------
(* The only steps that change the chip are those of the write loop, and    *)
(* they change the one cell at pos.                                        *)
LEMMA ChipSteps ==
    ASSUME TypeInv, [Next]_vars
    PROVE  \/ UNCHANGED mem
           \/ /\ pc = "write"
              /\ EepromWriteByte(CellAddr(dev, pos), ram[dev][pos])
    BY DEF Next, Request, Work, vars, SetTooShort, GetWrongLength, SetSystemInfo,
           GetCached, GetUncached, WriteOpens, WriteOpenFails, WriteCell,
           WriteCellFails, EepromWriteFails, CloseAndReturn, ReadOpens,
           ReadOpenFails, LoadCell, LoadLastCell, Halt, Crash, Boot, ProcessEnds

(* No handler ever changes a byte of the EEPROM that does not belong to    *)
(* the asset block the Set request in progress names, whatever fails.      *)
THEOREM RegionsIsolated == Spec => Isolation
<1>1. ASSUME TypeInv, [Next]_vars, NEW a \in Addr, mem'[a] # mem[a]
      PROVE  pc = "write" /\ a \in Base[dev]..(Base[dev] + Size[dev] - 1)
  <2>1. pc = "write" /\ EepromWriteByte(CellAddr(dev, pos), ram[dev][pos])
    BY <1>1, ChipSteps
  <2>2. dev \in Types /\ pos \in Idx(dev)
    BY <1>1, <2>1 DEF TypeInv, TypeOK
  <2>3. mem \in [Addr -> Byte]
    BY <1>1 DEF TypeInv, TypeOK, ChipTypeOK
  <2>4. a = CellAddr(dev, pos)
    BY <1>1, <2>1, <2>3 DEF EepromWriteByte
  <2> QED
    BY <2>1, <2>2, <2>4, CellsOfBlocks
<1>2. TypeInv /\ [Next]_vars =>
        [\A a \in Addr : mem'[a] # mem[a] =>
            /\ pc = "write"
            /\ a \in Base[dev]..(Base[dev] + Size[dev] - 1)]_vars
    BY <1>1
<1> QED
    BY <1>2, InitTypeInv, NextTypeInv, PTL DEF Spec, Isolation

-----------------------------------------------------------------------------
(* What the write loop has done so far; and nothing is answered before the *)
(* handler returns.                                                        *)
WriteInv ==
    /\ WritePrefix
    /\ pc # "idle" => reply = NoReply

LEMMA NextWriteInv == TypeInv /\ WriteInv /\ [Next]_vars => WriteInv'
<1> SUFFICES ASSUME TypeInv, WriteInv, [Next]_vars PROVE WriteInv'
    OBVIOUS
<1> USE DEF WriteInv, WritePrefix
<1>1. CASE SetTooShort \/ GetWrongLength
    BY <1>1 DEF SetTooShort, GetWrongLength, Return
<1>2. ASSUME NEW t \in DeviceTypes, SetSystemInfo(t) \/ GetUncached(t)
      PROVE  WriteInv'
    BY <1>2 DEF SetSystemInfo, GetUncached, Enter
<1>3. ASSUME NEW t \in DeviceTypes, GetCached(t) PROVE WriteInv'
    BY <1>3 DEF GetCached
<1>4. CASE WriteOpens
    BY <1>4 DEF WriteOpens, TypeInv, OnChip
<1>5. CASE WriteOpenFails \/ WriteCellFails \/ CloseAndReturn
    BY <1>5 DEF WriteOpenFails, WriteCellFails, CloseAndReturn, ReturnFromSet, Return
<1>6. CASE WriteCell
  <2>1. pc = "write" /\ dev \in Types /\ pos \in Idx(dev) /\ mem \in [Addr -> Byte]
    BY <1>6 DEF WriteCell, TypeInv, TypeOK, ChipTypeOK
  <2>2. mem' = [mem EXCEPT ![Base[dev] + pos] = ram[dev][pos]]
    BY <1>6, Zenon DEF WriteCell, EepromWriteByte, CellAddr
  <2>3. ASSUME NEW i \in 0..pos PROVE mem'[Base[dev] + i] = ram[dev][i]
    <3>1. i \in Idx(dev)
      BY <2>1, BlockAssumption DEF Idx
    <3>2. Base[dev] + i \in Addr /\ Base[dev] + pos \in Addr
      BY <2>1, <3>1, CellsOfBlocks
    <3>3. CASE i = pos
      BY <2>1, <2>2, <3>2, <3>3
    <3>4. CASE i # pos
      <4>1. i \in 0..(pos - 1)
        BY <2>1, <3>4, CellsOfBlocks
      <4>2. Base[dev] + i # Base[dev] + pos
        BY <2>1, <3>1, <3>4, CellsApart
      <4> QED
        BY <2>1, <2>2, <3>2, <4>1, <4>2 DEF OnChip
    <3> QED
      BY <3>3, <3>4
  <2>4. ram' = ram /\ dev' = dev /\ reply' = reply
    BY <1>6 DEF WriteCell
  <2>5. CASE LastByte(pos, Size[dev])
    <3>1. pos = Size[dev] - 1
      BY <2>1, <2>5, CellsOfBlocks DEF LastByte
    <3> QED
      BY <1>6, <2>1, <2>3, <2>4, <2>5, <3>1 DEF WriteCell, OnChip
  <2>6. CASE ~LastByte(pos, Size[dev])
    <3>1. pos' - 1 = pos /\ pc' = "write"
      BY <1>6, <2>1, <2>6, CellsOfBlocks DEF WriteCell
    <3> QED
      BY <2>1, <2>3, <2>4, <3>1 DEF OnChip
  <2> QED
    BY <2>5, <2>6
<1>7. CASE ReadOpens
    BY <1>7 DEF ReadOpens
<1>8. CASE ReadOpenFails \/ LoadLastCell
    BY <1>8 DEF ReadOpenFails, LoadLastCell, Return
<1>9. CASE LoadCell
    BY <1>9 DEF LoadCell, ReadCell
<1>10. CASE Crash \/ Halt
    BY <1>10 DEF Crash, Halt, Boot
<1>11. CASE UNCHANGED vars
    BY <1>11 DEF vars, OnChip
<1> QED
    BY <1>1, <1>2, <1>3, <1>4, <1>5, <1>6, <1>7, <1>8, <1>9, <1>10, <1>11
    DEF Next, Request, Work

LEMMA InitWriteInv == Init => WriteInv
    BY DEF Init, WriteInv, WritePrefix

(* A Set request gets to eeprom_close with its whole block on the EEPROM,  *)
(* and a block that is torn is torn at one place, whatever fails.          *)
THEOREM PrefixWritten == Spec => []WritePrefix
<1>1. Spec => [](TypeInv /\ WriteInv)
    BY InitTypeInv, NextTypeInv, InitWriteInv, NextWriteInv, PTL DEF Spec
<1>2. WriteInv => WritePrefix
    BY DEF WriteInv
<1> QED
    BY <1>1, <1>2, PTL

-----------------------------------------------------------------------------
(* Whatever fails, a Set in progress has flagged its block and a load has  *)
(* not; and what a load has put in RAM is what the chip gave it.           *)
Serving ==
    /\ dev \in Types /\ pc \in {"openWrite", "write", "close"} => got[dev] = 1
    /\ dev \in Types /\ pc \in {"openRead", "read"} => got[dev] = 0
    /\ pc = "read" =>
          \A i \in 0..(pos - 1) : ram[dev][i] \in EepromReadByte(Base[dev] + i)

LEMMA InitServing == Init => Serving
    BY DEF Init, Serving

(* One turn of the read loop, whatever fails.                              *)
LEMMA ReadTurn ==
    ASSUME TypeInv, Serving, ReadCell, mem' = mem
    PROVE  /\ pc = "read" /\ dev \in Types /\ pos \in Idx(dev) /\ got[dev] = 0
           /\ \A s \in Types : s # dev => ram'[s] = ram[s]
           /\ DOMAIN ram' = Types /\ ram'[dev] \in Block(dev)
           /\ \A i \in 0..pos : ram'[dev][i] \in EepromReadByte(Base[dev] + i)
<1>1. /\ pc = "read" /\ dev \in Types /\ pos \in Idx(dev) /\ got[dev] = 0
      /\ ram[dev] \in Block(dev) /\ DOMAIN ram = Types /\ pos \in Nat
    BY DEF ReadCell, TypeInv, TypeOK, Serving
<1>2. PICK b \in EepromReadByte(Base[dev] + pos) : ram' = [ram EXCEPT ![dev][pos] = b]
    BY Zenon DEF ReadCell, CellAddr
<1>3. b \in Byte
  <2>1. Base[dev] + pos \in Addr
    BY <1>1, CellsOfBlocks
  <2> QED
    BY <1>2, <2>1, ChipAssumption DEF EepromReadByte, TypeInv, TypeOK, ChipTypeOK
<1>4. DOMAIN ram' = Types /\ ram'[dev] \in Block(dev)
    BY <1>1, <1>2, <1>3 DEF Block
<1>5. ASSUME NEW i \in 0..pos PROVE ram'[dev][i] \in EepromReadByte(Base[dev] + i)
  <2>1. i \in Idx(dev)
    BY <1>1, BlockAssumption DEF Idx
  <2>2. CASE i = pos
    BY <1>1, <1>2, <2>1, <2>2 DEF Block
  <2>3. CASE i # pos
    <3>1. i \in 0..(pos - 1)
      BY <1>1, <2>3
    <3>2. ram[dev][i] \in EepromReadByte(Base[dev] + i)
      BY <1>1, <3>1 DEF Serving
    <3>3. ram'[dev][i] = ram[dev][i]
      BY <1>1, <1>2, <2>1, <2>3 DEF Block
    <3> QED
      BY <3>2, <3>3
  <2> QED
    BY <2>2, <2>3
<1>6. ASSUME NEW s \in Types, s # dev PROVE ram'[s] = ram[s]
    BY <1>1, <1>2, <1>6
<1> QED
    BY <1>1, <1>4, <1>5, <1>6

LEMMA NextServing == TypeInv /\ Serving /\ [Next]_vars => Serving'
<1> SUFFICES ASSUME TypeInv, Serving, [Next]_vars PROVE Serving'
    OBVIOUS
<1> USE DEF Serving
<1>1. CASE SetTooShort \/ GetWrongLength
    BY <1>1 DEF SetTooShort, GetWrongLength, Return
<1>2. ASSUME NEW t \in DeviceTypes, SetSystemInfo(t) PROVE Serving'
  <2>1. t \in Types => got'[t] = 1
    BY <1>2, TypesAssumption DEF SetSystemInfo, UpdateShareMemory, TypeInv, TypeOK
  <2> QED
    BY <1>2, <2>1 DEF SetSystemInfo, Enter
<1>3. ASSUME NEW t \in DeviceTypes, GetCached(t) PROVE Serving'
    BY <1>3 DEF GetCached
<1>4. ASSUME NEW t \in DeviceTypes, GetUncached(t) PROVE Serving'
    BY <1>4 DEF GetUncached, Enter, FlagClear
<1>5. CASE WriteOpens
    BY <1>5 DEF WriteOpens
<1>6. CASE WriteOpenFails \/ WriteCellFails \/ CloseAndReturn \/ ReadOpenFails
    BY <1>6 DEF WriteOpenFails, WriteCellFails, CloseAndReturn, ReadOpenFails,
                ReturnFromSet, Return
<1>7. CASE WriteCell
    BY <1>7 DEF WriteCell
<1>8. CASE ReadOpens
    BY <1>8 DEF ReadOpens, TypeInv
<1>9. CASE LoadCell
  <2>1. ReadCell /\ mem' = mem
    BY <1>9 DEF LoadCell
  <2>2. /\ pc = "read" /\ dev \in Types /\ pos \in Nat /\ got[dev] = 0
        /\ \A i \in 0..pos : ram'[dev][i] \in EepromReadByte(Base[dev] + i)
    BY <2>1, ReadTurn DEF TypeInv, TypeOK
  <2>3. pos' - 1 = pos /\ pc' = "read" /\ UNCHANGED <<mem, dev, got>>
    BY <1>9, <2>2 DEF LoadCell
  <2> QED
    BY <2>2, <2>3 DEF EepromReadByte
<1>10. CASE LoadLastCell
    BY <1>10 DEF LoadLastCell, Return
<1>11. CASE Crash \/ Halt
    BY <1>11 DEF Crash, Halt, Boot
<1>12. CASE UNCHANGED vars
    BY <1>12 DEF vars, EepromReadByte
<1> QED
    BY <1>1, <1>2, <1>3, <1>4, <1>5, <1>6, <1>7, <1>8, <1>9, <1>10, <1>11, <1>12
    DEF Next, Request, Work

-----------------------------------------------------------------------------
(* Descriptors: each flag that read_asset_info_from_eeprom sets leaves one *)
(* more open, and so does each request for a type that is not stored.      *)
LEMMA GotFinite ==
    /\ IsFiniteSet(Got)
    /\ Cardinality(Got) \in Nat
    /\ Cardinality(Got) <= Cardinality(Types)
    /\ Cardinality(Types) \in Nat
<1>1. Got \in SUBSET Types
    BY DEF Got
<1>2. IsFiniteSet(Types)
    BY TypesAssumption
<1>3. IsFiniteSet(Got) /\ Cardinality(Got) <= Cardinality(Types)
    BY <1>1, <1>2, FS_Subset
<1> QED
    BY <1>2, <1>3, FS_CardinalityType

LEMMA NeverStarved ==
    ASSUME NothingFails, TypeInv, LeakBound, pc \in {"openWrite", "openRead"}
    PROVE  fds < MaxFds /\ ~PrepareFails
<1>1. fds <= Cardinality(Got)
    BY GotFinite DEF LeakBound, Busy, TypeInv, TypeOK, ChipTypeOK
<1>2. fds < MaxFds
    BY <1>1, GotFinite, ChipAssumption DEF NothingFails, TypeInv, TypeOK, ChipTypeOK
<1>3. dev \in Types
    BY DEF NothingFails, TypeInv, TypeOK, DeviceTypes
<1> QED
    BY <1>2, <1>3, ChipAssumption DEF NothingFails, OnlyRestarts, PrepareFails, OpenRefused, OpenAbandoned

(* Setting one more flag.                                                  *)
LEMMA GotGrows ==
    ASSUME TypeInv, NEW t \in Types, got' = [got EXCEPT ![t] = 1]
    PROVE  /\ Cardinality(Got') \in Nat
           /\ Cardinality(Got) \in Nat
           /\ Cardinality(Got) <= Cardinality(Got')
           /\ got[t] = 0 => Cardinality(Got') = Cardinality(Got) + 1
<1>1. Got' = Got \cup {t}
    BY DEF Got, TypeInv, TypeOK
<1>2. got[t] = 0 => t \notin Got
    BY DEF Got
<1>3. /\ IsFiniteSet(Got \cup {t})
      /\ Cardinality(Got \cup {t}) =
            IF t \in Got THEN Cardinality(Got) ELSE Cardinality(Got) + 1
    BY GotFinite, FS_AddElement
<1>4. Cardinality(Got) \in Nat
    BY GotFinite
<1>5. Cardinality(Got') = IF t \in Got THEN Cardinality(Got) ELSE Cardinality(Got) + 1
    BY <1>1, <1>3
<1> QED
    BY <1>2, <1>4, <1>5

CleanInv ==
    /\ CacheCoherent
    /\ LeakBound
    /\ Serving
    /\ AnswerIsOnChip

LEMMA InitCleanInv == Init => CleanInv
<1> SUFFICES ASSUME Init PROVE CleanInv
    OBVIOUS
<1>1. LeakBound
    BY GotFinite DEF Init, ChipInit, LeakBound, Got, Busy
<1> QED
    BY <1>1, InitServing DEF Init, CleanInv, CacheCoherent, AnswerIsOnChip, NoReply

(* What a step does to the descriptors when no call fails: a restart aside *)
(* their number grows by no more than the flags set, the handler's own and *)
(* the one a request for an unstored type leaves open.                     *)
LEMMA DescriptorsMove ==
    ASSUME OnlyRestarts, TypeInv, Serving, [Next]_vars
    PROVE  \/ Boot
           \/ /\ Cardinality(Got') \in Nat /\ Cardinality(Got) <= Cardinality(Got')
              /\ fds' + Cardinality(Got) + Busy
                    <= fds + Cardinality(Got') + Busy' + (IF Stray THEN 1 ELSE 0)
<1> DEFINE n == Cardinality(Got)
           Stays == /\ Cardinality(Got') \in Nat /\ n <= Cardinality(Got')
                    /\ fds' + n + Busy
                          <= fds + Cardinality(Got') + Busy' + (IF Stray THEN 1 ELSE 0)
<1> SUFFICES ASSUME ~Boot PROVE Stays
    OBVIOUS
<1>0. n \in Nat /\ fds \in Nat /\ Busy \in {0, 1} /\ Busy' \in {0, 1} /\ pc \in Steps
    BY GotFinite DEF TypeInv, TypeOK, ChipTypeOK, Busy
<1>1. ASSUME UNCHANGED <<fds, got>>, Busy' = Busy PROVE Stays
  <2>1. Got' = Got
    BY <1>1 DEF Got
  <2> QED
    BY <1>0, <1>1, <2>1
<1>2. CASE SetTooShort \/ GetWrongLength
    BY <1>2, <1>1 DEF SetTooShort, GetWrongLength, Return, Busy
<1>3. ASSUME NEW t \in DeviceTypes, GetCached(t) \/ GetUncached(t) PROVE Stays
    BY <1>3, <1>1 DEF GetCached, GetUncached, Enter, Busy
<1>4. ASSUME NEW t \in DeviceTypes, SetSystemInfo(t) PROVE Stays
  <2>1. UpdateShareMemory(t) /\ fds' = fds /\ Busy = 0 /\ Busy' = 0
    BY <1>4 DEF SetSystemInfo, Enter, Busy
  <2>2. CASE UNCHANGED got
    BY <1>1, <2>1, <2>2
  <2>3. CASE t \in Types /\ got' = [got EXCEPT ![t] = 1]
    <3>1. Cardinality(Got') \in Nat /\ n <= Cardinality(Got')
      BY <2>3, GotGrows, Zenon
    <3> QED
      BY <1>0, <2>1, <3>1
  <2> QED
    BY <2>1, <2>2, <2>3 DEF UpdateShareMemory
<1>5. CASE WriteOpens \/ ReadOpens
  <2>1. fds' = fds + 1 /\ Busy = 0 /\ Busy' = 1 /\ Got' = Got
    BY <1>5 DEF WriteOpens, ReadOpens, EepromOpens, Busy, Got
  <2> QED
    BY <1>0, <2>1
<1>6. CASE WriteOpenFails \/ ReadOpenFails
  <2>1. /\ pc \in {"openWrite", "openRead"} /\ PrepareFails /\ got' = got
        /\ Busy = 0 /\ Busy' = 0
    BY <1>6 DEF WriteOpenFails, ReadOpenFails, ReturnFromSet, Return, Busy
  <2>2. CASE fds' = fds
    BY <1>1, <2>1, <2>2
  <2>3. CASE Stray
    <3>1. fds' = fds + 1 /\ Got' = Got
      BY <2>1, <2>3 DEF Stray, EepromOpens, Got
    <3> QED
      BY <1>0, <2>1, <2>3, <3>1
  <2> QED
    BY <2>1, <2>2, <2>3
    DEF PrepareFails, OpenRefused, OpenAbandoned, Stray, OnlyRestarts
<1>7. CASE WriteCell \/ LoadCell
  <2>1. Busy' = Busy /\ UNCHANGED <<fds, got>>
    BY <1>7 DEF WriteCell, LoadCell, Busy
  <2> QED
    BY <1>1, <2>1
<1>8. CASE WriteCellFails
    BY <1>8 DEF WriteCellFails, EepromWriteFails, OnlyRestarts
<1>9. CASE CloseAndReturn
  <2>1. fds' = fds - 1 /\ Busy = 1 /\ Busy' = 0 /\ Got' = Got
    BY <1>9 DEF CloseAndReturn, EepromClose, ReturnFromSet, Return, Busy, Got
  <2> QED
    BY <1>0, <2>1
<1>10. CASE LoadLastCell
  <2>1. dev \in Types /\ got[dev] = 0
    BY <1>10 DEF LoadLastCell, ReadCell, Serving, TypeInv, TypeOK
  <2>2. got' = [got EXCEPT ![dev] = 1]
    BY <1>10 DEF LoadLastCell
  <2>3. Cardinality(Got') = n + 1
    BY <2>1, <2>2, GotGrows, Zenon
  <2>4. fds' = fds /\ Busy = 1 /\ Busy' = 0
    BY <1>10 DEF LoadLastCell, ReadCell, Return, Busy
  <2> QED
    BY <1>0, <2>3, <2>4
<1>11. CASE Crash \/ Halt
    BY <1>11 DEF Crash, Halt
<1>12. CASE UNCHANGED vars
    BY <1>12, <1>1 DEF vars, Busy
<1> QED
    BY <1>2, <1>3, <1>4, <1>5, <1>6, <1>7, <1>8, <1>9, <1>10, <1>11, <1>12
    DEF Next, Request, Work

(* A restart leaves no descriptor open and no block flagged.               *)
LEMMA BootEmpties ==
    ASSUME Boot
    PROVE  fds' = 0 /\ Cardinality(Got') = 0 /\ Busy' = 0
<1>1. fds' = 0 /\ Got' = {} /\ Busy' = 0
    BY DEF Boot, ProcessEnds, Got, Busy
<1> QED
    BY <1>1, FS_EmptySet

LEMMA NextLeakBound ==
    ASSUME NothingFails, TypeInv, TypeInv', LeakBound, Serving, [Next]_vars
    PROVE  LeakBound'
<1>1. ~Stray
    BY DEF Stray, NothingFails, DeviceTypes, TypeInv, TypeOK
<1>2. CASE Boot
    BY <1>2, BootEmpties DEF LeakBound
<1>3. CASE ~Boot
  <2>1. /\ Cardinality(Got') \in Nat
        /\ fds' + Cardinality(Got) + Busy <= fds + Cardinality(Got') + Busy'
    BY <1>1, <1>3, DescriptorsMove, GotFinite
    DEF NothingFails, TypeInv, TypeOK, ChipTypeOK, Busy
  <2>2. /\ fds \in Nat /\ fds' \in Nat /\ Busy \in {0, 1} /\ Busy' \in {0, 1}
        /\ Cardinality(Got) \in Nat
    BY GotFinite DEF TypeInv, TypeOK, ChipTypeOK, Busy
  <2> QED
    BY <2>1, <2>2 DEF LeakBound
<1> QED
    BY <1>2, <1>3

(* One turn of the read loop, when no read fails.                          *)
LEMMA ReadStep ==
    ASSUME OnlyRestarts, TypeInv, Serving, ReadCell, mem' = mem
    PROVE  /\ pc = "read" /\ dev \in Types /\ pos \in Idx(dev) /\ got[dev] = 0
           /\ \A s \in Types : s # dev => ram'[s] = ram[s]
           /\ \A i \in 0..pos : ram'[dev][i] = mem[Base[dev] + i]
    BY ReadTurn DEF EepromReadByte, OnlyRestarts

(* As long as no open finds the table full, RAM and chip agree.            *)
LEMMA NextCacheCoherent ==
    ASSUME OnlyRestarts, TypeInv, WriteInv', Serving, CacheCoherent,
           pc = "openWrite" => fds < MaxFds, [Next]_vars
    PROVE  CacheCoherent'
<1> SUFFICES ASSUME NEW s \in Types, (got[s] = 1)',
                    ~(dev = s /\ pc \in {"openWrite", "write"})'
             PROVE  OnChip(s, ram[s], Size[s])'
    BY DEF CacheCoherent
<1>0. ASSUME pc \notin {"openWrite", "write"} \/ dev # s,
             got[s] = 1, mem' = mem, ram'[s] = ram[s]
      PROVE  OnChip(s, ram[s], Size[s])'
    BY <1>0 DEF CacheCoherent, OnChip
<1>1. CASE SetTooShort \/ GetWrongLength
    BY <1>1, <1>0 DEF SetTooShort, GetWrongLength
<1>2. ASSUME NEW t \in DeviceTypes, GetCached(t) \/ GetUncached(t)
      PROVE  OnChip(s, ram[s], Size[s])'
    BY <1>2, <1>0 DEF GetCached, GetUncached, Enter
<1>3. ASSUME NEW t \in DeviceTypes, SetSystemInfo(t)
      PROVE  OnChip(s, ram[s], Size[s])'
  <2>1. s # t /\ pc = "idle" /\ mem' = mem
    BY <1>3 DEF SetSystemInfo, Enter
  <2>2. UpdateShareMemory(t)
    BY <1>3 DEF SetSystemInfo
  <2>3. ram'[s] = ram[s] /\ got'[s] = got[s]
    BY <2>1, <2>2 DEF UpdateShareMemory, TypeInv, TypeOK
  <2> QED
    BY <1>0, <2>1, <2>3
<1>4. CASE WriteOpens \/ ReadOpens
    BY <1>4, <1>0 DEF WriteOpens, ReadOpens
<1>5. CASE WriteOpenFails \/ ReadOpenFails
  <2>1. UNCHANGED <<mem, ram, got>>
    BY <1>5 DEF WriteOpenFails, ReadOpenFails
  <2>2. CASE ReadOpenFails
    BY <1>0, <2>1, <2>2 DEF ReadOpenFails
  <2>3. CASE WriteOpenFails
    <3>1. ~OpenRefused /\ ~OpenAbandoned
      BY <2>3, ChipAssumption
      DEF WriteOpenFails, OpenRefused, OpenAbandoned, OnlyRestarts, TypeInv, TypeOK, ChipTypeOK
    <3>2. dev # s
      BY <2>3, <3>1 DEF WriteOpenFails, PrepareFails
    <3> QED
      BY <1>0, <2>1, <3>2
  <2> QED
    BY <1>5, <2>2, <2>3
<1>6. CASE WriteCell
  <2>1. /\ pc = "write" /\ dev \in Types /\ pos \in Idx(dev) /\ mem \in [Addr -> Byte]
        /\ UNCHANGED <<ram, got, dev>> /\ pc' \in {"write", "close"}
    BY <1>6 DEF WriteCell, TypeInv, TypeOK, ChipTypeOK
  <2>2. CASE s = dev
    BY <2>1, <2>2 DEF WriteInv, WritePrefix
  <2>3. CASE s # dev
    <3>1. ASSUME NEW i \in Idx(s) PROVE mem'[Base[s] + i] = mem[Base[s] + i]
      <4>1. Base[s] + i # CellAddr(dev, pos)
        BY <2>1, <2>3, CellsApart DEF CellAddr
      <4>2. Base[s] + i \in Addr /\ CellAddr(dev, pos) \in Addr
        BY <2>1, CellsOfBlocks
      <4> QED
        BY <1>6, <2>1, <4>1, <4>2 DEF WriteCell, EepromWriteByte
    <3>2. OnChip(s, ram[s], Size[s])
      BY <2>1, <2>3 DEF CacheCoherent
    <3> QED
      BY <2>1, <3>1, <3>2 DEF OnChip, Idx
  <2> QED
    BY <2>2, <2>3
<1>7. CASE WriteCellFails
    BY <1>7 DEF WriteCellFails, EepromWriteFails, OnlyRestarts
<1>8. CASE CloseAndReturn
    BY <1>8, <1>0 DEF CloseAndReturn
<1>9. CASE LoadCell
  <2>1. ReadCell /\ got' = got /\ mem' = mem
    BY <1>9 DEF LoadCell
  <2>2. pc = "read" /\ got[dev] = 0 /\ (s # dev => ram'[s] = ram[s])
    BY <2>1, ReadStep
  <2> QED
    BY <1>0, <2>1, <2>2
<1>10. CASE LoadLastCell
  <2>1. ReadCell /\ mem' = mem /\ pos + 1 = Size[dev]
    BY <1>10 DEF LoadLastCell, LastByte
  <2>2. /\ pc = "read" /\ dev \in Types /\ pos \in Idx(dev)
        /\ (s # dev => ram'[s] = ram[s])
        /\ \A i \in 0..pos : ram'[dev][i] = mem[Base[dev] + i]
    BY <2>1, ReadStep
  <2>3. CASE s = dev
    <3>1. Size[dev] - 1 = pos
      BY <2>1, <2>2, CellsOfBlocks
    <3> QED
      BY <2>1, <2>2, <2>3, <3>1 DEF OnChip
  <2>4. CASE s # dev
    <3>1. got'[s] = got[s]
      BY <1>10, <2>2, <2>4 DEF LoadLastCell, TypeInv, TypeOK
    <3> QED
      BY <1>0, <2>1, <2>2, <2>4, <3>1
  <2> QED
    BY <2>3, <2>4
<1>11. CASE Crash \/ Halt
    BY <1>11 DEF Crash, Halt, Boot
<1>12. CASE UNCHANGED vars
    BY <1>12, <1>0 DEF vars
<1> QED
    BY <1>1, <1>2, <1>3, <1>4, <1>5, <1>6, <1>7, <1>8, <1>9, <1>10, <1>11, <1>12
    DEF Next, Request, Work

(* What an answer for the firmware revisions is made of.                   *)
LEMMA AnswerOfBlock ==
    ASSUME NEW blocks, OnChip(FW, blocks[FW], Size[FW])
    PROVE  \A i \in 0..((Size[FW] \div 2) - 1) :
              Answer(FW, blocks).data[i] = mem[Base[FW] + (Size[FW] \div 2) + i]
<1> DEFINE half == Size[FW] \div 2
<1>1. /\ Size[FW] \in Nat \ {0} /\ Base[FW] \in Nat
      /\ half \in Nat /\ 2 * half <= Size[FW]
    BY BlockAssumption, TypesAssumption
<1>2. ASSUME NEW i \in 0..(half - 1)
      PROVE  Answer(FW, blocks).data[i] = mem[Base[FW] + half + i]
  <2>1. half + i \in 0..(Size[FW] - 1) /\ Base[FW] + half + i = Base[FW] + (half + i)
    BY <1>1
  <2>2. blocks[FW][half + i] = mem[Base[FW] + (half + i)]
    BY <2>1 DEF OnChip
  <2>3. Answer(FW, blocks).data[i] = blocks[FW][half + i]
    BY <1>1 DEF Answer, BiosRevision
  <2> QED
    BY <2>1, <2>2, <2>3
<1> QED
    BY <1>2

LEMMA NextAnswerIsOnChip ==
    ASSUME TypeInv, WriteInv, CacheCoherent, CacheCoherent',
           AnswerIsOnChip, [Next]_vars
    PROVE  AnswerIsOnChip'
<1> USE DEF AnswerIsOnChip
<1>1. ASSUME reply' \in {NoReply, BadLength, Unspecified, Done} PROVE AnswerIsOnChip'
    BY <1>1 DEF NoReply, BadLength, Unspecified, Done
<1>2. ASSUME reply' = reply, mem' = mem PROVE AnswerIsOnChip'
    BY <1>2
<1>3. CASE SetTooShort \/ GetWrongLength
    BY <1>3, <1>1 DEF SetTooShort, GetWrongLength, Return
<1>4. ASSUME NEW t \in DeviceTypes, SetSystemInfo(t) \/ GetUncached(t)
      PROVE  AnswerIsOnChip'
    BY <1>4, <1>1 DEF SetSystemInfo, GetUncached, Enter
<1>5. ASSUME NEW t \in DeviceTypes, GetCached(t) PROVE AnswerIsOnChip'
  <2>1. reply' = Answer(t, ram) /\ pc = "idle" /\ mem' = mem /\ FlagSet(t)
    BY <1>5 DEF GetCached
  <2>2. CASE t # FW
    BY <1>1, <2>1, <2>2 DEF Answer
  <2>3. CASE t = FW
    <3>1. FW \in Types /\ got[FW] = 1
      BY <2>1, <2>3, TypesAssumption DEF FlagSet, TypeInv, TypeOK
    <3>2. OnChip(FW, ram[FW], Size[FW])
      BY <2>1, <3>1 DEF CacheCoherent
    <3> QED
      BY <2>1, <2>3, <3>2, AnswerOfBlock
  <2> QED
    BY <2>2, <2>3
<1>6. CASE WriteOpens \/ ReadOpens
    BY <1>6, <1>2 DEF WriteOpens, ReadOpens
<1>7. CASE WriteOpenFails \/ WriteCellFails \/ CloseAndReturn \/ ReadOpenFails
    BY <1>7, <1>1
    DEF WriteOpenFails, WriteCellFails, CloseAndReturn, ReadOpenFails,
        ReturnFromSet, Return
<1>8. CASE WriteCell
    BY <1>8, <1>1 DEF WriteCell, WriteInv
<1>9. CASE LoadCell
    BY <1>9, <1>2 DEF LoadCell
<1>10. CASE LoadLastCell
  <2>1. /\ reply' = Answer(dev, ram') /\ mem' = mem /\ pc' = "idle" /\ dev' = dev
        /\ got' = [got EXCEPT ![dev] = 1]
    BY <1>10 DEF LoadLastCell, Return
  <2>2. CASE dev # FW
    BY <1>1, <2>1, <2>2 DEF Answer
  <2>3. CASE dev = FW
    <3>1. FW \in Types /\ got'[FW] = 1
      BY <2>1, <2>3, TypesAssumption DEF TypeInv, TypeOK
    <3>2. OnChip(FW, ram[FW], Size[FW])'
      BY <2>1, <3>1 DEF CacheCoherent
    <3>3. OnChip(FW, ram'[FW], Size[FW])
      BY <2>1, <3>2 DEF OnChip
    <3> QED
      BY <2>1, <2>3, <3>3, AnswerOfBlock
  <2> QED
    BY <2>2, <2>3
<1>11. CASE Crash \/ Halt
    BY <1>11, <1>1 DEF Crash, Halt, Boot
<1>12. CASE UNCHANGED vars
    BY <1>12, <1>2 DEF vars
<1> QED
    BY <1>3, <1>4, <1>5, <1>6, <1>7, <1>8, <1>9, <1>10, <1>11, <1>12
    DEF Next, Request, Work

LEMMA CleanInvariant ==
    ASSUME NothingFails
    PROVE  Spec => [](TypeInv /\ WriteInv /\ CleanInv)
<1> DEFINE Inv == TypeInv /\ WriteInv /\ CleanInv
<1>1. Init => Inv
    BY InitTypeInv, InitWriteInv, InitCleanInv
<1>2. Inv /\ [Next]_vars => Inv'
  <2> SUFFICES ASSUME Inv, [Next]_vars PROVE Inv'
    OBVIOUS
  <2>1. TypeInv' /\ WriteInv'
    BY NextTypeInv, NextWriteInv
  <2>2. LeakBound' /\ Serving'
    BY NothingFails, <2>1, NextLeakBound, NextServing DEF CleanInv
  <2>3. pc = "openWrite" => fds < MaxFds
    BY NothingFails, NeverStarved DEF CleanInv
  <2>4. CacheCoherent'
    BY NothingFails, <2>1, <2>3, NextCacheCoherent DEF CleanInv, NothingFails
  <2>5. AnswerIsOnChip'
    BY <2>4, NextAnswerIsOnChip DEF CleanInv
  <2> QED
    BY <2>1, <2>2, <2>4, <2>5 DEF CleanInv
<1> QED
    BY <1>1, <1>2, PTL DEF Spec

(* When only restarts happen, the block RAM serves for a type is the block *)
(* the EEPROM holds, between any two requests: for any number of types,    *)
(* any layout that fits, any contents and any number of restarts.          *)
THEOREM Coherence ==
    ASSUME NothingFails
    PROVE  Spec => []CacheCoherent
<1>1. CleanInv => CacheCoherent
    BY DEF CleanInv
<1> QED
    BY <1>1, CleanInvariant, PTL

(* The descriptors that read_asset_info_from_eeprom leaves open are bounded*)
(* by the number of types, and the i2c device can always be opened.        *)
THEOREM LeaksBounded ==
    ASSUME NothingFails
    PROVE  Spec => []LeakBound
<1>1. CleanInv => LeakBound
    BY DEF CleanInv
<1> QED
    BY <1>1, CleanInvariant, PTL

(* The BIOS revision a Get answers with is the one stored on the EEPROM.   *)
THEOREM AnswersOnChip ==
    ASSUME NothingFails
    PROVE  Spec => []AnswerIsOnChip
<1>1. CleanInv => AnswerIsOnChip
    BY DEF CleanInv
<1> QED
    BY <1>1, CleanInvariant, PTL

-----------------------------------------------------------------------------
(* The refinement of AssetStore.                                            *)

(* What a step shows of the handlers' state at AssetStore.                 *)
LEMMA Regions ==
    ASSUME TypeInv, NEW t \in Types
    PROVE  /\ Region(mem, t) \in Block(t)
           /\ ram[t] \in Block(t)
           /\ \A b \in Block(t) : b # <<>>
<1>1. \A i \in Idx(t) : Base[t] + i \in Addr
    BY LayoutAssumption
<1>2. Region(mem, t) \in Block(t)
    BY <1>1 DEF Region, Block, TypeInv, TypeOK, ChipTypeOK
<1>3. ASSUME NEW b \in Block(t) PROVE b # <<>>
  <2>1. 0 \in DOMAIN b
    BY FirstByte DEF Block
  <2>2. 0 \notin DOMAIN <<>>
    OBVIOUS
  <2> QED
    BY <2>1, <2>2
<1> QED
    BY <1>2, <1>3 DEF TypeInv, TypeOK

(* A chip that does not change, and one that changes in the block of the   *)
(* Set in progress, whose contents AssetStore leaves open.                 *)
LEMMA DurableSame ==
    ASSUME UNCHANGED mem,
           \A t \in Types : Writing(t)' <=> Writing(t)
    PROVE  Durable' = Durable
    BY DEF Durable, Region

LEMMA ServedSame == ASSUME UNCHANGED <<ram, got>> PROVE Served' = Served
    BY DEF Served

(* An open that only crashes can disturb finds a descriptor and a type.    *)
NeverRefused ==
    OnlyRestarts => NothingFails /\ LeakBound

LEMMA OpenFailsOnlyIf ==
    ASSUME TypeInv, NeverRefused, pc \in {"openWrite", "openRead"}, PrepareFails
    PROVE  ~OnlyRestarts
    BY NeverStarved DEF NeverRefused

LEMMA InitImplements == Init => Store!Init
<1> SUFFICES ASSUME Init PROVE Store!Init
    OBVIOUS
<1>1. Durable = [t \in Types |-> Region(mem, t)] /\ mem \in InitChips
    BY DEF Init, ChipInit, Durable, Writing
<1>2. Served = [t \in Types |-> <<>>]
    BY DEF Init, Served
<1>3. InProgress = <<>>
    BY DEF Init, InProgress
<1> QED
    BY <1>1, <1>2, <1>3
    DEF Init, Store!Init, Store!Unknown, Store!Idle, Store!NoReply, NoReply

StoreStep == [Store!Next]_Store!storeVars

(* Requests that are refused, served from RAM, or begun.                   *)
LEMMA RequestImplements ==
    ASSUME TypeInv, Request
    PROVE  StoreStep
<1> USE DEF StoreStep, Store!Next
<1>0. Types \cap UnknownTypes = {} /\ FW \in Types
    BY TypesAssumption
<1>1. ASSUME pc = "idle", pc' = "idle", UNCHANGED <<mem, ram, got>>,
             reply' \in {BadLength, Unspecified}
      PROVE  Store!Refuse
  <2>1. Durable' = Durable /\ Served' = Served
    BY <1>1, DurableSame, ServedSame DEF Writing
  <2>2. InProgress' = <<>> /\ InProgress = <<>>
    BY <1>1 DEF InProgress
  <2> QED
    BY <1>1, <2>1, <2>2
    DEF Store!Refuse, Store!Refused, Store!Idle, BadLength, Unspecified
<1>2. CASE SetTooShort \/ GetWrongLength
    BY <1>1, <1>2 DEF SetTooShort, GetWrongLength, Return
<1>3. ASSUME NEW t \in UnknownTypes, SetSystemInfo(t) \/ GetUncached(t)
      PROVE  Store!Refuse
  <2>1. /\ pc = "idle" /\ pc' \in {"openWrite", "openRead"} /\ dev' = t
        /\ UNCHANGED <<mem, ram, got>> /\ reply' = NoReply
    BY <1>0, <1>3 DEF SetSystemInfo, UpdateShareMemory, GetUncached, Enter
  <2>2. Durable' = Durable /\ Served' = Served
    BY <2>1, DurableSame, ServedSame DEF Writing
  <2>3. InProgress' = <<>> /\ InProgress = <<>>
    BY <1>0, <2>1 DEF InProgress
  <2> QED
    BY <2>1, <2>2, <2>3 DEF Store!Refuse, Store!NoReply, Store!Idle, NoReply
<1>4. ASSUME NEW t \in Types, SetSystemInfo(t) PROVE Store!BeginSet(t)
  <2>1. PICK b \in Payload[t] : ram' = [ram EXCEPT ![t] = b]
    BY <1>0, <1>4 DEF SetSystemInfo, UpdateShareMemory
  <2>2. /\ pc = "idle" /\ pc' = "openWrite" /\ dev' = t
        /\ UNCHANGED mem /\ got' = [got EXCEPT ![t] = 1] /\ reply' = NoReply
    BY <1>0, <1>4 DEF SetSystemInfo, UpdateShareMemory, Enter
  <2>3. Durable' = Durable
    BY <2>2, DurableSame DEF Writing
  <2>4. Served' = [Served EXCEPT ![t] = b]
    BY <2>1, <2>2 DEF Served, TypeInv, TypeOK
  <2>5. InProgress = <<>> /\ InProgress' = <<"set", t>>
    BY <2>2 DEF InProgress
  <2> QED
    BY <2>1, <2>2, <2>3, <2>4, <2>5
    DEF Store!BeginSet, Store!Idle, Store!NoReply, NoReply
<1>5. ASSUME NEW t \in DeviceTypes, GetCached(t) PROVE StoreStep
  <2>1. /\ pc = "idle" /\ pc' = "idle" /\ reply' = Answer(t, ram)
        /\ UNCHANGED <<mem, ram, got>> /\ FlagSet(t)
    BY <1>5 DEF GetCached
  <2>2. CASE t \notin Types
    BY <1>0, <1>1, <2>1, <2>2 DEF Answer
  <2>3. CASE t \in Types
    <3>1. Durable' = Durable /\ Served' = Served
      BY <2>1, DurableSame, ServedSame DEF Writing
    <3>2. InProgress' = <<>> /\ InProgress = <<>>
      BY <2>1 DEF InProgress
    <3>3. Served[t] = ram[t] /\ ram[t] # <<>>
      BY <2>1, <2>3, Regions DEF FlagSet, Served, TypeInv, TypeOK
    <3>4. Answer(t, ram) = Store!Answer(t, ram[t])
      BY DEF Answer, BiosRevision, Store!Answer, Unspecified
    <3>5. Store!Get(t)
      BY <2>1, <3>1, <3>2, <3>3, <3>4 DEF Store!Get, Store!Idle, Store!Unknown
    <3> QED
      BY <2>3, <3>5
  <2> QED
    BY <2>2, <2>3
<1>6. ASSUME NEW t \in Types, GetUncached(t) PROVE Store!BeginLoad(t)
  <2>1. /\ pc = "idle" /\ pc' = "openRead" /\ dev' = t /\ got[t] = 0
        /\ UNCHANGED <<mem, ram, got>> /\ reply' = NoReply
    BY <1>6 DEF GetUncached, Enter, FlagClear
  <2>2. Durable' = Durable /\ Served' = Served /\ Served[t] = <<>>
    BY <2>1, DurableSame, ServedSame DEF Writing, Served
  <2>3. InProgress' = <<"get", t>> /\ InProgress = <<>>
    BY <2>1 DEF InProgress
  <2> QED
    BY <2>1, <2>2, <2>3
    DEF Store!BeginLoad, Store!Idle, Store!Unknown, Store!NoReply, NoReply
<1> QED
    BY <1>2, <1>3, <1>4, <1>5, <1>6 DEF Request, DeviceTypes

(* The steps of a Set.  The write loop is one step of AssetStore until it  *)
(* ends, with the block whole or, when something may fail, in any state.   *)
LEMMA WriteOpensImplements == ASSUME TypeInv, WriteOpens PROVE Store!Rewrite(dev)
<1>1. /\ pc = "openWrite" /\ pc' = "write" /\ dev \in Types
      /\ UNCHANGED <<mem, ram, got, dev, reply>>
    BY DEF WriteOpens
<1>2. Served' = Served
    BY <1>1, ServedSame
<1>3. Durable' = [Durable EXCEPT ![dev] = <<>>]
    BY <1>1 DEF Durable, Region, Writing
<1>4. InProgress = <<"set", dev>> /\ InProgress' = <<"set", dev>>
    BY <1>1 DEF InProgress
<1> QED
    BY <1>1, <1>2, <1>3, <1>4 DEF Store!Rewrite, Store!Unknown

LEMMA WriteOpenFailsImplements ==
    ASSUME TypeInv, Serving, NeverRefused, WriteOpenFails
    PROVE  StoreStep
<1>1. /\ pc = "openWrite" /\ pc' = "idle" /\ UNCHANGED <<mem, ram, got, dev>>
      /\ reply' = IF dev \in Types THEN Done ELSE Unspecified
    BY DEF WriteOpenFails, ReturnFromSet, Return
<1>2. Durable' = Durable /\ Served' = Served
    BY <1>1, DurableSame, ServedSame DEF Writing
<1>3. InProgress' = <<>>
    BY <1>1 DEF InProgress
<1>4. CASE dev \notin Types
  <2>1. InProgress = <<>>
    BY <1>4 DEF InProgress
  <2> QED
    BY <1>1, <1>2, <1>3, <1>4, <2>1
    DEF StoreStep, Store!Next, Store!Refuse, Store!Refused, Store!Idle, Unspecified
<1>5. CASE dev \in Types
  <2>1. ~(Faults \subseteq {"crash"})
    BY <1>1, OpenFailsOnlyIf DEF WriteOpenFails, OnlyRestarts
  <2>2. InProgress = <<"set", dev>>
    BY <1>1, <1>5 DEF InProgress
  <2>3. Durable[dev] # <<>>
    BY <1>1, <1>5, Regions DEF Durable, Writing
  <2>4. Store!EndSet(dev)
    BY <1>1, <1>2, <1>3, <1>5, <2>1, <2>2, <2>3
    DEF Store!EndSet, Store!Unknown, Store!Idle, Store!SetDone, Done
  <2> QED
    BY <1>5, <2>4 DEF StoreStep, Store!Next
<1> QED
    BY <1>4, <1>5

(* A step of the write loop changes no other type's block.                 *)
LEMMA OtherRegions ==
    ASSUME TypeInv, pc = "write",
           \/ UNCHANGED mem
           \/ EepromWriteByte(CellAddr(dev, pos), ram[dev][pos])
    PROVE  \A t \in Types : t # dev => Region(mem', t) = Region(mem, t)
<1>1. dev \in Types /\ pos \in Idx(dev) /\ mem \in [Addr -> Byte]
    BY DEF TypeInv, TypeOK, ChipTypeOK
<1>2. ASSUME NEW t \in Types, t # dev, NEW i \in Idx(t),
             EepromWriteByte(CellAddr(dev, pos), ram[dev][pos])
      PROVE  mem'[Base[t] + i] = mem[Base[t] + i]
  <2>1. Base[t] + i \in Addr /\ Base[t] + i # CellAddr(dev, pos)
    BY <1>1, <1>2, CellsOfBlocks, CellsApart
  <2> QED
    BY <1>1, <1>2, <2>1 DEF EepromWriteByte
<1> QED
    BY <1>2 DEF Region

LEMMA WriteCellImplements ==
    ASSUME TypeInv, WriteCell
    PROVE  UNCHANGED Store!storeVars
<1>1. /\ pc = "write" /\ pc' \in {"write", "close"}
      /\ UNCHANGED <<ram, got, dev, reply>>
    BY DEF WriteCell
<1>2. \A t \in Types : t # dev => Region(mem', t) = Region(mem, t)
    BY <1>1, OtherRegions DEF WriteCell
<1>3. Durable' = Durable
    BY <1>1, <1>2 DEF Durable, Writing
<1>4. Served' = Served
    BY <1>1, ServedSame
<1>5. InProgress' = InProgress
    BY <1>1 DEF InProgress
<1> QED
    BY <1>1, <1>3, <1>4, <1>5 DEF Store!storeVars

LEMMA SetEndsImplements ==
    ASSUME TypeInv, TypeInv', WriteInv, Serving, WriteCellFails \/ CloseAndReturn
    PROVE  Store!EndSet(dev)
<1>1. /\ pc \in {"write", "close"} /\ dev \in Types /\ pc' = "idle"
      /\ UNCHANGED <<ram, got, dev>> /\ reply' = Done /\ got[dev] = 1
    BY DEF WriteCellFails, CloseAndReturn, ReturnFromSet, Return, TypeInv, TypeOK, Serving
<1>2. \A t \in Types : t # dev => Region(mem', t) = Region(mem, t)
  <2>1. CASE WriteCellFails
    BY <2>1, OtherRegions DEF WriteCellFails, EepromWriteFails
  <2>2. CASE CloseAndReturn
    BY <2>2 DEF CloseAndReturn
  <2> QED
    BY <2>1, <2>2
<1>3. Durable' = [Durable EXCEPT ![dev] = Region(mem', dev)] /\ Durable[dev] = <<>>
    BY <1>1, <1>2 DEF Durable, Writing
<1>4. Region(mem', dev) \in Block(dev)
    BY <1>1, TypeInv', LayoutAssumption DEF Region, Block, TypeInv, TypeOK, ChipTypeOK
<1>5. \/ ~(Faults \subseteq {"crash"})
      \/ Region(mem', dev) = Served[dev]
  <2>1. CASE WriteCellFails
    BY <2>1 DEF WriteCellFails, EepromWriteFails
  <2>2. CASE CloseAndReturn
    <3>1. OnChip(dev, ram[dev], Size[dev]) /\ mem' = mem
      BY <2>2 DEF CloseAndReturn, WriteInv, WritePrefix
    <3>2. Region(mem, dev) = ram[dev]
      BY <1>1, <3>1, Regions DEF OnChip, Region, Block, Idx
    <3> QED
      BY <1>1, <3>1, <3>2 DEF Served
  <2> QED
    BY <2>1, <2>2
<1>6. Served' = Served
    BY <1>1, ServedSame
<1>7. InProgress = <<"set", dev>> /\ InProgress' = <<>>
    BY <1>1 DEF InProgress
<1>8. Durable'[dev] = Region(mem', dev) /\ Block(dev) = Store!Block(dev)
    BY <1>1, <1>3 DEF Durable, Block, Idx, Store!Block, Store!Idx
<1> QED
    BY <1>1, <1>3, <1>4, <1>5, <1>6, <1>7, <1>8
    DEF Store!EndSet, Store!Unknown, Store!Idle, Store!SetDone, Done

(* The steps of a load.                                                    *)
LEMMA LoadMovesImplements ==
    ASSUME TypeInv, Serving, ReadOpens \/ LoadCell
    PROVE  UNCHANGED Store!storeVars
<1>1. /\ pc \in {"openRead", "read"} /\ pc' = "read" /\ dev \in Types
      /\ UNCHANGED <<mem, got, dev, reply>> /\ got[dev] = 0
    BY DEF ReadOpens, LoadCell, ReadCell, TypeInv, TypeOK, Serving
<1>2. \A t \in Types : t # dev => ram'[t] = ram[t]
  <2>1. CASE ReadOpens
    BY <2>1 DEF ReadOpens
  <2>2. CASE LoadCell
    BY <1>1, <2>2, ReadTurn DEF LoadCell
  <2> QED
    BY <2>1, <2>2
<1>3. Served' = Served
    BY <1>1, <1>2 DEF Served
<1>4. Durable' = Durable
    BY <1>1, DurableSame DEF Writing
<1>5. InProgress' = InProgress
    BY <1>1 DEF InProgress
<1> QED
    BY <1>1, <1>3, <1>4, <1>5 DEF Store!storeVars

LEMMA ReadOpenFailsImplements ==
    ASSUME TypeInv, NeverRefused, ReadOpenFails
    PROVE  StoreStep
<1>1. /\ pc = "openRead" /\ pc' = "idle" /\ UNCHANGED <<mem, ram, got, dev>>
      /\ reply' = Unspecified
    BY DEF ReadOpenFails, Return
<1>2. Durable' = Durable /\ Served' = Served
    BY <1>1, DurableSame, ServedSame DEF Writing
<1>3. InProgress' = <<>>
    BY <1>1 DEF InProgress
<1>4. CASE dev \notin Types
  <2>1. InProgress = <<>>
    BY <1>4 DEF InProgress
  <2> QED
    BY <1>1, <1>2, <1>3, <2>1
    DEF StoreStep, Store!Next, Store!Refuse, Store!Refused, Store!Idle, Unspecified
<1>5. CASE dev \in Types
  <2>1. ~(Faults \subseteq {"crash"})
    BY <1>1, OpenFailsOnlyIf DEF ReadOpenFails, OnlyRestarts
  <2>2. InProgress = <<"get", dev>>
    BY <1>1, <1>5 DEF InProgress
  <2>3. Store!FailLoad(dev)
    BY <1>1, <1>2, <1>3, <2>1, <2>2 DEF Store!FailLoad, Store!Idle, Unspecified
  <2> QED
    BY <1>5, <2>3 DEF StoreStep, Store!Next
<1> QED
    BY <1>4, <1>5

LEMMA LoadLastCellImplements ==
    ASSUME TypeInv, Serving, LoadLastCell
    PROVE  Store!EndLoad(dev)
<1>1. /\ ReadCell /\ LastByte(pos, Size[dev]) /\ pc' = "idle"
      /\ UNCHANGED <<mem, dev>> /\ got' = [got EXCEPT ![dev] = 1]
      /\ reply' = Answer(dev, ram')
    BY DEF LoadLastCell, Return
<1>2. /\ pc = "read" /\ dev \in Types /\ pos \in Idx(dev) /\ got[dev] = 0
      /\ \A s \in Types : s # dev => ram'[s] = ram[s]
      /\ ram'[dev] \in Block(dev)
      /\ \A i \in 0..pos : ram'[dev][i] \in EepromReadByte(Base[dev] + i)
    BY <1>1, ReadTurn
<1>3. Idx(dev) = 0..pos
    BY <1>1, <1>2, CellsOfBlocks DEF LastByte, Idx
<1>4. Durable' = Durable /\ Durable[dev] = Region(mem, dev)
    BY <1>1, <1>2, DurableSame DEF Writing, Durable
<1>5. Served' = [Served EXCEPT ![dev] = ram'[dev]] /\ Served'[dev] = ram'[dev]
    BY <1>1, <1>2 DEF Served, TypeInv, TypeOK
<1>6. InProgress = <<"get", dev>> /\ InProgress' = <<>>
    BY <1>1, <1>2 DEF InProgress
<1>7. ASSUME NEW i \in Idx(dev)
      PROVE  \/ ram'[dev][i] = Region(mem, dev)[i]
             \/ ~(Faults \subseteq {"crash"}) /\ ram'[dev][i] = Erased
    BY <1>2, <1>3 DEF EepromReadByte, Region
<1>8. Answer(dev, ram') = Store!Answer(dev, ram'[dev])
    BY DEF Answer, BiosRevision, Store!Answer, Unspecified
<1>9. Idx(dev) = Store!Idx(dev) /\ Block(dev) = Store!Block(dev)
    BY DEF Block, Idx, Store!Block, Store!Idx
<1> QED
    BY <1>1, <1>2, <1>4, <1>5, <1>6, <1>7, <1>8, <1>9
    DEF Store!EndLoad, Store!Idle

(* The daemon ends in the middle of anything.                              *)
LEMMA BootImplements ==
    ASSUME TypeInv, Boot, Faults \cap {"crash", "funcs"} # {}
    PROVE  Store!Restart
<1>1. Served' = [t \in Types |-> <<>>] /\ InProgress' = <<>>
    BY DEF Boot, Served, InProgress
<1>2. Durable' = [t \in Types |-> Region(mem, t)]
    BY DEF Boot, ProcessEnds, Durable, Writing, Region
<1>3. ASSUME NEW t \in Types
      PROVE  /\ Durable[t] = <<>> => Durable'[t] \in Store!Block(t)
             /\ Durable[t] # <<>> => Durable'[t] = Durable[t]
  <2>1. Region(mem, t) \in Store!Block(t)
    BY Regions DEF Block, Idx, Store!Block, Store!Idx
  <2> QED
    BY <1>2, <2>1 DEF Durable
<1>4. Durable' = [t \in Types |-> Durable'[t]]
    BY <1>2
<1> QED
    BY <1>1, <1>3, <1>4
    DEF Store!Restart, Store!Unknown, Store!Idle, Store!NoReply, Boot, NoReply

LEMMA StepImplements ==
    ASSUME TypeInv, TypeInv', WriteInv, Serving, NeverRefused, [Next]_vars
    PROVE  StoreStep
<1>1. CASE Request
    BY <1>1, RequestImplements
<1>2. CASE WriteOpens
    BY <1>2, WriteOpensImplements DEF StoreStep, Store!Next, WriteOpens
<1>3. CASE WriteOpenFails
    BY <1>3, WriteOpenFailsImplements
<1>4. CASE WriteCell
    BY <1>4, WriteCellImplements DEF StoreStep
<1>5. CASE WriteCellFails \/ CloseAndReturn
  <2>1. dev \in Types
    BY <1>5 DEF WriteCellFails, CloseAndReturn, TypeInv, TypeOK
  <2> QED
    BY <1>5, <2>1, SetEndsImplements DEF StoreStep, Store!Next
<1>6. CASE ReadOpens \/ LoadCell
    BY <1>6, LoadMovesImplements DEF StoreStep
<1>7. CASE ReadOpenFails
    BY <1>7, ReadOpenFailsImplements
<1>8. CASE LoadLastCell
  <2>1. dev \in Types
    BY <1>8 DEF LoadLastCell, ReadCell, TypeInv, TypeOK
  <2> QED
    BY <1>8, <2>1, LoadLastCellImplements DEF StoreStep, Store!Next
<1>9. CASE Crash \/ Halt
    BY <1>9, BootImplements DEF Crash, Halt, OpenHalts, StoreStep, Store!Next
<1>10. CASE UNCHANGED vars
  <2>1. Durable' = Durable /\ Served' = Served
    BY <1>10, DurableSame, ServedSame DEF vars, Writing
  <2> QED
    BY <1>10, <2>1 DEF vars, InProgress, StoreStep, Store!storeVars
<1> QED
    BY <1>1, <1>2, <1>3, <1>4, <1>5, <1>6, <1>7, <1>8, <1>9, <1>10 DEF Next, Work

(* The handlers of bios.cpp keep the promises of AssetStore, for every     *)
(* combination of faults, any number of types and any layout: a Set that   *)
(* is answered has changed the served block and, when nothing fails, the   *)
(* stored one; nothing else changes a block; a restart forgets none.  With *)
(* no faults but restarts, the process must have a descriptor left for     *)
(* each type, or an open is refused though no fault is assumed.            *)
THEOREM ImplementsStore ==
    ASSUME OnlyRestarts => NothingFails
    PROVE  Spec => StoreSpec
<1> DEFINE Inv == TypeInv /\ WriteInv /\ Serving
<1>1. Spec => []Inv
    BY InitTypeInv, InitWriteInv, InitServing, NextTypeInv, NextWriteInv, NextServing,
       PTL DEF Spec
<1>2. Spec => []NeverRefused
  <2>1. CASE OnlyRestarts
    <3>1. NothingFails
      BY <2>1
    <3>2. Spec => []LeakBound
      BY <3>1, LeaksBounded
    <3>3. LeakBound => NeverRefused
      BY <3>1 DEF NeverRefused
    <3> QED
      BY <3>2, <3>3, PTL
  <2>2. CASE ~OnlyRestarts
    <3>1. NeverRefused
      BY <2>2 DEF NeverRefused
    <3> QED
      BY <3>1, PTL
  <2> QED
    BY <2>1, <2>2
<1>3. Inv /\ Inv' /\ NeverRefused /\ [Next]_vars => [Store!Next]_Store!storeVars
    BY StepImplements DEF StoreStep
<1>4. Init => Store!Init
    BY InitImplements
<1> QED
    BY <1>1, <1>2, <1>3, <1>4, PTL DEF Spec, StoreSpec, Store!Spec
=============================================================================
