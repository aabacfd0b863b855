------------------------- MODULE EepromDaemon_proofs -------------------------
(***************************************************************************)
(* The two providers of the system EEPROM together, for every set of types,*)
(* layout that keeps the raw spans apart from the blocks, and set of raw   *)
(* requests: first when no call fails, then whatever fails.                *)
(***************************************************************************)
EXTENDS EepromDaemon, AssetInfo_proofs

assetVars == <<ram, got, pc, dev, pos, reply>>

(* How far the raw command in progress has got.                            *)
Written == IF phase = "closeByte" THEN done + 1 ELSE done

Matches(n) == \A i \in 1..n : mem[start + i - 1] = buf[i]

RawInv ==
    /\ Sys!TypeOK
    /\ Sys!Span(start, count) \subseteq FreeCells
    /\ phase = "idle" /\ result.cc = "ok" => Len(buf) = count /\ Matches(count)
    /\ phase = "openRead" => done = 0
    /\ phase = "read" => Matches(done)
    /\ phase \in {"openWrite", "write", "closeByte"} => Matches(Written)

DaemonInv ==
    /\ TypeInv
    /\ WriteInv
    /\ Serving
    /\ RawInv
    /\ pc = "idle" \/ phase = "idle"
    /\ strays \in Nat
    /\ UnknownTypes = {} => strays = 0
    /\ SharedLeakBound
    /\ Sys!Holding <= fds
    /\ CoherentWhileRoom

-----------------------------------------------------------------------------
(* The cells the two providers use are different cells.                    *)
LEMMA BlockCellsUsed ==
    ASSUME NEW t \in Types, NEW i \in Idx(t), NEW a \in FreeCells
    PROVE  Base[t] + i # a
    BY CellsOfBlocks DEF FreeCells, Cells

(* A raw byte written leaves every block as it was.                        *)
LEMMA RawWriteSpares ==
    ASSUME mem \in [Addr -> Byte], NEW a \in FreeCells, NEW d,
           mem' = [mem EXCEPT ![a] = d]
    PROVE  \A t \in Types : \A i \in Idx(t) : mem'[Base[t] + i] = mem[Base[t] + i]
<1> SUFFICES ASSUME NEW t \in Types, NEW i \in Idx(t)
             PROVE  mem'[Base[t] + i] = mem[Base[t] + i]
    OBVIOUS
<1>1. Base[t] + i \in Addr /\ Base[t] + i # a
    BY CellsOfBlocks, BlockCellsUsed
<1> QED
    BY <1>1

(* Between requests the system information commands see nothing of a raw   *)
(* command that keeps the cells of the blocks.                             *)
LEMMA AssetsUndisturbed ==
    ASSUME TypeInv, pc = "idle", UNCHANGED assetVars,
           fds' \in 0..MaxFds, mem' \in [Addr -> Byte],
           \A t \in Types : \A i \in Idx(t) : mem'[Base[t] + i] = mem[Base[t] + i]
    PROVE  /\ TypeInv'
           /\ WriteInv'
           /\ Serving => Serving'
           /\ CacheCoherent => CacheCoherent'
<1>1. TypeInv'
    BY DEF TypeInv, TypeOK, ChipTypeOK, Busy, assetVars, Block, Idx
<1>2. WriteInv' /\ (Serving => Serving')
    BY DEF WriteInv, WritePrefix, Serving, assetVars
<1>3. ASSUME CacheCoherent PROVE CacheCoherent'
  <2>1. ASSUME NEW t \in Types, got[t] = 1 PROVE OnChip(t, ram[t], Size[t])'
    BY <1>3, <2>1 DEF CacheCoherent, OnChip, Idx, assetVars
  <2> QED
    BY <2>1 DEF CacheCoherent, assetVars
<1> QED
    BY <1>1, <1>2, <1>3

(* A system information step leaves the raw spans as they were.            *)
LEMMA SpansUndisturbed ==
    ASSUME TypeInv, [Next]_vars, NEW a \in FreeCells
    PROVE  mem'[a] = mem[a]
<1>1. CASE UNCHANGED mem
    BY <1>1
<1>2. CASE pc = "write" /\ EepromWriteByte(CellAddr(dev, pos), ram[dev][pos])
  <2>1. dev \in Types /\ pos \in Idx(dev) /\ mem \in [Addr -> Byte]
    BY <1>2 DEF TypeInv, TypeOK, ChipTypeOK
  <2>2. CellAddr(dev, pos) # a
    BY <2>1, CellsOfBlocks, BlockCellsUsed
  <2> QED
    BY <1>2, <2>1, <2>2 DEF EepromWriteByte, FreeCells
<1> QED
    BY <1>1, <1>2, ChipSteps

-----------------------------------------------------------------------------
(* A raw step keeps its own invariant, keeps the blocks, and holds as many *)
(* descriptors more or less as it opens or closes.                         *)
RawStepGood ==
    /\ RawInv'
    /\ mem' \in [Addr -> Byte]
    /\ \A t \in Types : \A i \in Idx(t) : mem'[Base[t] + i] = mem[Base[t] + i]
    /\ fds' \in 0..MaxFds
    /\ \/ fds' = fds /\ Sys!Holding' = Sys!Holding
       \/ fds' = fds + 1 /\ Sys!Holding = 0 /\ Sys!Holding' = 1
       \/ fds' = fds - 1 /\ Sys!Holding = 1 /\ Sys!Holding' = 0

LEMMA RawTakes ==
    ASSUME RawInv, mem \in [Addr -> Byte], fds \in 0..MaxFds, Sys!Request
    PROVE  RawStepGood
<1> USE DEF RawStepGood, Sys!Holding
<1>1. ASSUME NEW r, phase = "idle", Sys!Finish(r), UNCHANGED chipVars, r.cc \in {"badlen", "invalid"}
      PROVE  RawStepGood
    BY <1>1 DEF Sys!Finish, RawInv, Sys!TypeOK, Sys!Phases, Matches, chipVars
<1>2. CASE Sys!WrongLength
    BY <1>1, <1>2 DEF Sys!WrongLength, Sys!BadLen, Sys!chipVars, chipVars
<1>3. ASSUME NEW w \in Writes, Sys!WriteRefused(w) PROVE RawStepGood
    BY <1>1, <1>3 DEF Sys!WriteRefused, Sys!Invalid, Sys!chipVars, chipVars
<1>4. ASSUME NEW step \in {"openRead", "openWrite"}, NEW offset, NEW len, NEW bytes,
             Sys!Begin(step, offset, len, bytes),
             offset \in 0..255, len \in 0..255, bytes \in Seq(Byte),
             step = "openRead" => Len(bytes) = 0,
             step = "openWrite" => Len(bytes) = len,
             Sys!Span(offset, len) \subseteq FreeCells
      PROVE  RawStepGood
  <2>1. /\ phase = "idle" /\ phase' = step /\ start' = offset /\ count' = len
        /\ done' = 0 /\ buf' = bytes /\ result' = Sys!NoResult
        /\ mem' = mem /\ fds' = fds
    BY <1>4 DEF Sys!Begin, Sys!chipVars
  <2>2. Sys!Span(start', count') \subseteq FreeCells /\ FreeCells \subseteq Addr
    BY <1>4, <2>1 DEF FreeCells
  <2>3. Sys!TypeOK'
    BY <1>4, <2>1, <2>2 DEF Sys!TypeOK, Sys!Phases, Sys!NoResult, Sys!Span
  <2>4. Matches(0)'
    BY DEF Matches
  <2>5. RawInv'
    BY <1>4, <2>1, <2>2, <2>3, <2>4 DEF RawInv, Written
  <2> QED
    BY <1>4, <2>1, <2>5
<1>5. ASSUME NEW r \in Reads, Sys!ReadEEPROM(r) PROVE RawStepGood
  <2>1. <<>> \in Seq(Byte) /\ Len(<<>>) = 0
    OBVIOUS
  <2> QED
    BY <1>4, <1>5, <2>1, ReadsAssumption DEF Sys!ReadEEPROM
<1>6. ASSUME NEW w \in Writes, Sys!WriteEEPROM(w) PROVE RawStepGood
    BY <1>4, <1>6, WritesAssumption DEF Sys!WriteEEPROM
<1> QED
    BY <1>2, <1>3, <1>5, <1>6 DEF Sys!Request

(* Without failing calls, an open is refused only with the table full.     *)
LEMMA RawOpens ==
    ASSUME OnlyRestarts, Sys!OpenFails
    PROVE  fds = MaxFds /\ fds' = fds /\ mem' = mem /\ Sys!Finish(Sys!Invalid)
    BY DEF OnlyRestarts, Sys!OpenFails, Sys!OpenRefused, Sys!OpenAbandoned

(* The byte at start + done.                                               *)
LEMMA NextCell ==
    ASSUME Sys!TypeOK, Sys!Span(start, count) \subseteq FreeCells, done < count
    PROVE  /\ start + done \in FreeCells
           /\ start + done \in Sys!Span(start, count)
           /\ start \in Nat /\ done \in Nat /\ count \in Nat
           /\ done + 1 \in 0..count
<1>1. start \in 0..255 /\ count \in 0..255 /\ done \in 0..count
    BY DEF Sys!TypeOK
<1>2. start + done \in Sys!Span(start, count)
    BY <1>1 DEF Sys!Span
<1> QED
    BY <1>1, <1>2

LEMMA RawMoves ==
    ASSUME OnlyRestarts, RawInv, mem \in [Addr -> Byte],
           fds \in 0..MaxFds, Sys!Holding <= fds,
           Sys!Transfer
    PROVE  RawStepGood
<1> USE DEF RawStepGood, Sys!Holding
<1>0. /\ Sys!TypeOK /\ Sys!Span(start, count) \subseteq FreeCells
      /\ FreeCells \subseteq Addr /\ MaxFds \in Nat
    BY ChipAssumption DEF RawInv, FreeCells
<1>1. CASE Sys!ReadOpens
  <2>1. /\ phase = "openRead" /\ done = 0 /\ phase' = "read" /\ fds' = fds + 1
        /\ UNCHANGED <<mem, start, count, done, buf, result>>
    BY <1>1 DEF RawInv, Sys!ReadOpens, Sys!EepromOpens
  <2> QED
    BY <1>0, <1>1, <2>1 DEF Sys!ReadOpens, Sys!EepromOpens, RawInv, Sys!TypeOK, Sys!Phases, Matches
<1>2. CASE Sys!ReadOpenFails \/ Sys!WriteOpenFails
  <2>1. /\ phase \in {"openRead", "openWrite"} /\ phase' = "idle"
        /\ UNCHANGED <<mem, fds, start, count, done, buf>> /\ result' = Sys!Invalid
    BY <1>2, RawOpens DEF Sys!ReadOpenFails, Sys!WriteOpenFails, Sys!Finish
  <2> QED
    BY <1>0, <2>1 DEF RawInv, Sys!TypeOK, Sys!Phases, Sys!Invalid
<1>3. CASE Sys!ReadByte
  <2>1. PICK b \in Sys!EepromReadByte(start + done) : buf' = Append(buf, b)
    BY <1>3 DEF Sys!ReadByte
  <2>2. b = mem[start + done]
    BY DEF Sys!EepromReadByte, OnlyRestarts
  <2>3. /\ phase = "read" /\ done < count /\ done' = done + 1
        /\ UNCHANGED <<mem, fds, phase, start, count, result>>
    BY <1>3 DEF Sys!ReadByte
  <2>4. start + done \in Addr /\ start \in Nat /\ done \in Nat /\ done + 1 \in 0..count
    BY <1>0, <2>3, NextCell
  <2>5. b \in Byte /\ buf \in Seq(Byte) /\ Len(buf) = done
    BY <1>0, <2>2, <2>3, <2>4 DEF Sys!TypeOK
  <2>6. /\ buf' \in Seq(Byte) /\ Len(buf') = done + 1 /\ buf'[done + 1] = b
        /\ \A i \in 1..done : buf'[i] = buf[i]
    BY <2>1, <2>4, <2>5
  <2>7. Matches(done)'
    <3>1. ASSUME NEW i \in 1..(done + 1) PROVE mem[start + i - 1] = buf'[i]
      <4>1. CASE i = done + 1
        BY <2>2, <2>4, <2>6, <4>1
      <4>2. CASE i \in 1..done
        BY <2>3, <2>6, <4>2 DEF RawInv, Matches
      <4> QED
        BY <2>4, <4>1, <4>2
    <3> QED
      BY <2>3, <3>1 DEF Matches
  <2>8. Sys!TypeOK'
    BY <1>0, <2>3, <2>4, <2>6 DEF Sys!TypeOK
  <2> QED
    BY <1>0, <2>3, <2>7, <2>8 DEF RawInv
<1>4. CASE Sys!ReadReturns
    BY <1>0, <1>4
    DEF Sys!ReadReturns, Sys!EepromClose, Sys!Finish, Sys!Ok, RawInv, Sys!TypeOK,
        Sys!Phases, Matches
<1>5. CASE Sys!WriteOpens
    BY <1>0, <1>5
    DEF Sys!WriteOpens, Sys!EepromOpens, RawInv, Sys!TypeOK, Sys!Phases, Matches, Written
<1>6. CASE Sys!WriteByte
  <2> DEFINE a == start + done
  <2>1. Sys!EepromWriteByte(a, buf[done + 1])
    BY <1>6 DEF Sys!WriteByte, Sys!EepromWriteFails, OnlyRestarts
  <2>2. /\ phase = "write" /\ phase' = "closeByte"
        /\ UNCHANGED <<fds, start, count, done, buf, result>>
    BY <1>6 DEF Sys!WriteByte
  <2>3. done < count
    BY <1>0, <2>2 DEF Sys!TypeOK
  <2>4. /\ a \in FreeCells /\ start \in Nat /\ done \in Nat /\ done + 1 \in 1..count
        /\ count \in Nat /\ done + 1 \in 0..count
    BY <1>0, <2>3, NextCell
  <2>5. mem' = [mem EXCEPT ![a] = buf[done + 1]]
    BY <2>1 DEF Sys!EepromWriteByte
  <2>6. buf[done + 1] \in Byte
    BY <1>0, <2>2, <2>4 DEF Sys!TypeOK
  <2>7. Matches(done + 1)'
    <3>1. ASSUME NEW i \in 1..(done + 1) PROVE mem'[start + i - 1] = buf[i]
      <4>1. start + i - 1 \in Sys!Span(start, count) /\ i \in Nat
        BY <2>4 DEF Sys!Span
      <4>2. start + i - 1 \in Addr
        BY <1>0, <4>1
      <4>3. CASE i = done + 1
        BY <1>0, <2>4, <2>5, <4>3
      <4>4. CASE i \in 1..done
        <5>1. mem[start + i - 1] = buf[i] /\ start + i - 1 # a
          BY <2>2, <2>4, <4>4 DEF RawInv, Matches, Written
        <5> QED
          BY <2>5, <4>2, <5>1
      <4> QED
        BY <2>4, <4>3, <4>4
    <3> QED
      BY <2>2, <3>1 DEF Matches
  <2>8. Sys!TypeOK'
    BY <1>0, <2>2, <2>3 DEF Sys!TypeOK, Sys!Phases
  <2>9. RawInv'
    BY <1>0, <2>2, <2>7, <2>8 DEF RawInv, Written
  <2>10. \A t \in Types : \A i \in Idx(t) : mem'[Base[t] + i] = mem[Base[t] + i]
    BY <2>4, <2>5, RawWriteSpares
  <2> QED
    BY <1>0, <2>2, <2>4, <2>5, <2>6, <2>9, <2>10
<1>7. CASE Sys!CloseByte
    BY <1>0, <1>7
    DEF Sys!CloseByte, Sys!EepromClose, RawInv, Sys!TypeOK, Sys!Phases, Matches, Written
<1>8. CASE Sys!WriteReturns
    BY <1>0, <1>8
    DEF Sys!WriteReturns, Sys!Finish, Sys!Ok, RawInv, Sys!TypeOK, Sys!Phases, Matches,
        Written, Sys!chipVars
<1> QED
    BY <1>1, <1>2, <1>3, <1>4, <1>5, <1>6, <1>7, <1>8 DEF Sys!Transfer

-----------------------------------------------------------------------------
LEMMA InitDaemonInv == DaemonInit => DaemonInv
<1> SUFFICES ASSUME DaemonInit PROVE DaemonInv
    OBVIOUS
<1> USE DEF DaemonInit, Sys!SysInit
<1>1. TypeInv /\ WriteInv /\ Serving /\ CleanInv
    BY InitTypeInv, InitWriteInv, InitServing, InitCleanInv
<1>2. RawInv
    BY DEF RawInv, Sys!TypeOK, Sys!Phases, Sys!NoResult, Sys!Span, Matches
<1>3. SharedLeakBound /\ Sys!Holding <= fds
    BY <1>1, GotFinite
    DEF CleanInv, LeakBound, SharedLeakBound, Sys!Holding, Busy, TypeInv, TypeOK, ChipTypeOK
<1> QED
    BY <1>1, <1>2, <1>3 DEF CleanInv, DaemonInv, CoherentWhileRoom

(* The process starts again: nothing is open, nothing is flagged.          *)
LEMMA BootLeaks ==
    ASSUME Boot, strays' = 0, phase' = "idle"
    PROVE  SharedLeakBound' /\ (Sys!Holding <= fds)' /\ CoherentWhileRoom'
<1>1. Sys!Holding' = 0 /\ fds' = 0 /\ Cardinality(Got') = 0 /\ Busy' = 0
    BY BootEmpties DEF Sys!Holding
<1>2. CacheCoherent'
    BY DEF Boot, CacheCoherent
<1> QED
    BY <1>1, <1>2 DEF SharedLeakBound, CoherentWhileRoom

(* A step of a system information command, or of the daemon as a whole,    *)
(* keeps the account of the descriptors; and a Set that opens the device   *)
(* while there is room finds a descriptor.                                 *)
LEMMA AssetStepLeaks ==
    ASSUME OnlyRestarts, DaemonInv, TypeInv', WriteInv', phase = "idle", [Next]_vars,
           UNCHANGED sysVars, Counted
    PROVE  /\ strays' \in Nat
           /\ UnknownTypes = {} => strays' = 0
           /\ SharedLeakBound'
           /\ (Sys!Holding <= fds)'
           /\ CoherentWhileRoom'
<1>1. phase' = "idle" /\ Sys!Holding = 0 /\ Sys!Holding' = 0
    BY DEF sysVars, Sys!Holding
<1>2. strays \in Nat /\ strays' \in Nat /\ fds \in Nat /\ fds' \in Nat /\ MaxFds \in Nat
    BY ChipAssumption DEF DaemonInv, TypeInv, TypeOK, ChipTypeOK, Counted
<1>3. Cardinality(Got) \in Nat /\ Busy \in {0, 1} /\ Busy' \in {0, 1}
    BY GotFinite DEF Busy
<1>4. UnknownTypes = {} => strays' = 0
    BY DEF Counted, Stray, DaemonInv, TypeInv, TypeOK, DeviceTypes
<1>5. CASE Boot
    BY <1>1, <1>2, <1>4, <1>5, BootLeaks DEF Counted
<1>6. CASE ~Boot
  <2>1. /\ Cardinality(Got') \in Nat /\ Cardinality(Got) <= Cardinality(Got')
        /\ fds' + Cardinality(Got) + Busy
              <= fds + Cardinality(Got') + Busy' + (IF Stray THEN 1 ELSE 0)
    BY <1>6, DescriptorsMove DEF DaemonInv
  <2>2. strays' = strays + (IF Stray THEN 1 ELSE 0)
    BY <1>2, <1>6 DEF Counted
  <2>3. fds <= Cardinality(Got) + strays + Busy
    BY <1>1, <1>2, <1>3 DEF DaemonInv, SharedLeakBound
  <2>4. SharedLeakBound'
    <3>1. fds' <= Cardinality(Got') + strays' + Busy'
      BY <1>2, <1>3, <2>1, <2>2, <2>3
    <3> QED
      BY <1>1, <1>2, <1>3, <2>1, <3>1 DEF SharedLeakBound
  <2>5. CoherentWhileRoom'
    <3> SUFFICES ASSUME Room' PROVE CacheCoherent'
        BY DEF CoherentWhileRoom
    <3>1. Cardinality(Got) + strays < MaxFds
      BY <1>2, <1>3, <2>1, <2>2 DEF Room
    <3>2. pc = "openWrite" => fds < MaxFds
      BY <1>2, <1>3, <2>3, <3>1 DEF Busy
    <3> QED
      BY <3>1, <3>2, NextCacheCoherent DEF DaemonInv, CoherentWhileRoom, Room
  <2> QED
    BY <1>1, <1>2, <1>4, <2>4, <2>5
<1> QED
    BY <1>5, <1>6

LEMMA AssetStepInv ==
    ASSUME OnlyRestarts, DaemonInv, phase = "idle", [Next]_vars, UNCHANGED sysVars, Counted
    PROVE  DaemonInv'
<1>1. TypeInv' /\ WriteInv' /\ Serving'
    BY NextTypeInv, NextWriteInv, NextServing DEF DaemonInv
<1>2. /\ phase' = "idle" /\ start' = start /\ count' = count /\ done' = done
      /\ buf' = buf /\ result' = result
    BY DEF sysVars
<1>3. RawInv'
  <2>1. ASSUME NEW i \in 1..count, Matches(count) PROVE mem'[start + i - 1] = buf[i]
    <3>1. start \in 0..255 /\ count \in 0..255
      BY DEF DaemonInv, RawInv, Sys!TypeOK
    <3>2. start + i - 1 \in Sys!Span(start, count)
      BY <3>1 DEF Sys!Span
    <3>3. start + i - 1 \in FreeCells
      BY <3>2 DEF DaemonInv, RawInv
    <3>4. mem'[start + i - 1] = mem[start + i - 1]
      BY <3>3, SpansUndisturbed DEF DaemonInv
    <3> QED
      BY <2>1, <3>4 DEF Matches
  <2> QED
    BY <1>2, <2>1 DEF DaemonInv, RawInv, Matches, Sys!TypeOK
<1> QED
    BY <1>1, <1>2, <1>3, OnlyRestarts, AssetStepLeaks DEF DaemonInv

(* Nothing changes.                                                        *)
LEMMA DaemonStutters == ASSUME DaemonInv, UNCHANGED daemonVars PROVE DaemonInv'
<1> USE DEF daemonVars, sysVars
<1>1. TypeInv' /\ WriteInv' /\ Serving' /\ CoherentWhileRoom'
    BY DEF DaemonInv, TypeInv, TypeOK, ChipTypeOK, Busy, Steps, WriteInv, WritePrefix,
           Serving, EepromReadByte, CoherentWhileRoom, Room, Got, CacheCoherent, OnChip
<1>2. RawInv'
    BY DEF DaemonInv, RawInv, Sys!TypeOK, Matches, Written
<1>3. SharedLeakBound' /\ (Sys!Holding <= fds)'
    BY DEF DaemonInv, SharedLeakBound, Sys!Holding, Busy, Got
<1> QED
    BY <1>1, <1>2, <1>3 DEF DaemonInv

(* A raw command that is about to open the device is the only one to hold  *)
(* a descriptor, or to want one, that is not accounted for.                *)
LEMMA RawHasDescriptor ==
    ASSUME DaemonInv, Sys!Opening, Room
    PROVE  fds < MaxFds
<1>1. /\ pc = "idle" /\ fds \in Nat /\ MaxFds \in Nat /\ strays \in Nat
      /\ Cardinality(Got) \in Nat
    BY ChipAssumption, GotFinite DEF DaemonInv, TypeInv, TypeOK, ChipTypeOK, Sys!Opening
<1>2. Busy = 0 /\ Sys!Holding = 0
    BY <1>1 DEF Busy, Sys!Holding, Sys!Opening
<1> QED
    BY <1>1, <1>2 DEF DaemonInv, SharedLeakBound, Room

LEMMA RawStepInv ==
    ASSUME OnlyRestarts, DaemonInv, RawRequest \/ RawTransfer
    PROVE  DaemonInv'
<1>1. pc = "idle" /\ UNCHANGED assetVars /\ strays' = strays
    BY DEF RawRequest, RawTransfer, assetVars, DaemonInv, Sys!Transfer, Sys!ReadOpens,
           Sys!ReadOpenFails, Sys!ReadByte, Sys!ReadReturns, Sys!WriteOpens,
           Sys!WriteOpenFails, Sys!WriteByte, Sys!CloseByte, Sys!WriteReturns
<1>2. mem \in [Addr -> Byte] /\ fds \in 0..MaxFds /\ MaxFds \in Nat
    BY ChipAssumption DEF DaemonInv, TypeInv, TypeOK, ChipTypeOK
<1>3. RawStepGood
    BY <1>2, OnlyRestarts, RawTakes, RawMoves DEF DaemonInv, RawRequest, RawTransfer
<1>4. Got' = Got /\ Busy' = 0 /\ Busy = 0
    BY <1>1 DEF Got, Busy, assetVars
<1>5. TypeInv' /\ WriteInv' /\ Serving'
    BY <1>1, <1>3, AssetsUndisturbed DEF DaemonInv, RawStepGood
<1>6. CoherentWhileRoom'
    BY <1>1, <1>3, <1>4, AssetsUndisturbed DEF DaemonInv, RawStepGood, CoherentWhileRoom, Room
<1>7. SharedLeakBound' /\ Sys!Holding' <= fds'
  <2>1. Sys!Holding \in {0, 1} /\ Sys!Holding' \in {0, 1}
    BY DEF Sys!Holding
  <2>2. /\ fds <= Cardinality(Got) + strays + Sys!Holding /\ Sys!Holding <= fds
        /\ Cardinality(Got) \in Nat /\ strays \in Nat
    BY <1>4, <2>1, GotFinite DEF DaemonInv, SharedLeakBound
  <2>3. /\ fds' \in Nat /\ fds \in Nat
        /\ \/ fds' = fds /\ Sys!Holding' = Sys!Holding
           \/ fds' = fds + 1 /\ Sys!Holding = 0 /\ Sys!Holding' = 1
           \/ fds' = fds - 1 /\ Sys!Holding = 1 /\ Sys!Holding' = 0
    BY <1>2, <1>3 DEF RawStepGood
  <2>4. fds' <= Cardinality(Got) + strays + Sys!Holding' /\ Sys!Holding' <= fds'
    BY <2>2, <2>3
  <2>5. Cardinality(Got') = Cardinality(Got)
    BY <1>4
  <2> QED
    BY <1>1, <1>4, <2>1, <2>2, <2>4, <2>5 DEF SharedLeakBound
<1> QED
    BY <1>1, <1>3, <1>5, <1>6, <1>7 DEF DaemonInv, RawStepGood, assetVars

LEMMA RawEndsInv == ASSUME DaemonInv, RawEnds PROVE DaemonInv'
<1>1. Boot /\ Sys!Forget /\ strays' = 0
    BY DEF RawEnds
<1>2. TypeInv'
    BY <1>1, ZeroBlock, ChipAssumption, TypesAssumption
    DEF DaemonInv, TypeInv, TypeOK, ChipTypeOK, Busy, Steps, DeviceTypes, Boot,
        ProcessEnds, NoReply
<1>3. WriteInv' /\ Serving'
    BY <1>1 DEF Boot, WriteInv, WritePrefix, Serving
<1>4. RawInv' /\ phase' = "idle"
    BY <1>1 DEF Sys!Forget, RawInv, Sys!TypeOK, Sys!Phases, Sys!NoResult, Sys!Span, Matches
<1> QED
    BY <1>1, <1>2, <1>3, <1>4, BootLeaks DEF DaemonInv

LEMMA DaemonInvariant == OnlyRestarts => (DaemonSpec => []DaemonInv)
<1> SUFFICES ASSUME OnlyRestarts PROVE DaemonSpec => []DaemonInv
    OBVIOUS
<1>1. DaemonInit => DaemonInv
    BY InitDaemonInv
<1>2. DaemonInv /\ [DaemonNext]_daemonVars => DaemonInv'
  <2> SUFFICES ASSUME DaemonInv, [DaemonNext]_daemonVars PROVE DaemonInv'
    OBVIOUS
  <2>1. CASE AssetStep
    BY <2>1, AssetStepInv DEF AssetStep
  <2>2. CASE RawRequest \/ RawTransfer
    BY <2>2, RawStepInv
  <2>3. CASE RawEnds
    BY <2>3, RawEndsInv
  <2>4. CASE UNCHANGED daemonVars
    BY <2>4, DaemonStutters
  <2> QED
    BY <2>1, <2>2, <2>3, <2>4 DEF DaemonNext
<1> QED
    BY <1>1, <1>2, PTL DEF DaemonSpec

-----------------------------------------------------------------------------
(* When no call fails, RAM and EEPROM agree on every loaded block between  *)
(* requests, although raw commands write the same chip (bios.cpp 340-346,  *)
(* i2c.cpp 121-168), until blocks loaded and requests for types that are   *)
(* not stored (bios.cpp 229-232) have used up the descriptors.             *)
THEOREM SharedCoherence == OnlyRestarts => (DaemonSpec => []CoherentWhileRoom)
<1>1. DaemonInv => CoherentWhileRoom
    BY DEF DaemonInv
<1> QED
    BY <1>1, DaemonInvariant, PTL

(* When no call fails, the open descriptors are those of the handler in    *)
(* progress, one for each block loaded (bios.cpp 258-262) and one for each *)
(* request for a type that is not stored (bios.cpp 229-232).               *)
THEOREM SharedLeaksBounded == OnlyRestarts => (DaemonSpec => []SharedLeakBound)
<1>1. DaemonInv => SharedLeakBound
    BY DEF DaemonInv
<1> QED
    BY <1>1, DaemonInvariant, PTL

(* When no call fails, what a raw command answered with or stored is on    *)
(* the chip until the next raw command (i2c.cpp 91-168).                   *)
THEOREM RawAnswersOnChip == OnlyRestarts => (DaemonSpec => []RawAnswerOnChip)
<1>1. DaemonInv => RawAnswerOnChip
    BY DEF DaemonInv, RawInv, RawAnswerOnChip, Matches
<1> QED
    BY <1>1, DaemonInvariant, PTL

(* When no call fails, a raw command whose lengths are right is refused    *)
(* only once the other provider's blocks and stray requests have used up   *)
(* the descriptors (i2c.cpp 103-107, 145-151; bios.cpp 229-232).           *)
THEOREM RawRefusedOnlyWhenFull == OnlyRestarts => (DaemonSpec => RawServed)
<1> SUFFICES ASSUME OnlyRestarts PROVE DaemonSpec => RawServed
    OBVIOUS
<1>1. DaemonInv /\ [DaemonNext]_daemonVars
         => [phase # "idle" /\ phase' = "idle" /\ result' = Sys!Invalid => ~Room]_daemonVars
  <2> SUFFICES ASSUME DaemonInv, DaemonNext, phase # "idle", phase' = "idle",
                      result' = Sys!Invalid
               PROVE  ~Room
    BY DEF daemonVars, sysVars
  <2>1. ~AssetStep
    BY DEF AssetStep
  <2>2. ~RawRequest
    BY DEF RawRequest, Sys!Request, Sys!WrongLength, Sys!ReadEEPROM, Sys!WriteRefused,
           Sys!WriteEEPROM, Sys!Begin
  <2>3. ~RawEnds
    BY DEF RawEnds, Sys!Forget, Sys!NoResult, Sys!Invalid
  <2>4. CASE RawTransfer
    <3>1. ~Sys!ReadReturns /\ ~Sys!WriteReturns
      BY DEF Sys!ReadReturns, Sys!WriteReturns, Sys!Finish, Sys!Ok, Sys!Invalid
    <3>2. Sys!OpenFails /\ Sys!Opening
      BY <2>4, <3>1
      DEF RawTransfer, Sys!Transfer, Sys!ReadOpens, Sys!ReadByte, Sys!WriteOpens,
          Sys!WriteByte, Sys!CloseByte, Sys!ReadOpenFails, Sys!WriteOpenFails, Sys!Opening
    <3>3. fds = MaxFds /\ MaxFds \in Nat
      BY <3>2, RawOpens, OnlyRestarts, ChipAssumption
    <3> QED
      BY <3>2, <3>3, RawHasDescriptor
  <2> QED
    BY <2>1, <2>2, <2>3, <2>4 DEF DaemonNext
<1> QED
    BY <1>1, DaemonInvariant, PTL DEF DaemonSpec, RawServed

-----------------------------------------------------------------------------
(* Whatever fails.  What is left of DaemonInv when transfers and opens may *)
(* fail: nothing relates what is in RAM to what is on the chip, but every  *)
(* variable has its type, a raw command is confined to its span, and each  *)
(* handler closes only a descriptor that is open.                          *)
RawSafe ==
    /\ Sys!TypeOK
    /\ Sys!Span(start, count) \subseteq FreeCells

SafeInv ==
    /\ TypeInv
    /\ WriteInv
    /\ Serving
    /\ RawSafe
    /\ pc = "idle" \/ phase = "idle"
    /\ Sys!Holding <= fds
    /\ strays \in Nat

(* A raw step: it keeps the types, and the one cell it may change is in    *)
(* its span.                                                               *)
RawStepSafe ==
    /\ RawSafe'
    /\ fds' \in 0..MaxFds
    /\ Sys!Holding' <= fds'
    /\ \/ mem' = mem
       \/ /\ phase = "write"
          /\ \E a \in Sys!Span(start, count) : \E d \in Byte :
                mem' = [mem EXCEPT ![a] = d]

LEMMA RawTakesSafely ==
    ASSUME RawSafe, fds \in 0..MaxFds, Sys!Request
    PROVE  RawStepSafe
<1> USE DEF RawStepSafe, Sys!Holding
<1>1. ASSUME NEW r, phase = "idle", Sys!Finish(r), UNCHANGED chipVars, r.cc \in {"badlen", "invalid"}
      PROVE  RawStepSafe
    BY <1>1 DEF Sys!Finish, RawSafe, Sys!TypeOK, Sys!Phases, chipVars
<1>2. CASE Sys!WrongLength
    BY <1>1, <1>2 DEF Sys!WrongLength, Sys!BadLen, Sys!chipVars, chipVars
<1>3. ASSUME NEW w \in Writes, Sys!WriteRefused(w) PROVE RawStepSafe
    BY <1>1, <1>3 DEF Sys!WriteRefused, Sys!Invalid, Sys!chipVars, chipVars
<1>4. ASSUME NEW step \in {"openRead", "openWrite"}, NEW offset, NEW len, NEW bytes,
             Sys!Begin(step, offset, len, bytes),
             offset \in 0..255, len \in 0..255, bytes \in Seq(Byte),
             step = "openRead" => Len(bytes) = 0,
             step = "openWrite" => Len(bytes) = len,
             Sys!Span(offset, len) \subseteq FreeCells
      PROVE  RawStepSafe
  <2>1. /\ phase' = step /\ start' = offset /\ count' = len
        /\ done' = 0 /\ buf' = bytes /\ result' = Sys!NoResult
        /\ mem' = mem /\ fds' = fds
    BY <1>4 DEF Sys!Begin, Sys!chipVars
  <2>2. Sys!Span(start', count') \subseteq FreeCells /\ FreeCells \subseteq Addr
    BY <1>4, <2>1 DEF FreeCells
  <2>3. Sys!TypeOK'
    BY <1>4, <2>1, <2>2 DEF Sys!TypeOK, Sys!Phases, Sys!NoResult, Sys!Span
  <2> QED
    BY <1>4, <2>1, <2>2, <2>3 DEF RawSafe
<1>5. ASSUME NEW r \in Reads, Sys!ReadEEPROM(r) PROVE RawStepSafe
  <2>1. <<>> \in Seq(Byte) /\ Len(<<>>) = 0
    OBVIOUS
  <2> QED
    BY <1>4, <1>5, <2>1, ReadsAssumption DEF Sys!ReadEEPROM
<1>6. ASSUME NEW w \in Writes, Sys!WriteEEPROM(w) PROVE RawStepSafe
    BY <1>4, <1>6, WritesAssumption DEF Sys!WriteEEPROM
<1> QED
    BY <1>2, <1>3, <1>5, <1>6 DEF Sys!Request

LEMMA RawMovesSafely ==
    ASSUME RawSafe, mem \in [Addr -> Byte], fds \in 0..MaxFds, Sys!Holding <= fds,
           Sys!Transfer
    PROVE  RawStepSafe
<1> USE DEF RawStepSafe, Sys!Holding
<1>0. /\ Sys!TypeOK /\ Sys!Span(start, count) \subseteq FreeCells
      /\ FreeCells \subseteq Addr /\ MaxFds \in Nat /\ Erased \in Byte
    BY ChipAssumption DEF RawSafe, FreeCells
<1>1. CASE Sys!ReadOpens \/ Sys!WriteOpens
  <2>1. /\ phase' \in {"read", "write"} /\ UNCHANGED <<mem, start, count, done, buf, result>>
        /\ fds' = fds + 1 /\ fds < MaxFds
        /\ phase' = "read" => Len(buf) = done
        /\ phase' = "write" => Len(buf) = count /\ done < count
    BY <1>0, <1>1 DEF Sys!ReadOpens, Sys!WriteOpens, Sys!EepromOpens, Sys!TypeOK
  <2>2. Sys!TypeOK'
    BY <1>0, <2>1 DEF Sys!TypeOK, Sys!Phases
  <2> QED
    BY <1>0, <2>1, <2>2 DEF RawSafe
<1>2. CASE Sys!ReadOpenFails \/ Sys!WriteOpenFails
  <2>1. /\ phase' = "idle" /\ UNCHANGED <<mem, start, count, done, buf>>
        /\ result' = Sys!Invalid /\ fds' \in 0..MaxFds
    BY <1>0, <1>2
    DEF Sys!ReadOpenFails, Sys!WriteOpenFails, Sys!OpenFails, Sys!Finish,
        Sys!OpenRefused, Sys!OpenAbandoned, Sys!EepromOpens
  <2> QED
    BY <1>0, <2>1 DEF RawSafe, Sys!TypeOK, Sys!Phases, Sys!Invalid
<1>3. CASE Sys!ReadByte
  <2>1. PICK b \in Sys!EepromReadByte(start + done) : buf' = Append(buf, b)
    BY <1>3 DEF Sys!ReadByte
  <2>2. /\ phase = "read" /\ done < count /\ done' = done + 1
        /\ UNCHANGED <<mem, fds, phase, start, count, result>>
    BY <1>3 DEF Sys!ReadByte
  <2>3. start + done \in Addr /\ done \in Nat /\ done + 1 \in 0..count
    BY <1>0, <2>2, NextCell
  <2>4. b \in Byte /\ buf \in Seq(Byte) /\ Len(buf) = done
    BY <1>0, <2>1, <2>2, <2>3 DEF Sys!TypeOK, Sys!EepromReadByte
  <2>5. buf' \in Seq(Byte) /\ Len(buf') = done + 1
    BY <2>1, <2>3, <2>4
  <2>6. Sys!TypeOK'
    BY <1>0, <2>2, <2>3, <2>5 DEF Sys!TypeOK
  <2> QED
    BY <1>0, <2>2, <2>6 DEF RawSafe
<1>4. CASE Sys!ReadReturns
    BY <1>0, <1>4
    DEF Sys!ReadReturns, Sys!EepromClose, Sys!Finish, Sys!Ok, RawSafe, Sys!TypeOK, Sys!Phases
<1>5. CASE Sys!WriteByte
  <2>1. /\ phase = "write" /\ phase' = "closeByte"
        /\ UNCHANGED <<fds, start, count, done, buf, result>>
    BY <1>5 DEF Sys!WriteByte
  <2>2. done < count
    BY <1>0, <2>1 DEF Sys!TypeOK
  <2>3. start + done \in Sys!Span(start, count) /\ done + 1 \in 1..count
    BY <1>0, <2>2, NextCell
  <2>4. buf[done + 1] \in Byte
    BY <1>0, <2>1, <2>3 DEF Sys!TypeOK
  <2>5. \/ mem' = mem
        \/ mem' = [mem EXCEPT ![start + done] = buf[done + 1]]
    BY <1>5 DEF Sys!WriteByte, Sys!EepromWriteFails, Sys!EepromWriteByte
  <2>6. RawSafe'
    BY <1>0, <2>1, <2>2 DEF RawSafe, Sys!TypeOK, Sys!Phases
  <2> QED
    BY <1>0, <2>1, <2>3, <2>4, <2>5, <2>6
<1>6. CASE Sys!CloseByte
    BY <1>0, <1>6
    DEF Sys!CloseByte, Sys!EepromClose, RawSafe, Sys!TypeOK, Sys!Phases
<1>7. CASE Sys!WriteReturns
    BY <1>0, <1>7
    DEF Sys!WriteReturns, Sys!Finish, Sys!Ok, RawSafe, Sys!TypeOK, Sys!Phases, Sys!chipVars
<1> QED
    BY <1>1, <1>2, <1>3, <1>4, <1>5, <1>6, <1>7 DEF Sys!Transfer

(* The blocks are out of the reach of a raw step.                          *)
LEMMA RawSparesBlocks ==
    ASSUME RawSafe, RawStepSafe, mem \in [Addr -> Byte]
    PROVE  /\ mem' \in [Addr -> Byte]
           /\ \A t \in Types : \A i \in Idx(t) : mem'[Base[t] + i] = mem[Base[t] + i]
           /\ \A a \in Addr :
                 mem'[a] # mem[a] => phase = "write" /\ a \in Sys!Span(start, count)
<1>1. CASE mem' = mem
    BY <1>1
<1>2. ASSUME phase = "write", NEW a \in Sys!Span(start, count), NEW d \in Byte,
             mem' = [mem EXCEPT ![a] = d]
      PROVE  /\ mem' \in [Addr -> Byte]
             /\ \A t \in Types : \A i \in Idx(t) : mem'[Base[t] + i] = mem[Base[t] + i]
             /\ \A b \in Addr :
                   mem'[b] # mem[b] => phase = "write" /\ b \in Sys!Span(start, count)
  <2>1. a \in FreeCells /\ a \in Addr
    BY DEF RawSafe, FreeCells
  <2> QED
    BY <1>2, <2>1, RawWriteSpares
<1> QED
    BY <1>1, <1>2 DEF RawStepSafe

LEMMA InitSafeInv == DaemonInit => SafeInv
<1> SUFFICES ASSUME DaemonInit PROVE SafeInv
    OBVIOUS
<1>1. TypeInv /\ WriteInv /\ Serving
    BY InitTypeInv, InitWriteInv, InitServing DEF DaemonInit
<1>2. RawSafe
    BY DEF DaemonInit, Sys!SysInit, RawSafe, Sys!TypeOK, Sys!Phases, Sys!NoResult, Sys!Span
<1>3. phase = "idle" /\ Sys!Holding <= fds
    BY <1>1 DEF DaemonInit, Sys!SysInit, Sys!Holding, TypeInv, TypeOK, ChipTypeOK
<1> QED
    BY <1>1, <1>2, <1>3 DEF SafeInv, DaemonInit

(* A raw command moves none of the variables of the other provider.        *)
LEMMA RawKeepsAssets ==
    ASSUME SafeInv, RawRequest \/ RawTransfer
    PROVE  pc = "idle" /\ UNCHANGED assetVars /\ RawStepSafe
<1>1. pc = "idle" /\ UNCHANGED assetVars
    BY DEF RawRequest, RawTransfer, assetVars, SafeInv, Sys!Transfer, Sys!ReadOpens,
           Sys!ReadOpenFails, Sys!ReadByte, Sys!ReadReturns, Sys!WriteOpens,
           Sys!WriteOpenFails, Sys!WriteByte, Sys!CloseByte, Sys!WriteReturns
<1>2. mem \in [Addr -> Byte] /\ fds \in 0..MaxFds
    BY DEF SafeInv, TypeInv, TypeOK, ChipTypeOK
<1> QED
    BY <1>1, <1>2, RawTakesSafely, RawMovesSafely DEF SafeInv, RawRequest, RawTransfer

LEMMA NextSafeInv == SafeInv /\ [DaemonNext]_daemonVars => SafeInv'
<1> SUFFICES ASSUME SafeInv, [DaemonNext]_daemonVars PROVE SafeInv'
    OBVIOUS
<1>1. ASSUME [Next]_vars, UNCHANGED sysVars, phase = "idle" \/ UNCHANGED vars,
             strays' \in Nat
      PROVE  SafeInv'
  <2>1. TypeInv' /\ WriteInv' /\ Serving'
    BY <1>1, NextTypeInv, NextWriteInv, NextServing DEF SafeInv
  <2>2. RawSafe'
    BY <1>1 DEF sysVars, SafeInv, RawSafe, Sys!TypeOK
  <2>3. (pc = "idle" \/ phase = "idle")'
    BY <1>1 DEF sysVars, vars, SafeInv
  <2>4. (Sys!Holding <= fds)'
    BY <1>1, <2>1 DEF sysVars, vars, SafeInv, Sys!Holding, TypeInv, TypeOK, ChipTypeOK
  <2> QED
    BY <1>1, <2>1, <2>2, <2>3, <2>4 DEF SafeInv
<1>2. CASE AssetStep
  <2>1. strays' \in Nat
    BY <1>2 DEF AssetStep, Counted, SafeInv
  <2> QED
    BY <1>1, <1>2, <2>1 DEF AssetStep
<1>3. CASE RawRequest \/ RawTransfer
  <2>1. pc = "idle" /\ UNCHANGED assetVars /\ RawStepSafe
    BY <1>3, RawKeepsAssets
  <2>2. mem \in [Addr -> Byte] /\ RawSafe
    BY DEF SafeInv, TypeInv, TypeOK, ChipTypeOK
  <2>3. TypeInv' /\ WriteInv'
    BY <2>1, <2>2, RawSparesBlocks, AssetsUndisturbed DEF SafeInv, RawStepSafe
  <2>4. Serving'
    BY <2>1 DEF assetVars, Serving
  <2> QED
    BY <1>3, <2>1, <2>3, <2>4 DEF SafeInv, RawStepSafe, assetVars, RawRequest, RawTransfer
<1>4. CASE RawEnds
  <2>1. TypeInv'
    BY <1>4, ZeroBlock, ChipAssumption, TypesAssumption
    DEF RawEnds, SafeInv, TypeInv, TypeOK, ChipTypeOK, Busy, Steps, DeviceTypes, Boot,
        ProcessEnds, NoReply
  <2>2. WriteInv' /\ Serving' /\ fds' = 0 /\ pc' = "idle"
    BY <1>4 DEF RawEnds, Boot, ProcessEnds, WriteInv, WritePrefix, Serving
  <2>3. RawSafe' /\ Sys!Holding' = 0
    BY <1>4
    DEF RawEnds, Sys!Forget, RawSafe, Sys!TypeOK, Sys!Phases, Sys!NoResult, Sys!Span,
        Sys!Holding
  <2> QED
    BY <1>4, <2>1, <2>2, <2>3 DEF SafeInv, RawEnds
<1>5. CASE UNCHANGED daemonVars
    BY <1>1, <1>5 DEF daemonVars, vars, SafeInv
<1> QED
    BY <1>2, <1>3, <1>4, <1>5 DEF DaemonNext

LEMMA SafeInvariant == DaemonSpec => []SafeInv
    BY InitSafeInv, NextSafeInv, PTL DEF DaemonSpec

(* Both providers keep their types and never run at once, whatever fails.  *)
THEOREM DaemonTypeCorrect == DaemonSpec => []DaemonTypeOK
<1>1. SafeInv => DaemonTypeOK
    BY DEF SafeInv, TypeInv, RawSafe, DaemonTypeOK
<1> QED
    BY <1>1, SafeInvariant, PTL

(* Every byte of the EEPROM that changes belongs to the request in         *)
(* progress: to the block of the type a Set names (bios.cpp 316-322), or   *)
(* to the span a raw write names (i2c.cpp 143-162), whatever fails and     *)
(* wherever the daemon is killed.                                          *)
THEOREM FootprintKept == DaemonSpec => Footprint
<1>1. ASSUME SafeInv, [DaemonNext]_daemonVars, NEW a \in Addr, mem'[a] # mem[a]
      PROVE  \/ pc = "write" /\ a \in Cells(dev)
             \/ phase = "write" /\ a \in Sys!Span(start, count)
  <2>1. CASE AssetStep
    <3>1. pc = "write" /\ EepromWriteByte(CellAddr(dev, pos), ram[dev][pos])
      BY <1>1, <2>1, ChipSteps DEF AssetStep, SafeInv
    <3>2. dev \in Types /\ pos \in Idx(dev) /\ mem \in [Addr -> Byte]
      BY <1>1, <3>1 DEF SafeInv, TypeInv, TypeOK, ChipTypeOK
    <3>3. a = CellAddr(dev, pos)
      BY <1>1, <3>1, <3>2 DEF EepromWriteByte
    <3> QED
      BY <3>1, <3>2, <3>3, CellsOfBlocks DEF Cells
  <2>2. CASE RawRequest \/ RawTransfer
    <3>1. RawSafe /\ RawStepSafe /\ mem \in [Addr -> Byte]
      BY <1>1, <2>2, RawKeepsAssets DEF SafeInv, TypeInv, TypeOK, ChipTypeOK
    <3> QED
      BY <1>1, <3>1, RawSparesBlocks
  <2>3. CASE RawEnds \/ UNCHANGED daemonVars
    BY <1>1, <2>3 DEF RawEnds, Boot, ProcessEnds, daemonVars
  <2> QED
    BY <1>1, <2>1, <2>2, <2>3 DEF DaemonNext
<1>2. SafeInv /\ [DaemonNext]_daemonVars =>
        [\A a \in Addr : mem'[a] # mem[a] =>
            \/ pc = "write" /\ a \in Cells(dev)
            \/ phase = "write" /\ a \in Sys!Span(start, count)]_daemonVars
    BY <1>1
<1> QED
    BY <1>2, SafeInvariant, PTL DEF DaemonSpec, Footprint

-----------------------------------------------------------------------------
(* To a client of the system information commands the raw commands are not *)
(* there: each of their steps is a stutter of AssetStore, and a restart    *)
(* under one of them is a restart.                                         *)
DaemonNeverRefused == phase = "idle" => NeverRefused

LEMMA DaemonStepImplements ==
    ASSUME SafeInv, SafeInv', DaemonNeverRefused, [DaemonNext]_daemonVars
    PROVE  StoreStep
<1>1. TypeInv /\ TypeInv' /\ WriteInv /\ Serving
    BY DEF SafeInv
<1>2. CASE AssetStep
    BY <1>1, <1>2, StepImplements DEF AssetStep, DaemonNeverRefused
<1>3. CASE RawRequest \/ RawTransfer
  <2>1. pc = "idle" /\ UNCHANGED assetVars /\ RawStepSafe
    BY <1>3, RawKeepsAssets
  <2>2. \A t \in Types : \A i \in Idx(t) : mem'[Base[t] + i] = mem[Base[t] + i]
    BY <1>1, <2>1, RawSparesBlocks DEF SafeInv, TypeInv, TypeOK, ChipTypeOK
  <2>3. Durable' = Durable
    BY <2>1, <2>2 DEF Durable, Region, Writing, assetVars
  <2>4. Served' = Served
    BY <2>1, ServedSame DEF assetVars
  <2> QED
    BY <2>1, <2>3, <2>4 DEF assetVars, InProgress, StoreStep, Store!storeVars
<1>4. CASE RawEnds
    BY <1>1, <1>4, BootImplements
    DEF RawEnds, Sys!Killed, Sys!Exits, Sys!OpenHalts, StoreStep, Store!Next
<1>5. CASE UNCHANGED daemonVars
  <2>1. Durable' = Durable /\ Served' = Served
    BY <1>5, DurableSame, ServedSame DEF daemonVars, Writing
  <2> QED
    BY <1>5, <2>1 DEF daemonVars, InProgress, StoreStep, Store!storeVars
<1> QED
    BY <1>2, <1>3, <1>4, <1>5 DEF DaemonNext

(* With the raw commands of i2c.cpp taken between its own, bios.cpp keeps  *)
(* the promises it keeps alone, for every combination of faults.           *)
THEOREM DaemonImplementsStore ==
    (OnlyRestarts => NothingFails) => (DaemonSpec => StoreSpec)
<1> SUFFICES ASSUME OnlyRestarts => NothingFails
             PROVE  DaemonSpec => StoreSpec
    OBVIOUS
<1>1. DaemonSpec => []DaemonNeverRefused
  <2>1. CASE OnlyRestarts
    <3>1. NothingFails
      BY <2>1
    <3>2. DaemonInv => DaemonNeverRefused
      BY <3>1, GotFinite
      DEF DaemonInv, DaemonNeverRefused, NeverRefused, NothingFails, SharedLeakBound,
          LeakBound, Sys!Holding, Busy
    <3> QED
      BY <2>1, <3>2, DaemonInvariant, PTL
  <2>2. CASE ~OnlyRestarts
    <3>1. DaemonNeverRefused
      BY <2>2 DEF DaemonNeverRefused, NeverRefused
    <3> QED
      BY <3>1, PTL
  <2> QED
    BY <2>1, <2>2
<1>2. SafeInv /\ SafeInv' /\ DaemonNeverRefused /\ [DaemonNext]_daemonVars
        => [Store!Next]_Store!storeVars
    BY DaemonStepImplements DEF StoreStep
<1>3. DaemonInit => Store!Init
    BY InitImplements DEF DaemonInit
<1> QED
    BY <1>1, <1>2, <1>3, SafeInvariant, PTL DEF DaemonSpec, StoreSpec, Store!Spec
=============================================================================
