------------------------------ MODULE AssetLayout ------------------------------
(***************************************************************************)
(* Where bios.hpp puts the three asset blocks on the EEPROM, and how long  *)
(* the structures are that prepare_eeprom takes sizeof of.                 *)
(***************************************************************************)
EXTENDS Integers, TLAPS

AssetTypes == {"cpu", "mem", "fw"}

PageSize == 64

\* Two pages for each type.
Space == 2 * PageSize

BiosInfoStart == 16 * 1024
BiosInfoEnd == 32 * 1024

SpacesBefore(t) == CASE t = "cpu" -> 0 [] t = "mem" -> 1 [] t = "fw" -> 2

BlockOffset == [t \in AssetTypes |-> BiosInfoStart + SpacesBefore(t) * Space]

(* A uint16_t member begins at an even offset, and a structure that has    *)
(* one has an even size.                                                   *)
AlignUp16(n) == n + (n % 2)

\* Present, ProcessorName, Signature, MicroCode, Maxspeed, Core, UsedCore;
\* L1_Data, L2_Cache, L3_Cache, CPUTDP.
SizeofCpu == AlignUp16(1 + 50 + 8 + 10 + 10 + 1 + 1) + 4 * 2

\* Status, Manufacture, SN_Number; Capacity, Speed.
SizeofMem == AlignUp16(1 + 10 + 10) + 2 * 2

\* DevName, DevRev, BuildTime.
SizeofRevision == 15 + 15 + 20

\* data_len of prepare_eeprom.
BlockSize == [t \in AssetTypes |->
            CASE t = "cpu" -> SizeofCpu
              [] t = "mem" -> 2 * SizeofMem
              [] t = "fw"  -> 2 * SizeofRevision]

(* Each block ends inside the pages bios.hpp reserves for its type, so that*)
(* no block reaches into another's and all lie between                     *)
(* BIOS_INFO_EEPROM_START_ADDR and BIOS_INFO_EEPROM_END_ADDR.              *)
BlocksFit ==
    /\ \A t \in AssetTypes :
          /\ BlockSize[t] \in Nat \ {0}
          /\ BiosInfoStart <= BlockOffset[t]
          /\ BlockOffset[t] + BlockSize[t] <= BiosInfoEnd
    /\ \A s, t \in AssetTypes : s # t =>
          \/ BlockOffset[s] + BlockSize[s] <= BlockOffset[t]
          \/ BlockOffset[t] + BlockSize[t] <= BlockOffset[s]

(* The blocks as bios.hpp lays them out fit, although CPUInfoData takes 90 *)
(* bytes and the two MemInfoData 52, and not the 89 and 100 of the comments*)
(* beside the page counts.                                                 *)
THEOREM LayoutFits == BlocksFit
<1>1. BlockSize = [t \in AssetTypes |->
                     CASE t = "cpu" -> 90 [] t = "mem" -> 52 [] t = "fw" -> 100]
    BY DEF BlockSize, SizeofCpu, SizeofMem, SizeofRevision, AlignUp16
<1>2. BlockOffset = [t \in AssetTypes |->
                     CASE t = "cpu" -> 16384 [] t = "mem" -> 16512 [] t = "fw" -> 16640]
    BY DEF BlockOffset, SpacesBefore, BiosInfoStart, Space, PageSize, AssetTypes
<1> QED
    BY <1>1, <1>2 DEF BlocksFit, AssetTypes, BiosInfoStart, BiosInfoEnd

(* The cells a raw EEPROM command of i2c.cpp can name, one byte of offset  *)
(* and at most 255 bytes from there, are below every asset block.          *)
THEOREM RawCellsApart ==
    \A t \in AssetTypes : \A offset, len \in 0..255 :
        \A a \in offset..(offset + len - 1) : a < BlockOffset[t]
<1> SUFFICES ASSUME NEW t \in AssetTypes, NEW offset \in 0..255, NEW len \in 0..255,
                    NEW a \in offset..(offset + len - 1)
             PROVE  a < BlockOffset[t]
    OBVIOUS
<1>1. BlockOffset = [s \in AssetTypes |->
                     CASE s = "cpu" -> 16384 [] s = "mem" -> 16512 [] s = "fw" -> 16640]
    BY DEF BlockOffset, SpacesBefore, BiosInfoStart, Space, PageSize, AssetTypes
<1>2. BlockOffset[t] \in Int /\ 16384 <= BlockOffset[t]
    BY <1>1 DEF AssetTypes
<1>3. a \in Int /\ a < 16384
    OBVIOUS
<1> QED
    BY <1>2, <1>3
=============================================================================
