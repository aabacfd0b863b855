--------------------------- MODULE EepromWriteCycle ---------------------------
(***************************************************************************)
(* Time on the I2C bus, in milliseconds.  A 24Cxx chip that has taken a    *)
(* byte is busy with its internal write cycle and acknowledges nothing     *)
(* until it ends; the driver does not poll the chip, it sleeps for a fixed *)
(* time after each transfer that writes to the bus.  Here the loops of     *)
(* bios.cpp run over that driver, one block after the other.               *)
(***************************************************************************)
EXTENDS Integers

CONSTANTS
    Delay,      \* usleep(3000) of i2c_write_1b, _2b and _3b
    MaxCycle,   \* the longest write cycle of the chip
    BlockLen    \* bytes of a block

ASSUME TimeAssumption ==
    /\ Delay \in Nat
    /\ MaxCycle \in Nat \ {0}
    /\ BlockLen \in Nat \ {0}

VARIABLES
    busy,       \* what is left of the chip's write cycle
    sleep,      \* what is left of the driver's usleep
    loop,       \* the loop that is running
    todo,       \* bytes it has left
    pointed,    \* eeprom_read_byte has set the chip's address pointer
    refused     \* the chip did not acknowledge the last transfer

vars == <<busy, sleep, loop, todo, pointed, refused>>

(* Each variable has its type; what is left to do never falls below zero:  *)
(* a loop makes as many transfers as the block has bytes.                  *)
TypeOK ==
    /\ busy \in 0..MaxCycle
    /\ sleep \in 0..Delay
    /\ loop \in {"none", "write", "read"}
    /\ todo \in 0..BlockLen
    /\ pointed \in BOOLEAN
    /\ refused \in BOOLEAN

Init ==
    /\ busy = 0
    /\ sleep = 0
    /\ loop = "none"
    /\ todo = 0
    /\ pointed = FALSE
    /\ refused = FALSE

\* The daemon runs: it is not inside usleep.
Awake == sleep = 0

Begin(l) ==
    /\ Awake
    /\ loop = "none"
    /\ loop' = l
    /\ todo' = BlockLen
    /\ refused' = FALSE
    /\ UNCHANGED <<busy, sleep, pointed>>

\* (mutants) the sleep is one too short, and left out.
BusWrite_Shorter ==
    /\ Awake
    /\ refused' = (busy # 0)
    /\ sleep' = Delay - 1

BusWrite_NoSleep ==
    /\ Awake
    /\ refused' = (busy # 0)
    /\ UNCHANGED sleep

(* A transfer that writes to the bus: acknowledged by an idle chip only,   *)
(* and followed by the sleep either way.                                   *)
BusWrite ==
    /\ Awake
    /\ refused' = (busy # 0)
    /\ sleep' = Delay

(* The loops end at the first transfer that fails.                         *)
Continue(l) == IF refused' THEN loop' = "none" ELSE loop' = l

\* (mutant) i <= data_len: the loop runs once too often.
WriteByte_OneMore ==
    /\ loop = "write"
    /\ todo >= 0
    /\ BusWrite
    /\ Continue("write")
    /\ IF refused'
       THEN UNCHANGED <<busy, todo>>
       ELSE busy' \in 1..MaxCycle /\ todo' = todo - 1
    /\ UNCHANGED pointed

\* eeprom_write_byte: an acknowledged byte starts a write cycle.
WriteByte ==
    /\ loop = "write"
    /\ todo > 0
    /\ BusWrite
    /\ Continue("write")
    /\ IF refused'
       THEN UNCHANGED <<busy, todo>>
       ELSE busy' \in 1..MaxCycle /\ todo' = todo - 1
    /\ UNCHANGED pointed

\* eeprom_read_byte: first the address, which starts no write cycle.  The read
\* loop of bios.cpp takes a refused byte for an erased one and goes on.
PointAt ==
    /\ loop = "read"
    /\ todo > 0
    /\ ~pointed
    /\ BusWrite
    /\ IF refused' THEN todo' = todo - 1 /\ UNCHANGED pointed
                   ELSE pointed' = TRUE /\ UNCHANGED todo
    /\ UNCHANGED <<busy, loop>>

\* Then the byte.
FetchByte ==
    /\ Awake
    /\ loop = "read"
    /\ pointed
    /\ refused' = (busy # 0)
    /\ pointed' = FALSE
    /\ todo' = todo - 1
    /\ UNCHANGED <<busy, sleep, loop>>

End ==
    /\ Awake
    /\ loop # "none"
    /\ todo = 0
    /\ loop' = "none"
    /\ UNCHANGED <<busy, sleep, todo, pointed, refused>>

Elapse(n) == IF n > 0 THEN n - 1 ELSE 0

\* A millisecond passes, for the chip and for the sleeping driver alike.
Tick ==
    /\ busy > 0 \/ sleep > 0
    /\ busy' = Elapse(busy)
    /\ sleep' = Elapse(sleep)
    /\ UNCHANGED <<loop, todo, pointed, refused>>

Next ==
    \/ Begin("write") \/ Begin("read")
    \/ WriteByte
    \/ PointAt \/ FetchByte
    \/ End
    \/ Tick

Spec == Init /\ [][Next]_vars

(* Time passes, and a loop that has begun runs on.                         *)
FairSpec ==
    /\ Spec
    /\ WF_vars(Tick)
    /\ WF_vars(WriteByte \/ PointAt \/ FetchByte \/ End)

-----------------------------------------------------------------------------
(* The chip is never addressed inside its write cycle, so that no transfer *)
(* of a block write, nor of a read right after one, is refused: a refused  *)
(* write would cut a block short, a refused read would be served as 0xFF.  *)
NeverRefused == ~refused

(* Every block that is begun is written to its last byte.                  *)
BlockWritten == loop = "write" ~> loop = "none" /\ todo = 0
=============================================================================
