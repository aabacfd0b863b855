------------------------ MODULE EepromWriteCycle_proofs ------------------------
(***************************************************************************)
(* The fixed sleep of 24cXX.c is enough, for every chip whose write cycle  *)
(* it covers, and every length of block.                                   *)
(***************************************************************************)
EXTENDS EepromWriteCycle, TLAPS

(* The numbers, apart from the flags.                                      *)
Counters ==
    /\ busy \in 0..MaxCycle
    /\ sleep \in 0..Delay
    /\ todo \in 0..BlockLen

(* The address pointer is set for a byte that is still to be read.         *)
Flags ==
    /\ loop \in {"none", "write", "read"}
    /\ pointed \in BOOLEAN
    /\ refused \in BOOLEAN
    /\ pointed => loop = "read" /\ todo > 0

LEMMA FlagsInvariant == Spec => []Flags
<1>1. Init => Flags
    BY DEF Init, Flags
<1>2. Flags /\ [Next]_vars => Flags'
  <2> SUFFICES ASSUME Flags, [Next]_vars PROVE Flags'
    OBVIOUS
  <2> USE DEF Flags
  <2>1. ASSUME NEW l \in {"write", "read"}, Begin(l) PROVE Flags'
    BY <2>1 DEF Begin
  <2>2. CASE WriteByte
    BY <2>2 DEF WriteByte, BusWrite, Continue
  <2>3. CASE PointAt
    BY <2>3 DEF PointAt, BusWrite
  <2>4. CASE FetchByte
    BY <2>4 DEF FetchByte
  <2>5. CASE End
    BY <2>5 DEF End
  <2>6. CASE Tick
    BY <2>6 DEF Tick
  <2>7. CASE UNCHANGED vars
    BY <2>7 DEF vars
  <2> QED
    BY <2>1, <2>2, <2>3, <2>4, <2>5, <2>6, <2>7 DEF Next
<1> QED
    BY <1>1, <1>2, PTL DEF Spec

LEMMA CountersInvariant == Spec => []Counters
<1>1. Init => Counters
    BY TimeAssumption DEF Init, Counters
<1>2. Counters /\ Flags /\ [Next]_vars => Counters'
  <2> SUFFICES ASSUME Counters, Flags, [Next]_vars PROVE Counters'
    OBVIOUS
  <2> USE TimeAssumption DEF Counters
  <2>1. ASSUME NEW l \in {"write", "read"}, Begin(l) PROVE Counters'
    BY <2>1 DEF Begin
  <2>2. CASE WriteByte
    <3>1. sleep' = Delay /\ todo > 0
      BY <2>2 DEF WriteByte, BusWrite
    <3>2. \/ UNCHANGED <<busy, todo>>
          \/ busy' \in 1..MaxCycle /\ todo' = todo - 1
      BY <2>2 DEF WriteByte
    <3> QED
      BY <3>1, <3>2
  <2>3. CASE PointAt
    <3>1. sleep' = Delay /\ busy' = busy /\ todo > 0
      BY <2>3 DEF PointAt, BusWrite
    <3>2. todo' = todo \/ todo' = todo - 1
      BY <2>3 DEF PointAt
    <3> QED
      BY <3>1, <3>2
  <2>4. CASE FetchByte
    <3>1. todo > 0
      BY <2>4, Zenon DEF FetchByte, Flags
    <3>2. UNCHANGED <<busy, sleep>> /\ todo' = todo - 1
      BY <2>4 DEF FetchByte
    <3> QED
      BY <3>1, <3>2
  <2>5. CASE End
    BY <2>5 DEF End
  <2>6. CASE Tick
    BY <2>6 DEF Tick, Elapse
  <2>7. CASE UNCHANGED vars
    BY <2>7 DEF vars
  <2> QED
    BY <2>1, <2>2, <2>3, <2>4, <2>5, <2>6, <2>7 DEF Next
<1> QED
    BY <1>1, <1>2, FlagsInvariant, PTL DEF Spec

(* Every variable of the timed driver keeps its type.                      *)
THEOREM TypeCorrect == Spec => []TypeOK
<1>1. Counters /\ Flags => TypeOK
    BY DEF Counters, Flags, TypeOK
<1> QED
    BY <1>1, CountersInvariant, FlagsInvariant, PTL

-----------------------------------------------------------------------------
(* The chip is never busy longer than the driver sleeps.                   *)
Covered == busy <= sleep

LEMMA CoveredInvariant == ASSUME MaxCycle <= Delay PROVE Spec => []Covered
<1>1. Init => Covered
    BY DEF Init, Covered
<1>2. Counters /\ Covered /\ [Next]_vars => Covered'
  <2> SUFFICES ASSUME Counters, Covered, [Next]_vars PROVE Covered'
    OBVIOUS
  <2> USE TimeAssumption DEF Counters, Covered
  <2>1. ASSUME NEW l \in {"write", "read"}, Begin(l) PROVE Covered'
    BY <2>1 DEF Begin
  <2>2. CASE WriteByte
    <3>1. sleep' = Delay
      BY <2>2 DEF WriteByte, BusWrite
    <3>2. busy' = busy \/ busy' \in 1..MaxCycle
      BY <2>2 DEF WriteByte
    <3> QED
      BY <3>1, <3>2
  <2>3. CASE PointAt
    BY <2>3 DEF PointAt, BusWrite
  <2>4. CASE FetchByte
    BY <2>4 DEF FetchByte
  <2>5. CASE End
    BY <2>5 DEF End
  <2>6. CASE Tick
    BY <2>6 DEF Tick, Elapse
  <2>7. CASE UNCHANGED vars
    BY <2>7 DEF vars
  <2> QED
    BY <2>1, <2>2, <2>3, <2>4, <2>5, <2>6, <2>7 DEF Next
<1> QED
    BY <1>1, <1>2, CountersInvariant, PTL DEF Spec

(* A driver that sleeps at least as long as the chip's longest write cycle *)
(* never has a transfer refused.                                           *)
THEOREM SleepSuffices == ASSUME MaxCycle <= Delay PROVE Spec => []NeverRefused
<1>1. Init => NeverRefused
    BY DEF Init, NeverRefused
<1>2. Counters /\ Covered /\ NeverRefused /\ [Next]_vars => NeverRefused'
  <2> SUFFICES ASSUME Counters, Covered, NeverRefused, [Next]_vars PROVE NeverRefused'
    OBVIOUS
  <2>1. Awake => busy = 0
    BY TimeAssumption DEF Counters, Covered, Awake
  <2>2. CASE Awake /\ refused' = (busy # 0)
    BY <2>1, <2>2 DEF NeverRefused
  <2>3. CASE refused' = FALSE \/ refused' = refused
    BY <2>3 DEF NeverRefused
  <2> QED
    BY <2>2, <2>3, Zenon
    DEF Next, Begin, WriteByte, BusWrite, PointAt, FetchByte, End, Tick, vars
<1> QED
    BY <1>1, <1>2, CountersInvariant, CoveredInvariant, PTL DEF Spec
=============================================================================
