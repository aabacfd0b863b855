----------------------------- MODULE EepromDaemon -----------------------------
(***************************************************************************)
(* The two providers of ipmid that share the system EEPROM: the system     *)
(* information commands (AssetInfo, bios.cpp) and the raw EEPROM commands  *)
(* (SysEeprom, i2c.cpp).  They share the chip and the descriptors of the   *)
(* process, and nothing else.                                              *)
(*                                                                         *)
(* ipmid runs a handler to its end before it takes the next request, so    *)
(* the steps of the two never interleave within a request; but what one    *)
(* leaves behind, on the chip or in the descriptor table, the other finds. *)
(***************************************************************************)
EXTENDS AssetInfo, Sequences

CONSTANTS Reads, Writes

VARIABLES phase, start, count, done, buf, result

\* Descriptors that requests for types bios.cpp does not store have left open
\* since the daemon started.  No code reads it.
VARIABLE strays

Sys == INSTANCE SysEeprom

sysVars == <<phase, start, count, done, buf, result>>
daemonVars == <<mem, fds, ram, got, pc, dev, pos, reply, sysVars, strays>>

Cells(t) == Base[t]..(Base[t] + Size[t] - 1)

\* The cells outside every block.
FreeCells == {a \in Addr : \A t \in Types : a \notin Cells(t)}

\* A byte reaches 255, so that the raw commands reach cells 0 to 509; the
\* blocks begin at 16384: theorem RawCellsApart of AssetLayout.
ASSUME ReadsAssumption ==
    \A r \in Reads :
        /\ r.offset \in 0..255 /\ r.len \in 0..255
        /\ Sys!Span(r.offset, r.len) \subseteq FreeCells

ASSUME WritesAssumption ==
    \A w \in Writes :
        /\ w.offset \in 0..255 /\ w.declared \in 0..255
        /\ w.bytes \in Seq(Byte)
        /\ w.declared = Len(w.bytes) =>
              Sys!Span(w.offset, w.declared) \subseteq FreeCells

DaemonInit == Init /\ Sys!SysInit /\ strays = 0

(* A step of a system information command, or one that ends the daemon     *)
(* while no raw command is in progress.                                    *)
Counted ==
    strays' = IF Boot THEN 0 ELSE IF Stray THEN strays + 1 ELSE strays

AssetStep ==
    /\ phase = "idle"
    /\ Next
    /\ Counted
    /\ UNCHANGED sysVars

RawRequest ==
    /\ pc = "idle"
    /\ Sys!Request
    /\ UNCHANGED <<ram, got, pc, dev, pos, reply, strays>>

RawTransfer ==
    /\ Sys!Transfer
    /\ UNCHANGED <<ram, got, pc, dev, pos, reply, strays>>

(* The daemon ends under a raw command; both providers start afresh.       *)
RawEnds ==
    /\ Sys!Killed \/ Sys!Exits
    /\ Sys!Forget
    /\ Boot
    /\ strays' = 0

DaemonNext == AssetStep \/ RawRequest \/ RawTransfer \/ RawEnds

DaemonSpec == DaemonInit /\ [][DaemonNext]_daemonVars

(* A handler that has been entered runs on, as in AssetInfo.               *)
HandlerRuns ==
    \/ phase = "idle" /\ Work /\ Counted /\ UNCHANGED sysVars
    \/ RawTransfer

FairDaemonSpec == DaemonSpec /\ WF_daemonVars(HandlerRuns)

-----------------------------------------------------------------------------
(* Both providers keep their types, and one handler runs at a time.        *)
DaemonTypeOK ==
    /\ TypeOK
    /\ Sys!TypeOK
    /\ pc = "idle" \/ phase = "idle"
    /\ strays \in Nat

(* The descriptors that are open are those of the handler in progress, one *)
(* for each block the system information commands have loaded and one for  *)
(* each request for a type they do not store: the raw commands leave none  *)
(* behind, and a restart leaves none at all.                               *)
SharedLeakBound == fds <= Cardinality(Got) + strays + Busy + Sys!Holding

(* The blocks loaded, and the requests for other types, since the daemon   *)
(* started have not used up the descriptors the process may hold.          *)
Room == Cardinality(Got) + strays < MaxFds

(* As long as there is room, RAM and EEPROM agree on every block flagged   *)
(* as loaded, although raw commands write the same chip.  Beyond that a    *)
(* Set is answered ok and does not reach the chip.                         *)
CoherentWhileRoom == Room => CacheCoherent

(* What a raw command answered with, or stored, is on the chip when it     *)
(* returns ok and for as long as no other raw command is taken, whatever   *)
(* system information commands and restarts come between.                  *)
RawAnswerOnChip ==
    phase = "idle" /\ result.cc = "ok" =>
        \A i \in 1..count : mem[start + i - 1] = buf[i]

(* When no call fails, a raw command whose lengths are right is refused    *)
(* only after blocks loaded and requests for unstored types have used up   *)
(* the descriptors: the raw commands take none away from each other.       *)
RawServed ==
    [][phase # "idle" /\ phase' = "idle" /\ result' = Sys!Invalid => ~Room]_daemonVars

(* Every change of the chip is by the write in progress, inside the block  *)
(* or the span its request names.                                          *)
Footprint ==
    [][\A a \in Addr : mem'[a] # mem[a] =>
          \/ pc = "write" /\ a \in Cells(dev)
          \/ phase = "write" /\ a \in Sys!Span(start, count)]_daemonVars

(* Every request to either provider ends.                                  *)
DaemonAnswers == pc # "idle" \/ phase # "idle" ~> pc = "idle" /\ phase = "idle"
=============================================================================
