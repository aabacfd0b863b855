------------------------------- MODULE SysEeprom -------------------------------
(***************************************************************************)
(* The raw EEPROM commands of i2c.cpp: a client reads or writes a span of  *)
(* the first cells of the system EEPROM.  A read opens the device once; a  *)
(* write opens and closes it for every byte.                               *)
(*                                                                         *)
(* ipmiReadEEPROM and ipmiWriteEEPROM are one request at a time, a step    *)
(* per transfer.  What an error reply carries besides its completion code  *)
(* is left out.                                                            *)
(***************************************************************************)
EXTENDS Eeprom24c, Sequences

CONSTANTS
    Reads,      \* [offset, len]: the two bytes of a read request
    Writes      \* [offset, declared, bytes]: a write request, its length byte, its data

Span(offset, len) == offset..(offset + len - 1)

VARIABLES
    phase,  \* where the raw command in progress is
    start,  \* SYS_EEPROM_OFFSET + offset
    count,  \* len, the bytes to transfer
    done,   \* i, the bytes transferred
    buf,    \* the bytes read so far, or those to write
    result  \* completion code and data, once the command has returned

sysVars == <<phase, start, count, done, buf, result>>

Phases == {"idle", "openRead", "read", "openWrite", "write", "closeByte"}

NoResult == [cc |-> "none", data |-> <<>>]
BadLen == [cc |-> "badlen", data |-> <<>>]
Invalid == [cc |-> "invalid", data |-> <<>>]
Ok(data) == [cc |-> "ok", data |-> data]

SysInit ==
    /\ phase = "idle"
    /\ start = 0
    /\ count = 0
    /\ done = 0
    /\ buf = <<>>
    /\ result = NoResult

Init == ChipInit /\ SysInit

Begin(step, offset, len, bytes) ==
    /\ phase = "idle"
    /\ phase' = step
    /\ start' = offset
    /\ count' = len
    /\ done' = 0
    /\ buf' = bytes
    /\ result' = NoResult
    /\ UNCHANGED chipVars

Finish(r) ==
    /\ phase' = "idle"
    /\ result' = r
    /\ UNCHANGED <<start, count, done, buf>>

OpenFails ==
    /\ OpenRefused \/ OpenAbandoned
    /\ Finish(Invalid)
    /\ UNCHANGED mem

(* Any length but two to the read command, none at all to the write one.   *)
WrongLength ==
    /\ phase = "idle"
    /\ Finish(BadLen)
    /\ UNCHANGED chipVars

-----------------------------------------------------------------------------
ReadEEPROM(r) == Begin("openRead", r.offset, r.len, <<>>)

ReadOpens ==
    /\ phase = "openRead"
    /\ EepromOpens
    /\ phase' = "read"
    /\ UNCHANGED <<mem, start, count, done, buf, result>>

ReadOpenFails == phase = "openRead" /\ OpenFails

ReadByte ==
    /\ phase = "read"
    /\ done < count
    /\ \E b \in EepromReadByte(start + done) : buf' = Append(buf, b)
    /\ done' = done + 1
    /\ UNCHANGED <<mem, fds, phase, start, count, result>>

\* (mutant) the descriptor is left open, as read_asset_info_from_eeprom does.
ReadReturns_Leaks ==
    /\ phase = "read"
    /\ done = count
    /\ Finish(Ok(buf))
    /\ UNCHANGED <<mem, fds>>

ReadReturns ==
    /\ phase = "read"
    /\ done = count
    /\ EepromClose
    /\ Finish(Ok(buf))
    /\ UNCHANGED mem

-----------------------------------------------------------------------------
(* The request's own length byte must be the number of bytes after it.     *)
WriteRefused(w) ==
    /\ phase = "idle"
    /\ w.declared # Len(w.bytes)
    /\ Finish(Invalid)
    /\ UNCHANGED chipVars

\* (mutant) the length byte is believed.
WriteEEPROM_Declared(w) == Begin("openWrite", w.offset, w.declared, w.bytes)

WriteEEPROM(w) ==
    /\ w.declared = Len(w.bytes)
    /\ Begin("openWrite", w.offset, w.declared, w.bytes)

WriteOpens ==
    /\ phase = "openWrite"
    /\ done < count
    /\ EepromOpens
    /\ phase' = "write"
    /\ UNCHANGED <<mem, start, count, done, buf, result>>

(* Bytes already written stay written.                                     *)
WriteOpenFails ==
    /\ phase = "openWrite"
    /\ done < count
    /\ OpenFails

\* (mutant) addr is not advanced.
WriteByte_Stuck ==
    /\ phase = "write"
    /\ EepromWriteByte(start, buf[done + 1])
    /\ phase' = "closeByte"
    /\ UNCHANGED <<fds, start, count, done, buf, result>>

\* (mutant) addr is advanced before the transfer.
WriteByte_Late ==
    /\ phase = "write"
    /\ EepromWriteByte(start + done + 1, buf[done + 1])
    /\ phase' = "closeByte"
    /\ UNCHANGED <<fds, start, count, done, buf, result>>

(* A byte that fails is logged and passed over.                            *)
WriteByte ==
    /\ phase = "write"
    /\ \/ EepromWriteByte(start + done, buf[done + 1])
       \/ EepromWriteFails(start + done, buf[done + 1])
    /\ phase' = "closeByte"
    /\ UNCHANGED <<fds, start, count, done, buf, result>>

\* (mutant) i is not advanced.
CloseByte_Again ==
    /\ phase = "closeByte"
    /\ EepromClose
    /\ phase' = "openWrite"
    /\ UNCHANGED <<mem, start, count, done, buf, result>>

CloseByte ==
    /\ phase = "closeByte"
    /\ EepromClose
    /\ done' = done + 1
    /\ phase' = "openWrite"
    /\ UNCHANGED <<mem, start, count, buf, result>>

WriteReturns ==
    /\ phase = "openWrite"
    /\ done = count
    /\ Finish(Ok(<<0>>))
    /\ UNCHANGED chipVars

-----------------------------------------------------------------------------
Request ==
    \/ WrongLength
    \/ \E r \in Reads : ReadEEPROM(r)
    \/ \E w \in Writes : WriteRefused(w) \/ WriteEEPROM(w)

Transfer ==
    \/ ReadOpens \/ ReadOpenFails \/ ReadByte \/ ReadReturns
    \/ WriteOpens \/ WriteOpenFails \/ WriteByte \/ CloseByte \/ WriteReturns

(* The daemon dies under a command, or exits because the adapter lacks a   *)
(* function.                                                               *)
Opening == phase = "openRead" \/ (phase = "openWrite" /\ done < count)

Killed == phase # "idle" /\ "crash" \in Faults

Exits == Opening /\ OpenHalts

Forget ==
    /\ phase' = "idle"
    /\ start' = 0
    /\ count' = 0
    /\ done' = 0
    /\ buf' = <<>>
    /\ result' = NoResult

-----------------------------------------------------------------------------
TypeOK ==
    /\ phase \in Phases
    /\ start \in 0..255
    /\ count \in 0..255
    /\ done \in 0..count
    /\ buf \in Seq(Byte)
    /\ phase \in {"openRead", "read"} => Len(buf) = done
    /\ phase \in {"openWrite", "write", "closeByte"} => Len(buf) = count
    /\ phase \in {"write", "closeByte"} => done < count
    /\ Span(start, count) \subseteq Addr
    /\ result.cc \in {"none", "ok", "badlen", "invalid"}

(* A descriptor is open exactly while bytes are being transferred.         *)
Holding == IF phase \in {"read", "write", "closeByte"} THEN 1 ELSE 0
=============================================================================
