----------------------------- MODULE CpldVersion -----------------------------
(***************************************************************************)
(* Get CPLD Version (i2c.cpp): two hexadecimal characters of a sysfs file, *)
(* packed into a byte of which the answer shows three bit fields.  The     *)
(* buffer of the characters is not initialised and the read not checked:   *)
(* a character that was not read is whatever the heap held.                *)
(***************************************************************************)
EXTENDS Integers, Sequences

CONSTANTS
    Chars,      \* characters: 0..15 a hexadecimal digit, NotHex any other
    CpldLens,   \* reply lengths requests ask for
    CpldFaults  \* "open": the file cannot be opened

NotHex == 16

ASSUME CpldAssumption ==
    /\ Chars \subseteq 0..NotHex
    /\ CpldLens \subseteq 0..255

VARIABLES
    version,    \* the file: its first characters, at most two
    cpld,       \* "idle", or "decode" with the characters read
    temp,       \* the two characters of the buffer
    shown,      \* history: what the file had for the read, <<>> if not opened
    result      \* completion code, *dataLen and the three numbers

cpldVars == <<version, cpld, temp, shown, result>>

VersionFiles == UNION {[1..n -> Chars] : n \in 0..2}

\* What data[i] is: a character that is no digit leaves the 0 of its initialiser.
HexDigit(c) == IF c = NotHex THEN 0 ELSE c

CpldByte(t) == (HexDigit(t[1]) * 16 + HexDigit(t[2])) % 256

\* Bits 7-5, 4-3 and 2-0.
CpldFields(b) == <<b \div 32, (b % 32) \div 8, b % 8>>

CpldTypeOK ==
    /\ version \in VersionFiles
    /\ cpld \in {"idle", "decode"}
    /\ temp \in [1..2 -> Chars]
    /\ shown \in VersionFiles
    /\ result \in [cc: {"none", "ok", "badlen"}, len: 0..255,
                   fields: (0..7) \X (0..3) \X (0..7)]

CpldInit ==
    /\ version \in VersionFiles
    /\ cpld = "idle"
    /\ temp \in [1..2 -> Chars]
    /\ shown = <<>>
    /\ result = [cc |-> "none", len |-> 0, fields |-> <<0, 0, 0>>]

CpldBadLength ==
    /\ cpld = "idle"
    /\ result' = [cc |-> "badlen", len |-> 0, fields |-> <<0, 0, 0>>]
    /\ UNCHANGED <<version, cpld, temp, shown>>

\* read_cpld_eeprom up to the read: the heap gives what the file does not.
ReadCpld ==
    /\ cpld = "idle"
    /\ shown' \in {version} \cup {f \in {<<>>} : "open" \in CpldFaults}
    /\ temp' \in {t \in [1..2 -> Chars] : \A i \in 1..Len(shown') : t[i] = shown'[i]}
    /\ cpld' = "decode"
    /\ UNCHANGED <<version, result>>

\* The result is always 0 and the answer always ok, of the length asked for.
Decode(len) ==
    /\ cpld = "decode"
    /\ cpld' = "idle"
    /\ result' = [cc |-> "ok", len |-> len, fields |-> CpldFields(CpldByte(temp))]
    /\ UNCHANGED <<version, temp, shown>>

\* The CPLD is programmed with another version.
Programmed ==
    /\ version' \in VersionFiles
    /\ UNCHANGED <<cpld, temp, shown, result>>

CpldNext ==
    \/ CpldBadLength
    \/ ReadCpld
    \/ \E len \in CpldLens : Decode(len)
    \/ Programmed

CpldSpec == CpldInit /\ [][CpldNext]_cpldVars

-----------------------------------------------------------------------------
\* The byte an answer stands for.
Encoded(f) == f[1] * 32 + f[2] * 8 + f[3]

(* An answer made of two characters of the file says what they say: the    *)
(* three fields put together are the byte the CPLD shows.                  *)
AnswerDecodes ==
    cpld = "idle" /\ result.cc = "ok" /\ Len(shown) = 2 =>
        Encoded(result.fields) = HexDigit(shown[1]) * 16 + HexDigit(shown[2])
=============================================================================
