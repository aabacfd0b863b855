------------------------------- MODULE LedStatus -------------------------------
(***************************************************************************)
(* Get LED Status (oemcommands.cpp): the states of three LEDs in one byte, *)
(* two bits for each, read one after the other over D-Bus while the LEDs   *)
(* go on changing.  The table gives On the value 0x10 where its two bits   *)
(* would be 10b: shifted to its place it is a bit of the next LED but one  *)
(* field up, or is lost.  The byte is modelled as the set of its bits.     *)
(***************************************************************************)
EXTENDS Integers

CONSTANT LedFaults  \* "get": a D-Bus call fails

VARIABLES
    led,        \* state of each LED
    ledPhase,   \* "idle", or the LED that is read next
    resp,       \* the bits of the response byte
    ledReply,   \* completion code and *dataLen
    seen        \* history: the states this request has read

ledVars == <<led, ledPhase, resp, ledReply, seen>>

LEDs == {"amber", "green", "identify"}
States == {"Off", "Blink", "On"}

\* actionDbusToIpmi: 0x00, 0x01 and 0x10.
BitsOf(state) == CASE state = "Off" -> {} [] state = "Blink" -> {0} [] state = "On" -> {4}

\* offsetObjPath, in the order of its keys.
Offset(l) == CASE l = "amber" -> 2 [] l = "green" -> 4 [] l = "identify" -> 6

After(l) == CASE l = "amber" -> "green" [] l = "green" -> "identify" [] l = "identify" -> "idle"

Shifted(bits, n) == {b + n : b \in bits} \cap 0..7

Unread == [l \in LEDs |-> "Off"]

LedTypeOK ==
    /\ led \in [LEDs -> States]
    /\ ledPhase \in LEDs \cup {"idle"}
    /\ resp \subseteq 0..7
    /\ ledReply \in [cc: {"none", "ok", "badlen", "unspecified"}, len: {0, 1}]
    /\ seen \in [LEDs -> States]

LedInit ==
    /\ led \in [LEDs -> States]
    /\ ledPhase = "idle"
    /\ resp = {}
    /\ ledReply = [cc |-> "none", len |-> 0]
    /\ seen = Unread

-----------------------------------------------------------------------------
LedBadLength ==
    /\ ledPhase = "idle"
    /\ ledReply' = [cc |-> "badlen", len |-> 0]
    /\ UNCHANGED <<led, ledPhase, resp, seen>>

GetLedStatus ==
    /\ ledPhase = "idle"
    /\ ledPhase' = "amber"
    /\ resp' = {}
    /\ ledReply' = [cc |-> "none", len |-> 0]
    /\ seen' = Unread
    /\ UNCHANGED led

LedReturn(cc) ==
    /\ ledPhase' = "idle"
    /\ ledReply' = [cc |-> cc, len |-> IF cc = "ok" THEN 1 ELSE 0]

\* (mutant) the last LED overwrites the others.
GetLEDState_Overwrites ==
    /\ ledPhase # "idle"
    /\ resp' = Shifted(BitsOf(led[ledPhase]), Offset(ledPhase))
    /\ seen' = [seen EXCEPT ![ledPhase] = led[ledPhase]]
    /\ IF After(ledPhase) = "idle" THEN LedReturn("ok")
       ELSE ledPhase' = After(ledPhase) /\ UNCHANGED ledReply
    /\ UNCHANGED led

GetLEDState ==
    /\ ledPhase # "idle"
    /\ resp' = resp \cup Shifted(BitsOf(led[ledPhase]), Offset(ledPhase))
    /\ seen' = [seen EXCEPT ![ledPhase] = led[ledPhase]]
    /\ IF After(ledPhase) = "idle" THEN LedReturn("ok")
       ELSE ledPhase' = After(ledPhase) /\ UNCHANGED ledReply
    /\ UNCHANGED led

GetLEDStateFails ==
    /\ ledPhase # "idle"
    /\ "get" \in LedFaults
    /\ LedReturn("unspecified")
    /\ UNCHANGED <<led, resp, seen>>

\* The LED manager changes a LED.
LedChanges ==
    /\ \E l \in LEDs, s \in States : led' = [led EXCEPT ![l] = s]
    /\ UNCHANGED <<ledPhase, resp, ledReply, seen>>

LedNext ==
    \/ LedBadLength \/ GetLedStatus
    \/ GetLEDState \/ GetLEDStateFails
    \/ LedChanges

LedSpec == LedInit /\ [][LedNext]_ledVars

-----------------------------------------------------------------------------
Field(l) == {b - Offset(l) : b \in {b \in resp : b \div 2 = Offset(l) \div 2}}

(* An answer tells exactly which LEDs were blinking when they were read,    *)
(* each at its moment, however they change between the reads: "01b = Blink" *)
(* in the LED's own field and nothing in any other.  What it tells of an    *)
(* LED that is On is what the table makes of it: the same as of one that is *)
(* off, and for amber that System Identify blinks.                          *)
ShowsWhatWasRead ==
    ledReply.cc = "ok" =>
        \A l \in LEDs :
            Field(l) = IF \/ seen[l] = "Blink"
                          \/ l = "identify" /\ seen["amber"] = "On"
                       THEN {0} ELSE {}

(* The comment in ipmiOEMGetLEDStatus: "00b = Off", "01b = Blink" and       *)
(* "10b = On" in the two bits of each LED.                                  *)
ShownAsCommented ==
    ledReply.cc = "ok" =>
        \A l \in LEDs :
            Field(l) = CASE seen[l] = "Off" -> {} [] seen[l] = "Blink" -> {0}
                         [] seen[l] = "On" -> {1}
=============================================================================
