------------------------------ MODULE FanControl ------------------------------
(***************************************************************************)
(* Set Fan and Get Fan (inspur_cmds.cpp).  The mode of all fans is a       *)
(* number in a file that a shell writes for the daemon; the speed of a fan *)
(* is a D-Bus property.  The two belong together, and are written and read *)
(* one after the other.  A fan service, outside of this repository,        *)
(* regulates the speeds while the file does not say manual.                *)
(***************************************************************************)
EXTENDS Integers

CONSTANTS
    Sensor,     \* the sensors the daemon knows, with their properties
    Unknown,    \* sensor numbers it does not know
    FanModes,   \* mode bytes of requests
    Speeds,     \* readings of a fan
    FanFaults   \* the failures that can happen

ASSUME SensorAssumption ==
    \A s \in DOMAIN Sensor :
        Sensor[s] \in [read: BOOLEAN, write: BOOLEAN, fan: BOOLEAN, control: BOOLEAN]

ASSUME FanInputAssumption == FanModes \subseteq 0..255 /\ Speeds \subseteq 0..255

\* "fork": no child process can be made; "signal": the shell is killed; "exit":
\* the shell reports a failure by its exit status; "update", "get": the D-Bus
\* call fails; "crash": the daemon ends and is restarted.
ASSUME FanFaultAssumption ==
    FanFaults \subseteq {"fork", "signal", "exit", "update", "get", "crash"}

VARIABLES
    modeFile,   \* /usr/bin/fan_mode
    speed,      \* of each sensor
    fanPhase,   \* "idle", or what the handler in progress does next
    fanReq,     \* its sensor, mode and value
    fanReply,   \* completion code, *data_len, mode and value
    held,       \* history: the last Set, if it was answered ok
    wrote       \* history: its shell has written the mode

fanVars == <<modeFile, speed, fanPhase, fanReq, fanReply, held, wrote>>

Manual == 0
Automatic == 1

\* What echo writes.
ModeDigit(mode) == IF mode = Automatic THEN "1" ELSE "0"

\* The first byte cat prints less '0', in a uint8_t; nothing printed is 0 - '0'.
NoMode == 256 - 48
Parsed(f) == CASE f = "0" -> 0 [] f = "1" -> 1 [] OTHER -> NoMode

NoFanReq == [sensor |-> "none", mode |-> 0, value |-> 0]
NoneHeld == [sensor |-> "none", mode |-> 0, value |-> 0]

\* What a request or a reply carries: a reading, or 0 where there is none.
FanValues == Speeds \cup {0}

FanTypeOK ==
    /\ modeFile \in {"absent", "emptied", "0", "1"}
    /\ speed \in [DOMAIN Sensor -> Speeds]
    /\ fanPhase \in {"idle", "truncate", "echo", "update", "getSpeed", "getMode"}
    /\ fanReq \in [sensor: DOMAIN Sensor \cup {"none"}, mode: {Manual, Automatic}, value: FanValues]
    /\ fanReply \in [cc: {"none", "ok", "illegal", "badlen", "sensor", "unspecified"},
                  len: {0, 2}, mode: {0, 1, NoMode}, value: FanValues]
    /\ held \in [sensor: DOMAIN Sensor \cup {"none"}, mode: {Manual, Automatic}, value: FanValues]
    /\ wrote \in BOOLEAN

FanInit ==
    /\ modeFile \in {"absent", "emptied", "0", "1"}
    /\ speed \in [DOMAIN Sensor -> Speeds]
    /\ fanPhase = "idle"
    /\ fanReq = NoFanReq
    /\ fanReply = [cc |-> "none", len |-> 0, mode |-> 0, value |-> 0]
    /\ held = NoneHeld
    /\ wrote = FALSE

-----------------------------------------------------------------------------
FanReturn(cc) ==
    /\ fanPhase' = "idle"
    /\ fanReq' = NoFanReq
    /\ fanReply' = [cc |-> cc, len |-> 0, mode |-> 0, value |-> 0]

FanRefuse(cc) ==
    /\ fanPhase = "idle"
    /\ FanReturn(cc)
    /\ UNCHANGED <<modeFile, speed, held, wrote>>

FanEnter(step, s, mode, value) ==
    /\ fanPhase = "idle"
    /\ fanPhase' = step
    /\ fanReq' = [sensor |-> s, mode |-> mode, value |-> value]
    /\ UNCHANGED <<modeFile, speed, fanReply>>

\* ipmi_set_fan: only bit 0 of the mode may be set; an automatic mode comes
\* without a value, a manual one with it.
SetBadMode(mode) == mode \div 2 # 0 /\ FanRefuse("illegal")

SetBadLength(mode, len) ==
    /\ mode \div 2 = 0
    /\ len # (IF mode = Automatic THEN 2 ELSE 3)
    /\ FanRefuse("illegal")

\* From here on the mode file may change, whatever the reply will be.
SetFan(s, mode, value) ==
    /\ mode \div 2 = 0
    /\ FanEnter("truncate", s, mode, value)
    /\ held' = NoneHeld
    /\ wrote' = FALSE

\* setFanMode: the shell opens the file, which empties it ...
Truncate ==
    /\ fanPhase = "truncate"
    /\ modeFile' = "emptied"
    /\ fanPhase' = "echo"
    /\ UNCHANGED <<speed, fanReq, fanReply, held, wrote>>

\* What setFan does when setFanMode has returned 0.
Sets(s) == Sensor[s].write /\ Sensor[s].fan /\ Sensor[s].control

\* (mutant) the speed is set in an automatic mode too.
ModeTaken_Always ==
    IF Sets(fanReq.sensor) THEN fanPhase' = "update" /\ UNCHANGED <<fanReq, fanReply, held>>
    ELSE FanReturn("illegal") /\ UNCHANGED held

ModeTaken ==
    \/ /\ fanReq.mode = Automatic
       /\ FanReturn("ok")
       /\ held' = fanReq
    \/ /\ fanReq.mode = Manual
       /\ ~Sets(fanReq.sensor)
       /\ FanReturn("illegal")
       /\ UNCHANGED held
    \/ /\ fanReq.mode = Manual
       /\ Sets(fanReq.sensor)
       /\ fanPhase' = "update"
       /\ UNCHANGED <<fanReq, fanReply, held>>

\* ... and echo writes the digit.
Echo ==
    /\ fanPhase = "echo"
    /\ modeFile' = ModeDigit(fanReq.mode)
    /\ ModeTaken
    /\ wrote' = TRUE
    /\ UNCHANGED speed

\* system() tells of a shell that was not started or was killed in the low
\* bits of its status, which the uint8_t keeps.
ShellFails ==
    /\ fanPhase \in {"truncate", "echo"}
    /\ "signal" \in FanFaults \/ ("fork" \in FanFaults /\ fanPhase = "truncate")
    /\ FanReturn("unspecified")
    /\ UNCHANGED <<modeFile, speed, held, wrote>>

\* Of an exit status it tells in the high bits: rc is 0.
ShellFailsUnseen ==
    /\ "exit" \in FanFaults
    /\ fanPhase \in {"truncate", "echo"}
    /\ ModeTaken
    /\ UNCHANGED <<modeFile, speed, wrote>>

\* updateFunc of the sensor.
UpdateSpeed ==
    /\ fanPhase = "update"
    /\ speed' = [speed EXCEPT ![fanReq.sensor] = fanReq.value]
    /\ FanReturn("ok")
    /\ held' = fanReq
    /\ UNCHANGED <<modeFile, wrote>>

\* A D-Bus call that fails may have had its effect.
UpdateFails ==
    /\ fanPhase = "update"
    /\ "update" \in FanFaults
    /\ \/ speed' = [speed EXCEPT ![fanReq.sensor] = fanReq.value]
       \/ UNCHANGED speed
    /\ FanReturn("unspecified")
    /\ UNCHANGED <<modeFile, held, wrote>>

-----------------------------------------------------------------------------
GetBadLength(len) == len # 1 /\ FanRefuse("badlen")

GetFan(s) ==
    \/ ~Sensor[s].read /\ FanRefuse("illegal")
    \/ Sensor[s].read /\ ~Sensor[s].fan /\ FanRefuse("sensor")
    \/ /\ Sensor[s].read
       /\ Sensor[s].fan
       /\ FanEnter("getSpeed", s, 0, 0)
       /\ UNCHANGED <<held, wrote>>

\* getFunc of the sensor: the speed first, kept in fanReq.value.
GetSpeed ==
    /\ fanPhase = "getSpeed"
    /\ fanReq' = [fanReq EXCEPT !.value = speed[fanReq.sensor]]
    /\ fanPhase' = "getMode"
    /\ UNCHANGED <<modeFile, speed, fanReply, held, wrote>>

GetSpeedFails ==
    /\ fanPhase = "getSpeed"
    /\ "get" \in FanFaults
    /\ FanReturn("unspecified")
    /\ UNCHANGED <<modeFile, speed, held, wrote>>

\* getFanMode, after it: without a child process nothing is read.
GetMode ==
    /\ fanPhase = "getMode"
    /\ fanPhase' = "idle"
    /\ fanReq' = NoFanReq
    /\ \E f \in {modeFile} \cup {g \in {"absent"} : "fork" \in FanFaults} :
          fanReply' = [cc |-> "ok", len |-> 2, mode |-> Parsed(f), value |-> fanReq.value]
    /\ UNCHANGED <<modeFile, speed, held, wrote>>

-----------------------------------------------------------------------------
FanRequest ==
    \/ \E mode \in FanModes : SetBadMode(mode)
    \/ \E mode \in FanModes, len \in 0..4 : SetBadLength(mode, len)
    \/ Unknown # {} /\ FanRefuse("sensor")
    \/ \E len \in 0..4 : GetBadLength(len)
    \/ \E s \in DOMAIN Sensor :
          \/ \E mode \in FanModes, value \in Speeds : SetFan(s, mode, value)
          \/ GetFan(s)

FanHandling ==
    \/ Truncate \/ Echo \/ ShellFails \/ ShellFailsUnseen
    \/ UpdateSpeed \/ UpdateFails
    \/ GetSpeed \/ GetSpeedFails \/ GetMode

\* The fan service: it leaves the fans alone in manual mode only.
Regulate ==
    /\ modeFile # "0"
    /\ \E s \in DOMAIN Sensor, v \in Speeds : speed' = [speed EXCEPT ![s] = v]
    /\ UNCHANGED <<modeFile, fanPhase, fanReq, fanReply, held, wrote>>

\* The daemon ends, and its shell with it.
FanCrash ==
    /\ "crash" \in FanFaults
    /\ FanReturn("none")
    /\ UNCHANGED <<modeFile, speed, held, wrote>>

FanNext == FanRequest \/ FanHandling \/ Regulate \/ FanCrash

FanSpec == FanInit /\ [][FanNext]_fanVars

(* A handler that has been entered runs on.                                *)
FairFanSpec == FanSpec /\ WF_fanVars(FanHandling)

-----------------------------------------------------------------------------
(* What a Set that was answered ok asked for is in place until the next    *)
(* Set: the mode in the file and, in manual mode, the speed of the fan,    *)
(* which no regulation changes in between.  Of a shell that failed by its  *)
(* exit status the handler does not know, and of such a Set it does not    *)
(* hold: nothing was written.                                              *)
SetTakesEffect ==
    held # NoneHeld /\ wrote =>
        /\ modeFile = ModeDigit(held.mode)
        /\ held.mode = Manual => speed[held.sensor] = held.value

(* Speed and mode of one answer are read at two moments from two places;   *)
(* still an answer that says manual carries the fan's speed of now, and    *)
(* says so only when the file does.                                        *)
ManualAnswerHolds ==
    [][/\ fanPhase = "getMode" /\ fanPhase' = "idle"
       /\ fanReply'.cc = "ok" /\ fanReply'.mode = Manual
       => modeFile = "0" /\ fanReply'.value = speed[fanReq.sensor]]_fanVars

(* The handler sets a speed only when the file says manual: the fan        *)
(* service would overwrite it otherwise.  "set fan speed when mode is      *)
(* manual" is the comment of the code; a shell whose exit status was not   *)
(* seen is the exception.                                                  *)
SpeedOnlyInManual ==
    [][/\ fanPhase = "update" /\ fanPhase' = "idle"
       /\ speed' # speed
       /\ wrote
       => modeFile = ModeDigit(Manual)]_fanVars

(* Every request is answered.                                              *)
FanAnswers == fanPhase # "idle" ~> fanPhase = "idle"

(* Mode file, fan service and speed keep together: what a Set was answered *)
(* ok for stays, no fan is set that the service regulates, and no Get      *)
(* reports a manual speed that is not one.                                 *)
ManualMode == []SetTakesEffect /\ ManualAnswerHolds /\ SpeedOnlyInManual
=============================================================================
