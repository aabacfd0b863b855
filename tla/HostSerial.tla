------------------------------ MODULE HostSerial ------------------------------
(***************************************************************************)
(* Configure Host Serial Port Speed (oemcommands.cpp): a variable of the   *)
(* boot loader's environment, read and written by child processes.  Get    *)
(* reads the child's output while it runs: the handler and the child are   *)
(* two actors, and how they interleave decides what the handler has read   *)
(* when the child is gone.                                                 *)
(***************************************************************************)
EXTENDS Integers

CONSTANTS
    Contents,       \* what the variable may hold: a number, or NotNumber
    Parameters,     \* parameters of requests
    ParamMax,       \* HostSerialCfgParamMax
    SerialFaults    \* "program": the child fails

Unset == -1
NotNumber == -2

ASSUME SerialAssumption ==
    /\ Contents \subseteq Nat \cup {NotNumber}
    /\ Parameters \subseteq 0..255
    /\ ParamMax \in 0..255

VARIABLES
    env,            \* the variable
    serialPhase,    \* "idle", "test", "getline", "wait" of a Get; "setwait"
    parameter,      \* of the Set in progress
    child,          \* "none", "start", "printed", "ended" or "failed"
    pipe,           \* the line the child has printed, if it is not read
    data,           \* the lines read, at most one: that line, or Unset
    serialReply,    \* completion code, *dataLen and the byte answered
    envThen,        \* history: the variable when the child looked at it
    lastSet,        \* history: the last Set answered ok, until others write
    overwritten     \* history: others have written since the request came

serialVars == <<env, serialPhase, parameter, child, pipe, data, serialReply, envThen, lastSet, overwritten>>

Values == Contents \cup Parameters \cup {Unset}

SerialTypeOK ==
    /\ env \in Values
    /\ serialPhase \in {"idle", "test", "getline", "wait", "setwait"}
    /\ parameter \in Parameters
    /\ child \in {"none", "start", "printed", "ended", "failed"}
    /\ {pipe, data, envThen} \subseteq Values
    /\ serialReply \in [cc: {"none", "ok", "badlen", "invalid", "unspecified"},
                        len: 0..1, value: 0..255]
    /\ lastSet \in Parameters \cup {Unset}
    /\ overwritten \in BOOLEAN

NoSerialReply == [cc |-> "none", len |-> 0, value |-> 0]

SerialInit ==
    /\ env \in Contents \cup {Unset}
    /\ serialPhase = "idle"
    /\ parameter \in Parameters
    /\ child = "none"
    /\ pipe = Unset
    /\ data = Unset
    /\ serialReply = NoSerialReply
    /\ envThen = Unset
    /\ lastSet = Unset
    /\ overwritten = FALSE

-----------------------------------------------------------------------------
SerialReturn(cc, len, value) ==
    /\ serialPhase' = "idle"
    /\ child' = "none"
    /\ serialReply' = [cc |-> cc, len |-> len, value |-> value]
    /\ UNCHANGED <<env, parameter, pipe, data, envThen, overwritten>>

\* An empty request, an unknown command, a wrong length, or a parameter past
\* the last one.
SerialRefuses(cc) ==
    /\ serialPhase = "idle"
    /\ cc = "invalid" => Parameters \ (0..ParamMax) # {}
    /\ SerialReturn(cc, 0, 0)
    /\ UNCHANGED lastSet

Spawns(phase) ==
    /\ serialPhase = "idle"
    /\ serialPhase' = phase
    /\ child' = "start"
    /\ serialReply' = NoSerialReply
    /\ pipe' = Unset
    /\ data' = Unset
    /\ envThen' = Unset
    /\ overwritten' = FALSE
    /\ UNCHANGED env

GetSpeedConfig ==
    /\ Spawns("test")
    /\ UNCHANGED <<parameter, lastSet>>

SetSpeedConfig(p) ==
    /\ p <= ParamMax
    /\ Spawns("setwait")
    /\ parameter' = p
    /\ lastSet' = Unset

-----------------------------------------------------------------------------
Running == child \in {"start", "printed"}

\* The program that prints the variable: a line, then its end; without the
\* variable, or when it fails, only its end.
ChildPrints ==
    /\ serialPhase # "setwait"
    /\ child = "start"
    /\ envThen' = env
    /\ \/ env # Unset /\ pipe' = env /\ child' = "printed"
       \/ env = Unset /\ child' = "failed" /\ UNCHANGED pipe
       \/ "program" \in SerialFaults /\ child' = "failed" /\ UNCHANGED pipe
    /\ UNCHANGED <<env, serialPhase, parameter, data, serialReply, lastSet, overwritten>>

ChildEnds ==
    /\ child = "printed"
    /\ child' = "ended"
    /\ UNCHANGED <<env, serialPhase, parameter, pipe, data, serialReply, envThen, lastSet, overwritten>>

\* The program that sets it.
ChildSets ==
    /\ serialPhase = "setwait"
    /\ child = "start"
    /\ \/ env' = parameter /\ child' = "ended"
       \/ "program" \in SerialFaults /\ child' = "failed" /\ UNCHANGED env
    /\ UNCHANGED <<serialPhase, parameter, pipe, data, serialReply, envThen, lastSet, overwritten>>

\* c1.running(): a child that has ended is not read from any more, whatever it
\* left in the pipe.
TestRunning ==
    /\ serialPhase = "test"
    /\ serialPhase' = IF Running THEN "getline" ELSE "wait"
    /\ UNCHANGED <<env, parameter, child, pipe, data, serialReply, envThen, lastSet, overwritten>>

\* (mutant) the end of the file ends nothing.
GetLine_NoEnd ==
    /\ serialPhase = "getline"
    /\ \/ pipe # Unset /\ data' = pipe /\ pipe' = Unset /\ serialPhase' = "test"
       \/ pipe = Unset /\ ~Running /\ UNCHANGED <<data, pipe, serialPhase>>
    /\ UNCHANGED <<env, parameter, child, serialReply, envThen, lastSet, overwritten>>

\* getline blocks while there is no line and the child has its end of the pipe.
GetLine ==
    /\ serialPhase = "getline"
    /\ \/ pipe # Unset /\ data' = pipe /\ pipe' = Unset /\ serialPhase' = "test"
       \/ pipe = Unset /\ ~Running /\ serialPhase' = "wait" /\ UNCHANGED <<data, pipe>>
    /\ UNCHANGED <<env, parameter, child, serialReply, envThen, lastSet, overwritten>>

Readable(v) == v # Unset /\ v # NotNumber /\ v <= 255

\* (mutant) the number is cast before it is tested.
Collect_Casts ==
    /\ serialPhase = "wait"
    /\ ~Running
    /\ IF child = "failed" THEN SerialReturn("ok", 1, 0)
       ELSE IF data \in {Unset, NotNumber} THEN SerialReturn("unspecified", 0, 0)
       ELSE SerialReturn("ok", 1, data % 256)
    /\ UNCHANGED lastSet

\* The child's exit code first: a default for one that failed; then there must
\* be one line, with a number of a byte.
Collect ==
    /\ serialPhase = "wait"
    /\ ~Running
    /\ IF child = "failed" THEN SerialReturn("ok", 1, 0)
       ELSE IF Readable(data) THEN SerialReturn("ok", 1, data)
       ELSE SerialReturn("unspecified", 0, 0)
    /\ UNCHANGED lastSet

CollectSet ==
    /\ serialPhase = "setwait"
    /\ ~Running
    /\ \/ child = "failed" /\ SerialReturn("unspecified", 0, 0) /\ UNCHANGED lastSet
       \/ /\ child = "ended"
          /\ SerialReturn("ok", 0, 0)
          /\ lastSet' = IF overwritten THEN Unset ELSE parameter

\* Another program writes the environment.
OthersWrite ==
    /\ env' \in Contents \cup {Unset}
    /\ lastSet' = Unset
    /\ overwritten' = TRUE
    /\ UNCHANGED <<serialPhase, parameter, child, pipe, data, serialReply, envThen>>

SerialRequest ==
    \/ \E cc \in {"badlen", "invalid"} : SerialRefuses(cc)
    \/ GetSpeedConfig
    \/ \E p \in Parameters : SetSpeedConfig(p)

ChildStep == ChildPrints \/ ChildEnds \/ ChildSets

SerialStep == TestRunning \/ GetLine \/ Collect \/ CollectSet

SerialNext == SerialRequest \/ ChildStep \/ SerialStep \/ OthersWrite

SerialSpec == SerialInit /\ [][SerialNext]_serialVars

(* The handler and its child are scheduled.                                *)
FairSerialSpec ==
    SerialSpec /\ WF_serialVars(ChildStep) /\ WF_serialVars(SerialStep)

-----------------------------------------------------------------------------
(* However handler and child interleave, a Get answered ok answers the     *)
(* variable as it was when the child looked, or 0 when the child failed:   *)
(* never a line of another request, never a part of a number.              *)
AnswerIsSetting ==
    [][serialPhase = "wait" /\ serialPhase' = "idle" /\ serialReply'.cc = "ok"
          => serialReply'.value = IF child = "failed" THEN 0 ELSE envThen]_serialVars

(* What was set and answered ok is in the environment until others write   *)
(* it, and what a later Get answers unless its child fails.                *)
SetSticks ==
    lastSet # Unset =>
        /\ env = lastSet
        /\ child \in {"printed", "ended"} /\ serialPhase # "setwait" => envThen = lastSet

(* Every request is answered: whoever ends first, the handler does not     *)
(* wait for a line that nobody will print.                                 *)
SerialAnswers == serialPhase # "idle" ~> serialPhase = "idle"

(* The serial setting survives its two child processes: what was set is    *)
(* what the environment holds and what a Get reports.                      *)
SerialKept == []SetSticks /\ AnswerIsSetting
=============================================================================
