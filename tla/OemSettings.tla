------------------------------ MODULE OemSettings ------------------------------
(***************************************************************************)
(* The settings of oemcommands.cpp that live as D-Bus properties of other  *)
(* services: what a Set checks, converts and writes, in which order, and   *)
(* what a Get makes of it.  A handler is a row of the tables below and the *)
(* steps are the same for all: ask for the service, then one call for each *)
(* property.  Other clients write the properties too, between the calls.   *)
(* A property is a sequence of numbers; a double counts in halves.         *)
(***************************************************************************)
EXTENDS Integers, Sequences

CONSTANTS
    Settings,       \* the settings clients use, one in a behaviour
    SettingArgs,    \* arguments of Set requests, by setting
    Spans,          \* offset and count of Get Device Info
    Foreign,        \* what others may write, by property
    SettingFaults   \* "service", "write", "read": the call fails

Properties == {"Delay", "ResetCfg", "ErrorCounts", "CATERRStatus", "Policy",
               "Mode", "Limit", "MaxCFM", "SetPoint", "BiosId"}

\* The properties a Set writes and a Get reads, in the order of the calls.
WritesOf(s) ==
    CASE s = "delay" -> <<"Delay">>
      [] s = "errConfig" -> <<"ResetCfg", "ErrorCounts">>
      [] s = "policy" -> <<"Policy">>
      [] s = "profile" -> <<"Mode">>
      [] s = "cfm" -> <<"Limit">>
      [] s = "exitAir" -> <<"SetPoint">>
      [] s = "bios" -> <<"BiosId">>

ReadsOf(s) ==
    CASE s = "errConfig" -> <<"ResetCfg", "CATERRStatus">>
      [] s = "cfm" -> <<"Limit", "MaxCFM">>
      [] OTHER -> WritesOf(s)

AllSettings == {"delay", "errConfig", "policy", "profile", "cfm", "exitAir", "bios"}

Used(s) ==
    {WritesOf(s)[i] : i \in DOMAIN WritesOf(s)} \cup {ReadsOf(s)[i] : i \in DOMAIN ReadsOf(s)}

MaxByte == 255
MaxWord == 65535
Byte == 0..MaxByte
Word16 == 0..MaxWord

\* The D-Bus types: a 16-bit number, bytes, an enumeration, doubles.
WellTyped(p, v) ==
    /\ v \in Seq(Int)
    /\ p \notin {"CATERRStatus", "BiosId"} => Len(v) = 1
    /\ p = "Delay" => v[1] \in Word16
    /\ p = "Policy" => v[1] \in {0, 1}
    /\ p \in {"ResetCfg", "ErrorCounts", "CATERRStatus", "BiosId"} =>
          \A i \in 1..Len(v) : v[i] \in Byte

\* The bytes of a request after its checks of the length; of a fan profile
\* request the two bits.
WellFormedArg(s, a) ==
    /\ a \in Seq(Byte)
    /\ s \in {"policy", "exitAir"} => Len(a) = 1
    /\ s \in {"delay", "errConfig", "profile", "cfm"} => Len(a) = 2
    /\ s = "bios" => Len(a) >= 1 /\ Len(a) < MaxByte
    /\ s = "profile" => {a[1], a[2]} \subseteq {0, 1}

ASSUME SettingAssumption ==
    /\ Settings \subseteq AllSettings
    /\ \A s \in Settings : \A a \in SettingArgs[s] : WellFormedArg(s, a)
    /\ \A p \in Properties : \A v \in Foreign[p] : WellTyped(p, v)
    /\ Spans \subseteq [offset: Byte, count: Byte]

VARIABLES
    setting,        \* the setting clients use
    prop,           \* the properties
    supported,      \* fan profiles the thermal service supports
    path,           \* whether the exit air controller is configured
    setPhase,       \* "idle", "prepare", "write" or "read"
    arg,            \* argument of the Set in progress, <<>> of a Get
    span,           \* offset and count of the Get in progress
    got,            \* what it has read
    setReply,       \* completion code and data
    inPlace,        \* history: argument of the last Set answered ok, <<>> since
                    \* anything else was written
    propThen,       \* history: the properties when the request came
    setForeign      \* history: others have written since then

services == <<setting, prop, supported, path>>
settingVars == <<services, setPhase, arg, span, got, setReply, inPlace, propThen, setForeign>>

\* A 16-bit number and its two bytes, least significant first.
\* (mutant) the bytes are taken in the other order.
Word_Swapped(bytes) == ((bytes[1] * 256) % 65536) + bytes[2]

Word(bytes) == ((bytes[2] * 256) % 65536) + bytes[1]
Bytes(n) == <<n % 256, n \div 256>>

\* floor(x + 0.5) of a number of halves.
Rounded(halves) == (halves + 1) \div 2

MaxCPUNum == 2

\* What is checked before any call: the policy, and a limit below 50 that is
\* not 0.
Accepts(s, a) ==
    /\ s = "policy" => a[1] \in {0, 1}
    /\ s = "cfm" => Word(a) >= 50 \/ Word(a) = 0

\* What the i-th call writes.  A fan profile request has a bit that says whether
\* to set the profile, and one that says which.
Stored(s, a, i) ==
    CASE s = "delay" -> <<Word(a)>>
      [] s = "errConfig" -> <<a[i]>>
      [] s = "policy" -> <<a[1]>>
      [] s = "profile" -> <<a[2]>>
      [] s = "cfm" -> <<2 * Word(a)>>
      [] s = "exitAir" -> <<2 * a[1]>>
      [] s = "bios" -> a

InRange(halves) == halves \in 0..(2 * MaxWord)

\* The part of a BIOS ID that is asked for.
Part(id, sp) ==
    SubSeq(id, sp.offset + 1,
           IF sp.count > Len(id) - sp.offset THEN Len(id) ELSE sp.offset + sp.count)

\* The answers a Get may give for what it has read; {} for an error.
AnswersTo(s, v, sp) ==
    CASE s = "delay" -> {Bytes(v[1][1])}
      [] s = "errConfig" ->
            {v[1] \o [i \in 1..MaxCPUNum |-> IF i <= Len(v[2]) THEN v[2][i] ELSE 0]}
      [] s = "policy" -> {v[1]}
      [] s = "profile" -> {<<IF v[1][1] = 1 THEN 1 ELSE 0>>}
      [] s = "cfm" ->
            IF InRange(v[1][1]) /\ InRange(v[2][1])
            THEN {Bytes(Rounded(v[1][1])) \o Bytes(Rounded(v[2][1]))} ELSE {}
      [] s = "exitAir" ->
            \* a double that is no byte: the conversion is undefined
            IF Rounded(v[1][1]) \in Byte THEN {<<Rounded(v[1][1]), Rounded(v[1][1])>>}
            ELSE {<<b, b>> : b \in {0, MaxByte}}
      [] s = "bios" -> IF sp.offset >= Len(v[1]) THEN {} ELSE {Part(v[1], sp)}

NoSpan == [offset |-> 0, count |-> 0]

SettingTypeOK ==
    /\ setting \in Settings
    /\ prop \in [Properties -> Seq(Int)]
    /\ \A p \in Properties : WellTyped(p, prop[p])
    /\ supported \subseteq {0, 1} /\ path \in BOOLEAN
    /\ setPhase \in {"idle", "prepare", "write", "read"}
    /\ arg \in SettingArgs[setting] \cup {<<>>}
    /\ inPlace \in SettingArgs[setting] \cup {<<>>}
    /\ span \in Spans \cup {NoSpan}
    /\ Len(got) <= Len(ReadsOf(setting))
    /\ setReply.cc \in {"none", "ok", "badlen", "invalid", "range", "unspecified"}
    /\ \A i \in 1..Len(setReply.data) : setReply.data[i] \in Byte
    /\ setForeign \in BOOLEAN

NoSetReply == [cc |-> "none", data |-> <<>>]

\* The properties as their services start with them.  A fan profile is 0 for
\* "Acoustic", 1 for "Performance"; the first is one of another name.
OtherProfile == <<2>>
Defaults ==
    [p \in Properties |->
        CASE p = "MaxCFM" -> <<400>> [] p = "Mode" -> OtherProfile [] OTHER -> <<0>>]

SettingInit ==
    /\ setting \in Settings
    /\ prop = Defaults
    /\ supported \in IF setting = "profile" THEN SUBSET {0, 1} ELSE {{}}
    /\ path \in IF setting = "exitAir" THEN BOOLEAN ELSE {FALSE}
    /\ setPhase = "idle"
    /\ arg = <<>>
    /\ span = NoSpan
    /\ got = <<>>
    /\ setReply = NoSetReply
    /\ inPlace = <<>>
    /\ propThen = prop
    /\ setForeign = FALSE

-----------------------------------------------------------------------------
SettingReturn(cc, bytes) ==
    /\ setPhase' = "idle"
    /\ setReply' = [cc |-> cc, data |-> bytes]
    /\ arg' = <<>>
    /\ got' = <<>>
    /\ UNCHANGED <<setting, supported, path, span, propThen, setForeign>>

\* A request of a wrong length, or one that is refused before any call: for its
\* argument, or for a sensor other than that of the exit air, where a Get keeps
\* the length of the request.
SettingRefuse ==
    /\ setPhase = "idle"
    /\ \/ SettingReturn("badlen", <<>>)
       \/ /\ \E a \in SettingArgs[setting] : ~Accepts(setting, a)
          /\ SettingReturn(IF setting = "cfm" THEN "range" ELSE "invalid", <<>>)
       \/ setting = "exitAir" /\ SettingReturn("invalid", <<>>)
       \/ setting = "exitAir" /\ SettingReturn("range", <<0, 0>>)
    /\ UNCHANGED <<prop, inPlace>>

EnterSetting(a, sp) ==
    /\ setPhase = "idle"
    /\ setPhase' = "prepare"
    /\ arg' = a
    /\ span' = sp
    /\ got' = <<>>
    /\ setReply' = NoSetReply
    /\ propThen' = prop
    /\ setForeign' = FALSE
    /\ UNCHANGED <<services, inPlace>>

SetSetting(a) == Accepts(setting, a) /\ EnterSetting(a, NoSpan)

GetSetting(sp) == EnterSetting(<<>>, sp)

Setting == arg # <<>>

\* Set Fan Config leaves the length at that of the request (here the shortest),
\* Get Fan Config sets it before it calls.
KeptData == IF setting = "profile" THEN <<0, 0>> ELSE <<>>
ErrorData == IF setting = "profile" /\ ~Setting THEN <<0>> ELSE KeptData

-----------------------------------------------------------------------------
Unsupported == setting = "profile" /\ arg[2] \notin supported

\* getService; getFanProfileInterface; getExitAirConfigPath.
Prepare ==
    /\ setPhase = "prepare"
    /\ Setting /\ setting = "profile" => arg[1] = 1 /\ ~Unsupported
    /\ setting = "exitAir" => path
    /\ setPhase' = IF Setting THEN "write" ELSE "read"
    /\ got' = <<>>
    /\ UNCHANGED <<services, arg, span, setReply, inPlace, propThen, setForeign>>

\* A profile request that does not set, or sets what is not supported.
PrepareProfile ==
    /\ setPhase = "prepare"
    /\ Setting /\ setting = "profile"
    /\ \/ arg[1] = 0 /\ SettingReturn("ok", KeptData)
       \/ arg[1] = 1 /\ Unsupported /\ SettingReturn("invalid", KeptData)
    /\ UNCHANGED <<prop, inPlace>>

\* Without a controller, or a mapper that tells of it, a Get answers the default
\* and a Set fails for want of a path.
PrepareNoPath ==
    /\ setPhase = "prepare"
    /\ setting = "exitAir"
    /\ ~path \/ "service" \in SettingFaults
    /\ IF Setting THEN SettingReturn("unspecified", <<>>) ELSE SettingReturn("ok", <<128, 128>>)
    /\ UNCHANGED <<prop, inPlace>>

PrepareFails ==
    /\ setPhase = "prepare"
    /\ setting # "exitAir"
    /\ "service" \in SettingFaults
    /\ SettingReturn("unspecified", ErrorData)
    /\ UNCHANGED <<prop, inPlace>>

\* The call the handler is at: got counts those that are made.
Call == Len(got) + 1

Writes ==
    prop' = [prop EXCEPT ![WritesOf(setting)[Call]] = Stored(setting, arg, Call)]

Last(calls) == Call = Len(calls)

\* (mutant) the properties are written in the other order.
WriteProperty_Reversed ==
    /\ setPhase = "write"
    /\ LET n == Len(WritesOf(setting)) + 1 - Call IN
       prop' = [prop EXCEPT ![WritesOf(setting)[n]] = Stored(setting, arg, n)]
    /\ \/ /\ ~Last(WritesOf(setting))
          /\ got' = Append(got, <<>>)
          /\ UNCHANGED <<setting, supported, path, setPhase, arg, span, setReply, propThen, setForeign>>
       \/ Last(WritesOf(setting)) /\ SettingReturn("ok", KeptData)
    /\ inPlace' = IF Last(WritesOf(setting)) /\ ~setForeign THEN arg ELSE <<>>

WriteProperty ==
    /\ setPhase = "write"
    /\ Writes
    /\ \/ /\ ~Last(WritesOf(setting))
          /\ got' = Append(got, <<>>)
          /\ UNCHANGED <<setting, supported, path, setPhase, arg, span, setReply, propThen, setForeign>>
       \/ /\ Last(WritesOf(setting))
          /\ SettingReturn("ok", IF setting = "bios" THEN <<Len(arg)>> ELSE KeptData)
    /\ inPlace' = IF Last(WritesOf(setting)) /\ ~setForeign THEN arg ELSE <<>>

\* A call that fails may have had its effect.
WriteFails ==
    /\ setPhase = "write"
    /\ "write" \in SettingFaults
    /\ Writes \/ UNCHANGED prop
    /\ SettingReturn("unspecified", ErrorData)
    /\ inPlace' = <<>>

ReadProperty ==
    /\ setPhase = "read"
    /\ LET values == Append(got, prop[ReadsOf(setting)[Call]]) IN
       \/ /\ ~Last(ReadsOf(setting))
          /\ got' = values
          /\ UNCHANGED <<setting, supported, path, setPhase, arg, span, setReply, propThen, setForeign>>
       \/ /\ Last(ReadsOf(setting))
          /\ \/ \E bytes \in AnswersTo(setting, values, span) : SettingReturn("ok", bytes)
             \/ /\ AnswersTo(setting, values, span) = {}
                /\ SettingReturn(IF setting = "cfm" THEN "unspecified" ELSE "range", <<>>)
    /\ UNCHANGED <<prop, inPlace>>

ReadFails ==
    /\ setPhase = "read"
    /\ "read" \in SettingFaults
    /\ SettingReturn("unspecified", ErrorData)
    /\ UNCHANGED <<prop, inPlace>>

\* Another client of the service writes the property, or the board changes it.
OthersSet ==
    /\ \E p \in Used(setting) : \E v \in Foreign[p] : prop' = [prop EXCEPT ![p] = v]
    /\ inPlace' = <<>>
    /\ setForeign' = TRUE
    /\ UNCHANGED <<setting, supported, path, setPhase, arg, span, got, setReply, propThen>>

SettingRequest ==
    \/ SettingRefuse
    \/ \E a \in SettingArgs[setting] : SetSetting(a)
    \/ \E sp \in Spans : GetSetting(sp)

SettingStep ==
    \/ Prepare \/ PrepareProfile \/ PrepareNoPath \/ PrepareFails
    \/ WriteProperty \/ WriteFails
    \/ ReadProperty \/ ReadFails

SettingNext == SettingRequest \/ SettingStep \/ OthersSet

SettingSpec == SettingInit /\ [][SettingNext]_settingVars

-----------------------------------------------------------------------------
\* What a Get has to answer while the argument of a Set is in place.
Expected(s, a, sp, data) ==
    CASE s \in {"delay", "cfm"} -> SubSeq(data, 1, 2) = a
      [] s = "errConfig" -> data[1] = a[1]
      [] s = "policy" -> data = a
      [] s = "profile" -> data = <<a[2]>>
      [] s = "exitAir" -> data \in {a \o a, <<128, 128>>}
      [] s = "bios" -> \A i \in 1..Len(data) : data[i] = a[sp.offset + i]

(* A Get that is answered after a Set that was answered ok, with nothing   *)
(* else written since, answers what was set: the bytes of a number, the    *)
(* part of an identifier that was asked for, through all conversions.      *)
GetAfterSet ==
    [][/\ setPhase = "read" /\ setPhase' = "idle"
       /\ setReply'.cc = "ok"
       /\ inPlace # <<>>
       => Expected(setting, inPlace, span, setReply'.data)]_settingVars

(* A Set that fails has written a first part of its properties, in their   *)
(* order, or none: the error counters are not reset by a request whose     *)
(* reset configuration was not taken.                                      *)
FailedSetPrefix ==
    [][/\ setPhase = "write" /\ setPhase' = "idle"
       /\ setReply'.cc = "unspecified"
       /\ ~setForeign
       => \E k \in 0..Len(WritesOf(setting)) :
             \A i \in 1..Len(WritesOf(setting)) :
                prop'[WritesOf(setting)[i]] =
                    IF i <= k THEN Stored(setting, arg, i)
                              ELSE propThen[WritesOf(setting)[i]]]_settingVars

(* However requests, failures and other clients follow each other, the     *)
(* handlers leave only values in the properties that the code allows: a    *)
(* limit of 0 or at least 50 (the comment beside the check says "must be   *)
(* greater than 50", and the code takes 50), and a profile that the        *)
(* thermal service supports, be it Acoustic or Performance.                *)
LegalStored ==
    /\ prop["Limit"] \in Foreign["Limit"] \cup {Defaults["Limit"]} \/ prop["Limit"][1] >= 100
    /\ prop["Mode"] \in Foreign["Mode"] \cup {OtherProfile} \/ prop["Mode"][1] \in supported

(* A setting is legal when it is stored and itself when it is read back.   *)
SettingKept == []LegalStored /\ GetAfterSet
=============================================================================
