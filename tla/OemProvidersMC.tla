--------------------------- MODULE OemProvidersMC ---------------------------
(***************************************************************************)
(* The inputs of the command groups.                                       *)
(***************************************************************************)
EXTENDS OemProviders

(* SFP ports of two blocks, and two indexes past the last one: 73 names    *)
(* GPIO 185, the presence of port 9, which cannot be driven, and 100 a GPIO *)
(* of no port, which can.  The presence pin of port 0 is not exported.     *)
MCExported ==
    {Pin("lpmode", 0), Pin("lpmode", 9), Pin("lpmode", 100),
     Pin("interrupt", 0), Pin("present", 9)}

MCOutputs == {Pin("lpmode", 0), Pin("lpmode", 9), Pin("lpmode", 100)}

(* All files of up to three lines, of lines that differ in key, in value   *)
(* and in the three ways that are not well formed.                         *)
Line(k, q, v, n, l) == [key |-> k, quoted |-> q, value |-> v, len |-> n, long |-> l]

MCLines == {
    Line("version", TRUE, "v1", 6, FALSE),
    Line("version", TRUE, "v2", 40, FALSE),
    Line("version", TRUE, "v3", 41, FALSE),
    Line("version", FALSE, "v2", 13, FALSE),
    Line("buildtime", TRUE, "b1", 20, FALSE),
    Line("other", TRUE, "x", 5, FALSE),
    Line("other", TRUE, "y", 255, TRUE)}

MCFiles == UNION {[1..n -> MCLines] : n \in 0..3}

(* Directories with so many plain adapters that the table is at, just      *)
(* before or just behind a bunch, then an entry of every kind and one more. *)
Adapter(k, n, w) == [kind |-> k, nr |-> n, name |-> w]

Plains(n) == [i \in 1..n |-> Adapter("plain", 1, "bus")]

Tails == {<<>>} \cup
    {<<Adapter(k, 20, w), Adapter(l, 21, "wanted")>> :
        k \in Kinds, l \in {"plain", "nested"}, w \in {"wanted", "bus"}}

MCDirectories ==
    {[source |-> "sysfs", entries |-> Plains(n) \o t] : n \in {0, 6, 7}, t \in Tails}
        \cup {[source |-> "proc", entries |-> Plains(n)] : n \in {7, 16}}
        \cup {[source |-> "missing", entries |-> <<>>]}

(* A fan, a fan that can neither be read nor set, and a sensor that is not *)
(* a fan.                                                                  *)
Kind(r, w, f, c) == [read |-> r, write |-> w, fan |-> f, control |-> c]

MCSensors ==
    [s \in {"fan", "stuck", "temp"} |->
        CASE s = "fan" -> Kind(TRUE, TRUE, TRUE, TRUE)
          [] s = "stuck" -> Kind(FALSE, FALSE, TRUE, TRUE)
          [] s = "temp" -> Kind(TRUE, TRUE, FALSE, FALSE)]

(* Two EEPROMs.  16 is the bus whose path is that of bus 10, and the path  *)
(* of device 5 exists nowhere.                                             *)
At(b, i) == [bus |-> b, id |-> i]

MCDevices == {At(1, 81), At(10, 81)}
MCTargets == {At(1, 81), At(16, 81), At(1, 5)}
MCMacs == {<<0, 1, 2, 3, 4, 5>>}

(* A LAN channel with a device beside one without, or one with a system    *)
(* interface behind another channel.                                       *)
MCMedia == {
    [c \in Channel |-> IF c = 0 THEN "lan" ELSE "other"],
    [c \in Channel |-> "lan"],
    [c \in Channel |-> IF c = LastChannel THEN "system" ELSE "other"]}

(* A byte, a number that is too large for one, and no number.              *)
MCContents == {0, 2, 257, NotNumber}

(* Arguments at and around the limits of each setting.                     *)
MCArgs ==
    [s \in AllSettings |->
        CASE s \in {"delay", "cfm"} -> {<<0, 0>>, <<49, 0>>, <<50, 0>>, <<255, 255>>}
          [] s = "errConfig" -> {<<1, 2>>, <<0, 1>>}
          [] s = "policy" -> {<<0>>, <<1>>, <<2>>}
          [] s = "profile" -> {<<0, 0>>, <<1, 0>>, <<1, 1>>}
          [] s = "exitAir" -> {<<255>>}
          [] s = "bios" -> {<<65>>, <<66, 67, 68>>}]

(* What others may write: numbers of halves below 0, above 65535 and at a  *)
(* half, and lists that are empty, short and long.                         *)
MCForeign ==
    [p \in Properties |->
        CASE p = "Delay" -> {<<300>>}
          [] p \in {"ResetCfg", "ErrorCounts"} -> {<<7>>}
          [] p = "CATERRStatus" -> {<<>>, <<1>>, <<1, 2, 3>>}
          [] p = "Policy" -> {<<0>>}
          [] p = "Mode" -> {<<2>>}
          [] p = "Limit" -> {<<-4>>, <<51>>, <<131071>>}
          [] p = "MaxCFM" -> {<<131072>>}
          [] p = "SetPoint" -> {<<-3>>, <<161>>, <<1200>>}
          [] p = "BiosId" -> {<<>>, <<90, 91>>}]

MCSpans == {[offset |-> 0, count |-> 2], [offset |-> 1, count |-> 5]}
=============================================================================
