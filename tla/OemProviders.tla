----------------------------- MODULE OemProviders -----------------------------
(***************************************************************************)
(* Eleven groups of commands, each for itself.  A group has state of its   *)
(* own, and its handlers run one at a time; but for the descriptor table,  *)
(* which Ipmid composes, no group reads what another writes.  So in one    *)
(* behaviour clients call the commands of one group, and all behaviours    *)
(* together are those of every group with every input.                     *)
(***************************************************************************)
EXTENDS SfpPorts, BmcVersion, VrInfo, AdapterTable, FanControl, MacEeprom,
        CpldVersion, UserActivation, HostSerial, OemSettings, LedStatus

VARIABLE called     \* the group whose commands clients call

Groups == {"sfp", "bmc", "vr", "adapters", "fan", "mac", "cpld",
           "user", "serial", "settings", "led"}

groupVars == <<sfpAll, bmcAll, vrAll, tableAll, fanVars, macAll, cpldVars,
               userVars, serialVars, settingVars, ledVars, called>>

\* A group that is not called rests in one of its initial states.
Rests(group, state) == IF called = group THEN TRUE ELSE state

ProvidersInit ==
    /\ called \in Groups
    /\ Rests("sfp", pin = [g \in Exported |-> 0])
    /\ Rests("bmc", file = CHOOSE f \in ReleaseFiles : TRUE)
    /\ Rests("vr", regs = [e \in Entries |-> CHOOSE r \in Registers : TRUE])
    /\ Rests("adapters", directory = CHOOSE d \in Directories : TRUE)
    /\ Rests("fan", modeFile = "1" /\ speed = [s \in DOMAIN Sensor |-> CHOOSE v \in Speeds : TRUE])
    /\ Rests("mac", macReq = CHOOSE r \in MacRequests : TRUE)
    /\ Rests("cpld", version = <<>> /\ temp = [i \in 1..2 |-> CHOOSE c \in Chars : TRUE])
    /\ Rests("user", /\ medium = CHOOSE m \in Media : TRUE
                     /\ dhcp = {} /\ others = 0 /\ user2 = NoUser)
    /\ Rests("serial", env = Unset /\ parameter = CHOOSE p \in Parameters : TRUE)
    /\ Rests("settings", setting = "policy")
    /\ Rests("led", led = Unread)
    /\ SfpInit /\ BmcInit /\ VrInit /\ TableInit /\ FanInit /\ MacInit
    /\ CpldInit /\ UserInit /\ SerialInit /\ SettingInit /\ LedInit

\* What a group leaves alone.
ButSfp == UNCHANGED <<bmcAll, vrAll, tableAll, fanVars, macAll, cpldVars,
                      userVars, serialVars, settingVars, ledVars, called>>
ButBmc == UNCHANGED <<sfpAll, vrAll, tableAll, fanVars, macAll, cpldVars,
                      userVars, serialVars, settingVars, ledVars, called>>
ButVr == UNCHANGED <<sfpAll, bmcAll, tableAll, fanVars, macAll, cpldVars,
                     userVars, serialVars, settingVars, ledVars, called>>
ButTable == UNCHANGED <<sfpAll, bmcAll, vrAll, fanVars, macAll, cpldVars,
                        userVars, serialVars, settingVars, ledVars, called>>
ButFan == UNCHANGED <<sfpAll, bmcAll, vrAll, tableAll, macAll, cpldVars,
                      userVars, serialVars, settingVars, ledVars, called>>
ButMac == UNCHANGED <<sfpAll, bmcAll, vrAll, tableAll, fanVars, cpldVars,
                      userVars, serialVars, settingVars, ledVars, called>>
ButCpld == UNCHANGED <<sfpAll, bmcAll, vrAll, tableAll, fanVars, macAll,
                       userVars, serialVars, settingVars, ledVars, called>>
ButUser == UNCHANGED <<sfpAll, bmcAll, vrAll, tableAll, fanVars, macAll,
                       cpldVars, serialVars, settingVars, ledVars, called>>
ButSerial == UNCHANGED <<sfpAll, bmcAll, vrAll, tableAll, fanVars, macAll,
                         cpldVars, userVars, settingVars, ledVars, called>>
ButSettings == UNCHANGED <<sfpAll, bmcAll, vrAll, tableAll, fanVars, macAll,
                           cpldVars, userVars, serialVars, ledVars, called>>
ButLed == UNCHANGED <<sfpAll, bmcAll, vrAll, tableAll, fanVars, macAll,
                      cpldVars, userVars, serialVars, settingVars, called>>

ProvidersNext ==
    \/ called = "sfp" /\ SfpNext /\ ButSfp
    \/ called = "bmc" /\ BmcNext /\ ButBmc
    \/ called = "vr" /\ VrNext /\ ButVr
    \/ called = "adapters" /\ TableNext /\ ButTable
    \/ called = "fan" /\ FanNext /\ ButFan
    \/ called = "mac" /\ MacNext /\ ButMac
    \/ called = "cpld" /\ CpldNext /\ ButCpld
    \/ called = "user" /\ UserNext /\ ButUser
    \/ called = "serial" /\ SerialNext /\ ButSerial
    \/ called = "settings" /\ SettingNext /\ ButSettings
    \/ called = "led" /\ LedNext /\ ButLed

(* The handler that was entered runs on; so does a child it waits for.     *)
HandlerStep ==
    \/ called = "bmc" /\ Reading /\ ButBmc
    \/ called = "vr" /\ VrHandling /\ ButVr
    \/ called = "fan" /\ FanHandling /\ ButFan
    \/ called = "user" /\ Activating /\ ButUser
    \/ called = "serial" /\ SerialStep /\ ButSerial

ProvidersSpec ==
    /\ ProvidersInit
    /\ [][ProvidersNext]_groupVars
    /\ WF_groupVars(HandlerStep)
    /\ WF_groupVars(called = "serial" /\ ChildStep /\ ButSerial)

-----------------------------------------------------------------------------
(* Every group's state has its type.                                       *)
ProvidersTypeOK ==
    /\ called \in Groups
    /\ SfpTypeOK /\ BmcTypeOK /\ VrTypeOK /\ TableTypeOK /\ FanTypeOK /\ MacTypeOK
    /\ CpldTypeOK /\ UserTypeOK /\ SerialTypeOK /\ SettingTypeOK /\ LedTypeOK

(* What handlers open or allocate they give back on every way out, but for *)
(* the directories of a look-up by name, and these only: streams of Get    *)
(* BMC Version and of the MAC address, the file of a regulator, the table  *)
(* of adapters and its names.                                              *)
NothingLeftOpen ==
    NoStreamLeft /\ NoStreamHeld /\ VrHoldsNothing /\ KeepsOpen /\ AllFreed

(* An answer says what was there when the handler looked, through parsing, *)
(* masks, tables and look-ups: the last lines of os-release, the register  *)
(* of the regulator asked for, the one adapter of a name, and the byte of  *)
(* the CPLD where its file gave two characters.  A CPLD whose file cannot  *)
(* be read is answered ok with what an uninitialised buffer held: of such  *)
(* an answer nothing is said here.  The LEDs have ShowsWhatWasRead.        *)
AnswersTrue == VersionIsFile /\ VrAnswerIsRegister /\ LookupExact /\ AnswerDecodes

(* No handler hangs, whatever fails: behind the bus, the shell, the user   *)
(* manager or the child of a serial request, or in the loop over           *)
(* os-release, but for a stream that has failed, which holds it for good.  *)
EveryHandlerReturns ==
    VersionReturns /\ VrEnds /\ FanAnswers /\ UserAnswers /\ SerialAnswers
=============================================================================
