------------------------- MODULE OemProviders_proofs -------------------------
(***************************************************************************)
(* What is proved of one group of commands holds of all eleven in one      *)
(* ipmid.  A step of ipmid is a step of one group and leaves the others    *)
(* as they are, so that what ipmid does, seen from a group, is what the    *)
(* group does, and every theorem of the group is one of ipmid.             *)
(***************************************************************************)
EXTENDS OemProviders, OemCommands_proofs, FileProviders_proofs

StepOfEach ==
    /\ [SfpNext]_sfpAll /\ [BmcNext]_bmcAll /\ [VrNext]_vrAll
    /\ [TableNext]_tableAll /\ [FanNext]_fanVars /\ [MacNext]_macAll
    /\ [CpldNext]_cpldVars /\ [UserNext]_userVars /\ [SerialNext]_serialVars
    /\ [SettingNext]_settingVars /\ [LedNext]_ledVars

LEMMA EachBegins ==
    ProvidersInit =>
        /\ SfpInit /\ BmcInit /\ VrInit /\ TableInit /\ FanInit /\ MacInit
        /\ CpldInit /\ UserInit /\ SerialInit /\ SettingInit /\ LedInit
  BY DEF ProvidersInit

(* Every disjunct of ProvidersNext is a step of its group and a stutter of *)
(* the ten others.                                                         *)
LEMMA EachSteps == [ProvidersNext]_groupVars => StepOfEach
<1> SUFFICES ASSUME [ProvidersNext]_groupVars PROVE StepOfEach
  OBVIOUS
<1>1. CASE called = "sfp" /\ SfpNext /\ ButSfp
  BY <1>1 DEF ButSfp, StepOfEach
<1>2. CASE called = "bmc" /\ BmcNext /\ ButBmc
  BY <1>2 DEF ButBmc, StepOfEach
<1>3. CASE called = "vr" /\ VrNext /\ ButVr
  BY <1>3 DEF ButVr, StepOfEach
<1>4. CASE called = "adapters" /\ TableNext /\ ButTable
  BY <1>4 DEF ButTable, StepOfEach
<1>5. CASE called = "fan" /\ FanNext /\ ButFan
  BY <1>5 DEF ButFan, StepOfEach
<1>6. CASE called = "mac" /\ MacNext /\ ButMac
  BY <1>6 DEF ButMac, StepOfEach
<1>7. CASE called = "cpld" /\ CpldNext /\ ButCpld
  BY <1>7 DEF ButCpld, StepOfEach
<1>8. CASE called = "user" /\ UserNext /\ ButUser
  BY <1>8 DEF ButUser, StepOfEach
<1>9. CASE called = "serial" /\ SerialNext /\ ButSerial
  BY <1>9 DEF ButSerial, StepOfEach
<1>10. CASE called = "settings" /\ SettingNext /\ ButSettings
  BY <1>10 DEF ButSettings, StepOfEach
<1>11. CASE called = "led" /\ LedNext /\ ButLed
  BY <1>11 DEF ButLed, StepOfEach
<1>12. CASE UNCHANGED groupVars
  BY <1>12 DEF groupVars, StepOfEach
<1>13. QED
  BY <1>1, <1>2, <1>3, <1>4, <1>5, <1>6, <1>7, <1>8, <1>9, <1>10, <1>11, <1>12
     DEF ProvidersNext

(* What ipmid does is what each of its groups does.                        *)
LEMMA EachRuns ==
    ProvidersSpec =>
        /\ SfpSpec /\ BmcSpec /\ VrSpec /\ TableSpec /\ FanSpec /\ MacSpec
        /\ CpldSpec /\ UserSpec /\ SerialSpec /\ SettingSpec /\ LedSpec
<1>1. StepOfEach =>
        /\ [SfpNext]_sfpAll /\ [BmcNext]_bmcAll /\ [VrNext]_vrAll
        /\ [TableNext]_tableAll /\ [FanNext]_fanVars /\ [MacNext]_macAll
        /\ [CpldNext]_cpldVars /\ [UserNext]_userVars /\ [SerialNext]_serialVars
        /\ [SettingNext]_settingVars /\ [LedNext]_ledVars
  BY DEF StepOfEach
<1>2. QED
  BY EachBegins, EachSteps, <1>1, PTL
     DEF ProvidersSpec, SfpSpec, BmcSpec, VrSpec, TableSpec, FanSpec, MacSpec,
         CpldSpec, UserSpec, SerialSpec, SettingSpec, LedSpec

-----------------------------------------------------------------------------
(* The state of ipmid has its type, whichever group clients call.          *)
THEOREM ProvidersTypeCorrect == ProvidersSpec => []ProvidersTypeOK
<1>1. ProvidersInit => called \in Groups
  BY DEF ProvidersInit
<1>2. called \in Groups /\ [ProvidersNext]_groupVars => (called \in Groups)'
  BY DEF ProvidersNext, groupVars, ButSfp, ButBmc, ButVr, ButTable, ButFan,
         ButMac, ButCpld, ButUser, ButSerial, ButSettings, ButLed
<1>3. ProvidersSpec => [](called \in Groups)
  BY <1>1, <1>2, PTL DEF ProvidersSpec
<1>4. ProvidersTypeOK <=>
        /\ called \in Groups
        /\ SfpTypeOK /\ BmcTypeOK /\ VrTypeOK /\ TableTypeOK /\ FanTypeOK /\ MacTypeOK
        /\ CpldTypeOK /\ UserTypeOK /\ SerialTypeOK /\ SettingTypeOK /\ LedTypeOK
  BY DEF ProvidersTypeOK
<1>5. QED
  BY <1>3, <1>4, EachRuns, SfpTypeCorrect, BmcTypeCorrect, VrTypeCorrect,
     TableTypeCorrect, FanTypeCorrect, MacTypeCorrect, CpldTypeCorrect,
     UserTypeCorrect, SerialTypeCorrect, SettingTypeCorrect, LedTypeCorrect, PTL

(* On every way out of every handler, streams, files and memory are given  *)
(* back, and a look-up keeps open exactly the directories it walked.       *)
THEOREM HandlersGiveBack == ProvidersSpec => []NothingLeftOpen
<1>1. NothingLeftOpen <=>
        NoStreamLeft /\ NoStreamHeld /\ VrHoldsNothing /\ KeepsOpen /\ AllFreed
  BY DEF NothingLeftOpen
<1>2. QED
  BY <1>1, EachRuns, StreamsAreClosed, StreamIsClosed, VrFilesAreClosed,
     LeavesOpenExactly, NothingLost, PTL

(* An answer ok of the version, for a file without overlong lines, of the  *)
(* regulators, of the look-up and, where its file gave two characters, of  *)
(* the CPLD is what was read.                                              *)
THEOREM AnswersAreTrue == ProvidersSpec => []AnswersTrue
<1>1. AnswersTrue <=>
        VersionIsFile /\ VrAnswerIsRegister /\ LookupExact /\ AnswerDecodes
  BY DEF AnswersTrue
<1>2. QED
  BY <1>1, EachRuns, AnswerIsFile, AnswerIsRegister, LookupFindsTheOne,
     FieldsDecode, PTL

(* Whatever a group keeps between its requests it keeps while the others   *)
(* are there: its table, its EEPROMs, the users and its descriptors.       *)
THEOREM GroupsKeepTheirState ==
    ProvidersSpec => [](LeakPerFailure /\ Terminated /\ LeavesPrefix /\ ActivationGuarded)
  BY EachRuns, LeakIsFailures, AlwaysTerminated, OnlyItsPrefix,
     ActivationIsGuarded, PTL

(* A Set answered ok stays in force until the next of its group, and a Set *)
(* that fails has written its first properties and no others.              *)
THEOREM SetsStayInForce ==
    ProvidersSpec =>
        LowPowerKept /\ ManualMode /\ SerialKept /\ SettingKept /\ FailedSetPrefix
  BY EachRuns, SetsAreKept, ManualModeKept, SerialIsKept, SettingIsKept,
     FailedSetsArePrefixes

(* The table of adapters grows by a bunch, and only when it is full; and   *)
(* the LED byte is made of the states read and of nothing else.            *)
THEOREM TablesAndBits == ProvidersSpec => GrowthMatches /\ []ShowsWhatWasRead
  BY EachRuns, GrowsByBunch, LedsAreShown, PTL
=============================================================================
