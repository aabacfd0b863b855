-------------------------- MODULE OemCommands_proofs --------------------------
(***************************************************************************)
(* The handlers of oemcommands.cpp that are modelled one by one: user      *)
(* activation, the host serial setting, the settings on D-Bus and the LED  *)
(* status, for every value of their constants.                             *)
(***************************************************************************)
EXTENDS UserActivation, HostSerial, OemSettings, LedStatus, TLAPS

-----------------------------------------------------------------------------
(* User activation.  What the handler knows of the channels it has passed  *)
(* is about the time since the request came: no address of theirs was      *)
(* under DHCP all that time.                                               *)
Clear(c, v) == c \in Networked => <<c, v>> \notin throughout

Passed(c) == medium[c] # "system" /\ \A v \in Versions : Clear(c, v)

(* An address under DHCP is one of a LAN channel, and what has been so     *)
(* throughout the request is so now.                                       *)
Current ==
    /\ \A c \in Channel, v \in Versions : <<c, v>> \in dhcp => medium[c] = "lan"
    /\ userPhase # "idle" => throughout \subseteq Forbids(dhcp, user2, others)

Scanned ==
    /\ userPhase \in {"info", "ip6", "ip4"} => \A c \in 0..(channel - 1) : Passed(c)
    /\ userPhase \in {"ip6", "ip4"} => medium[channel] = "lan"
    /\ userPhase = "ip4" => Clear(channel, "ip6")
    /\ userPhase \in {"counts", "check", "name", "password", "priv"} =>
          \A c \in Channel : Passed(c)
    /\ userPhase \in {"check", "name", "password", "priv"} => TwoEnabled \notin throughout
    /\ userPhase \in {"name", "password", "priv"} =>
          User2Enabled \notin throughout \/ "unchecked" \in marks

(* How far user 2 has been changed, if nobody else changes it.             *)
Untouched == "touched" \notin marks

Halves ==
    /\ userPhase # "idle" => userReply = "none"
    /\ Untouched =>
          /\ userPhase \in {"info", "ip6", "ip4", "counts", "check", "name"} => user2 = was
          /\ userPhase = "password" => user2 = Renamed(was)
          /\ userPhase = "priv" => user2 = Locked(Renamed(was))
          /\ userPhase = "undo" => user2 \in Stages(was)
    /\ Activated
    /\ InOrder

UserInv == UserTypeOK /\ Current /\ Scanned /\ Halves

-----------------------------------------------------------------------------
(* The user manager's changes of a user.                                   *)
LEMMA RecordChanged ==
    ASSUME NEW A, NEW B, NEW C, NEW D,
           NEW u \in [name: A, password: B, priv: C, enabled: D],
           NEW a \in A, NEW b \in B, NEW c \in C
    PROVE  /\ [u EXCEPT !.name = a] \in [name: A, password: B, priv: C, enabled: D]
           /\ [u EXCEPT !.password = b] \in [name: A, password: B, priv: C, enabled: D]
           /\ [u EXCEPT !.priv = c] \in [name: A, password: B, priv: C, enabled: D]
    OBVIOUS

LEMMA UsersChanged ==
    /\ NoUser \in Users
    /\ \A e \in BOOLEAN : OldUser(e) \in Users
    /\ \A u \in Users :
          Renamed(u) \in Users /\ Locked(u) \in Users /\ Raised(u) \in Users
<1>1. NoUser \in Users
    BY DEF Users, NoUser
<1>2. ASSUME NEW e \in BOOLEAN PROVE OldUser(e) \in Users
    BY DEF Users, OldUser
<1>3. ASSUME NEW u \in Users
      PROVE  Renamed(u) \in Users /\ Locked(u) \in Users /\ Raised(u) \in Users
  <2>1. "new" \in {"", "old", "new"} /\ "new" \in {"none", "old", "new"}
        /\ "admin" \in {"none", "old", "admin"}
    OBVIOUS
  <2> QED
    BY <2>1, RecordChanged, Zenon DEF Users, Renamed, Locked, Raised
<1> QED
    BY <1>1, <1>2, <1>3

(* The last stage has all three parts of the request, and no stage changes *)
(* whether the user is enabled.                                            *)
LEMMA StagesDiffer ==
    ASSUME NEW u \in Users
    PROVE  /\ Raised(Locked(Renamed(u))).name = "new"
           /\ Raised(Locked(Renamed(u))).password = "new"
           /\ Raised(Locked(Renamed(u))).priv = "admin"
           /\ Renamed(u).enabled = u.enabled
           /\ Locked(u).enabled = u.enabled
           /\ Raised(u).enabled = u.enabled
<1>1. Renamed(u) \in Users /\ Locked(Renamed(u)) \in Users
    BY UsersChanged
<1>2. ASSUME NEW v \in Users
      PROVE  /\ Renamed(v).name = "new" /\ Renamed(v).enabled = v.enabled
             /\ Locked(v).password = "new" /\ Locked(v).name = v.name
             /\ Locked(v).enabled = v.enabled
             /\ Raised(v).priv = "admin" /\ Raised(v).enabled = v.enabled
             /\ Raised(v).password = v.password /\ Raised(v).name = v.name
    BY <1>2, Zenon DEF Users, Renamed, Locked, Raised
<1> QED
    BY <1>1, <1>2

UserPhases ==
    Versions \cup {"idle", "info", "counts", "check", "name", "password", "priv", "undo"}

(* The kinds of step the handler's calls are made of.                      *)
LEMMA GoesTyped ==
    ASSUME UserTypeOK, NEW from, NEW to \in UserPhases, Goes(from, to), channel' \in Channel
    PROVE  UserTypeOK'
    BY DEF UserTypeOK, Goes, hosts, history, UserPhases

LEMMA AnswersTyped ==
    ASSUME UserTypeOK, NEW from, NEW cc \in {"unspecified", "notavailable"}, Answers(from, cc),
           marks' = marks \/ marks' = marks \cup {"kept"}
    PROVE  UserTypeOK'
    BY DEF UserTypeOK, Answers, hosts

LEMMA NextChannelTyped ==
    ASSUME UserTypeOK, NEW from, NextChannel(from)
    PROVE  UserTypeOK'
<1>1. channel + 1 \in Channel \/ channel = LastChannel
    BY ChannelAssumption DEF UserTypeOK, Channel
<1>2. CASE channel = LastChannel
    BY <1>2, GoesTyped, ChannelAssumption DEF NextChannel, UserPhases, UserTypeOK
<1>3. CASE channel # LastChannel
    BY <1>1, <1>3, GoesTyped DEF NextChannel, UserPhases
<1> QED
    BY <1>2, <1>3

LEMMA SetsTyped ==
    ASSUME UserTypeOK, NEW from, NEW to \in UserPhases, NEW u \in Users, UserSets(from, to, u),
           userReply' \in {userReply, "ok", "notavailable"},
           marks' \in {marks, marks \cup {"renamed"}, marks \cup {"kept"}}
    PROVE  UserTypeOK'
    BY DEF UserTypeOK, UserSets, UserPhases

LEMMA NextUserTypeOK == UserTypeOK /\ [UserNext]_userVars => UserTypeOK'
<1> SUFFICES ASSUME UserTypeOK, [UserNext]_userVars PROVE UserTypeOK'
    OBVIOUS
<1>0. channel \in Channel /\ user2 \in Users /\ 0 \in Channel
    BY ChannelAssumption DEF UserTypeOK, Channel
<1>1. CASE Activate
    BY <1>0, <1>1 DEF Activate, Forbids, UserTypeOK, hosts
<1>2. CASE GetChannelInfo
    BY <1>0, <1>2, GoesTyped, AnswersTyped, NextChannelTyped
    DEF GetChannelInfo, UserPhases, Versions
<1>3. ASSUME NEW v \in Versions, IsDHCPEnabled(v) PROVE UserTypeOK'
    BY <1>0, <1>3, GoesTyped, AnswersTyped, NextChannelTyped
    DEF IsDHCPEnabled, Passes, UserPhases, Versions
<1>4. CASE GetAllCounts
    BY <1>0, <1>4, GoesTyped, AnswersTyped DEF GetAllCounts, UserPhases
<1>5. CASE CheckEnabled
  <2>1. CASE /\ userPhase' = "name" /\ marks' = marks \cup {"unchecked"}
             /\ UNCHANGED <<hosts, channel, userReply, was, throughout, changes>>
    BY <2>1 DEF UserTypeOK, hosts
  <2> QED
    BY <1>0, <1>5, <2>1, GoesTyped, AnswersTyped DEF CheckEnabled, UserPhases
<1>6. CASE SetName
    BY <1>0, <1>6, UsersChanged, SetsTyped, AnswersTyped DEF SetName, UserPhases
<1>7. CASE SetPassword
    BY <1>0, <1>7, UsersChanged, SetsTyped DEF SetPassword, UserPhases
<1>8. CASE SetPrivilege
    BY <1>0, <1>8, UsersChanged, SetsTyped DEF SetPrivilege, UserPhases
<1>9. CASE Undo
    BY <1>0, <1>9, UsersChanged, SetsTyped DEF Undo, UserPhases
<1>10. CASE Change
  <2>1. /\ UNCHANGED <<medium, userPhase, channel, userReply, was>>
        /\ changes' \in 0..MaxChanges /\ throughout' \subseteq throughout
    BY <1>10, ChannelAssumption DEF Change, activation, UserTypeOK
  <2>2. ASSUME NEW c \in Channel, NEW v \in Versions,
               dhcp' = IF <<c, v>> \in dhcp THEN dhcp \ {<<c, v>>} ELSE dhcp \cup {<<c, v>>}
        PROVE  dhcp' \subseteq Channel \X Versions
    <3>1. dhcp \subseteq Channel \X Versions /\ <<c, v>> \in Channel \X Versions
      BY DEF UserTypeOK
    <3> QED
      BY <2>2, <3>1
  <2>4. dhcp' \subseteq Channel \X Versions /\ others' \in 0..2
    BY <1>10, <2>2 DEF Change, UserTypeOK
  <2>3. user2' \in Users /\ marks' \subseteq {"unchecked", "renamed", "kept", "touched", "cut"}
    BY <1>0, <1>10, UsersChanged DEF Change, UserTypeOK
  <2> QED
    BY <2>1, <2>3, <2>4 DEF UserTypeOK
<1>11. CASE UserCrash
    BY <1>11 DEF UserCrash, UserTypeOK, hosts
<1>12. CASE UNCHANGED userVars
    BY <1>12 DEF UserTypeOK, userVars, hosts, activation, history
<1> QED
    BY <1>1, <1>2, <1>3, <1>4, <1>5, <1>6, <1>7, <1>8, <1>9, <1>10, <1>11, <1>12
    DEF UserNext, Activating

-----------------------------------------------------------------------------
(* What has been Passed stays so while the request lasts: the history only *)
(* shrinks.                                                                *)
LEMMA PassedStays ==
    ASSUME medium' = medium, throughout' \subseteq throughout, NEW c, Passed(c)
    PROVE  Passed(c)'
    BY DEF Passed, Clear

(* What each kind of the handler's calls does to user 2.                   *)
LEMMA ActivatingChanges ==
    ASSUME UserTypeOK, Activating
    PROVE  /\ UNCHANGED <<medium, dhcp, others, throughout, was>>
           /\ userPhase # "idle"
           /\ userPhase' = "idle" \/ user2'.enabled = user2.enabled
<1>1. CASE GetChannelInfo
    BY <1>1 DEF GetChannelInfo, Answers, NextChannel, Goes, hosts, history
<1>2. ASSUME NEW v \in Versions, IsDHCPEnabled(v)
      PROVE  /\ UNCHANGED <<medium, dhcp, others, user2, throughout, was>>
             /\ userPhase # "idle"
    BY <1>2 DEF IsDHCPEnabled, Passes, Answers, NextChannel, Goes, hosts, history, Versions
<1>3. CASE GetAllCounts \/ CheckEnabled
    BY <1>3 DEF GetAllCounts, CheckEnabled, Answers, Goes, hosts, history
<1>4. user2 \in Users
    BY DEF UserTypeOK
<1>5. CASE Undo
    BY <1>5 DEF Undo, UserSets
<1>6. CASE SetName \/ SetPassword \/ SetPrivilege
    BY <1>4, <1>6, StagesDiffer
    DEF SetName, SetPassword, SetPrivilege, Undo, UserSets, Answers, Goes, hosts, history
<1> QED
    BY <1>1, <1>2, <1>3, <1>5, <1>6 DEF Activating

LEMMA CurrentKept == UserTypeOK /\ Current /\ [UserNext]_userVars => Current'
<1> SUFFICES ASSUME UserTypeOK, Current, [UserNext]_userVars PROVE Current'
    OBVIOUS
<1>1. CASE Activate
    BY <1>1 DEF Activate, hosts, Current
<1>2. CASE Activating
  <2>1. userPhase' = "idle" \/ Forbids(dhcp, user2, others)' = Forbids(dhcp, user2, others)
    BY <1>2, ActivatingChanges DEF Forbids, EnabledUsers
  <2> QED
    BY <1>2, <2>1, ActivatingChanges DEF Current
<1>3. CASE Change
  <2>1. /\ medium' = medium /\ userPhase' = userPhase
        /\ throughout' = throughout \cap Forbids(dhcp', user2', others')
    BY <1>3 DEF Change, activation
  <2>2. \A c \in Channel, v \in Versions : <<c, v>> \in dhcp' => medium[c] = "lan"
    <3>1. CASE dhcp' = dhcp
      BY <3>1 DEF Current
    <3>2. ASSUME NEW c \in Channel, NEW v \in Versions, medium[c] = "lan",
                 dhcp' = IF <<c, v>> \in dhcp THEN dhcp \ {<<c, v>>} ELSE dhcp \cup {<<c, v>>},
                 NEW d \in Channel, NEW w \in Versions, <<d, w>> \in dhcp'
          PROVE  medium[d] = "lan"
      <4>1. <<d, w>> \in dhcp \/ <<d, w>> = <<c, v>>
        BY <3>2
      <4> QED
        BY <3>2, <4>1 DEF Current
    <3> QED
      BY <1>3, <3>1, <3>2 DEF Change
  <2> QED
    BY <2>1, <2>2 DEF Current
<1>4. CASE UserCrash
    BY <1>4 DEF UserCrash, Current, hosts
<1>5. CASE UNCHANGED userVars
    BY <1>5 DEF Current, userVars, hosts, activation, history
<1> QED
    BY <1>1, <1>2, <1>3, <1>4, <1>5 DEF UserNext

(* What the handler has found out of the channels, by kind of call: each   *)
(* channel is passed on an answer that clears it.                          *)
LEMMA ChannelPassed ==
    ASSUME UserTypeOK, Scanned, NEW from \in {"info", "ip4"}, userPhase = from,
           Passed(channel), NextChannel(from)
    PROVE  Scanned'
<1>1. /\ UNCHANGED <<medium, throughout, marks>>
      /\ \A c \in 0..(channel - 1) : Passed(c)
    BY DEF NextChannel, Goes, hosts, history, Scanned
<1>2. \A c : Passed(c) => Passed(c)'
    BY <1>1, PassedStays
<1>3. channel \in 0..LastChannel /\ LastChannel \in Nat
    BY ChannelAssumption DEF UserTypeOK, Channel
<1>4. CASE channel = LastChannel /\ Goes(from, "counts")
  <2>1. \A c \in Channel : c \in 0..(channel - 1) \/ c = channel
    BY <1>3, <1>4 DEF Channel
  <2> QED
    BY <1>1, <1>2, <1>4, <2>1 DEF Scanned, Goes
<1>5. CASE Goes(from, "info") /\ channel' = channel + 1
  <2>1. \A c \in 0..(channel' - 1) : c \in 0..(channel - 1) \/ c = channel
    BY <1>3, <1>5
  <2> QED
    BY <1>1, <1>2, <1>5, <2>1 DEF Scanned, Goes
<1> QED
    BY <1>4, <1>5 DEF NextChannel

(* What has been so throughout the request is so now.                      *)
LEMMA ThroughoutIsNow ==
    ASSUME UserTypeOK, Current, userPhase # "idle"
    PROVE  /\ \A c \in Channel, v \in Versions : <<c, v>> \in throughout => <<c, v>> \in dhcp
           /\ User2Enabled \in throughout => user2.enabled
           /\ TwoEnabled \in throughout => EnabledUsers(user2, others) > 1
<1>1. User2Enabled \notin dhcp /\ TwoEnabled \notin dhcp
    BY DEF UserTypeOK, User2Enabled, TwoEnabled, Versions
<1>2. throughout \subseteq Forbids(dhcp, user2, others) /\ User2Enabled # TwoEnabled
    BY DEF Current, User2Enabled, TwoEnabled
<1>3. \A c \in Channel, v \in Versions : <<c, v>> \notin {User2Enabled, TwoEnabled}
    BY DEF User2Enabled, TwoEnabled, Versions
<1> QED
    BY <1>1, <1>2, <1>3 DEF Forbids

LEMMA ScannedKept == UserTypeOK /\ Current /\ Scanned /\ [UserNext]_userVars => Scanned'
<1> SUFFICES ASSUME UserTypeOK, Current, Scanned, [UserNext]_userVars PROVE Scanned'
    OBVIOUS
<1>0. channel \in Channel /\ LastChannel \in Nat
    BY ChannelAssumption DEF UserTypeOK
<1>1. CASE Activate
    BY <1>1 DEF Activate, Scanned, hosts
<1>2. ASSUME userPhase' \in {"idle", "undo"} PROVE Scanned'
    BY <1>2 DEF Scanned
<1>3. CASE GetChannelInfo
  <2>1. CASE medium[channel] = "lan" /\ Goes("info", "ip6") /\ UNCHANGED channel
    <3>1. UNCHANGED <<medium, throughout, marks, channel>> /\ userPhase = "info" /\ userPhase' = "ip6"
      BY <2>1 DEF Goes, hosts, history
    <3> QED
      BY <2>1, <3>1 DEF Scanned, Passed, Clear
  <2>2. CASE medium[channel] = "other" /\ NextChannel("info")
    <3>1. userPhase = "info"
      BY <2>2 DEF NextChannel, Goes
    <3>2. Passed(channel)
      BY <1>0, <2>2, <3>1, ThroughoutIsNow DEF Passed, Clear, Current
    <3> QED
      BY <2>2, <3>1, <3>2, ChannelPassed
  <2> QED
    BY <1>2, <1>3, <2>1, <2>2 DEF GetChannelInfo, Answers
<1>4. ASSUME NEW v \in Versions, IsDHCPEnabled(v) PROVE Scanned'
  <2>1. CASE ~UnderDHCP(v) /\ Passes(v)
    <3>1. userPhase = v /\ medium[channel] = "lan"
      BY <2>1 DEF Passes, NextChannel, Goes, Versions, Scanned
    <3>2. Clear(channel, v)
      BY <1>0, <2>1, <3>1, ThroughoutIsNow DEF UnderDHCP, Clear, Versions
    <3>3. CASE v = "ip6"
      <4>1. UNCHANGED <<medium, throughout, marks, channel>> /\ userPhase' = "ip4"
        BY <2>1, <3>3 DEF Passes, Goes, hosts, history
      <4> QED
        BY <3>1, <3>2, <3>3, <4>1 DEF Scanned, Passed, Clear
    <3>4. CASE v = "ip4"
      <4>1. Passed(channel)
        BY <3>1, <3>2, <3>4 DEF Scanned, Passed, Versions
      <4> QED
        BY <2>1, <3>1, <3>4, <4>1, ChannelPassed DEF Passes
    <3> QED
      BY <3>3, <3>4 DEF Versions
  <2> QED
    BY <1>2, <1>4, <2>1 DEF IsDHCPEnabled, Answers
<1>5. CASE GetAllCounts
  <2>1. CASE EnabledUsers(user2, others) <= 1 /\ Goes("counts", "check")
    <3>1. UNCHANGED <<medium, throughout, marks>> /\ userPhase = "counts" /\ userPhase' = "check"
      BY <2>1 DEF Goes, hosts, history
    <3>2. EnabledUsers(user2, others) \in Int
      BY DEF EnabledUsers, UserTypeOK
    <3>3. TwoEnabled \notin throughout
      BY <2>1, <3>1, <3>2, ThroughoutIsNow
    <3> QED
      BY <3>1, <3>3 DEF Scanned, Passed, Clear
  <2> QED
    BY <1>2, <1>5, <2>1 DEF GetAllCounts, Answers
<1>6. CASE CheckEnabled
  <2>1. CASE ~user2.enabled /\ Goes("check", "name")
    <3>1. UNCHANGED <<medium, throughout, marks>> /\ userPhase = "check" /\ userPhase' = "name"
      BY <2>1 DEF Goes, hosts, history
    <3>2. User2Enabled \notin throughout
      BY <2>1, <3>1, ThroughoutIsNow
    <3> QED
      BY <3>1, <3>2 DEF Scanned, Passed, Clear
  <2>2. CASE /\ userPhase = "check" /\ userPhase' = "name"
             /\ marks' = marks \cup {"unchecked"} /\ UNCHANGED <<medium, throughout>>
    BY <2>2 DEF Scanned, Passed, Clear
  <2> QED
    BY <1>2, <1>6, <2>1, <2>2 DEF CheckEnabled, Answers, hosts
<1>7. CASE SetName \/ SetPassword \/ SetPrivilege \/ Undo
  <2>1. UNCHANGED <<medium, throughout>> /\ marks \subseteq marks'
    BY <1>7 DEF SetName, SetPassword, SetPrivilege, Undo, UserSets, Answers, Goes, hosts, history
  <2>2. \/ userPhase' \in {"idle", "undo"}
        \/ userPhase = "name" /\ userPhase' = "password"
        \/ userPhase = "password" /\ userPhase' = "priv"
    BY <1>7 DEF SetName, SetPassword, SetPrivilege, Undo, UserSets, Answers, Goes
  <2> QED
    BY <2>1, <2>2 DEF Scanned, Passed, Clear
<1>8. CASE Change
  <2>1. UNCHANGED <<medium, userPhase, channel>> /\ throughout' \subseteq throughout /\ marks \subseteq marks'
    BY <1>8 DEF Change, activation
  <2> QED
    BY <2>1 DEF Scanned, Passed, Clear
<1>9. CASE UserCrash
    BY <1>2, <1>9 DEF UserCrash
<1>10. CASE UNCHANGED userVars
    BY <1>10 DEF Scanned, Passed, Clear, userVars, hosts, activation, history
<1> QED
    BY <1>1, <1>3, <1>4, <1>5, <1>6, <1>7, <1>8, <1>9, <1>10 DEF UserNext, Activating

(* The three calls that change user 2 follow each other, and the fourth    *)
(* deletes it; a call that fails leaves the stage before it or the next.   *)
LEMMA HalvesKept == UserTypeOK /\ Halves /\ [UserNext]_userVars => Halves'
<1> SUFFICES ASSUME UserTypeOK, Halves, [UserNext]_userVars PROVE Halves'
    OBVIOUS
<1> USE DEF Halves, Untouched, Activated, InOrder
<1>1. CASE Activate
    BY <1>1 DEF Activate, hosts, Stages
<1>2. ASSUME NEW from, NEW cc \in {"unspecified", "notavailable"}, Answers(from, cc),
             from \in Versions \cup {"info", "counts", "check", "name"},
             marks' = marks
      PROVE  Halves'
    BY <1>2 DEF Answers, hosts, Versions, Stages
<1>3. ASSUME NEW from, NEW to, Goes(from, to),
             {from, to} \subseteq Versions \cup {"info", "counts", "check", "name"}
      PROVE  Halves'
    BY <1>3 DEF Goes, hosts, history, Versions
<1>4. CASE GetChannelInfo
    BY <1>2, <1>3, <1>4 DEF GetChannelInfo, NextChannel, Versions
<1>5. ASSUME NEW v \in Versions, IsDHCPEnabled(v) PROVE Halves'
    BY <1>2, <1>3, <1>5 DEF IsDHCPEnabled, Passes, NextChannel, Versions
<1>6. CASE GetAllCounts
    BY <1>2, <1>3, <1>6 DEF GetAllCounts
<1>7. CASE CheckEnabled
  <2>1. CASE /\ userPhase = "check" /\ userPhase' = "name"
             /\ marks' = marks \cup {"unchecked"} /\ UNCHANGED <<hosts, userReply, was>>
    BY <2>1 DEF hosts
  <2> QED
    BY <1>2, <1>3, <1>7, <2>1 DEF CheckEnabled
<1>8. CASE SetName
  <2>1. CASE UserSets("name", "password", Renamed(user2)) /\ UNCHANGED <<userReply, marks>>
    BY <2>1 DEF UserSets
  <2>2. CASE /\ UserSets("name", "idle", Renamed(user2)) /\ userReply' = "notavailable"
             /\ marks' = marks \cup {"renamed"}
    BY <2>2 DEF UserSets, Stages
  <2> QED
    BY <1>2, <1>8, <2>1, <2>2 DEF SetName
<1>9. CASE SetPassword
    BY <1>9 DEF SetPassword, UserSets, Stages
<1>10. CASE SetPrivilege
  <2>1. CASE UserSets("priv", "idle", Raised(user2)) /\ userReply' = "ok" /\ UNCHANGED marks
    <3>1. ASSUME Untouched
          PROVE  user2'.name = "new" /\ user2'.password = "new" /\ user2'.priv = "admin"
      BY <2>1, <3>1, StagesDiffer DEF UserSets, UserTypeOK
    <3>2. Untouched => user2' \in Stages(was)
      BY <2>1 DEF UserSets, Stages
    <3> QED
      BY <2>1, <3>1, <3>2 DEF UserSets
  <2>2. CASE \E u \in {user2, Raised(user2)} :
                UserSets("priv", "undo", u) /\ UNCHANGED <<userReply, marks>>
    BY <2>2 DEF UserSets, Stages
  <2> QED
    BY <1>10, <2>1, <2>2 DEF SetPrivilege
<1>11. CASE Undo
    BY <1>11 DEF Undo, UserSets
<1>12. CASE Change
  <2>1. /\ UNCHANGED <<userPhase, userReply, was>>
        /\ (user2' = user2 /\ marks' = marks) \/ "touched" \in marks'
    BY <1>12 DEF Change, activation
  <2> QED
    BY <2>1
<1>13. CASE UserCrash
    BY <1>13 DEF UserCrash, hosts, Stages, UserTypeOK, Versions
<1>14. CASE UNCHANGED userVars
    BY <1>14 DEF userVars, hosts, activation, history
<1> QED
    BY <1>1, <1>4, <1>5, <1>6, <1>7, <1>8, <1>9, <1>10, <1>11, <1>12, <1>13, <1>14
    DEF UserNext, Activating

LEMMA UserInitially == UserInit => UserInv
<1> SUFFICES ASSUME UserInit PROVE UserInv
    OBVIOUS
<1>1. UserTypeOK
  <2>1. user2 \in Users /\ was \in Users
    BY UsersChanged DEF UserInit
  <2>2. channel \in Channel /\ changes \in 0..MaxChanges
    BY ChannelAssumption DEF UserInit, Channel
  <2>3. dhcp \subseteq Channel \X Versions
    BY DEF UserInit
  <2> QED
    BY <2>1, <2>2, <2>3 DEF UserInit, UserTypeOK
<1>2. Current /\ Scanned /\ Halves
    BY DEF UserInit, Current, Scanned, Halves, Untouched, Activated, InOrder, Stages, Versions
<1> QED
    BY <1>1, <1>2 DEF UserInv

LEMMA UserInvariant == UserSpec => []UserInv
<1>1. UserInv /\ [UserNext]_userVars => UserInv'
    BY NextUserTypeOK, CurrentKept, ScannedKept, HalvesKept DEF UserInv
<1> QED
    BY <1>1, UserInitially, PTL DEF UserSpec

(* The user activation handler keeps its state and user 2 well formed.     *)
THEOREM UserTypeCorrect == UserSpec => []UserTypeOK
<1>1. UserInv => UserTypeOK
    BY DEF UserInv
<1> QED
    BY <1>1, UserInvariant, PTL

(* Whatever calls fail, before or after their effect, whatever other       *)
(* clients do in between and wherever the daemon ends, default user        *)
(* activation is refused when an address was under DHCP, user 2 enabled or *)
(* two users enabled during all of the request; an ok means that all three *)
(* parts of the user are set; and user 2 is left as the first of the calls *)
(* made it or deleted; after an answer that failed it is as it was or      *)
(* deleted, but where the naming failed after its effect or the deletion   *)
(* failed.                                                                 *)
THEOREM ActivationIsGuarded == UserSpec => []ActivationGuarded
<1>1. ASSUME UserInv PROVE ActivationGuarded
  <2>1. Activated /\ InOrder
    BY <1>1 DEF UserInv, Halves
  <2>2. ASSUME userPhase \in {"name", "password", "priv"}
        PROVE  /\ \A c \in Channel : medium[c] # "system"
               /\ Forbidden = {}
    <3>1. /\ \A c \in Channel : Passed(c)
          /\ TwoEnabled \notin throughout
          /\ User2Enabled \notin throughout \/ "unchecked" \in marks
      BY <1>1, <2>2 DEF UserInv, Scanned
    <3>2. throughout \subseteq (Channel \X Versions) \cup {User2Enabled, TwoEnabled}
      BY <1>1 DEF UserInv, UserTypeOK
    <3>3. ASSUME NEW c \in Channel, NEW v \in Versions, <<c, v>> \in throughout
          PROVE  <<c, v>> \in Unseen
      BY <3>1, <3>3 DEF Passed, Clear, Unseen
    <3> QED
      BY <3>1, <3>2, <3>3 DEF Passed, Forbidden
  <2> QED
    BY <2>1, <2>2 DEF ActivationGuarded, OnlyWhenAllowed
<1> QED
    BY <1>1, UserInvariant, PTL

-----------------------------------------------------------------------------
(* The host serial setting.  What the handler has of its child, and what a *)
(* Set that is not answered yet has reached.                               *)
FromChild ==
    /\ serialPhase = "idle" <=> child = "none"
    /\ {pipe, data} \subseteq {Unset, envThen}
    /\ child = "start" => pipe = Unset /\ data = Unset
    /\ serialPhase = "setwait" => child \in {"start", "ended", "failed"}

SetUnderWay ==
    serialPhase = "setwait" =>
        /\ lastSet = Unset
        /\ child = "ended" /\ ~overwritten => env = parameter

SerialInv == SerialTypeOK /\ FromChild /\ SetUnderWay /\ SetSticks

LEMMA SerialReplyTyped ==
    ASSUME NEW cc \in {"none", "ok", "badlen", "invalid", "unspecified"},
           NEW len \in 0..1, NEW value \in 0..255
    PROVE  [cc |-> cc, len |-> len, value |-> value] \in
               [cc: {"none", "ok", "badlen", "invalid", "unspecified"},
                len: 0..1, value: 0..255]
    OBVIOUS

LEMMA ReadableIsByte == ASSUME NEW v \in Values, Readable(v) PROVE v \in 0..255
    BY SerialAssumption DEF Values, Readable, Unset, NotNumber

LEMMA SerialReturnTyped ==
    ASSUME SerialTypeOK, NEW cc \in {"none", "ok", "badlen", "invalid", "unspecified"},
           NEW len \in 0..1, NEW value \in 0..255, SerialReturn(cc, len, value),
           lastSet' \in Parameters \cup {Unset}
    PROVE  SerialTypeOK'
    BY SerialReplyTyped DEF SerialTypeOK, SerialReturn

LEMMA NextSerialTypeOK == SerialTypeOK /\ [SerialNext]_serialVars => SerialTypeOK'
<1> SUFFICES ASSUME SerialTypeOK, [SerialNext]_serialVars PROVE SerialTypeOK'
    OBVIOUS
<1>0. /\ Unset \in Values /\ Parameters \subseteq Values /\ Contents \subseteq Values
      /\ 0 \in 0..1 /\ 1 \in 0..1 /\ 0 \in 0..255
      /\ lastSet \in Parameters \cup {Unset} /\ parameter \in Parameters
    BY DEF Values, SerialTypeOK
<1>1. ASSUME NEW cc \in {"badlen", "invalid"}, SerialRefuses(cc) PROVE SerialTypeOK'
    BY <1>0, <1>1, SerialReturnTyped DEF SerialRefuses
<1>2. NoSerialReply \in [cc: {"none", "ok", "badlen", "invalid", "unspecified"},
                         len: 0..1, value: 0..255]
    BY <1>0, SerialReplyTyped DEF NoSerialReply
<1>3. CASE GetSpeedConfig
    BY <1>0, <1>2, <1>3 DEF GetSpeedConfig, Spawns, SerialTypeOK
<1>4. ASSUME NEW p \in Parameters, SetSpeedConfig(p) PROVE SerialTypeOK'
    BY <1>0, <1>2, <1>4 DEF SetSpeedConfig, Spawns, SerialTypeOK
<1>5. CASE ChildStep
    BY <1>0, <1>5 DEF ChildStep, ChildPrints, ChildEnds, ChildSets, SerialTypeOK
<1>6. CASE TestRunning \/ GetLine
    BY <1>0, <1>6 DEF TestRunning, GetLine, SerialTypeOK
<1>7. CASE Collect
  <2>1. Readable(data) => data \in 0..255
    BY ReadableIsByte DEF SerialTypeOK
  <2>2. CASE SerialReturn("ok", 1, 0) \/ SerialReturn("unspecified", 0, 0)
    BY <1>0, <1>7, <2>2, SerialReturnTyped DEF Collect
  <2>3. CASE Readable(data) /\ SerialReturn("ok", 1, data)
    BY <1>0, <1>7, <2>1, <2>3, SerialReturnTyped DEF Collect
  <2> QED
    BY <1>7, <2>2, <2>3 DEF Collect
<1>8. CASE CollectSet
    BY <1>0, <1>8, SerialReturnTyped DEF CollectSet
<1>9. CASE OthersWrite
    BY <1>0, <1>9 DEF OthersWrite, SerialTypeOK
<1>10. CASE UNCHANGED serialVars
    BY <1>10 DEF SerialTypeOK, serialVars
<1> QED
    BY <1>1, <1>3, <1>4, <1>5, <1>6, <1>7, <1>8, <1>9, <1>10
    DEF SerialNext, SerialRequest, SerialStep

LEMMA NextSerialInv ==
    SerialInv /\ [SerialNext]_serialVars => FromChild' /\ SetUnderWay' /\ SetSticks'
<1> SUFFICES ASSUME SerialInv, [SerialNext]_serialVars
             PROVE  FromChild' /\ SetUnderWay' /\ SetSticks'
    OBVIOUS
<1> USE DEF SerialInv, FromChild, SetUnderWay, SetSticks
<1>0. Unset \notin Parameters /\ parameter \in Parameters
    BY SerialAssumption DEF Unset, SerialTypeOK
<1>1. ASSUME NEW cc, SerialRefuses(cc) PROVE FromChild' /\ SetUnderWay' /\ SetSticks'
    BY <1>1 DEF SerialRefuses, SerialReturn
<1>2. CASE GetSpeedConfig
    BY <1>2 DEF GetSpeedConfig, Spawns
<1>3. ASSUME NEW p \in Parameters, SetSpeedConfig(p)
      PROVE  FromChild' /\ SetUnderWay' /\ SetSticks'
    BY <1>3 DEF SetSpeedConfig, Spawns
<1>4. CASE ChildPrints
    BY <1>4 DEF ChildPrints
<1>5. CASE ChildEnds
    BY <1>5 DEF ChildEnds
<1>6. CASE ChildSets
    BY <1>6 DEF ChildSets
<1>7. CASE TestRunning \/ GetLine
    BY <1>7 DEF TestRunning, GetLine
<1>8. CASE Collect
    BY <1>8 DEF Collect, SerialReturn
<1>9. CASE CollectSet
    BY <1>0, <1>9 DEF CollectSet, SerialReturn
<1>10. CASE OthersWrite
    BY <1>10 DEF OthersWrite
<1>11. CASE UNCHANGED serialVars
    BY <1>11 DEF serialVars
<1> QED
    BY <1>1, <1>2, <1>3, <1>4, <1>5, <1>6, <1>7, <1>8, <1>9, <1>10, <1>11
    DEF SerialNext, SerialRequest, ChildStep, SerialStep

LEMMA SerialInitially == SerialInit => SerialInv
<1> SUFFICES ASSUME SerialInit PROVE SerialInv
    OBVIOUS
<1>1. SerialTypeOK
  <2>1. serialReply \in [cc: {"none", "ok", "badlen", "invalid", "unspecified"},
                         len: 0..1, value: 0..255]
    BY SerialReplyTyped DEF SerialInit, NoSerialReply
  <2>2. Unset \in Values /\ Contents \subseteq Values
    BY DEF Values
  <2> QED
    BY <2>1, <2>2 DEF SerialInit, SerialTypeOK
<1> QED
    BY <1>1 DEF SerialInit, SerialInv, FromChild, SetUnderWay, SetSticks

LEMMA SerialInvariant == SerialSpec => []SerialInv
<1>1. SerialInv /\ [SerialNext]_serialVars => SerialInv'
    BY NextSerialTypeOK, NextSerialInv DEF SerialInv
<1> QED
    BY <1>1, SerialInitially, PTL DEF SerialSpec

(* The serial handler and its child keep the types of what they share.     *)
THEOREM SerialTypeCorrect == SerialSpec => []SerialTypeOK
<1>1. SerialInv => SerialTypeOK
    BY DEF SerialInv
<1> QED
    BY <1>1, SerialInvariant, PTL

(* The only step by which a Get ends with the child's line.                *)
LEMMA CollectEnds ==
    ASSUME SerialInv, SerialNext, serialPhase = "wait", serialPhase' = "idle"
    PROVE  Collect
    BY DEF SerialNext, SerialRequest, SerialRefuses, GetSpeedConfig, SetSpeedConfig, Spawns,
       ChildStep, ChildPrints, ChildEnds, ChildSets, SerialStep, TestRunning, GetLine,
       CollectSet, OthersWrite, SerialInv, SerialTypeOK

(* However the handler, its child and other programs interleave, a Get is  *)
(* answered with the variable as the child saw it, and a Set answered ok   *)
(* is in the environment until somebody else writes it.                    *)
THEOREM SerialIsKept == SerialSpec => SerialKept
<1>1. SerialInv => SetSticks
    BY DEF SerialInv
<1>2. ASSUME SerialInv, [SerialNext]_serialVars, serialPhase = "wait", serialPhase' = "idle",
             serialReply'.cc = "ok"
      PROVE  serialReply'.value = IF child = "failed" THEN 0 ELSE envThen
  <2>1. Collect
    BY <1>2, CollectEnds DEF serialVars
  <2> QED
    BY <1>2, <2>1 DEF Collect, SerialReturn, Readable, SerialInv, FromChild
<1>3. SerialInv /\ [SerialNext]_serialVars =>
          [serialPhase = "wait" /\ serialPhase' = "idle" /\ serialReply'.cc = "ok"
              => serialReply'.value = IF child = "failed" THEN 0 ELSE envThen]_serialVars
    BY <1>2
<1> QED
    BY <1>1, <1>3, SerialInvariant, PTL DEF SerialSpec, SerialKept, AnswerIsSetting

-----------------------------------------------------------------------------
(* The LED status.  The response byte holds the bits of what was read, and *)
(* of nothing else: an LED that is still to be read counts as Off.         *)
Bits(l) == Shifted(BitsOf(seen[l]), Offset(l))

ReadSoFar ==
    /\ resp = Bits("amber") \cup Bits("green") \cup Bits("identify")
    /\ ledPhase = "amber" => seen["amber"] = "Off"
    /\ ledPhase \in {"amber", "green"} => seen["green"] = "Off"
    /\ ledPhase \in {"amber", "green", "identify"} => seen["identify"] = "Off"

LedInv == LedTypeOK /\ ReadSoFar

LEMMA OffHasNoBits == \A n : Shifted(BitsOf("Off"), n) = {}
    BY DEF Shifted, BitsOf

LEMMA LedReplyTyped ==
    ASSUME NEW cc \in {"none", "ok", "badlen", "unspecified"}, NEW len \in {0, 1}
    PROVE  [cc |-> cc, len |-> len] \in
               [cc: {"none", "ok", "badlen", "unspecified"}, len: {0, 1}]
    OBVIOUS

LEMMA NextLedTypeOK == LedTypeOK /\ [LedNext]_ledVars => LedTypeOK'
<1> SUFFICES ASSUME LedTypeOK, [LedNext]_ledVars PROVE LedTypeOK'
    OBVIOUS
<1>1. CASE LedBadLength
    BY <1>1, LedReplyTyped DEF LedTypeOK, LedBadLength
<1>2. CASE GetLedStatus
    BY <1>2, LedReplyTyped DEF LedTypeOK, GetLedStatus, Unread, LEDs, States
<1>3. CASE GetLEDState
  <2>1. /\ UNCHANGED led
        /\ seen' = [seen EXCEPT ![ledPhase] = led[ledPhase]] /\ ledPhase \in LEDs
        /\ resp' = resp \cup Shifted(BitsOf(led[ledPhase]), Offset(ledPhase))
    BY <1>3 DEF GetLEDState, LedTypeOK
  <2>2. seen' \in [LEDs -> States]
    BY <2>1 DEF LedTypeOK
  <2>3. resp' \subseteq 0..7
    BY <2>1 DEF LedTypeOK, Shifted
  <2>4. ledPhase' \in LEDs \cup {"idle"}
    BY <1>3, <2>1 DEF GetLEDState, LedReturn, After, LEDs
  <2>5. ledReply' = ledReply \/ ledReply' = [cc |-> "ok", len |-> 1]
    BY <1>3 DEF GetLEDState, LedReturn
  <2> QED
    BY <2>1, <2>2, <2>3, <2>4, <2>5, LedReplyTyped DEF LedTypeOK
<1>4. CASE GetLEDStateFails
    BY <1>4, LedReplyTyped DEF LedTypeOK, GetLEDStateFails, LedReturn
<1>5. CASE LedChanges
    BY <1>5 DEF LedTypeOK, LedChanges
<1>6. CASE UNCHANGED ledVars
    BY <1>6 DEF LedTypeOK, ledVars
<1> QED
    BY <1>1, <1>2, <1>3, <1>4, <1>5, <1>6 DEF LedNext

LEMMA NextReadSoFar == LedInv /\ [LedNext]_ledVars => ReadSoFar'
<1> SUFFICES ASSUME LedInv, [LedNext]_ledVars PROVE ReadSoFar'
    OBVIOUS
<1>1. CASE GetLedStatus
    BY <1>1, OffHasNoBits DEF GetLedStatus, ReadSoFar, Bits, Unread, LEDs
<1>2. CASE GetLEDState
  <2>1. /\ ledPhase \in LEDs /\ seen \in [LEDs -> States] /\ led \in [LEDs -> States]
        /\ seen' = [seen EXCEPT ![ledPhase] = led[ledPhase]]
        /\ resp' = resp \cup Shifted(BitsOf(led[ledPhase]), Offset(ledPhase))
        /\ ledPhase' = After(ledPhase)
    BY <1>2 DEF GetLEDState, LedReturn, LedInv, LedTypeOK
  <2>2. CASE ledPhase = "amber"
    <3>1. ledPhase' = "green" /\ seen["amber"] = "Off" /\ seen'["amber"] = led["amber"]
          /\ seen'["green"] = seen["green"] /\ seen'["identify"] = seen["identify"]
      BY <2>1, <2>2 DEF After, LedInv, ReadSoFar, LEDs
    <3> QED
      BY <2>1, <2>2, <3>1, OffHasNoBits DEF LedInv, ReadSoFar, Bits
  <2>3. CASE ledPhase = "green"
    <3>1. ledPhase' = "identify" /\ seen["green"] = "Off" /\ seen'["green"] = led["green"]
          /\ seen'["amber"] = seen["amber"] /\ seen'["identify"] = seen["identify"]
      BY <2>1, <2>3 DEF After, LedInv, ReadSoFar, LEDs
    <3> QED
      BY <2>1, <2>3, <3>1, OffHasNoBits DEF LedInv, ReadSoFar, Bits
  <2>4. CASE ledPhase = "identify"
    <3>1. ledPhase' = "idle" /\ seen["identify"] = "Off" /\ seen'["identify"] = led["identify"]
          /\ seen'["amber"] = seen["amber"] /\ seen'["green"] = seen["green"]
      BY <2>1, <2>4 DEF After, LedInv, ReadSoFar, LEDs
    <3> QED
      BY <2>1, <2>4, <3>1, OffHasNoBits DEF LedInv, ReadSoFar, Bits
  <2> QED
    BY <2>1, <2>2, <2>3, <2>4 DEF LEDs
<1>3. CASE LedBadLength \/ GetLEDStateFails \/ LedChanges
    BY <1>3 DEF LedBadLength, GetLEDStateFails, LedChanges, LedReturn, LedInv, ReadSoFar, Bits
<1>4. CASE UNCHANGED ledVars
    BY <1>4 DEF ledVars, LedInv, ReadSoFar, Bits
<1> QED
    BY <1>1, <1>2, <1>3, <1>4 DEF LedNext

LEMMA LedInvariant == LedSpec => []LedInv
<1>1. LedInit => LedInv
    BY OffHasNoBits, LedReplyTyped
    DEF LedInit, LedInv, LedTypeOK, ReadSoFar, Bits, Unread, LEDs, States
<1>2. LedInv /\ [LedNext]_ledVars => LedInv'
    BY NextLedTypeOK, NextReadSoFar DEF LedInv
<1> QED
    BY <1>1, <1>2, PTL DEF LedSpec

(* The LED handler keeps its types: no bit outside of the answered byte.   *)
THEOREM LedTypeCorrect == LedSpec => []LedTypeOK
<1>1. LedInv => LedTypeOK
    BY DEF LedInv
<1> QED
    BY <1>1, LedInvariant, PTL

(* However the LEDs change between the calls, an answer tells the LEDs that *)
(* were blinking when they were read, and takes an LED that was On for one *)
(* that was off, but amber for a blinking System Identify.                 *)
THEOREM LedsAreShown == LedSpec => []ShowsWhatWasRead
<1>1. ASSUME LedInv
      PROVE  resp = {b \in {2, 4, 6} :
                        \/ b = 2 /\ seen["amber"] = "Blink"
                        \/ b = 4 /\ seen["green"] = "Blink"
                        \/ b = 6 /\ (seen["identify"] = "Blink" \/ seen["amber"] = "On")}
  <2>1. \A l \in LEDs : seen[l] \in {"Off", "Blink", "On"}
    BY <1>1 DEF LedInv, LedTypeOK, States
  <2>2. /\ \A n \in {2, 4, 6} : Shifted(BitsOf("Blink"), n) = {n}
        /\ Shifted(BitsOf("On"), 2) = {6}
        /\ Shifted(BitsOf("On"), 4) = {} /\ Shifted(BitsOf("On"), 6) = {}
    BY DEF Shifted, BitsOf
  <2>3. /\ Bits("amber") = IF seen["amber"] = "Blink" THEN {2}
                           ELSE IF seen["amber"] = "On" THEN {6} ELSE {}
        /\ Bits("green") = IF seen["green"] = "Blink" THEN {4} ELSE {}
        /\ Bits("identify") = IF seen["identify"] = "Blink" THEN {6} ELSE {}
    BY <2>1, <2>2, OffHasNoBits DEF Bits, Offset, LEDs
  <2> QED
    BY <1>1, <2>3 DEF LedInv, ReadSoFar
<1>2. ASSUME LedInv, NEW l \in LEDs
      PROVE  Field(l) = IF seen[l] = "Blink" \/ (l = "identify" /\ seen["amber"] = "On")
                        THEN {0} ELSE {}
  <2>1. Offset(l) = CASE l = "amber" -> 2 [] l = "green" -> 4 [] l = "identify" -> 6
    BY DEF Offset
  <2>2. \A b \in {2, 4, 6} : b \div 2 = Offset(l) \div 2 <=> b = Offset(l)
    BY <2>1 DEF LEDs
  <2>3. {b \in resp : b \div 2 = Offset(l) \div 2} = resp \cap {Offset(l)}
    BY <1>1, <1>2, <2>2
  <2>4. resp \cap {Offset(l)} =
            IF seen[l] = "Blink" \/ (l = "identify" /\ seen["amber"] = "On")
            THEN {Offset(l)} ELSE {}
    BY <1>1, <1>2, <2>1 DEF LEDs
  <2>5. Offset(l) - Offset(l) = 0
    BY <2>1 DEF LEDs
  <2> QED
    BY <2>3, <2>4, <2>5 DEF Field
<1>3. LedInv => ShowsWhatWasRead
    BY <1>2 DEF ShowsWhatWasRead
<1> QED
    BY <1>3, LedInvariant, PTL

-----------------------------------------------------------------------------
(* The settings on D-Bus.  The tables of the handlers, and the values they *)
(* convert.                                                                *)
LEMMA Tables ==
    /\ WritesOf("delay") = <<"Delay">> /\ ReadsOf("delay") = <<"Delay">>
    /\ WritesOf("errConfig") = <<"ResetCfg", "ErrorCounts">>
    /\ ReadsOf("errConfig") = <<"ResetCfg", "CATERRStatus">>
    /\ WritesOf("policy") = <<"Policy">> /\ ReadsOf("policy") = <<"Policy">>
    /\ WritesOf("profile") = <<"Mode">> /\ ReadsOf("profile") = <<"Mode">>
    /\ WritesOf("cfm") = <<"Limit">> /\ ReadsOf("cfm") = <<"Limit", "MaxCFM">>
    /\ WritesOf("exitAir") = <<"SetPoint">> /\ ReadsOf("exitAir") = <<"SetPoint">>
    /\ WritesOf("bios") = <<"BiosId">> /\ ReadsOf("bios") = <<"BiosId">>
    BY DEF WritesOf, ReadsOf

(* Of every table one fact at a time.                                      *)
LEMMA OneOrTwo ==
    ASSUME NEW A, NEW a \in A, NEW b \in A
    PROVE  /\ <<a>> \in Seq(A) /\ Len(<<a>>) = 1 /\ <<a>>[1] = a
           /\ <<a, b>> \in Seq(A) /\ Len(<<a, b>>) = 2
           /\ <<a, b>>[1] = a /\ <<a, b>>[2] = b
    OBVIOUS

LEMMA TablesOf ==
    ASSUME NEW s \in AllSettings
    PROVE  /\ WritesOf(s) \in Seq(Properties) /\ ReadsOf(s) \in Seq(Properties)
           /\ Len(WritesOf(s)) = IF s = "errConfig" THEN 2 ELSE 1
           /\ Len(ReadsOf(s)) = IF s \in {"errConfig", "cfm"} THEN 2 ELSE 1
           /\ s = "errConfig" => WritesOf(s)[1] # WritesOf(s)[2]
           /\ ReadsOf(s)[1] = WritesOf(s)[1]
<1>1. {"Delay", "ResetCfg", "ErrorCounts", "CATERRStatus", "Policy", "Mode", "Limit",
       "MaxCFM", "SetPoint", "BiosId"} \subseteq Properties
    BY DEF Properties
<1>2. CASE s = "errConfig"
  <2>1. WritesOf(s) = <<"ResetCfg", "ErrorCounts">> /\ ReadsOf(s) = <<"ResetCfg", "CATERRStatus">>
    BY <1>2, Tables
  <2>2. WritesOf(s) \in Seq(Properties) /\ ReadsOf(s) \in Seq(Properties)
    BY <1>1, <2>1
  <2>3. /\ Len(WritesOf(s)) = 2 /\ Len(ReadsOf(s)) = 2
        /\ ReadsOf(s)[1] = WritesOf(s)[1]
    BY <2>1
  <2>4. s = "errConfig" => WritesOf(s)[1] # WritesOf(s)[2]
    BY <1>2, <2>1
  <2> QED
    BY <1>2, <2>2, <2>3, <2>4
<1>3. CASE s = "cfm"
  <2>1. WritesOf(s) = <<"Limit">> /\ ReadsOf(s) = <<"Limit", "MaxCFM">>
    BY <1>3, Tables
  <2>2. WritesOf(s) \in Seq(Properties) /\ ReadsOf(s) \in Seq(Properties)
    BY <1>1, <2>1
  <2>3. /\ Len(WritesOf(s)) = 1 /\ Len(ReadsOf(s)) = 2
        /\ ReadsOf(s)[1] = WritesOf(s)[1]
    BY <2>1
  <2>4. s = "errConfig" => WritesOf(s)[1] # WritesOf(s)[2]
    BY <1>3, <2>1
  <2> QED
    BY <1>3, <2>2, <2>3, <2>4
<1>4. CASE s \in {"delay", "policy"}
    BY <1>1, <1>4, Tables, OneOrTwo
<1>5. CASE s \in {"profile", "exitAir", "bios"}
    BY <1>1, <1>5, Tables, OneOrTwo
<1> QED
    BY <1>2, <1>3, <1>4, <1>5 DEF AllSettings

LEMMA InTables ==
    ASSUME NEW s \in AllSettings
    PROVE  /\ \A i \in 1..Len(WritesOf(s)) : WritesOf(s)[i] \in Properties
           /\ \A i \in 1..Len(ReadsOf(s)) : ReadsOf(s)[i] \in Properties
    BY TablesOf

LEMMA Limits == MaxByte = 255 /\ MaxWord = 65535
    BY DEF MaxByte, MaxWord

LEMMA IsWord ==
    ASSUME NEW n \in Int, 0 <= n, n <= 65535
    PROVE  n \in Word16
<1>1. MaxWord \in Int /\ n <= MaxWord
    BY Limits
<1> QED
    BY <1>1 DEF Word16

LEMMA WordIsNumber ==
    ASSUME NEW lo \in Byte, NEW hi \in Byte
    PROVE  /\ Word(<<lo, hi>>) \in Word16
           /\ Word(<<lo, hi>>) % 256 = lo
           /\ Word(<<lo, hi>>) \div 256 = hi
<1>1. /\ lo \in Int /\ hi \in Int /\ 0 <= lo /\ 0 <= hi /\ lo <= 255 /\ hi <= 255
    BY Limits DEF Byte
<1>2. (hi * 256) % 65536 = hi * 256
    BY <1>1
<1>3. Word(<<lo, hi>>) = hi * 256 + lo
    BY <1>2 DEF Word
<1>4. hi * 256 + lo \in Int /\ 0 <= hi * 256 + lo /\ hi * 256 + lo <= 65535
    BY <1>1
<1>5. (hi * 256 + lo) % 256 = lo /\ (hi * 256 + lo) \div 256 = hi
    BY <1>1
<1>6. hi * 256 + lo \in Word16
    BY <1>4, IsWord
<1> QED
    BY <1>3, <1>5, <1>6

LEMMA BytesOfNumber ==
    ASSUME NEW n \in Word16
    PROVE  n % 256 \in Byte /\ n \div 256 \in Byte
<1>1. n \in Int /\ 0 <= n /\ n <= 65535
    BY Limits DEF Word16
<1>2. n % 256 \in Int /\ 0 <= n % 256 /\ n % 256 <= 255
    BY <1>1
<1>3. n \div 256 \in Int /\ 0 <= n \div 256 /\ n \div 256 <= 255
    BY <1>1
<1> QED
    BY <1>2, <1>3, Limits DEF Byte

LEMMA RoundedNumber ==
    /\ \A n \in Int : Rounded(2 * n) = n /\ Rounded(n) \in Int
    /\ \A n : InRange(n) => n \in Int /\ Rounded(n) \in Word16
<1>1. ASSUME NEW n \in Int PROVE Rounded(2 * n) = n /\ Rounded(n) \in Int
    BY DEF Rounded
<1>2. ASSUME NEW n, InRange(n) PROVE n \in Int /\ Rounded(n) \in Word16
  <2>0. 2 * MaxWord = 131070
    BY Limits
  <2>1. n \in Int /\ 0 <= n /\ n <= 131070
    BY <1>2, <2>0 DEF InRange
  <2>2. Rounded(n) \in Int /\ 0 <= Rounded(n) /\ Rounded(n) <= 65535
    BY <2>1 DEF Rounded
  <2>3. Rounded(n) \in Word16
    BY <2>2, IsWord
  <2> QED
    BY <2>1, <2>3
<1> QED
    BY <1>1, <1>2

LEMMA ShortSeq ==
    ASSUME NEW S, NEW q \in Seq(S)
    PROVE  /\ Len(q) = 2 => q = <<q[1], q[2]>> /\ q[2] \in S
           /\ Len(q) = 1 => q = <<q[1]>>
    OBVIOUS

LEMMA ArgOf ==
    ASSUME NEW s \in Settings, NEW a \in SettingArgs[s]
    PROVE  /\ a \in Seq(Byte) /\ a # <<>> /\ a[1] \in Byte
           /\ WellFormedArg(s, a)
           /\ s \in {"delay", "errConfig", "profile", "cfm"} => a = <<a[1], a[2]>> /\ a[2] \in Byte
           /\ s \in {"policy", "exitAir"} => a = <<a[1]>>
<1>1. WellFormedArg(s, a) /\ s \in AllSettings
    BY SettingAssumption
<1>2. a \in Seq(Byte) /\ Len(a) \in Nat /\ Len(a) >= 1
  <2>1. a \in Seq(Byte) /\ Len(a) \in Nat
    BY <1>1 DEF WellFormedArg
  <2>2. CASE s = "bios"
    BY <1>1, <2>1, <2>2 DEF WellFormedArg
  <2>3. CASE s \in {"policy", "exitAir"}
    <3>1. Len(a) = 1
      BY <1>1, <2>3 DEF WellFormedArg
    <3> QED
      BY <2>1, <3>1
  <2>4. CASE s \in {"delay", "errConfig", "profile", "cfm"}
    BY <1>1, <2>1, <2>4 DEF WellFormedArg
  <2> QED
    BY <1>1, <2>2, <2>3, <2>4, Zenon DEF AllSettings
<1>3. a # <<>> /\ a[1] \in Byte
    BY <1>2
<1>4. ASSUME Len(a) = 2 PROVE a = <<a[1], a[2]>> /\ a[2] \in Byte
    BY <1>2, <1>4, ShortSeq
<1>5. ASSUME Len(a) = 1 PROVE a = <<a[1]>>
    BY <1>2, <1>5, ShortSeq
<1> QED
    BY <1>1, <1>2, <1>3, <1>4, <1>5 DEF WellFormedArg

LEMMA WordOfArg ==
    ASSUME NEW s \in Settings, s \in {"delay", "cfm"}, NEW a \in SettingArgs[s]
    PROVE  /\ Word(a) \in Word16 /\ Word(a) \in Int
           /\ Bytes(Word(a)) = a
<1>1. a = <<a[1], a[2]>> /\ a[1] \in Byte /\ a[2] \in Byte
    BY ArgOf
<1>2. /\ Word(<<a[1], a[2]>>) \in Word16
      /\ Word(<<a[1], a[2]>>) % 256 = a[1] /\ Word(<<a[1], a[2]>>) \div 256 = a[2]
    BY <1>1, WordIsNumber
<1>3. Bytes(Word(a)) = <<a[1], a[2]>>
    BY <1>1, <1>2 DEF Bytes
<1>4. Word16 \subseteq Int
    BY DEF Word16
<1> QED
    BY <1>1, <1>2, <1>3, <1>4

LEMMA OneNumber ==
    ASSUME NEW n \in Int, NEW p \in {"Mode", "Limit", "SetPoint"}
    PROVE  WellTyped(p, <<n>>)
    BY DEF WellTyped

LEMMA StoredTyped ==
    ASSUME NEW s \in Settings, NEW a \in SettingArgs[s], Accepts(s, a),
           NEW i \in 1..Len(WritesOf(s))
    PROVE  WellTyped(WritesOf(s)[i], Stored(s, a, i))
<1>0. Byte \subseteq Int /\ s \in AllSettings
    BY SettingAssumption DEF Byte
<1>1. CASE s = "delay"
    BY <1>1, WordOfArg, TablesOf, <1>0 DEF Stored, WritesOf, WellTyped
<1>2. CASE s = "errConfig"
  <2>1. i \in {1, 2} /\ a[i] \in Byte /\ WritesOf(s)[i] \in {"ResetCfg", "ErrorCounts"}
    BY <1>2, ArgOf DEF WritesOf
  <2> QED
    BY <1>2, <2>1, <1>0 DEF Stored, WellTyped
<1>3. CASE s = "policy"
    BY <1>3, ArgOf, <1>0 DEF Stored, WritesOf, WellTyped, Accepts
<1>4. CASE s = "profile"
    BY <1>4, ArgOf, OneNumber, <1>0 DEF Stored, WritesOf
<1>5. CASE s = "cfm"
    BY <1>5, WordOfArg, OneNumber, <1>0 DEF Stored, WritesOf
<1>6. CASE s = "exitAir"
    BY <1>6, ArgOf, OneNumber, <1>0 DEF Stored, WritesOf
<1>7. CASE s = "bios"
    BY <1>7, ArgOf, <1>0 DEF Stored, WritesOf, WellTyped
<1> QED
    BY <1>0, <1>1, <1>2, <1>3, <1>4, <1>5, <1>6, <1>7 DEF AllSettings

(* What a Get makes of properties of their types is an answer of bytes,    *)
(* and of the argument of a Set the same bytes again.                      *)
Typical(s, v) ==
    /\ v \in Seq(Seq(Int)) /\ Len(v) = Len(ReadsOf(s))
    /\ \A i \in 1..Len(v) : WellTyped(ReadsOf(s)[i], v[i])

Spaced(sp) == sp.offset \in Nat /\ sp.count \in Nat

LEMMA BytesAnswer ==
    ASSUME NEW a \in Byte, NEW b \in Byte
    PROVE  <<a>> \in Seq(Byte) /\ <<a, b>> \in Seq(Byte)
    OBVIOUS

LEMMA PartEnd ==
    ASSUME NEW l \in Nat, NEW o \in Nat, NEW c \in Nat, o < l,
           NEW n, n = IF c > l - o THEN l ELSE o + c
    PROVE  o + 1 \in 1..l /\ n \in Int /\ n <= l /\ o <= n
<1>1. CASE c > l - o
    BY <1>1
<1>2. CASE ~(c > l - o)
    BY <1>2
<1> QED
    BY <1>1, <1>2

LEMMA Concatenated ==
    ASSUME NEW S, NEW p \in Seq(S), NEW q \in Seq(S)
    PROVE  /\ p \o q \in Seq(S)
           /\ Len(p \o q) = Len(p) + Len(q)
           /\ \A i \in 1..Len(p) : (p \o q)[i] = p[i]
           /\ \A i \in 1..Len(q) : (p \o q)[Len(p) + i] = q[i]
    OBVIOUS

LEMMA FirstTwo ==
    ASSUME NEW S, NEW p \in Seq(S), NEW q \in Seq(S), Len(p) = 2
    PROVE  SubSeq(p \o q, 1, 2) = p
<1>1. p \o q \in Seq(S) /\ Len(p \o q) = 2 + Len(q) /\ Len(q) \in Nat
      /\ (p \o q)[1] = p[1] /\ (p \o q)[2] = p[2]
  <2>1. p \o q \in Seq(S) /\ Len(p \o q) = Len(p) + Len(q)
        /\ \A i \in 1..Len(p) : (p \o q)[i] = p[i]
    BY Concatenated, Zenon
  <2>2. Len(q) \in Nat
    OBVIOUS
  <2>3. 1 \in 1..Len(p) /\ 2 \in 1..Len(p)
    OBVIOUS
  <2> QED
    BY <2>1, <2>2, <2>3
<1> DEFINE r == SubSeq(p \o q, 1, 2)
<1>2. r \in Seq(S) /\ Len(r) = 2 /\ r[1] = p[1] /\ r[2] = p[2]
    BY <1>1
<1>3. p = <<p[1], p[2]>> /\ r = <<r[1], r[2]>>
    BY <1>2, ShortSeq
<1> QED
    BY <1>2, <1>3

LEMMA JustTwo ==
    ASSUME NEW S, NEW p \in Seq(S), Len(p) = 2
    PROVE  SubSeq(p, 1, 2) = p
<1> DEFINE r == SubSeq(p, 1, 2)
<1>1. r \in Seq(S) /\ Len(r) = 2 /\ r[1] = p[1] /\ r[2] = p[2]
    OBVIOUS
<1>2. p = <<p[1], p[2]>> /\ r = <<r[1], r[2]>>
    BY <1>1, ShortSeq
<1> QED
    BY <1>1, <1>2

LEMMA Twice ==
    ASSUME NEW S, NEW x \in S
    PROVE  <<x>> \o <<x>> = <<x, x>>
<1>1. <<x>> \in Seq(S) /\ Len(<<x>>) = 1 /\ <<x>>[1] = x
    OBVIOUS
<1>2. /\ <<x>> \o <<x>> \in Seq(S) /\ Len(<<x>> \o <<x>>) = 2
      /\ (<<x>> \o <<x>>)[1] = x /\ (<<x>> \o <<x>>)[2] = x
    BY <1>1, Concatenated
<1> QED
    BY <1>2, ShortSeq

LEMMA PartOf ==
    ASSUME NEW id \in Seq(Byte), NEW sp, Spaced(sp), sp.offset < Len(id)
    PROVE  /\ Part(id, sp) \in Seq(Byte)
           /\ \A i \in 1..Len(Part(id, sp)) : Part(id, sp)[i] = id[sp.offset + i]
<1> DEFINE m == sp.offset + 1
           n == IF sp.count > Len(id) - sp.offset THEN Len(id) ELSE sp.offset + sp.count
<1>1. m \in 1..Len(id) /\ n \in Int /\ n <= Len(id) /\ m - 1 <= n
  <2>1. Len(id) \in Nat /\ sp.offset \in Nat /\ sp.count \in Nat
    BY DEF Spaced
  <2>2. m \in 1..Len(id) /\ n \in Int /\ n <= Len(id) /\ sp.offset <= n
    BY <2>1, PartEnd
  <2>3. m - 1 = sp.offset
    BY <2>1
  <2> QED
    BY <2>2, <2>3
<1>2. Part(id, sp) = SubSeq(id, m, n)
    BY DEF Part
<1> HIDE DEF m, n
<1>3. /\ SubSeq(id, m, n) \in Seq(Byte) /\ Len(SubSeq(id, m, n)) = n - m + 1
      /\ \A i \in 1..(n - m + 1) : SubSeq(id, m, n)[i] = id[m + i - 1]
    BY <1>1
<1>4. \A i \in 1..(n - m + 1) : m + i - 1 = sp.offset + i
    BY <1>1 DEF m, Spaced
<1> QED
    BY <1>2, <1>3, <1>4

LEMMA TypicalAt ==
    ASSUME NEW s \in AllSettings, NEW v, Typical(s, v)
    PROVE  /\ WellTyped(ReadsOf(s)[1], v[1])
           /\ s \in {"errConfig", "cfm"} => WellTyped(ReadsOf(s)[2], v[2])
           /\ v[1] \in Seq(Int)
<1>1. Len(v) = 1 \/ Len(v) = 2
    BY TablesOf DEF Typical
<1>2. s \in {"errConfig", "cfm"} => Len(v) = 2
    BY TablesOf DEF Typical
<1> QED
    BY <1>1, <1>2 DEF Typical, WellTyped

LEMMA BytesOf ==
    ASSUME NEW q \in Seq(Int), \A i \in 1..Len(q) : q[i] \in Byte
    PROVE  q \in Seq(Byte)
    OBVIOUS

LEMMA AnswersBytes ==
    ASSUME NEW s \in AllSettings, NEW v, Typical(s, v), NEW sp, Spaced(sp),
           NEW bytes \in AnswersTo(s, v, sp)
    PROVE  bytes \in Seq(Byte)
<1>0. 0 \in Byte /\ 1 \in Byte /\ MaxByte \in Byte
    BY Limits DEF Byte
<1>1. CASE s = "delay"
  <2>1. v[1][1] \in Word16
    BY <1>1, TypicalAt, Tables DEF WellTyped
  <2>2. bytes = Bytes(v[1][1])
    BY <1>1 DEF AnswersTo
  <2> QED
    BY <2>1, <2>2, BytesOfNumber, BytesAnswer DEF Bytes
<1>2. CASE s = "errConfig"
  <2>1. WellTyped("ResetCfg", v[1]) /\ WellTyped("CATERRStatus", v[2])
    BY <1>2, TypicalAt, Tables
  <2>2. v[1] \in Seq(Byte) /\ v[2] \in Seq(Byte)
    BY <2>1, BytesOf DEF WellTyped
  <2>3. [i \in 1..MaxCPUNum |-> IF i <= Len(v[2]) THEN v[2][i] ELSE 0] \in Seq(Byte)
    BY <1>0, <2>2 DEF MaxCPUNum
  <2>4. bytes = v[1] \o [i \in 1..MaxCPUNum |-> IF i <= Len(v[2]) THEN v[2][i] ELSE 0]
    BY <1>2 DEF AnswersTo
  <2> QED
    BY <2>2, <2>3, <2>4, Concatenated
<1>3. CASE s = "policy"
  <2>1. WellTyped("Policy", v[1])
    BY <1>3, TypicalAt, Tables
  <2>2. v[1] \in Seq(Int) /\ Len(v[1]) = 1 /\ v[1][1] \in Byte
    BY <1>0, <2>1 DEF WellTyped
  <2> QED
    BY <1>3, <2>2, ShortSeq, BytesAnswer DEF AnswersTo
<1>4. CASE s = "profile"
    BY <1>0, <1>4, BytesAnswer DEF AnswersTo
<1>5. CASE s = "cfm"
  <2>1. ASSUME NEW n, InRange(n)
        PROVE  Bytes(Rounded(n)) \in Seq(Byte)
    BY <2>1, RoundedNumber, BytesOfNumber, BytesAnswer DEF Bytes
  <2>2. InRange(v[1][1]) /\ InRange(v[2][1])
        /\ bytes = Bytes(Rounded(v[1][1])) \o Bytes(Rounded(v[2][1]))
    BY <1>5 DEF AnswersTo
  <2> QED
    BY <2>1, <2>2
<1>6. CASE s = "exitAir"
    BY <1>0, <1>6, BytesAnswer DEF AnswersTo
<1>7. CASE s = "bios"
  <2>1. v[1] \in Seq(Byte) /\ Len(v[1]) \in Nat /\ sp.offset \in Nat
    BY <1>7, TypicalAt, Tables, BytesOf DEF WellTyped, Spaced
  <2>2. sp.offset < Len(v[1]) /\ bytes = Part(v[1], sp)
    BY <1>7, <2>1 DEF AnswersTo
  <2> QED
    BY <2>1, <2>2, PartOf
<1> QED
    BY <1>1, <1>2, <1>3, <1>4, <1>5, <1>6, <1>7 DEF AllSettings

LEMMA AnswersExpected ==
    ASSUME NEW s \in Settings, NEW v, Typical(s, v), NEW sp, Spaced(sp),
           NEW a \in SettingArgs[s], Accepts(s, a),
           v[1] = Stored(s, a, 1), NEW bytes \in AnswersTo(s, v, sp)
    PROVE  Expected(s, a, sp, bytes)
<1>0. s \in AllSettings /\ Byte \subseteq Int
    BY SettingAssumption DEF Byte
<1>1. CASE s = "delay"
  <2>1. bytes = a
    BY <1>1, WordOfArg DEF AnswersTo, Stored
  <2>2. a \in Seq(Byte) /\ Len(a) = 2
    BY <1>1, ArgOf DEF WellFormedArg
  <2> QED
    BY <1>1, <2>1, <2>2, JustTwo DEF Expected
<1>2. CASE s = "errConfig"
  <2>1. v[1] = <<a[1]>>
    BY <1>2 DEF Stored
  <2>2. bytes = <<a[1]>> \o [i \in 1..MaxCPUNum |-> IF i <= Len(v[2]) THEN v[2][i] ELSE 0]
    BY <1>2, <2>1 DEF AnswersTo
  <2>3. ASSUME NEW x, NEW q \in Seq(Int) PROVE (<<x>> \o q)[1] = x
    OBVIOUS
  <2> QED
    BY <1>2, <2>2, <2>3 DEF Expected
<1>3. CASE s = "policy"
    BY <1>3, ArgOf DEF AnswersTo, Stored, Expected
<1>4. CASE s = "profile"
  <2>1. a[2] \in {0, 1}
    BY <1>4, ArgOf DEF WellFormedArg
  <2>2. bytes = <<a[2]>>
    BY <1>4, <2>1 DEF AnswersTo, Stored
  <2> QED
    BY <1>4, <2>2 DEF Expected
<1>5. CASE s = "cfm"
  <2>1. v[1] = <<2 * Word(a)>> /\ Word(a) \in Int
    BY <1>5, WordOfArg DEF Stored
  <2>2. Rounded(v[1][1]) = Word(a)
    BY <2>1, RoundedNumber
  <2>3. bytes = Bytes(Word(a)) \o Bytes(Rounded(v[2][1])) /\ Bytes(Word(a)) = a
    BY <1>5, <2>2, WordOfArg DEF AnswersTo
  <2>4. a \in Seq(Byte) /\ Len(a) = 2
    BY <1>5, ArgOf DEF WellFormedArg
  <2>5. InRange(v[2][1])
    BY <1>5 DEF AnswersTo
  <2>6. Bytes(Rounded(v[2][1])) \in Seq(Byte)
    BY <2>5, RoundedNumber, BytesOfNumber, BytesAnswer DEF Bytes
  <2> QED
    BY <1>5, <2>3, <2>4, <2>6, FirstTwo DEF Expected
<1>6. CASE s = "exitAir"
  <2>1. a = <<a[1]>> /\ a[1] \in Byte /\ v[1] = <<2 * a[1]>>
    BY <1>6, ArgOf DEF Stored
  <2>2. Rounded(v[1][1]) = a[1]
    BY <1>0, <2>1, RoundedNumber
  <2>3. bytes = <<a[1], a[1]>>
    BY <1>6, <2>1, <2>2 DEF AnswersTo
  <2>4. <<a[1]>> \o <<a[1]>> = <<a[1], a[1]>>
    BY <2>1, Twice
  <2> QED
    BY <1>6, <2>1, <2>3, <2>4 DEF Expected
<1>7. CASE s = "bios"
  <2>1. v[1] = a /\ a \in Seq(Byte) /\ Len(a) \in Nat /\ sp.offset \in Nat
    BY <1>7, ArgOf DEF Stored, Spaced
  <2>2. sp.offset < Len(a) /\ bytes = Part(a, sp)
    BY <1>7, <2>1 DEF AnswersTo
  <2> QED
    BY <1>7, <2>1, <2>2, PartOf DEF Expected
<1> QED
    BY <1>0, <1>1, <1>2, <1>3, <1>4, <1>5, <1>6, <1>7 DEF AllSettings

(* How far a request has come, and what it has done by then.               *)
Progress ==
    /\ got \in Seq(Seq(Int))
    /\ setPhase \in {"idle", "prepare"} => got = <<>>
    /\ setPhase # "idle" /\ Setting => Accepts(setting, arg)
    /\ setPhase = "write" =>
          /\ Setting
          /\ setting = "profile" => arg[2] \in supported
          /\ Len(got) < Len(WritesOf(setting))
    /\ setPhase = "read" =>
          /\ ~Setting
          /\ Len(got) < Len(ReadsOf(setting))
          /\ \A i \in 1..Len(got) : WellTyped(ReadsOf(setting)[i], got[i])

Place(i) == prop[WritesOf(setting)[i]]

InPlace ==
    inPlace # <<>> =>
        /\ Accepts(setting, inPlace)
        /\ \A i \in 1..Len(WritesOf(setting)) : Place(i) = Stored(setting, inPlace, i)
        /\ setPhase = "read" => \A i \in 1..Len(got) : got[i] = prop[ReadsOf(setting)[i]]

FirstWritten ==
    ~setForeign =>
        /\ setPhase = "prepare" => prop = propThen
        /\ setPhase = "write" => \A i \in 1..Len(WritesOf(setting)) :
              Place(i) = IF i <= Len(got) THEN Stored(setting, arg, i)
                                          ELSE propThen[WritesOf(setting)[i]]

SettingInv == SettingTypeOK /\ Progress /\ InPlace /\ FirstWritten /\ LegalStored

LEMMA DistinctWrites ==
    ASSUME NEW s \in AllSettings
    PROVE  \A i, j \in 1..Len(WritesOf(s)) : WritesOf(s)[i] = WritesOf(s)[j] => i = j
<1>1. CASE s = "errConfig"
    BY <1>1, Tables
<1>2. CASE s # "errConfig"
    BY <1>2, TablesOf
<1> QED
    BY <1>1, <1>2

LEMMA SettingReplyTyped ==
    ASSUME NEW cc \in {"none", "ok", "badlen", "invalid", "range", "unspecified"},
           NEW bytes \in Seq(Byte), setReply' = [cc |-> cc, data |-> bytes]
    PROVE  /\ setReply'.cc \in {"none", "ok", "badlen", "invalid", "range", "unspecified"}
           /\ \A i \in 1..Len(setReply'.data) : setReply'.data[i] \in Byte
    OBVIOUS

(* A return that writes nothing.                                           *)
LEMMA KeptTyped == KeptData \in Seq(Byte) /\ ErrorData \in Seq(Byte)
<1>1. 0 \in Byte
    BY Limits DEF Byte
<1>2. <<>> \in Seq(Byte) /\ <<0>> \in Seq(Byte) /\ <<0, 0>> \in Seq(Byte)
    BY <1>1
<1> QED
    BY <1>2 DEF KeptData, ErrorData

LEMMA ReturnKeeps ==
    ASSUME SettingInv, NEW cc \in {"none", "ok", "badlen", "invalid", "range", "unspecified"},
           NEW bytes \in Seq(Byte), SettingReturn(cc, bytes), UNCHANGED <<prop, inPlace>>
    PROVE  SettingInv'
<1>1. /\ setPhase' = "idle" /\ arg' = <<>> /\ got' = <<>>
      /\ UNCHANGED <<setting, supported, path, span, setForeign>>
      /\ setReply' = [cc |-> cc, data |-> bytes]
    BY DEF SettingReturn
<1>2. SettingTypeOK'
  <2>1. Len(got') = 0
    BY <1>1
  <2>2. Len(ReadsOf(setting)) \in Nat
    BY TablesOf, SettingAssumption DEF SettingInv, SettingTypeOK
  <2> QED
    BY <1>1, <2>1, <2>2, SettingReplyTyped DEF SettingInv, SettingTypeOK
<1>3. Progress' /\ InPlace' /\ FirstWritten' /\ LegalStored'
    BY <1>1 DEF SettingInv, Progress, InPlace, Place, FirstWritten, LegalStored
<1> QED
    BY <1>2, <1>3 DEF SettingInv

LEMMA EnterKeeps ==
    ASSUME SettingInv, NEW a, NEW sp, EnterSetting(a, sp),
           a = <<>> \/ (a \in SettingArgs[setting] /\ Accepts(setting, a)),
           sp \in Spans \cup {NoSpan}
    PROVE  SettingInv'
<1>1. /\ setPhase = "idle" /\ setPhase' = "prepare" /\ arg' = a /\ got' = <<>> /\ span' = sp
      /\ UNCHANGED <<setting, prop, supported, path, inPlace>>
      /\ propThen' = prop /\ setForeign' = FALSE
      /\ setReply' = [cc |-> "none", data |-> <<>>]
    BY DEF EnterSetting, NoSetReply, services
<1>2. SettingTypeOK'
  <2>1. Len(got') = 0 /\ <<>> \in Seq(Byte)
    BY <1>1
  <2>2. Len(ReadsOf(setting)) \in Nat
    BY TablesOf, SettingAssumption DEF SettingInv, SettingTypeOK
  <2>3. /\ setReply'.cc \in {"none", "ok", "badlen", "invalid", "range", "unspecified"}
        /\ \A i \in 1..Len(setReply'.data) : setReply'.data[i] \in Byte
    BY <1>1
  <2>4. arg' \in SettingArgs[setting'] \cup {<<>>}
    BY <1>1
  <2>5. Len(got') <= Len(ReadsOf(setting'))
    BY <1>1, <2>1, <2>2
  <2>6. SettingTypeOK
    BY DEF SettingInv
  <2>7. setForeign' \in BOOLEAN /\ setPhase' \in {"idle", "prepare", "write", "read"}
    BY <1>1
  <2> QED
    BY <1>1, <2>3, <2>4, <2>5, <2>6, <2>7 DEF SettingTypeOK
<1>3. Progress' /\ InPlace' /\ FirstWritten' /\ LegalStored'
    BY <1>1 DEF SettingInv, Progress, Setting, InPlace, Place, FirstWritten, LegalStored
<1> QED
    BY <1>2, <1>3 DEF SettingInv

LEMMA PrepareKeeps == SettingInv /\ Prepare => SettingInv'
<1> SUFFICES ASSUME SettingInv, Prepare PROVE SettingInv'
    OBVIOUS
<1>1. /\ setPhase = "prepare" /\ got' = <<>>
      /\ setPhase' = IF Setting THEN "write" ELSE "read"
      /\ Setting /\ setting = "profile" => arg[2] \in supported
      /\ UNCHANGED <<setting, prop, supported, path, arg, span, setReply, inPlace, propThen, setForeign>>
    BY DEF Prepare, services, Unsupported
<1>2. setting \in AllSettings /\ Len(got') = 0
    BY <1>1, SettingAssumption DEF SettingInv, SettingTypeOK
<1>3. Len(WritesOf(setting)) \in Nat /\ Len(ReadsOf(setting)) \in Nat
      /\ 0 < Len(WritesOf(setting)) /\ 0 < Len(ReadsOf(setting))
    BY <1>2, TablesOf
<1>4. SettingTypeOK'
  <2>1. setPhase' \in {"write", "read"}
    BY <1>1
  <2>2. Len(got') <= Len(ReadsOf(setting))
    BY <1>2, <1>3
  <2> QED
    BY <1>1, <2>1, <2>2 DEF SettingInv, SettingTypeOK
<1>5. Progress' /\ InPlace' /\ LegalStored'
    BY <1>1, <1>2, <1>3
    DEF SettingInv, Progress, Setting, InPlace, Place, LegalStored
<1>6. FirstWritten'
    BY <1>1, <1>2 DEF SettingInv, FirstWritten, Place
<1> QED
    BY <1>4, <1>5, <1>6 DEF SettingInv

(* What a call of a Set writes is legal and goes to one property only.     *)
LEMMA StoredLegal ==
    ASSUME NEW s \in Settings, NEW a \in SettingArgs[s], Accepts(s, a),
           s = "profile" => a[2] \in supported, NEW i \in 1..Len(WritesOf(s))
    PROVE  /\ WritesOf(s)[i] = "Limit" =>
                 Stored(s, a, i) = Defaults["Limit"] \/ Stored(s, a, i)[1] >= 100
           /\ WritesOf(s)[i] = "Mode" => Stored(s, a, i)[1] \in supported
<1>1. s \in AllSettings
    BY SettingAssumption
<1>2. CASE s = "cfm"
  <2>1. Word(a) \in Int /\ (Word(a) >= 50 \/ Word(a) = 0)
    BY <1>2, WordOfArg DEF Accepts
  <2>2. Stored(s, a, i) = <<2 * Word(a)>> /\ Defaults["Limit"] = <<0>>
    BY <1>2 DEF Stored, Defaults, Properties
  <2>3. WritesOf(s)[i] = "Limit"
    BY <1>2, Tables
  <2> QED
    BY <2>1, <2>2, <2>3
<1>3. CASE s = "profile"
    BY <1>3, Tables DEF Stored
<1>4. ASSUME s \notin {"cfm", "profile"} PROVE WritesOf(s)[i] \notin {"Limit", "Mode"}
  <2>1. CASE s = "errConfig"
    BY <2>1, Tables
  <2>2. CASE s = "delay" \/ s = "policy"
    BY <2>2, Tables
  <2>3. CASE s = "exitAir" \/ s = "bios"
    BY <2>3, Tables
  <2> QED
    BY <1>1, <1>4, <2>1, <2>2, <2>3 DEF AllSettings
<1> QED
    BY <1>2, <1>3, <1>4

LEMMA CallWrites ==
    ASSUME SettingInv, setPhase = "write", Writes, UNCHANGED <<setting, supported>>
    PROVE  /\ Call \in 1..Len(WritesOf(setting))
           /\ prop' \in [Properties -> Seq(Int)]
           /\ \A p \in Properties : WellTyped(p, prop'[p])
           /\ LegalStored'
           /\ \A i \in 1..Len(WritesOf(setting)) :
                 Place(i)' = IF i = Call THEN Stored(setting, arg, i) ELSE Place(i)
<1> DEFINE W == WritesOf(setting)
           x == Stored(setting, arg, Call)
<1>1. /\ setting \in Settings /\ setting \in AllSettings /\ arg \in SettingArgs[setting]
      /\ Accepts(setting, arg) /\ (setting = "profile" => arg[2] \in supported)
      /\ prop \in [Properties -> Seq(Int)]
      /\ \A p \in Properties : WellTyped(p, prop[p])
    BY SettingAssumption DEF SettingInv, SettingTypeOK, Progress, Setting
<1>2. Call \in 1..Len(W)
    BY TablesOf, <1>1 DEF SettingInv, Progress, Call
<1>3. W[Call] \in Properties /\ WellTyped(W[Call], x) /\ x \in Seq(Int)
    BY <1>1, <1>2, InTables, StoredTyped DEF WellTyped
<1>4. prop' = [prop EXCEPT ![W[Call]] = x]
    BY DEF Writes
<1> HIDE DEF x
<1>5. \A p \in Properties : prop'[p] = IF p = W[Call] THEN x ELSE prop[p]
    BY <1>1, <1>4
<1>6. \A p \in Properties : WellTyped(p, prop'[p])
    BY <1>1, <1>3, <1>5
<1>7. LegalStored'
  <2>1. /\ W[Call] = "Limit" => x = Defaults["Limit"] \/ x[1] >= 100
        /\ W[Call] = "Mode" => x[1] \in supported
    BY <1>1, <1>2, StoredLegal DEF x
  <2>2. "Limit" \in Properties /\ "Mode" \in Properties
    BY DEF Properties
  <2>3. prop'["Limit"] \in Foreign["Limit"] \cup {Defaults["Limit"]} \/ prop'["Limit"][1] >= 100
    BY <1>5, <2>1, <2>2 DEF SettingInv, LegalStored
  <2>4. prop'["Mode"] \in Foreign["Mode"] \cup {OtherProfile} \/ prop'["Mode"][1] \in supported
    BY <1>5, <2>1, <2>2 DEF SettingInv, LegalStored
  <2> QED
    BY <2>3, <2>4 DEF LegalStored
<1>8. ASSUME NEW i \in 1..Len(W)
      PROVE  Place(i)' = IF i = Call THEN Stored(setting, arg, i) ELSE Place(i)
  <2>1. W[i] \in Properties /\ (W[i] = W[Call] => i = Call)
    BY <1>1, <1>2, InTables, DistinctWrites
  <2> QED
    BY <1>5, <2>1 DEF Place, x
<1> QED
    BY <1>1, <1>2, <1>3, <1>4, <1>6, <1>7, <1>8

LEMMA WriteKeeps == SettingInv /\ WriteProperty => SettingInv'
<1> SUFFICES ASSUME SettingInv, WriteProperty PROVE SettingInv'
    OBVIOUS
<1> DEFINE n == Len(WritesOf(setting))
<1>1. setPhase = "write" /\ Writes /\ UNCHANGED <<setting, supported, path, span, propThen, setForeign>>
    BY DEF WriteProperty, SettingReturn
<1>2. /\ Call \in 1..n /\ prop' \in [Properties -> Seq(Int)]
      /\ \A p \in Properties : WellTyped(p, prop'[p])
      /\ LegalStored'
      /\ \A i \in 1..n : Place(i)' = IF i = Call THEN Stored(setting, arg, i) ELSE Place(i)
    BY <1>1, CallWrites
<1>3. /\ setting \in AllSettings /\ arg \in SettingArgs[setting] /\ Accepts(setting, arg)
      /\ n \in Nat /\ n <= Len(ReadsOf(setting)) /\ Len(ReadsOf(setting)) \in Nat
      /\ got \in Seq(Seq(Int)) /\ Len(got) \in Nat /\ Call = Len(got) + 1
  <2>1. setting \in AllSettings /\ got \in Seq(Seq(Int)) /\ Call = Len(got) + 1
    BY SettingAssumption DEF SettingInv, SettingTypeOK, Progress, Call
  <2>2. arg \in SettingArgs[setting] /\ Accepts(setting, arg)
    BY <1>1 DEF SettingInv, SettingTypeOK, Progress, Setting
  <2>3. CASE setting = "errConfig"
    BY <2>1, <2>2, <2>3, TablesOf
  <2>4. CASE setting # "errConfig"
    BY <2>1, <2>2, <2>4, TablesOf
  <2> QED
    BY <2>3, <2>4
<1>4. CASE ~Last(WritesOf(setting))
  <2>1. /\ got' = Append(got, <<>>) /\ inPlace' = <<>>
        /\ UNCHANGED <<setPhase, arg, setReply>>
    BY <1>4 DEF WriteProperty, Last, SettingReturn
  <2>2. Call < n
    BY <1>2, <1>3, <1>4 DEF Last
  <2>3. got' \in Seq(Seq(Int)) /\ Len(got') = Call
    BY <1>3, <2>1
  <2>4. SettingTypeOK'
    <3>1. Len(got') <= Len(ReadsOf(setting))
      BY <1>3, <2>2, <2>3
    <3> QED
      BY <1>1, <1>2, <2>1, <3>1 DEF SettingInv, SettingTypeOK
  <2>5. Progress' /\ InPlace'
    BY <1>1, <2>1, <2>2, <2>3 DEF SettingInv, Progress, Setting, InPlace
  <2>6. FirstWritten'
    <3>1. ASSUME ~setForeign, NEW i \in 1..n
          PROVE  Place(i)' = IF i <= Call THEN Stored(setting, arg, i)
                                          ELSE propThen[WritesOf(setting)[i]]
      <4>1. Place(i) = IF i <= Len(got) THEN Stored(setting, arg, i)
                                        ELSE propThen[WritesOf(setting)[i]]
        BY <1>1, <3>1 DEF SettingInv, FirstWritten
      <4>2. i <= Call <=> i <= Len(got) \/ i = Call
        BY <1>2, <1>3
      <4> QED
        BY <1>2, <4>1, <4>2
    <3> QED
      BY <1>1, <2>1, <2>3, <3>1 DEF FirstWritten
  <2> QED
    BY <1>2, <2>4, <2>5, <2>6 DEF SettingInv
<1>5. CASE Last(WritesOf(setting))
  <2>1. /\ SettingReturn("ok", IF setting = "bios" THEN <<Len(arg)>> ELSE KeptData)
        /\ inPlace' = IF ~setForeign THEN arg ELSE <<>>
    BY <1>5 DEF WriteProperty
  <2>2. setPhase' = "idle" /\ arg' = <<>> /\ got' = <<>>
    BY <2>1 DEF SettingReturn
  <2>3. (IF setting = "bios" THEN <<Len(arg)>> ELSE KeptData) \in Seq(Byte)
    <3>1. CASE setting = "bios"
      <4>1. Len(arg) \in Int /\ 0 <= Len(arg) /\ Len(arg) <= MaxByte /\ MaxByte \in Int
        BY <1>3, <3>1, ArgOf, Limits DEF WellFormedArg, SettingInv, SettingTypeOK
      <4>2. Len(arg) \in Byte
        BY <4>1 DEF Byte
      <4> QED
        BY <3>1, <4>2, BytesAnswer
    <3> QED
      BY <3>1, KeptTyped
  <2>4. SettingTypeOK'
    <3>1. Len(got') = 0
      BY <2>2
    <3>2. /\ setReply'.cc \in {"none", "ok", "badlen", "invalid", "range", "unspecified"}
          /\ \A i \in 1..Len(setReply'.data) : setReply'.data[i] \in Byte
      BY <2>1, <2>3, SettingReplyTyped DEF SettingReturn
    <3>3. inPlace' \in SettingArgs[setting] \cup {<<>>}
      BY <1>3, <2>1
    <3>4. Len(got') <= Len(ReadsOf(setting))
      BY <1>3, <3>1
    <3> QED
      BY <1>1, <1>2, <2>2, <3>2, <3>3, <3>4 DEF SettingInv, SettingTypeOK
  <2>5. Progress' /\ FirstWritten'
    BY <2>2 DEF Progress, FirstWritten
  <2>6. InPlace'
    <3>1. ASSUME ~setForeign, NEW i \in 1..n PROVE Place(i)' = Stored(setting, arg, i)
      <4>1. i = Call \/ i <= Len(got)
        BY <1>2, <1>3, <1>5 DEF Last
      <4> QED
        BY <1>1, <1>2, <3>1, <4>1 DEF SettingInv, FirstWritten
    <3> QED
      BY <1>1, <1>3, <2>1, <2>2, <3>1 DEF InPlace
  <2> QED
    BY <1>2, <2>4, <2>5, <2>6 DEF SettingInv
<1> QED
    BY <1>4, <1>5

(* The steps of a Set that fails and of other clients.                     *)
LEMMA WriteFailsKeeps == SettingInv /\ WriteFails => SettingInv'
<1> SUFFICES ASSUME SettingInv, WriteFails PROVE SettingInv'
    OBVIOUS
<1>1. /\ setPhase = "write" /\ inPlace' = <<>>
      /\ setPhase' = "idle" /\ arg' = <<>> /\ got' = <<>>
      /\ setReply' = [cc |-> "unspecified", data |-> ErrorData]
      /\ UNCHANGED <<setting, supported, path, span, propThen, setForeign>>
    BY DEF WriteFails, SettingReturn
<1>2. /\ prop' \in [Properties -> Seq(Int)]
      /\ \A p \in Properties : WellTyped(p, prop'[p])
      /\ LegalStored'
  <2>1. CASE Writes
    BY <1>1, <2>1, CallWrites
  <2>2. CASE UNCHANGED prop
    BY <1>1, <2>2 DEF SettingInv, SettingTypeOK, LegalStored
  <2> QED
    BY <2>1, <2>2 DEF WriteFails
<1>3. SettingTypeOK'
  <2>1. ErrorData \in Seq(Byte) /\ Len(got') = 0
    BY <1>1, KeptTyped
  <2>2. Len(ReadsOf(setting)) \in Nat
    BY TablesOf, SettingAssumption DEF SettingInv, SettingTypeOK
  <2>3. Len(got') <= Len(ReadsOf(setting))
    BY <2>1, <2>2
  <2> QED
    BY <1>1, <1>2, <2>1, <2>3, SettingReplyTyped DEF SettingInv, SettingTypeOK
<1>4. Progress' /\ InPlace' /\ FirstWritten'
    BY <1>1 DEF Progress, InPlace, FirstWritten
<1> QED
    BY <1>2, <1>3, <1>4 DEF SettingInv

LEMMA UsedProperties == ASSUME NEW s \in AllSettings PROVE Used(s) \subseteq Properties
    BY InTables, TablesOf DEF Used

LEMMA OthersKeep == SettingInv /\ OthersSet => SettingInv'
<1> SUFFICES ASSUME SettingInv, OthersSet PROVE SettingInv'
    OBVIOUS
<1>1. /\ inPlace' = <<>> /\ setForeign' = TRUE
      /\ UNCHANGED <<setting, supported, path, setPhase, arg, span, got, setReply, propThen>>
    BY DEF OthersSet
<1>0. PICK p \in Used(setting) : \E v \in Foreign[p] : prop' = [prop EXCEPT ![p] = v]
    BY DEF OthersSet
<1>2. PICK v \in Foreign[p] : prop' = [prop EXCEPT ![p] = v]
    BY <1>0
<1>3. p \in Properties /\ WellTyped(p, v) /\ v \in Seq(Int)
    BY SettingAssumption, UsedProperties DEF SettingInv, SettingTypeOK, WellTyped
<1>4. /\ prop' \in [Properties -> Seq(Int)]
      /\ \A q \in Properties : prop'[q] = IF q = p THEN v ELSE prop[q]
    BY <1>2, <1>3 DEF SettingInv, SettingTypeOK
<1>5. \A q \in Properties : WellTyped(q, prop'[q])
    BY <1>3, <1>4 DEF SettingInv, SettingTypeOK
<1>6. LegalStored'
  <2>1. "Limit" \in Properties /\ "Mode" \in Properties
    BY DEF Properties
  <2> QED
    BY <1>1, <1>2, <1>4, <2>1 DEF SettingInv, LegalStored
<1>7. SettingTypeOK'
    BY <1>1, <1>4, <1>5 DEF SettingInv, SettingTypeOK
<1>8. Progress' /\ InPlace' /\ FirstWritten'
    BY <1>1 DEF SettingInv, Progress, Setting, InPlace, FirstWritten
<1> QED
    BY <1>6, <1>7, <1>8 DEF SettingInv

(* What a Get has read after one more call.                                *)
ReadNow == Append(got, prop[ReadsOf(setting)[Call]])

LEMMA ReadOneMore ==
    ASSUME SettingInv, setPhase = "read"
    PROVE  /\ Call \in 1..Len(ReadsOf(setting)) /\ Call = Len(got) + 1
           /\ ReadNow \in Seq(Seq(Int)) /\ Len(ReadNow) = Call
           /\ \A i \in 1..Call : WellTyped(ReadsOf(setting)[i], ReadNow[i])
           /\ inPlace # <<>> => \A i \in 1..Call : ReadNow[i] = prop[ReadsOf(setting)[i]]
<1>1. /\ setting \in AllSettings /\ got \in Seq(Seq(Int)) /\ Call = Len(got) + 1
      /\ Len(got) < Len(ReadsOf(setting)) /\ Len(got) \in Nat /\ Len(ReadsOf(setting)) \in Nat
      /\ \A i \in 1..Len(got) : WellTyped(ReadsOf(setting)[i], got[i])
  <2>1. setting \in AllSettings
    BY SettingAssumption DEF SettingInv, SettingTypeOK
  <2>2. Len(ReadsOf(setting)) \in Nat
    BY <2>1, TablesOf
  <2>3. got \in Seq(Seq(Int)) /\ Call = Len(got) + 1 /\ Len(got) < Len(ReadsOf(setting))
        /\ \A i \in 1..Len(got) : WellTyped(ReadsOf(setting)[i], got[i])
    BY DEF SettingInv, Progress, Call
  <2>4. Len(got) \in Nat
    BY <2>3
  <2> QED
    BY <2>1, <2>2, <2>3, <2>4
<1>2. Call \in 1..Len(ReadsOf(setting))
    BY <1>1
<1> DEFINE x == prop[ReadsOf(setting)[Call]]
<1>3. ReadsOf(setting)[Call] \in Properties
    BY <1>1, <1>2, InTables
<1>4. x \in Seq(Int) /\ WellTyped(ReadsOf(setting)[Call], x)
    BY <1>3 DEF SettingInv, SettingTypeOK
<1>5. ReadNow = Append(got, x)
    BY DEF ReadNow
<1> HIDE DEF x
<1>6. /\ ReadNow \in Seq(Seq(Int)) /\ Len(ReadNow) = Call /\ ReadNow[Call] = x
      /\ \A i \in 1..Len(got) : ReadNow[i] = got[i]
    BY <1>1, <1>4, <1>5
<1>7. \A i \in 1..Call : i = Call \/ i \in 1..Len(got)
    BY <1>1
<1>8. \A i \in 1..Call : WellTyped(ReadsOf(setting)[i], ReadNow[i])
    BY <1>1, <1>4, <1>6, <1>7
<1>9. inPlace # <<>> => \A i \in 1..Call : ReadNow[i] = prop[ReadsOf(setting)[i]]
    BY <1>6, <1>7 DEF x, SettingInv, InPlace
<1> QED
    BY <1>1, <1>2, <1>6, <1>8, <1>9

LEMMA SpanSpaced == SettingInv => Spaced(span)
<1>1. ASSUME NEW sp \in [offset: Byte, count: Byte] PROVE Spaced(sp)
  <2>1. Byte \subseteq Nat
    BY DEF Byte
  <2> QED
    BY <1>1, <2>1 DEF Spaced
<1>2. Spaced(NoSpan)
    BY DEF Spaced, NoSpan
<1> QED
    BY <1>1, <1>2, SettingAssumption DEF SettingInv, SettingTypeOK

LEMMA ReadKeeps == SettingInv /\ ReadProperty => SettingInv'
<1> SUFFICES ASSUME SettingInv, ReadProperty PROVE SettingInv'
    OBVIOUS
<1>0. setPhase = "read" /\ setting \in AllSettings /\ Len(ReadsOf(setting)) \in Nat
    BY SettingAssumption, TablesOf DEF ReadProperty, SettingInv, SettingTypeOK
<1>1. CASE ~Last(ReadsOf(setting))
  <2>1. /\ got' = ReadNow
        /\ UNCHANGED <<setting, prop, supported, path, setPhase, arg, span, setReply, inPlace, propThen, setForeign>>
    BY <1>1 DEF ReadProperty, ReadNow
  <2>2. Call < Len(ReadsOf(setting)) /\ Len(got') = Call
    BY <1>0, <1>1, <2>1, ReadOneMore DEF Last
  <2>3. SettingTypeOK'
    <3>1. Len(got') <= Len(ReadsOf(setting))
      BY <1>0, <2>2, ReadOneMore
    <3> QED
      BY <2>1, <3>1 DEF SettingInv, SettingTypeOK
  <2>4. Progress' /\ InPlace'
    BY <1>0, <2>1, <2>2, ReadOneMore DEF SettingInv, Progress, Setting, InPlace, Place
  <2>5. FirstWritten' /\ LegalStored'
    BY <1>0, <2>1 DEF SettingInv, FirstWritten, LegalStored
  <2> QED
    BY <2>3, <2>4, <2>5 DEF SettingInv
<1>2. CASE Last(ReadsOf(setting))
  <2>1. Typical(setting, ReadNow)
    BY <1>0, <1>2, ReadOneMore DEF Typical, Last
  <2>2. \A bytes \in AnswersTo(setting, ReadNow, span) : bytes \in Seq(Byte)
    BY <1>0, <2>1, AnswersBytes, SpanSpaced
  <2>3. UNCHANGED <<prop, inPlace>> /\ <<>> \in Seq(Byte)
    BY DEF ReadProperty
  <2>4. \/ \E bytes \in AnswersTo(setting, ReadNow, span) : SettingReturn("ok", bytes)
        \/ SettingReturn("unspecified", <<>>) \/ SettingReturn("range", <<>>)
    BY <1>2 DEF ReadProperty, ReadNow
  <2>5. ASSUME NEW bytes \in AnswersTo(setting, ReadNow, span), SettingReturn("ok", bytes)
        PROVE  SettingInv'
    BY <2>2, <2>3, <2>5, ReturnKeeps
  <2>6. SettingReturn("unspecified", <<>>) \/ SettingReturn("range", <<>>) => SettingInv'
    BY <2>3, ReturnKeeps
  <2> QED
    BY <2>4, <2>5, <2>6
<1> QED
    BY <1>1, <1>2

LEMMA NextSettingInv == SettingInv /\ [SettingNext]_settingVars => SettingInv'
<1> SUFFICES ASSUME SettingInv, [SettingNext]_settingVars PROVE SettingInv'
    OBVIOUS
<1>0. <<>> \in Seq(Byte) /\ <<0>> \in Seq(Byte) /\ <<0, 0>> \in Seq(Byte) /\ <<128, 128>> \in Seq(Byte)
  <2>1. 0 \in Byte /\ 128 \in Byte
    BY Limits DEF Byte
  <2> QED
    BY <2>1, BytesAnswer
<1>1. CASE SettingRefuse
    BY <1>0, <1>1, ReturnKeeps DEF SettingRefuse
<1>2. ASSUME NEW a \in SettingArgs[setting], SetSetting(a) PROVE SettingInv'
    BY <1>2, EnterKeeps DEF SetSetting
<1>3. ASSUME NEW sp \in Spans, GetSetting(sp) PROVE SettingInv'
    BY <1>3, EnterKeeps DEF GetSetting
<1>4. CASE PrepareProfile
    BY <1>0, <1>4, ReturnKeeps, KeptTyped DEF PrepareProfile
<1>5. CASE PrepareNoPath
    BY <1>0, <1>5, ReturnKeeps DEF PrepareNoPath
<1>6. CASE PrepareFails
    BY <1>0, <1>6, ReturnKeeps, KeptTyped DEF PrepareFails
<1>7. CASE ReadFails
    BY <1>0, <1>7, ReturnKeeps, KeptTyped DEF ReadFails
<1>8. CASE UNCHANGED settingVars
  <2>1. SettingTypeOK'
    BY <1>8 DEF SettingInv, SettingTypeOK, settingVars, services
  <2>2. Progress' /\ InPlace' /\ FirstWritten' /\ LegalStored'
    BY <1>8
    DEF SettingInv, Progress, Setting, InPlace, Place, FirstWritten, LegalStored, settingVars, services
  <2> QED
    BY <2>1, <2>2 DEF SettingInv
<1> QED
    BY <1>1, <1>2, <1>3, <1>4, <1>5, <1>6, <1>7, <1>8,
       PrepareKeeps, WriteKeeps, WriteFailsKeeps, ReadKeeps, OthersKeep
    DEF SettingNext, SettingRequest, SettingStep

LEMMA DefaultsTyped ==
    /\ Defaults \in [Properties -> Seq(Int)]
    /\ \A p \in Properties : WellTyped(p, Defaults[p])
<1>0. 0 \in Byte /\ 0 \in Word16
    BY Limits DEF Byte, Word16
<1>1. ASSUME NEW p \in Properties, p \notin {"MaxCFM", "Mode"} PROVE WellTyped(p, Defaults[p])
  <2>1. Defaults[p] = <<0>>
    BY <1>1 DEF Defaults
  <2>2. WellTyped(p, <<0>>)
    BY <1>0 DEF WellTyped
  <2> QED
    BY <2>1, <2>2
<1>2. ASSUME NEW p \in Properties, p \in {"MaxCFM", "Mode"} PROVE WellTyped(p, Defaults[p])
  <2>1. CASE p = "MaxCFM"
    <3>1. Defaults[p] = <<400>>
      BY <2>1 DEF Defaults
    <3> QED
      BY <2>1, <3>1 DEF WellTyped
  <2>2. CASE p = "Mode"
    <3>1. Defaults[p] = <<2>>
      BY <2>2 DEF Defaults, OtherProfile
    <3> QED
      BY <2>2, <3>1 DEF WellTyped
  <2> QED
    BY <1>2, <2>1, <2>2
<1>3. Defaults \in [Properties -> Seq(Int)]
    BY DEF Defaults, OtherProfile
<1> QED
    BY <1>1, <1>2, <1>3

LEMMA SettingInitially == SettingInit => SettingInv
<1> SUFFICES ASSUME SettingInit PROVE SettingInv
    OBVIOUS
<1>1. SettingTypeOK
  <2>1. Len(got) = 0 /\ <<>> \in Seq(Byte) /\ Len(setReply.data) = 0 /\ setReply.cc = "none"
    BY DEF SettingInit, NoSetReply
  <2>2. Len(ReadsOf(setting)) \in Nat
    BY TablesOf, SettingAssumption DEF SettingInit
  <2>3. Len(got) <= Len(ReadsOf(setting))
    BY <2>1, <2>2
  <2>4. supported \subseteq {0, 1} /\ path \in BOOLEAN
    BY DEF SettingInit
  <2>5. /\ setting \in Settings /\ prop = Defaults /\ setPhase = "idle" /\ arg = <<>>
        /\ inPlace = <<>> /\ span = NoSpan /\ setForeign = FALSE
    BY DEF SettingInit
  <2>6. \A i \in 1..Len(setReply.data) : setReply.data[i] \in Byte
    BY <2>1
  <2> QED
    BY <2>1, <2>3, <2>4, <2>5, <2>6, DefaultsTyped DEF SettingTypeOK
<1>2. LegalStored
  <2>1. Defaults["Mode"] = OtherProfile
    BY DEF Defaults, Properties
  <2> QED
    BY <2>1 DEF SettingInit, LegalStored
<1>3. Progress /\ InPlace /\ FirstWritten
    BY DEF SettingInit, Progress, InPlace, FirstWritten
<1> QED
    BY <1>1, <1>2, <1>3 DEF SettingInv

LEMMA SettingInvariant == SettingSpec => []SettingInv
    BY SettingInitially, NextSettingInv, PTL DEF SettingSpec

(* The properties keep the types their services give them, and the bytes   *)
(* answered are bytes, through every conversion.                           *)
THEOREM SettingTypeCorrect == SettingSpec => []SettingTypeOK
<1>1. SettingInv => SettingTypeOK
    BY DEF SettingInv
<1> QED
    BY <1>1, SettingInvariant, PTL

(* The only steps by which a Get is answered from what it has read, and by *)
(* which a Set fails once it writes.                                       *)
LEMMA GetEnds ==
    ASSUME SettingInv, SettingNext, setPhase = "read", setPhase' = "idle"
    PROVE  ReadProperty \/ ReadFails
    BY DEF SettingNext, SettingRequest, SettingRefuse, SetSetting, GetSetting, EnterSetting,
       SettingStep, Prepare, PrepareProfile, PrepareNoPath, PrepareFails, WriteProperty,
       WriteFails, OthersSet

LEMMA SetEnds ==
    ASSUME SettingInv, SettingNext, setPhase = "write", setPhase' = "idle"
    PROVE  WriteProperty \/ WriteFails
    BY DEF SettingNext, SettingRequest, SettingRefuse, SetSetting, GetSetting, EnterSetting,
       SettingStep, Prepare, PrepareProfile, PrepareNoPath, PrepareFails, ReadProperty,
       ReadFails, OthersSet

(* What a Set stores is legal whatever fails and whoever else writes, and  *)
(* a Get after a Set that was answered ok answers what was set, the values *)
(* having gone through two conversions, until something else is written.   *)
THEOREM SettingIsKept == SettingSpec => SettingKept
<1>1. SettingInv => LegalStored
    BY DEF SettingInv
<1>2. ASSUME SettingInv, SettingNext, setPhase = "read", setPhase' = "idle",
             setReply'.cc = "ok", inPlace # <<>>
      PROVE  Expected(setting, inPlace, span, setReply'.data)
  <2>1. CASE ReadProperty
    <3>1. Last(ReadsOf(setting))
      BY <1>2, <2>1 DEF ReadProperty
    <3>2. \/ \E bytes \in AnswersTo(setting, ReadNow, span) : SettingReturn("ok", bytes)
          \/ SettingReturn("unspecified", <<>>) \/ SettingReturn("range", <<>>)
      BY <2>1, <3>1 DEF ReadProperty, ReadNow
    <3>3. PICK bytes \in AnswersTo(setting, ReadNow, span) : SettingReturn("ok", bytes)
      BY <1>2, <3>2 DEF SettingReturn
    <3>4. setReply'.data = bytes
      BY <3>3 DEF SettingReturn
    <3>5. /\ setting \in Settings /\ setting \in AllSettings
          /\ inPlace \in SettingArgs[setting] /\ Accepts(setting, inPlace)
      BY <1>2, SettingAssumption DEF SettingInv, SettingTypeOK, InPlace
    <3>6. Typical(setting, ReadNow)
      BY <1>2, <3>1, ReadOneMore DEF Typical, Last
    <3>7. ReadNow[1] = Stored(setting, inPlace, 1)
      <4>1. 1 \in 1..Len(WritesOf(setting)) /\ ReadsOf(setting)[1] = WritesOf(setting)[1]
        BY <3>5, TablesOf
      <4>2. Place(1) = Stored(setting, inPlace, 1)
        BY <1>2, <4>1 DEF SettingInv, InPlace
      <4>3. 1 \in 1..Call
        BY <1>2, ReadOneMore
      <4>4. ReadNow[1] = prop[ReadsOf(setting)[1]]
        BY <1>2, <4>3, ReadOneMore
      <4> QED
        BY <4>1, <4>2, <4>4 DEF Place
    <3> QED
      BY <1>2, <3>4, <3>5, <3>6, <3>7, SpanSpaced, AnswersExpected
  <2>2. CASE ReadFails
    BY <1>2, <2>2 DEF ReadFails, SettingReturn
  <2> QED
    BY <1>2, <2>1, <2>2, GetEnds
<1>3. SettingInv /\ [SettingNext]_settingVars =>
          [/\ setPhase = "read" /\ setPhase' = "idle"
           /\ setReply'.cc = "ok"
           /\ inPlace # <<>>
           => Expected(setting, inPlace, span, setReply'.data)]_settingVars
    BY <1>2
<1> QED
    BY <1>1, <1>3, SettingInvariant, PTL DEF SettingSpec, SettingKept, GetAfterSet

(* A Set of several properties that fails on the way leaves the first of   *)
(* them written, in their order, and the others as they were.              *)
THEOREM FailedSetsArePrefixes == SettingSpec => FailedSetPrefix
<1> DEFINE n == Len(WritesOf(setting))
           Prefix(k) == \A i \in 1..n :
               prop'[WritesOf(setting)[i]] =
                   IF i <= k THEN Stored(setting, arg, i) ELSE propThen[WritesOf(setting)[i]]
<1>1. ASSUME SettingInv, SettingNext, setPhase = "write", setPhase' = "idle",
             setReply'.cc = "unspecified", ~setForeign
      PROVE  \E k \in 0..n : Prefix(k)
  <2>1. WriteFails
    BY <1>1, SetEnds DEF WriteProperty, SettingReturn
  <2>2. UNCHANGED <<setting, supported>>
    BY <2>1 DEF WriteFails, SettingReturn
  <2>3. /\ n \in Nat /\ Len(got) \in Nat /\ Len(got) < n /\ Call = Len(got) + 1
        /\ \A i \in 1..n : Place(i) = IF i <= Len(got) THEN Stored(setting, arg, i)
                                                      ELSE propThen[WritesOf(setting)[i]]
    <3>1. setting \in AllSettings /\ got \in Seq(Seq(Int))
      BY <1>1, SettingAssumption DEF SettingInv, SettingTypeOK, Progress
    <3>2. Len(got) < n /\ Call = Len(got) + 1
      BY <1>1 DEF SettingInv, Progress, Call
    <3>3. n \in Nat /\ Len(got) \in Nat
      BY <3>1, TablesOf
    <3> QED
      BY <1>1, <3>2, <3>3 DEF SettingInv, FirstWritten
  <2>4. CASE Writes
    <3>1. \A i \in 1..n : prop'[WritesOf(setting)[i]] =
              IF i = Call THEN Stored(setting, arg, i) ELSE Place(i)
      BY <1>1, <2>2, <2>4, CallWrites DEF Place
    <3>2. \A i \in 1..n : i <= Call <=> i <= Len(got) \/ i = Call
      BY <2>3
    <3>3. Prefix(Call)
      BY <2>3, <3>1, <3>2
    <3>4. Call \in 0..n
      BY <2>3
    <3> QED
      BY <3>3, <3>4
  <2>5. CASE UNCHANGED prop
    <3>1. Prefix(Len(got))
      BY <2>3, <2>5 DEF Place
    <3>2. Len(got) \in 0..n
      BY <2>3
    <3> QED
      BY <3>1, <3>2
  <2> QED
    BY <2>1, <2>4, <2>5 DEF WriteFails
<1>2. SettingInv /\ [SettingNext]_settingVars =>
          [/\ setPhase = "write" /\ setPhase' = "idle"
           /\ setReply'.cc = "unspecified"
           /\ ~setForeign
           => \E k \in 0..Len(WritesOf(setting)) :
                 \A i \in 1..Len(WritesOf(setting)) :
                    prop'[WritesOf(setting)[i]] =
                        IF i <= k THEN Stored(setting, arg, i)
                                  ELSE propThen[WritesOf(setting)[i]]]_settingVars
    BY <1>1
<1> QED
    BY <1>2, SettingInvariant, PTL DEF SettingSpec, FailedSetPrefix
=============================================================================
