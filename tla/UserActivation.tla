---------------------------- MODULE UserActivation ----------------------------
(***************************************************************************)
(* Set User 2 Activation (oemcommands.cpp): the creation of a default      *)
(* administrator, once.  The handler looks at every channel, at the        *)
(* addresses of the LAN channels and at the users, then sets name,         *)
(* password and privilege of user 2 one after the other, and deletes the   *)
(* user again if one of the last two fails.  All of this it asks of other  *)
(* services, which serve other clients in between, whose calls can fail    *)
(* before or after their effect, and which keep what was done when ipmid   *)
(* ends in between.                                                        *)
(***************************************************************************)
EXTENDS Integers

CONSTANTS
    LastChannel,    \* channels are 0..LastChannel (maxIpmiChannels - 1)
    Media,          \* what the channels may be
    Networked,      \* channels that have a network device
    MaxChanges,     \* changes other clients make in a behaviour
    UserFaults      \* the calls that can fail, by userPhase, and "crash"

Channel == 0..LastChannel
Versions == {"ip6", "ip4"}

ASSUME ChannelAssumption ==
    /\ LastChannel \in Nat
    /\ Media \subseteq [Channel -> {"system", "lan", "other"}]
    /\ Networked \subseteq Channel
    /\ MaxChanges \in Nat

VARIABLES
    medium,     \* of each channel
    dhcp,       \* the addresses under DHCP: pairs of channel and IP version
    user2,      \* user 2: name, password and privilege, whether enabled
    others,     \* number of other users that are enabled
    userPhase,  \* "idle", or the call the handler makes next
    channel,    \* the channel it is at
    userReply,  \* completion code
    was,        \* history: user 2 when the request came
    throughout, \* history: what has been so ever since the request came
    marks,      \* history: what happened that the reply does not tell
    changes     \* changes of other clients so far

hosts == <<medium, dhcp, user2, others>>
activation == <<userPhase, channel, userReply>>
history == <<was, throughout, marks>>
userVars == <<hosts, activation, history, changes>>

\* "old" is whatever other clients have set.
Users == [name: {"", "old", "new"}, password: {"none", "old", "new"},
          priv: {"none", "old", "admin"}, enabled: BOOLEAN]
NoUser == [name |-> "", password |-> "none", priv |-> "none", enabled |-> FALSE]
OldUser(e) == [name |-> "old", password |-> "old", priv |-> "old", enabled |-> e]

EnabledUsers(u, n) == n + (IF u.enabled THEN 1 ELSE 0)

\* What forbids the command: addresses under DHCP, user 2 enabled, two users
\* enabled.
User2Enabled == <<0, "user2">>
TwoEnabled == <<0, "users">>
Forbids(d, u, n) ==
    d \cup {x \in {User2Enabled} : u.enabled}
      \cup {x \in {TwoEnabled} : EnabledUsers(u, n) > 1}

UserTypeOK ==
    /\ medium \in Media
    /\ dhcp \subseteq Channel \X Versions
    /\ user2 \in Users
    /\ others \in 0..2
    /\ userPhase \in Versions \cup
          {"idle", "info", "counts", "check", "name", "password", "priv", "undo"}
    /\ channel \in Channel
    /\ userReply \in {"none", "ok", "unspecified", "notavailable"}
    /\ was \in Users
    /\ throughout \subseteq (Channel \X Versions) \cup {User2Enabled, TwoEnabled}
    /\ marks \subseteq {"unchecked", "renamed", "kept", "touched", "cut"}
    /\ changes \in 0..MaxChanges

UserInit ==
    /\ medium \in Media
    /\ dhcp \in SUBSET ({c \in Channel : medium[c] = "lan"} \X Versions)
    /\ user2 \in {NoUser, OldUser(FALSE), OldUser(TRUE)}
    /\ others \in 0..2
    /\ userPhase = "idle"
    /\ channel = 0
    /\ userReply = "none"
    /\ was = user2
    /\ throughout = {}
    /\ marks = {}
    /\ changes = 0

-----------------------------------------------------------------------------
Activate ==
    /\ userPhase = "idle"
    /\ userPhase' = "info"
    /\ channel' = 0
    /\ userReply' = "none"
    /\ was' = user2
    /\ throughout' = Forbids(dhcp, user2, others)
    /\ marks' = {}
    /\ UNCHANGED <<hosts, changes>>

\* A step of the handler that changes nothing it could read.
Goes(from, to) ==
    /\ userPhase = from
    /\ userPhase' = to
    /\ UNCHANGED <<hosts, userReply, history, changes>>

Answers(from, cc) ==
    /\ userPhase = from
    /\ userPhase' = "idle"
    /\ userReply' = cc
    /\ UNCHANGED <<hosts, channel, was, throughout, changes>>

Fails(call) == call \in UserFaults

NextChannel(from) ==
    \/ channel = LastChannel /\ Goes(from, "counts") /\ UNCHANGED channel
    \/ channel < LastChannel /\ Goes(from, "info") /\ channel' = channel + 1

GetChannelInfo ==
    \/ medium[channel] = "system" /\ Answers("info", "notavailable") /\ UNCHANGED marks
    \/ medium[channel] = "lan" /\ Goes("info", "ip6") /\ UNCHANGED channel
    \/ medium[channel] = "other" /\ NextChannel("info")
    \/ Fails("info") /\ Answers("info", "unspecified") /\ UNCHANGED marks

\* A channel without a device has no address to ask for.
UnderDHCP(v) == channel \in Networked /\ <<channel, v>> \in dhcp

Passes(v) == IF v = "ip6" THEN Goes("ip6", "ip4") /\ UNCHANGED channel ELSE NextChannel("ip4")

\* isDHCPIPv6Enabled, then isDHCPEnabled: a failing call counts as DHCP.
IsDHCPEnabled(v) ==
    \/ ~UnderDHCP(v) /\ Passes(v)
    \/ UnderDHCP(v) /\ Answers(v, "notavailable") /\ UNCHANGED marks
    \/ Fails(v) /\ channel \in Networked /\ Answers(v, "notavailable") /\ UNCHANGED marks

GetAllCounts ==
    \/ EnabledUsers(user2, others) <= 1 /\ Goes("counts", "check") /\ UNCHANGED channel
    \/ EnabledUsers(user2, others) > 1 /\ Answers("counts", "notavailable") /\ UNCHANGED marks
    \/ Fails("counts") /\ Answers("counts", "unspecified") /\ UNCHANGED marks

\* The result of the check is not looked at: if it fails user 2 passes for
\* disabled.
CheckEnabled ==
    \/ ~user2.enabled /\ Goes("check", "name") /\ UNCHANGED channel
    \/ user2.enabled /\ Answers("check", "notavailable") /\ UNCHANGED marks
    \/ /\ Fails("check")
       /\ userPhase = "check"
       /\ userPhase' = "name"
       /\ marks' = marks \cup {"unchecked"}
       /\ UNCHANGED <<hosts, channel, userReply, was, throughout, changes>>

\* User 2 with a name, a password or the privilege of the request.
Renamed(u) == [u EXCEPT !.name = "new"]
Locked(u) == [u EXCEPT !.password = "new"]
Raised(u) == [u EXCEPT !.priv = "admin"]

\* The user manager sets a part of user 2 for the handler.
UserSets(from, to, u) ==
    /\ userPhase = from
    /\ userPhase' = to
    /\ user2' = u
    /\ UNCHANGED <<medium, dhcp, others, channel, was, throughout, changes>>

\* A call that fails may have had its effect.  A name for a slot without one
\* makes a user; for another it renames it.  A name that failed is not undone.
SetName ==
    \/ UserSets("name", "password", Renamed(user2)) /\ UNCHANGED <<userReply, marks>>
    \/ Fails("name") /\ Answers("name", "notavailable") /\ UNCHANGED marks
    \/ /\ Fails("name")
       /\ UserSets("name", "idle", Renamed(user2))
       /\ userReply' = "notavailable"
       /\ marks' = marks \cup {"renamed"}

SetPassword ==
    \/ UserSets("password", "priv", Locked(user2)) /\ UNCHANGED <<userReply, marks>>
    \/ /\ Fails("password")
       /\ \E u \in {user2, Locked(user2)} : UserSets("password", "undo", u)
       /\ UNCHANGED <<userReply, marks>>

\* (mutant) only a password that failed is undone.
SetPrivilege_NoUndo ==
    \/ UserSets("priv", "idle", Raised(user2)) /\ userReply' = "ok" /\ UNCHANGED marks
    \/ Fails("priv") /\ Answers("priv", "notavailable") /\ UNCHANGED marks

SetPrivilege ==
    \/ UserSets("priv", "idle", Raised(user2)) /\ userReply' = "ok" /\ UNCHANGED marks
    \/ /\ Fails("priv")
       /\ \E u \in {user2, Raised(user2)} : UserSets("priv", "undo", u)
       /\ UNCHANGED <<userReply, marks>>

\* An empty name deletes the user.
Undo ==
    \/ UserSets("undo", "idle", NoUser) /\ userReply' = "notavailable" /\ UNCHANGED marks
    \/ /\ Fails("undo")
       /\ \E u \in {user2, NoUser} : UserSets("undo", "idle", u)
       /\ userReply' = "notavailable"
       /\ marks' = marks \cup {"kept"}

Activating ==
    \/ GetChannelInfo
    \/ \E v \in Versions : IsDHCPEnabled(v)
    \/ GetAllCounts \/ CheckEnabled
    \/ SetName \/ SetPassword \/ SetPrivilege \/ Undo

-----------------------------------------------------------------------------
\* Another client of the network or the user service changes one thing.
Change ==
    /\ changes < MaxChanges
    /\ changes' = changes + 1
    /\ \/ \E c \in Channel, v \in Versions :
             /\ medium[c] = "lan"
             /\ dhcp' = IF <<c, v>> \in dhcp THEN dhcp \ {<<c, v>>} ELSE dhcp \cup {<<c, v>>}
             /\ UNCHANGED <<user2, others, marks>>
       \/ /\ others' \in (0..2) \ {others}
          /\ UNCHANGED <<dhcp, user2, marks>>
       \/ /\ user2' \in {NoUser, OldUser(FALSE), OldUser(TRUE)} \ {user2}
          /\ marks' = marks \cup {"touched"}
          /\ UNCHANGED <<dhcp, others>>
    /\ throughout' = throughout \cap Forbids(dhcp', user2', others')
    /\ UNCHANGED <<medium, activation, was>>

\* The daemon ends between two calls: what the user manager was told it keeps.
UserCrash ==
    /\ "crash" \in UserFaults
    /\ userPhase # "idle"
    /\ userPhase' = "idle"
    /\ marks' = marks \cup {"cut"}
    /\ UNCHANGED <<hosts, channel, userReply, was, throughout, changes>>

UserNext == Activate \/ Activating \/ Change \/ UserCrash

UserSpec == UserInit /\ [][UserNext]_userVars

(* A handler that has been entered runs on.                                *)
FairUserSpec == UserSpec /\ WF_userVars(Activating)

-----------------------------------------------------------------------------
\* What a request should have been refused for, whenever it looked.
Unseen == (Channel \ Networked) \X Versions
Forbidden ==
    throughout \ (Unseen \cup (IF "unchecked" \in marks THEN {User2Enabled} ELSE {}))

(* User 2 is not touched on a system with a system interface, nor because  *)
(* of a request during which an address was under DHCP, user 2 enabled or  *)
(* two users enabled all the time: other clients can at most outrun the    *)
(* checks, and calls that fail do not open them, but for the result that   *)
(* is not looked at.                                                       *)
OnlyWhenAllowed ==
    userPhase \in {"name", "password", "priv"} =>
        /\ \A c \in Channel : medium[c] # "system"
        /\ Forbidden = {}

(* An ok means that name, password and privilege are those of the request, *)
(* unless another client changes user 2.                                   *)
Activated ==
    userReply = "ok" /\ "touched" \notin marks =>
        user2.name = "new" /\ user2.password = "new" /\ user2.priv = "admin"

\* What the calls make of user 2 one after the other.
Stages(u) == {u, Renamed(u), Locked(Renamed(u)), Raised(Locked(Renamed(u)))}

(* However a request ends, by an answer or because the daemon does, user 2 *)
(* is as the first calls of the code left it, in their order, or deleted:  *)
(* never an administrator under an old password or name.  And when the     *)
(* answer says that it failed, user 2 is as it was or deleted, unless the  *)
(* naming reported a failure after its effect, which the code does not     *)
(* undo, or the deletion itself did.  Either holds while no other client   *)
(* changes user 2.                                                         *)
InOrder ==
    userPhase = "idle" /\ "touched" \notin marks =>
        /\ user2 \in Stages(was) \cup {NoUser}
        /\ /\ userReply \in {"unspecified", "notavailable"}
           /\ marks \cap {"renamed", "kept"} = {}
           => user2 \in {was, NoUser}

(* Every request is answered.                                              *)
UserAnswers == userPhase # "idle" ~> userPhase = "idle"

(* Activation is for a new BMC only, on a network that asks for no account *)
(* of its own, and all or nothing as far as the code can undo.             *)
ActivationGuarded == OnlyWhenAllowed /\ Activated /\ InOrder
=============================================================================
