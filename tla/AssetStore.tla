------------------------------ MODULE AssetStore ------------------------------
(***************************************************************************)
(* What the BIOS and a management client may rely on when they talk to the *)
(* system information commands: one block per asset type, a durable copy   *)
(* that survives a restart of the daemon, and the copy that is served.     *)
(*                                                                         *)
(* A Set changes the served copy at once and the durable copy later.       *)
(* While the durable copy is being rewritten nothing is promised of it.    *)
(* When nothing fails the reply to a Set comes after the durable copy has  *)
(* the new block; when something may fail (MayFail) the same reply can     *)
(* mean that the durable copy kept the old block, or is torn.              *)
(***************************************************************************)
EXTENDS Integers

CONSTANTS
    Types,      \* asset types that are stored
    FW,         \* the type whose block a Get answers with
    Size,        \* size of each type's block
    Byte,
    Erased,     \* what a cell that could not be read is served as
    InitStores, \* durable blocks at first start: a set of functions on Types
    Requests,   \* Requests[t]: the blocks a client may ask to set
    MayFail,    \* the bus or the process's resources may fail
    MayCrash    \* the daemon may be restarted

VARIABLES store, view, op, reply

storeVars == <<store, view, op, reply>>

Idx(t) == 0..(Size[t] - 1)
Block(t) == [Idx(t) -> Byte]

\* The empty function stands for a block nothing is promised of (store) and
\* for a block the daemon has not got (view); no block is empty.
Unknown == <<>>

Idle == <<>>

NoReply == [cc |-> "none", data |-> <<>>]
Refused == {[cc |-> "badlen", data |-> <<>>], [cc |-> "unspecified", data |-> <<>>]}
SetDone == [cc |-> "ok", data |-> <<0>>]

\* A Get of FW is answered with the second of its two revisions.
Answer(t, b) ==
    IF t = FW
    THEN LET half == Size[FW] \div 2
         IN  [cc |-> "ok", data |-> [i \in 0..(half - 1) |-> b[half + i]]]
    ELSE [cc |-> "unspecified", data |-> <<>>]

TypeOK ==
    /\ \A t \in Types : store[t] \in Block(t) \cup {Unknown}
    /\ \A t \in Types : view[t] \in Block(t) \cup {Unknown}
    /\ op \in {Idle} \cup ({"set", "get"} \X Types)

Init ==
    /\ store \in InitStores
    /\ view = [t \in Types |-> Unknown]
    /\ op = Idle
    /\ reply = NoReply

(* Requests that are refused, at once or after a while: nothing changes.   *)
Refuse ==
    /\ op = Idle
    /\ reply' \in Refused \cup {NoReply}
    /\ UNCHANGED <<store, view, op>>

BeginSet(t) ==
    /\ op = Idle
    /\ op' = <<"set", t>>
    /\ \E b \in Requests[t] : view' = [view EXCEPT ![t] = b]
    /\ reply' = NoReply
    /\ UNCHANGED store

Rewrite(t) ==
    /\ op = <<"set", t>>
    /\ store' = [store EXCEPT ![t] = Unknown]
    /\ UNCHANGED <<view, op, reply>>

EndSet(t) ==
    /\ op = <<"set", t>>
    /\ \/ /\ store[t] = Unknown
          /\ store' = [store EXCEPT ![t] = view[t]]
       \/ /\ MayFail
          /\ store[t] # Unknown
          /\ UNCHANGED store
       \/ /\ MayFail
          /\ store[t] = Unknown
          /\ store'[t] \in Block(t)
          /\ store' = [store EXCEPT ![t] = store'[t]]
    /\ op' = Idle
    /\ reply' = SetDone
    /\ UNCHANGED view

Get(t) ==
    /\ op = Idle
    /\ view[t] # Unknown
    /\ reply' = Answer(t, view[t])
    /\ UNCHANGED <<store, view, op>>

BeginLoad(t) ==
    /\ op = Idle
    /\ view[t] = Unknown
    /\ op' = <<"get", t>>
    /\ reply' = NoReply
    /\ UNCHANGED <<store, view>>

(* A cell that could not be read is served as an erased one.               *)
EndLoad(t) ==
    /\ op = <<"get", t>>
    /\ view'[t] \in Block(t)
    /\ view' = [view EXCEPT ![t] = view'[t]]
    /\ \A i \in Idx(t) :
          \/ view'[t][i] = store[t][i]
          \/ MayFail /\ view'[t][i] = Erased
    /\ op' = Idle
    /\ reply' = Answer(t, view'[t])
    /\ UNCHANGED store

FailLoad(t) ==
    /\ MayFail
    /\ op = <<"get", t>>
    /\ op' = Idle
    /\ reply' = [cc |-> "unspecified", data |-> <<>>]
    /\ UNCHANGED <<store, view>>

(* The daemon restarts: it has no block in memory, the request in progress *)
(* is not answered, and a block that was being rewritten may be torn.      *)
Restart ==
    /\ MayCrash
    /\ view' = [t \in Types |-> Unknown]
    /\ op' = Idle
    /\ reply' = NoReply
    /\ \A t \in Types :
          IF store[t] = Unknown THEN store'[t] \in Block(t)
                                ELSE store'[t] = store[t]
    /\ store' = [t \in Types |-> store'[t]]

Next ==
    \/ Refuse
    \/ Restart
    \/ \E t \in Types :
          \/ BeginSet(t) \/ Rewrite(t) \/ EndSet(t)
          \/ Get(t) \/ BeginLoad(t) \/ EndLoad(t) \/ FailLoad(t)

Spec == Init /\ [][Next]_storeVars
=============================================================================
