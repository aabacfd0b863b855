---------------------------- MODULE EepromDaemonMC ----------------------------
(* Raw cells 0 and 1 below the blocks, a spare cell between each region.   *)
EXTENDS EepromDaemon

MCBase == [t \in Types |-> IF t = "fw" THEN 5 ELSE 3]
MCSize == [t \in Types |-> IF t = "fw" THEN 2 ELSE 1]

\* Two blocks of each type, different in every byte and their bytes alternating.
MCPayload ==
    [t \in Types |-> {[i \in 0..(MCSize[t] - 1) |-> (b + i) % 2] : b \in {0, 1}}]

MCBlank == {[a \in Addr |-> Erased]}

MCReads == {[offset |-> 0, len |-> 2], [offset |-> 1, len |-> 0]}

MCWrites ==
    {[offset |-> 0, declared |-> 2, bytes |-> <<b, 1 - b>>] : b \in {0, 1}}
      \cup {[offset |-> 1, declared |-> 1, bytes |-> <<0>>],
            [offset |-> 0, declared |-> 1, bytes |-> <<1, 1>>]}

\* Fewer requests, for the runs in which everything may fail.
MCFewReads == {[offset |-> 0, len |-> 1]}

MCFewWrites == {[offset |-> 0, declared |-> 2, bytes |-> <<1, 0>>]}
=============================================================================
