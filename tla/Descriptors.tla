----------------------------- MODULE Descriptors -----------------------------
(***************************************************************************)
(* The descriptor table of ipmid.  Providers are libraries loaded into one *)
(* process: a descriptor that one of them does not close is missing to all *)
(* of them, until the process ends and the kernel closes what it held.     *)
(* The operations are action formulas on the number of open descriptors    *)
(* that the handlers conjoin with their own; a failure is enabled when     *)
(* Faults names it.  Each handler has a counter of its own, which Ipmid    *)
(* makes one.                                                              *)
(***************************************************************************)
EXTENDS Integers

CONSTANTS
    MaxFds,     \* descriptors the providers may hold (RLIMIT_NOFILE)
    Faults      \* the failures that can happen

ASSUME MaxFdsAssumption == MaxFds \in Nat

FdsTypeOK(fds) == fds \in 0..MaxFds

Opens(fds) ==
    /\ fds < MaxFds
    /\ fds' = fds + 1

OpenRefused(fds) ==
    /\ fds = MaxFds \/ "open" \in Faults
    /\ UNCHANGED fds

\* (mutant) close(2) is forgotten.
Closes_Leaks(fds) == UNCHANGED fds

Closes(fds) == fds' = fds - 1

ProcessEnds(fds) == fds' = 0
=============================================================================
