----------------------------- MODULE AdapterTable -----------------------------
(***************************************************************************)
(* Look-up of an I2C adapter by name (i2c.cpp): gather_i2c_busses builds a *)
(* table of the adapters from /proc/bus/i2c or from sysfs, the look-up     *)
(* walks it to the entry without a name that ends it, and frees it.  The   *)
(* table grows by a bunch whenever the next entry would be its last.       *)
(***************************************************************************)
EXTENDS Descriptors, FiniteSets, Sequences

CONSTANTS
    Directories,    \* what the system may show: source and entries
    Wanted          \* the name that is looked up

(* An entry: its adapter number, its name, and where the name is found: in *)
(* the entry ("plain"), in an i2c-* directory below device ("nested"),     *)
(* nowhere ("none"), in a file that cannot be read ("empty"), or under an  *)
(* entry that has no number ("other").                                     *)
Kinds == {"plain", "nested", "none", "empty", "other"}

ASSUME DirectoriesAssumption ==
    \A d \in Directories :
        /\ d.source \in {"proc", "sysfs", "missing"}
        /\ d.entries \in Seq([kind: Kinds, nr: Nat, name: STRING])
        /\ d.source = "proc" =>
              \A i \in 1..Len(d.entries) : d.entries[i].kind = "plain"

\* "memory": an allocation fails; "open": a file or directory cannot be opened.
VARIABLES
    tableFds,   \* descriptors it has open
    directory,  \* what the system shows
    step,       \* "start", "entry", "grow", "name", "search" or "done"
    next,       \* entries visited
    table,      \* the adapters found: number and name
    cap,        \* entries the table has room for, the terminator included
    heap,       \* allocations not freed
    bus,        \* the result of the look-up
    kept,       \* history: directories and streams left open
    sound       \* history: nothing has failed during this look-up

tableVars == <<directory, step, next, table, cap, heap, bus, kept, sound>>
tableAll == <<tableFds, tableVars>>

BUNCH == 8

\* The results that are not the number of a bus.
NoMatch == -1
NoMemory == -3
NotUnique == -4

TableTypeOK ==
    /\ FdsTypeOK(tableFds)
    /\ directory \in Directories
    /\ step \in {"start", "open", "entry", "grow", "name", "search", "done"}
    /\ next \in 0..Len(directory.entries)
    /\ table \in Seq([nr: Nat, name: STRING])
    /\ cap \in Nat
    /\ heap \in Nat
    /\ bus \in Nat \cup {NoMatch, NoMemory, NotUnique}
    /\ kept \in 0..MaxFds
    /\ sound \in BOOLEAN

TableInit ==
    /\ tableFds = 0
    /\ directory \in Directories
    /\ step = "start"
    /\ next = 0
    /\ table = <<>>
    /\ cap = 0
    /\ heap = 0
    /\ bus = NoMatch
    /\ kept = 0
    /\ sound = TRUE

-----------------------------------------------------------------------------
\* Other handlers have left descriptors open before the look-up begins.
OthersOpen ==
    /\ step = "start"
    /\ Opens(tableFds)
    /\ kept' = kept + 1
    /\ UNCHANGED <<directory, step, next, table, cap, heap, bus, sound>>

(* NULL is returned: the table is freed, what was open stays open.         *)
GivesUp ==
    /\ "memory" \in Faults
    /\ step' = "done"
    /\ table' = <<>>
    /\ heap' = 0
    /\ bus' = NoMemory
    /\ sound' = FALSE
    /\ UNCHANGED <<tableFds, directory, next, cap>>

Calloc ==
    /\ step = "start"
    /\ cap' = BUNCH
    /\ heap' = 1
    /\ step' = "open"
    /\ UNCHANGED <<tableFds, directory, next, table, bus, kept, sound>>

CallocFails ==
    /\ step = "start"
    /\ GivesUp
    /\ UNCHANGED kept

\* /proc/bus/i2c, or the directory of sysfs once /proc/mounts has told where it
\* is and is closed again; it stays open during the walk.
OpenDirectory ==
    /\ step = "open"
    /\ directory.source # "missing"
    /\ Opens(tableFds)
    /\ step' = "entry"
    /\ UNCHANGED <<directory, next, table, cap, heap, bus, kept, sound>>

OpenDirectoryFails ==
    /\ step = "open"
    /\ OpenRefused(tableFds) \/ (directory.source = "missing" /\ UNCHANGED tableFds)
    /\ step' = "search"
    /\ sound' = FALSE
    /\ UNCHANGED <<directory, next, table, cap, heap, bus, kept>>

Entry == directory.entries[next + 1]

\* (mutant) room is made when the table is full, as if it had no terminator.
RoomStep_Late == IF Len(table) > 0 /\ Len(table) % BUNCH = 0 THEN "grow" ELSE "name"

\* The entry behind the next one is the terminator.
RoomStep == IF (Len(table) + 1) % BUNCH = 0 THEN "grow" ELSE "name"

Visiting == step = "entry" /\ next < Len(directory.entries)

\* The name is read: a stream, and the probe of the adapter, come and go.
Plain ==
    /\ Visiting
    /\ Entry.kind = "plain"
    /\ directory.source = "proc" \/ tableFds < MaxFds
    /\ step' = RoomStep
    /\ UNCHANGED <<tableFds, directory, next, table, cap, heap, bus, kept, sound>>

\* The directory below device is opened, searched, and not closed.
Nested ==
    /\ Visiting
    /\ Entry.kind = "nested"
    /\ tableFds < MaxFds - 1
    /\ Opens(tableFds)
    /\ kept' = kept + 1
    /\ step' = RoomStep
    /\ UNCHANGED <<directory, next, table, cap, heap, bus, sound>>

\* There is no name in it, or no descriptor left to read one with.
Nameless ==
    /\ Visiting
    /\ Entry.kind \in {"nested", "none"}
    /\ Entry.kind = "nested" => tableFds >= MaxFds - 1 \/ "open" \in Faults
    /\ Opens(tableFds)
    /\ kept' = kept + 1
    /\ next' = next + 1
    /\ sound' = (sound /\ Entry.kind = "none")
    /\ UNCHANGED <<directory, step, table, cap, heap, bus>>

\* The entry is passed over, with nothing left open.
Skip ==
    /\ Visiting
    /\ \/ Entry.kind \in {"empty", "other"}
       \/ directory.source = "sysfs" /\ (tableFds = MaxFds \/ "open" \in Faults)
    /\ next' = next + 1
    /\ sound' = (sound /\ Entry.kind \in {"empty", "other"})
    /\ UNCHANGED <<tableFds, directory, step, table, cap, heap, bus, kept>>

\* (mutant) n is the number of entries in use.
MoreAdapters_Count ==
    /\ step = "grow"
    /\ cap' = Len(table) + BUNCH
    /\ step' = "name"
    /\ UNCHANGED <<tableFds, directory, next, table, heap, bus, kept, sound>>

\* n is count + 1.
MoreAdapters ==
    /\ step = "grow"
    /\ cap' = Len(table) + 1 + BUNCH
    /\ step' = "name"
    /\ UNCHANGED <<tableFds, directory, next, table, heap, bus, kept, sound>>

AddAdapter ==
    /\ step = "name"
    /\ table' = Append(table, [nr |-> Entry.nr, name |-> Entry.name])
    /\ heap' = heap + 1
    /\ next' = next + 1
    /\ step' = "entry"
    /\ UNCHANGED <<tableFds, directory, cap, bus, kept, sound>>

\* Neither realloc nor strdup that fails closes the directory.
AllocationFails ==
    /\ step \in {"grow", "name"}
    /\ GivesUp
    /\ kept' = kept + 1

CloseDirectory ==
    /\ step = "entry"
    /\ next = Len(directory.entries)
    /\ Closes(tableFds)
    /\ step' = "search"
    /\ UNCHANGED <<directory, next, table, cap, heap, bus, kept, sound>>

Matches == {i \in 1..Len(table) : table[i].name = Wanted}

\* free_adapters frees each name it walks past, and the table.
Search ==
    /\ step = "search"
    /\ bus' = CASE Cardinality(Matches) = 0 -> NoMatch
                [] Cardinality(Matches) = 1 -> table[CHOOSE i \in Matches : TRUE].nr
                [] OTHER -> NotUnique
    /\ step' = "done"
    /\ table' = <<>>
    /\ heap' = heap - (Len(table) + 1)
    /\ UNCHANGED <<tableFds, directory, next, cap, kept, sound>>

Finished == step = "done" /\ UNCHANGED tableAll

TableNext ==
    \/ OthersOpen
    \/ Calloc \/ CallocFails
    \/ OpenDirectory \/ OpenDirectoryFails
    \/ Plain \/ Nested \/ Nameless \/ Skip
    \/ MoreAdapters \/ AddAdapter \/ AllocationFails
    \/ CloseDirectory
    \/ Search
    \/ Finished

TableSpec == TableInit /\ [][TableNext]_tableAll

-----------------------------------------------------------------------------
(* The entry behind the adapters is inside the allocation: the walks of    *)
(* lookup_i2c_bus_by_name and free_adapters, which stop at an entry        *)
(* without a name, end inside the table.                                   *)
Terminated == step \notin {"start", "done"} => Len(table) < cap

(* The table grows from the size it has: "n must match the size of         *)
(* adapters at calling time" is the comment on more_adapters, whose memset *)
(* would leave a gap or clear an adapter otherwise.                        *)
GrowthMatches == [][step = "grow" /\ step' = "name" => cap' = cap + BUNCH]_tableAll

(* Everything allocated is freed once, on every way out.                   *)
AllFreed == step = "done" => heap = 0

Names(w) ==
    {i \in 1..Len(directory.entries) :
        /\ directory.entries[i].name = w
        /\ directory.entries[i].kind \in {"plain", "nested"}}

(* A look-up during which nothing failed finds what the system shows: the  *)
(* adapter of that name, if there is exactly one.                          *)
LookupExact ==
    step = "done" /\ sound =>
        CASE Names(Wanted) = {} -> bus = NoMatch
          [] Cardinality(Names(Wanted)) = 1 ->
                bus = directory.entries[CHOOSE i \in Names(Wanted) : TRUE].nr
          [] OTHER -> bus = NotUnique

(* What the look-up found open it leaves open, and it leaves open of its   *)
(* own the directories it went into below device and, when memory ran out, *)
(* the one it was walking: nothing else, and never less.                   *)
KeepsOpen == step = "done" => tableFds = kept
=============================================================================
