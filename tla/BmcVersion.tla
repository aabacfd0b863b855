------------------------------ MODULE BmcVersion ------------------------------
(***************************************************************************)
(* Get BMC Version (bmcinfo.cpp): one loop over the lines of               *)
(* /usr/lib/os-release.  The loop ends at end of file and looks at nothing *)
(* else of the stream: once the stream has failed, because it could not be *)
(* opened, because a line did not fit the buffer or because a read failed, *)
(* no getline reads anything any more and end of file never comes.         *)
(***************************************************************************)
EXTENDS Descriptors, Sequences

CONSTANTS
    ReleaseFiles,   \* contents os-release may have
    VersionLens     \* lengths a request may have

(* A line: which key it contains, whether a quote precedes its value, the  *)
(* value, the bytes the code cuts out of the line for it, and whether the  *)
(* line is longer than the buffer.                                         *)
Keys == {"version", "buildtime", "other"}

ASSUME FilesAssumption ==
    \A f \in ReleaseFiles : f \in Seq([key: Keys, quoted: BOOLEAN, value: STRING,
                                len: 0..255, long: BOOLEAN])

ASSUME RequestLensAssumption == VersionLens \subseteq 0..255

VARIABLES
    bmcFds,     \* descriptors it has open
    file,       \* os-release
    phase,      \* "idle", "open", "loop" or "copy"
    line,       \* lines read
    failed,     \* failbit or badbit of the stream
    found,      \* the strings version and buildtime
    answer      \* completion code, *data_len and the two fields

bmcVars == <<file, phase, line, failed, found, answer>>
bmcAll == <<bmcFds, bmcVars>>

VersionLength == 40
BuildtimeLength == 20
ResSize == VersionLength + BuildtimeLength

VersionFields == {"version", "buildtime"}
NoString == ""
Empty == [value |-> NoString, len |-> 0]
Nothing == [k \in VersionFields |-> Empty]
NoText == [k \in VersionFields |-> NoString]

\* Bytes that no line of the file gave.
Garbage == "garbage"

\* What getline and substr leave of a value: without a quote the search returns
\* npos, and the line is taken from its start but for its last character.
WholeLine == "line"
Cut(l) == [value |-> IF l.quoted THEN l.value ELSE WholeLine, len |-> l.len]

\* What a field may hold: a value of some line, or what stands for the rest.
FileValues == UNION {{f[i].value : i \in 1..Len(f)} : f \in ReleaseFiles}
Texts == FileValues \cup {NoString, WholeLine, Garbage}

BmcTypeOK ==
    /\ FdsTypeOK(bmcFds)
    /\ file \in ReleaseFiles
    /\ phase \in {"idle", "open", "loop", "copy"}
    /\ line \in 0..Len(file)
    /\ failed \in BOOLEAN
    /\ found \in [VersionFields -> [value: Texts, len: 0..255]]
    /\ answer \in [cc: {"none", "ok", "badlen"}, len: {0, ResSize},
                   text: [VersionFields -> Texts]]

BmcInit ==
    /\ bmcFds = 0
    /\ file \in ReleaseFiles
    /\ phase = "idle"
    /\ line = 0
    /\ failed = FALSE
    /\ found = Nothing
    /\ answer = [cc |-> "none", len |-> 0, text |-> NoText]

-----------------------------------------------------------------------------
GetVersion(len) ==
    /\ phase = "idle"
    /\ IF len = 0
       THEN phase' = "open" /\ UNCHANGED answer
       ELSE answer' = [cc |-> "badlen", len |-> 0, text |-> NoText] /\ UNCHANGED phase
    /\ line' = 0
    /\ failed' = FALSE
    /\ found' = Nothing
    /\ UNCHANGED <<bmcFds, file>>

OpenStream ==
    /\ phase = "open"
    /\ Opens(bmcFds)
    /\ phase' = "loop"
    /\ UNCHANGED <<file, line, failed, found, answer>>

\* A message on the console, and into the loop all the same.
OpenStreamFails ==
    /\ phase = "open"
    /\ OpenRefused(bmcFds)
    /\ phase' = "loop"
    /\ failed' = TRUE
    /\ UNCHANGED <<file, line, found, answer>>

\* (mutant) the first match wins.
NextLine_First ==
    /\ phase = "loop"
    /\ ~failed
    /\ line < Len(file)
    /\ line' = line + 1
    /\ LET l == file[line + 1]
       IN  /\ failed' = l.long
           /\ found' = IF l.key \in VersionFields /\ found[l.key] = Empty
                       THEN [found EXCEPT ![l.key] = Cut(l)] ELSE found
    /\ UNCHANGED <<bmcFds, file, phase, answer>>

\* The last line that contains the key wins.
NextLine ==
    /\ phase = "loop"
    /\ ~failed
    /\ line < Len(file)
    /\ line' = line + 1
    /\ LET l == file[line + 1]
       IN  /\ failed' = l.long
           /\ found' = IF l.key \in VersionFields THEN [found EXCEPT ![l.key] = Cut(l)]
                                           ELSE found
    /\ UNCHANGED <<bmcFds, file, phase, answer>>

\* A read from the opened file fails: badbit, and not the end of the file.  What
\* the line held so far may be taken for a line, of which no answer tells.
NextLineFails ==
    /\ phase = "loop"
    /\ ~failed
    /\ "line" \in Faults
    /\ failed' = TRUE
    /\ UNCHANGED <<bmcFds, file, phase, line, found, answer>>

\* (mutant) the stream is left open.
EndOfFile_Leaks ==
    /\ phase = "loop"
    /\ ~failed
    /\ line = Len(file)
    /\ phase' = "copy"
    /\ UNCHANGED <<bmcFds, file, line, failed, found, answer>>

EndOfFile ==
    /\ phase = "loop"
    /\ ~failed
    /\ line = Len(file)
    /\ phase' = "copy"
    /\ Closes(bmcFds)
    /\ UNCHANGED <<file, line, failed, found, answer>>

\* getline on a failed stream: an empty line, and not the end of the file.
Spin ==
    /\ phase = "loop"
    /\ failed
    /\ UNCHANGED bmcAll

\* memcpy copies as many bytes as the string has, whatever the field holds.
Fits ==
    /\ found["version"].len <= VersionLength
    /\ found["buildtime"].len <= BuildtimeLength

Copy ==
    /\ phase = "copy"
    /\ Fits
    /\ phase' = "idle"
    /\ answer' = [cc |-> "ok", len |-> ResSize,
                  text |-> [k \in VersionFields |-> found[k].value]]
    /\ UNCHANGED <<bmcFds, file, line, failed, found>>

\* A longer string runs over the next field or over the stack: the answer is
\* whatever comes of it.  (That the process dies of it is BmcRestart.)
CopyOverruns ==
    /\ phase = "copy"
    /\ ~Fits
    /\ phase' = "idle"
    /\ answer' \in [cc: {"ok"}, len: {ResSize},
                    text: [VersionFields -> {found[k].value : k \in VersionFields} \cup {Garbage}]]
    /\ UNCHANGED <<bmcFds, file, line, failed, found>>

\* The daemon ends and is started again.
BmcRestarted ==
    /\ ProcessEnds(bmcFds)
    /\ phase' = "idle"
    /\ line' = 0
    /\ failed' = FALSE
    /\ found' = Nothing
    /\ answer' = [cc |-> "none", len |-> 0, text |-> NoText]
    /\ UNCHANGED file

BmcRestart ==
    /\ "crash" \in Faults \/ (phase = "copy" /\ ~Fits)
    /\ BmcRestarted

Reading ==
    \/ OpenStream \/ OpenStreamFails
    \/ NextLine \/ NextLineFails \/ EndOfFile \/ Spin
    \/ Copy \/ CopyOverruns

BmcRequest == \E len \in VersionLens : GetVersion(len)

BmcNext ==
    \/ BmcRequest
    \/ Reading
    \/ BmcRestart

BmcSpec == BmcInit /\ [][BmcNext]_bmcAll

(* A handler that has been entered runs on.                                *)
FairBmcSpec == BmcSpec /\ WF_bmcAll(Reading)

-----------------------------------------------------------------------------
LinesOf(k) == {i \in 1..Len(file) : file[i].key = k}

(* What os-release says: the value of the last line for the key.           *)
LastValue(k) ==
    IF LinesOf(k) = {} THEN NoString
    ELSE LET i == CHOOSE i \in LinesOf(k) : \A j \in LinesOf(k) : j <= i
         IN  file[i].value

\* The file is written as the code expects it: quoted values that fit.
WellFormed ==
    \A i \in 1..Len(file) :
        /\ file[i].quoted
        /\ file[i].key = "version" => file[i].len <= VersionLength
        /\ file[i].key = "buildtime" => file[i].len <= BuildtimeLength

(* From a well-formed file, whatever lines it has in whatever order, an ok *)
(* answer carries the value of the last line for each field, and nothing   *)
(* for a field without one.                                                *)
VersionIsFile ==
    answer.cc = "ok" /\ WellFormed => answer.text = [k \in VersionFields |-> LastValue(k)]

(* The stream is closed on every way out of the handler.                   *)
NoStreamLeft == phase \in {"idle", "copy"} => bmcFds = 0

(* A request is answered, or the daemon restarts, or the stream has        *)
(* failed, because the file could not be opened, a line was too long or a  *)
(* read failed: then the handler is in its loop for good.  Nothing else    *)
(* keeps it there.                                                         *)
VersionReturns == phase # "idle" ~> phase = "idle" \/ (phase = "loop" /\ failed)
=============================================================================
