------------------------------- MODULE IpmidMC -------------------------------
(* One port with its three pins, and files of one line: one that fits, one *)
(* that overruns its field and one that overruns the buffer.               *)
EXTENDS Ipmid

MCExported == {192, 256}
MCOutputs == {256}

Line(k, n) == [key |-> k, quoted |-> TRUE, value |-> k, len |-> n, long |-> n = 255]

MCReleases == {<<Line("version", 5)>>, <<Line("version", 41)>>, <<Line("other", 255)>>}
=============================================================================
