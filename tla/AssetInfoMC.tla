------------------------------ MODULE AssetInfoMC ------------------------------
(* A CPU block of one byte and two firmware revisions of one byte each, at *)
(* the two ends of a chip with a spare cell between and after them.        *)
EXTENDS AssetInfo, AssetLayout

\* What LayoutAssumption says of these regions is true of the real ones.
ASSUME RealLayout == BlocksFit

MCBase == [t \in Types |-> IF t = "fw" THEN 2 ELSE 0]
MCSize == [t \in Types |-> IF t = "fw" THEN 2 ELSE 1]

\* Any block of bytes other than the erased one.
MCPayload == [t \in Types |-> [0..(MCSize[t] - 1) -> Byte \ {Erased}]]

\* Any block at all.
MCFaultyPayload == [t \in Types |-> [0..(MCSize[t] - 1) -> Byte]]

\* The spare cells hold 0; the regions may hold anything.
MCChips == {c \in [Addr -> Byte] : c[1] = 0 /\ c[4] = 0}

\* A chip fresh from the factory.
MCBlank == {[a \in Addr |-> Erased]}
=============================================================================
