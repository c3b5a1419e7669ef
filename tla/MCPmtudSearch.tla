--------------------------- MODULE MCPmtudSearch ---------------------------
(* Instances of PmtudSearch for TLC. *)
EXTENDS PmtudSearch

\* One bottleneck, behind the first link or at it.
OneBottleneck == {<<1500, 1301>>, <<1280>>}

\* A tunnel inside a tunnel: the second bottleneck is the narrower one.
TwoBottlenecks == {<<1500, 1460, 1420>>}
=============================================================================
