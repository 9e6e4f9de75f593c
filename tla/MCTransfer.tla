----------------------------- MODULE MCTransfer -----------------------------
(***************************************************************************)
(* The instance of Pop3Server in which nothing is refused, for TLC.        *)
(***************************************************************************)
EXTENDS MCPop3Server

\* The environment of the theorems about a server that never halts.
ASSUME TransferAssumption == DescriptorsSuffice /\ FdLimit <= ItemsMax
=============================================================================
