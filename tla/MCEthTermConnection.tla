------------------------ MODULE MCEthTermConnection ------------------------
(* TLC instance of EthTermConnection.                                      *)
EXTENDS EthTermConnection
=============================================================================
