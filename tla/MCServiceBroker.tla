-------------------------- MODULE MCServiceBroker --------------------------
(* TLC instance of ServiceBroker.                                          *)
EXTENDS ServiceBroker
=============================================================================
