---------------------------- MODULE MCClientTest ----------------------------
(* Instances of ClientTest for TLC. *)
EXTENDS ClientTest

AllCommands == CommandType

=============================================================================
