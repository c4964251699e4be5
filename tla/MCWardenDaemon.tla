---------------------------- MODULE MCWardenDaemon ----------------------------
(* WardenDaemon with the command sets of its runs.                           *)
EXTENDS WardenDaemon, TLC

AllCommands == RealmCommands \cup AppCommands \cup WardenCommands
NoAppCommands == RealmCommands \cup WardenCommands

ClientSymmetry == Permutations(Clients)
===============================================================================
