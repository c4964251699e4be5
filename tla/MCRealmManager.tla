---------------------------- MODULE MCRealmManager ----------------------------
(* RealmManager with small bounds for TLC.                                   *)
EXTENDS RealmManager
===============================================================================
