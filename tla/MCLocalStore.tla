---------------------------- MODULE MCLocalStore ----------------------------
(***************************************************************************)
(* LocalStore with two documents, of which one was migrated from           *)
(* localStorage.                                                           *)
(***************************************************************************)
EXTENDS LocalStore

CONSTANTS d1, d2

MCDocIds   == {d1, d2}
MCMigrated == {d2}
MCNothing  == {}
MCOffline  == {"offline"}
MCCount    == {"count"}
=============================================================================
