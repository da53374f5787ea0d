----------------------------- MODULE MCCatalog -----------------------------
(* Two requests at a time; a file of two devices in two rooms; workloads   *)
(* that start with the accounts, and send the requests, a group of         *)
(* properties is about.                                                    *)
EXTENDS Catalog

CONSTANTS hall, kitchen, attic, item

One    == 1 :> TRUE
Two    == 1 :> TRUE @@ 2 :> FALSE
Admins == 1 :> TRUE @@ 2 :> TRUE @@ 3 :> FALSE

MCWorkloads == {
    [accounts |-> Two, requests |-> 3, faults |-> 1,
     ops |-> {"CreateRoom", "RenameRoom", "DeleteRoom", "MoveDevice"}],
    [accounts |-> Two, requests |-> 3, faults |-> 0, ops |-> {"DeleteRoom", "UpdateDevice", "CreateDevice"}],
    [accounts |-> Two, requests |-> 4, faults |-> 1, ops |-> {"CreateRoom", "DeleteDevice"}],
    [accounts |-> One, requests |-> 3, faults |-> 1,
     ops |-> {"CreateVacuum", "UpdateDevice", "DeleteDevice", "ResetConfig"}],
    [accounts |-> Two, requests |-> 2, faults |-> 1,
     ops |-> {"AddDiscovered", "NewDevice", "DeleteRoom", "CreateVacuum"}],
    [accounts |-> One, requests |-> 4, faults |-> 0,
     ops |-> {"CreateVacuum", "ExportConfig", "ImportConfig", "SetMode"}],
    [accounts |-> Two, requests |-> 3, faults |-> 1,
     ops |-> {"CreateVacuum", "ExportConfig", "ImportConfig"}],
    [accounts |-> Admins, requests |-> 3, faults |-> 1, ops |-> {"CreateUser", "DeleteUser"}],
    [accounts |-> <<>>, requests |-> 3, faults |-> 1, ops |-> {"SetMode", "Ignore", "Unignore", "ClearIgnore", "ExportConfig"}]}

MCNames     == {hall, kitchen, attic}
MCLong      == {attic}
MCLocations == {hall, attic}
MCSeed      == <<kitchen, hall>>

\* The devices the file seeds are deleted, the process restarts.
SeedWorkloads == {[accounts |-> <<>>, requests |-> 2, faults |-> 1, ops |-> {"DeleteDevice"}]}

\* A robot is set up, its parent edited and deleted.
EditWorkloads == {[accounts |-> One, requests |-> 3, faults |-> 0,
                   ops |-> {"CreateVacuum", "UpdateDevice", "DeleteDevice"}]}
=============================================================================
