------------------------- MODULE MCMaintenanceJobs -------------------------
(* Callers and locks of the instances of MaintenanceJobs that TLC checks.   *)
EXTENDS MaintenanceJobs

CONSTANT Caller   \* callers that are not job runners

MCRunner == Process \X Job
MCClient == (Process \X Job) \cup Caller
=============================================================================
