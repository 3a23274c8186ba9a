---- MODULE JobState ----
(***************************************************************************)
(* The persisted job states of a download (domain/job.rs) and the relation *)
(* between them that the domain layer allows.  A row that does not exist   *)
(* yet is in the pseudo state Absent.                                      *)
(***************************************************************************)

Absent == "Absent"

Active == {"Queued", "ResolvingMetadata", "Downloading", "Hashing",
           "Verifying", "RetryWait"}

Retryable == {"Interrupted", "Failed", "Cancelled"}

JobStates == Active \cup Retryable
                    \cup {"ReviewRequired", "Completed", "Quarantined"}

(* Every running state may be abandoned in one of these ways. *)
Abandoned == {"Interrupted", "Failed", "Cancelled"}

Successors ==
  [s \in JobStates |->
     CASE s = "Queued"            -> Abandoned \cup {"ResolvingMetadata"}
       [] s = "ResolvingMetadata" -> Abandoned \cup {"Downloading", "RetryWait", "ReviewRequired"}
       [] s = "Downloading"       -> Abandoned \cup {"Hashing", "RetryWait", "ReviewRequired"}
       [] s = "Hashing"           -> Abandoned \cup {"Verifying", "RetryWait", "ReviewRequired"}
       [] s = "Verifying"         -> Abandoned \cup {"Completed", "RetryWait", "ReviewRequired",
                                                     "Quarantined"}
       [] s = "RetryWait"         -> Abandoned \cup {"Queued"}
       [] s = "ReviewRequired"    -> {"Queued", "Failed", "Quarantined", "Cancelled"}
       [] s = "Interrupted"       -> {"Queued", "Failed", "Cancelled"}
       [] s = "Failed"            -> {"Queued", "Cancelled"}
       [] s = "Cancelled"         -> {"Queued"}
       [] s = "Completed"         -> {"Quarantined", "ReviewRequired", "Failed"}
       [] s = "Quarantined"       -> {"Completed"}]

AllowsTransition(s, next) == next \in Successors[s]
====
