---- MODULE JobLifecycle ----
(***************************************************************************)
(* What the durable job table promises, whoever writes it: a row moves only *)
(* along the relation of domain/job.rs, a new worker attempt starts exactly *)
(* when a row is queued again, and nothing else touches the attempt number. *)
(* One step may move several rows, as startup recovery does.               *)
(***************************************************************************)
EXTENDS Naturals, JobState

CONSTANT Entries

VARIABLE row        \* [Entries -> [state, attempt]]

NoRow == [state |-> Absent, attempt |-> 0]

LInit == row = [e \in Entries |-> NoRow]

Created(old, new)  == old = NoRow /\ new = [state |-> "Queued", attempt |-> 1]

Requeued(old, new) == /\ old.state \in JobStates
                      /\ AllowsTransition(old.state, "Queued")
                      /\ new = [state |-> "Queued", attempt |-> old.attempt + 1]

Advanced(old, new) == /\ old.state \in JobStates
                      /\ new.state # "Queued"
                      /\ AllowsTransition(old.state, new.state)
                      /\ new.attempt = old.attempt

Lawful(old, new) == Created(old, new) \/ Requeued(old, new) \/ Advanced(old, new)

LNext == \A e \in Entries : row'[e] # row[e] => Lawful(row[e], row'[e])

LSpec == LInit /\ [][LNext]_row
====
