-------------------------------- MODULE JobFlow --------------------------------
(***************************************************************************)
(* What the print service promises about its jobs, without threads, locks  *)
(* or paper: a first-come first-served line of bounded length in front of  *)
(* several servers.  Jobs are numbered in the order of their arrival.      *)
(***************************************************************************)
EXTENDS Integers, Sequences

CONSTANTS NumJobs, Servers, Capacity  \* Capacity is -1 when the line is unlimited

Jobs  == 1..NumJobs
Nobody == 0

VARIABLES
  last,       \* the latest job the service decided about
  line,       \* the jobs that wait, oldest first
  inService,  \* the job each server works on, or Nobody
  served, dropped, removed  \* how many jobs ended in each way

flow == <<last, line, inService, served, dropped, removed>>

Full == Capacity # -1 /\ Len(line) >= Capacity

Init ==
  /\ last = 0
  /\ line = <<>>
  /\ inService = [s \in Servers |-> Nobody]
  /\ served = 0 /\ dropped = 0 /\ removed = 0

Decide == last < NumJobs /\ last' = last + 1

Accept ==
  /\ Decide /\ ~Full
  /\ line' = Append(line, last + 1)
  /\ UNCHANGED <<inService, served, dropped, removed>>

Refuse ==
  /\ Decide /\ Full
  /\ dropped' = dropped + 1
  /\ UNCHANGED <<line, inService, served, removed>>

\* The job was still on its way when the service stopped.
Withdraw ==
  /\ Decide
  /\ UNCHANGED <<line, inService, served, dropped, removed>>

Begin(s) ==
  /\ inService[s] = Nobody /\ line # <<>>
  /\ inService' = [inService EXCEPT ![s] = Head(line)]
  /\ line' = Tail(line)
  /\ UNCHANGED <<last, served, dropped, removed>>

Complete(s) ==
  /\ inService[s] # Nobody
  /\ inService' = [inService EXCEPT ![s] = Nobody]
  /\ served' = served + 1
  /\ UNCHANGED <<last, line, dropped, removed>>

\* A stop empties the line at once.
Purge ==
  /\ removed' = removed + Len(line)
  /\ line' = <<>>
  /\ UNCHANGED <<last, inService, served, dropped>>

Next ==
  \/ Accept \/ Refuse \/ Withdraw
  \/ \E s \in Servers : Begin(s) \/ Complete(s)
  \/ Purge

Spec == Init /\ [][Next]_flow
=============================================================================
