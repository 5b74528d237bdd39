------------------------------- MODULE Common -------------------------------
(***************************************************************************)
(* What every module of the bundler shares: the marker for an absent value *)
(* and the faults of the services around the bundler.                      *)
(*                                                                         *)
(* Each handler talks to S3, memcached, postgres, the packager, Django and *)
(* RabbitMQ, and any of these calls can fail.  A step in which one does is *)
(* guarded by Fault(kind): the kinds that may fail are FaultKinds, and at  *)
(* most MaxFaults of them happen in a behaviour.                           *)
(***************************************************************************)
EXTENDS Naturals

CONSTANTS
  None,         \* no value: a missing key, row, file or argument
  FaultKinds,   \* the kinds of fault that may happen
  MaxFaults     \* bound on the number of faults of a behaviour

ASSUME FaultAssumption == MaxFaults \in Nat

VARIABLE faults   \* number of faults so far

Fault(kind) ==
  /\ kind \in FaultKinds
  /\ faults < MaxFaults
  /\ faults' = faults + 1

NoFault == UNCHANGED faults
=============================================================================
