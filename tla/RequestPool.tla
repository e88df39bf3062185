---------------------------- MODULE RequestPool ----------------------------
(* The requests the API serves at a time: what the modules about single     *)
(* handlers share.  Any two of them may interleave between two awaits.      *)
EXTENDS Integers, FiniteSets

CONSTANTS Procs,        \* the requests served at a time
          NoProc,
          MaxRequests   \* bound: requests admitted in a behaviour

ASSUME PoolAssumption == /\ IsFiniteSet(Procs) /\ Procs # {}
                         /\ NoProc \notin Procs
                         /\ MaxRequests \in Nat
=============================================================================
