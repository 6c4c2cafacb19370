--------------------------- MODULE TransferService ---------------------------
(***************************************************************************)
(* What one direction of the DMA engine promises to the OpenCL runtime     *)
(* (the comment above aocl_mmd_write and aocl_mmd_read in                  *)
(* common/source/host/mmd.cpp states it): a call with an op is accepted,   *)
(* and reported once, in the order of acceptance; a call without one is    *)
(* reported when it returns; status 0 is reported only for a transfer      *)
(* whose data is all in place.  Closing the service abandons what it had   *)
(* accepted and not started.                                               *)
(*                                                                         *)
(* Once trusted is FALSE, which is for good, a status says nothing of the  *)
(* data any more, and data that was in place may be overwritten.  That     *)
(* calls are reported once, and in order, is promised all the same.        *)
(***************************************************************************)
EXTENDS Naturals, Sequences

CONSTANTS Async, Blocking, Empty  \* Empty: calls that have nothing to move

VARIABLES
  accepted,   \* asynchronous calls not reported yet, oldest first
  running,    \* blocking calls that have not returned
  inPlace,    \* calls whose data is all in place
  outcome,    \* outcome[i] \in {"none", "ok", "failed"}
  closed,
  trusted     \* a status says something of the data

vars == <<accepted, running, inPlace, outcome, closed, trusted>>

Calls == Async \cup Blocking

Init ==
  /\ accepted = <<>>
  /\ running = {}
  /\ inPlace = Empty
  /\ outcome = [i \in Calls |-> "none"]
  /\ closed = FALSE
  /\ trusted = TRUE

Fresh(i) == outcome[i] = "none" /\ i \notin running /\ \A k \in 1 .. Len(accepted) : accepted[k] # i

Accept(i) ==
  /\ ~closed
  /\ Fresh(i)
  /\ accepted' = Append(accepted, i)
  /\ UNCHANGED <<running, inPlace, outcome, closed, trusted>>

Enter(i) ==
  /\ ~closed
  /\ Fresh(i)
  /\ running' = running \cup {i}
  /\ UNCHANGED <<accepted, inPlace, outcome, closed, trusted>>

\* The data of some unfinished call is now all in place.
Land(i) ==
  /\ outcome[i] = "none"
  /\ ~Fresh(i)
  /\ inPlace' = inPlace \cup {i}
  /\ UNCHANGED <<accepted, running, outcome, closed, trusted>>

\* The verdict on a call: success that can be trusted needs its data in place.
Verdict(i) ==
  \E v \in {"ok", "failed"} :
    /\ v = "ok" /\ trusted => i \in inPlace
    /\ outcome' = [outcome EXCEPT ![i] = v]

Notify ==
  /\ accepted # <<>>
  /\ Verdict(Head(accepted))
  /\ accepted' = Tail(accepted)
  /\ UNCHANGED <<running, inPlace, closed, trusted>>

Return(i) ==
  /\ i \in running
  /\ Verdict(i)
  /\ running' = running \ {i}
  /\ UNCHANGED <<accepted, inPlace, closed, trusted>>

Close ==
  /\ running = {}
  /\ closed' = TRUE
  /\ UNCHANGED <<accepted, running, inPlace, outcome, trusted>>

\* The service has lost track of what it moves.
Distrust ==
  /\ trusted' = FALSE
  /\ UNCHANGED <<accepted, running, inPlace, outcome, closed>>

Scramble ==
  /\ ~trusted
  /\ inPlace' \in SUBSET Calls
  /\ UNCHANGED <<accepted, running, outcome, closed, trusted>>

Next ==
  \/ \E i \in Async : Accept(i)
  \/ \E i \in Blocking : Enter(i)
  \/ \E i \in Calls : Land(i)
  \/ Notify
  \/ \E i \in Blocking : Return(i)
  \/ Close
  \/ Distrust
  \/ Scramble

Spec == Init /\ [][Next]_vars
=============================================================================
