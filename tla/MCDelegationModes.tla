-------------------------- MODULE MCDelegationModes --------------------------
(***************************************************************************)
(* Two instances of Delegation in one run: two processes without resume,   *)
(* and one process (p1) that resumes failures and whose calls are          *)
(* cancelled twice.                                                        *)
(***************************************************************************)
EXTENDS Delegation

CONSTANTS p1, p2, r1, r2

VARIABLE mode

MCTwoProcs == {p1, p2}
MCResults == {r1, r2}

Resuming == INSTANCE Delegation WITH
    Procs <- MCTwoProcs, AllowResume <- TRUE, CancelTwice <- TRUE, MaxCalls <- 4

MCInit == \/ mode = "race" /\ Init
          \/ mode = "resume" /\ Resuming!Init

MCNext ==
    /\ UNCHANGED mode
    /\ \/ mode = "race" /\ Next
       \/ mode = "resume" /\ Resuming!Next /\ pc'[p2] = "idle"

MCSpec ==
    /\ MCInit /\ [][MCNext]_<<vars, mode>>
    /\ Fairness

(* The ledger is settled after the receipt and keeps executing leases. *)
LedgerFollows == mode = "race" => LedgerFollowsReceipt

(* A closed receipt changes only to the next attempt of a resume. *)
ReceiptFinal ==
    [][IF mode = "race" THEN ReceiptKeeps ELSE Resuming!ReceiptKeeps]_vars

(* Every call of the race ends, if only by the deadline.  Fairness is that  *)
(* of the race, so nothing is claimed of the other mode.                    *)
CallsEnd == \A p \in Procs : (mode = "race" /\ pc[p] # "idle") ~> (pc[p] = "idle")
=============================================================================
