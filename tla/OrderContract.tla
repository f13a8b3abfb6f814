---------------------------- MODULE OrderContract ----------------------------
(***************************************************************************)
(* What the saga of services/shared/orchestrator.py promises to the client *)
(* of an order, however its messages are lost, late or repeated, its       *)
(* process ends or an operator edits its row:                              *)
(*   - nobody is charged for units that were never held;                   *)
(*   - units are given back at most once, and only if they were held;      *)
(*   - an order is answered at most once;                                  *)
(*   - the client that is told of a success has been charged, and its      *)
(*     units are never given back, before or after the answer.             *)
(* A client that is told of an error may have been charged, or be charged  *)
(* later: the handlers keep no record of the requests they have served.    *)
(***************************************************************************)
EXTENDS Naturals

CONSTANT Orders

VARIABLES
  holds,     \* reservations made for each order: a repeated request may make two
  charged,   \* whether it has been charged
  returned,  \* whether a reservation of it has been given back
  answer     \* what its client was told

contract == <<holds, charged, returned, answer>>

Answers == {"none", "bought", "not bought"}

ContractInit ==
  /\ holds = [o \in Orders |-> 0]
  /\ charged = [o \in Orders |-> FALSE]
  /\ returned = [o \in Orders |-> FALSE]
  /\ answer = [o \in Orders |-> "none"]

Hold(o) ==
  /\ holds' = [holds EXCEPT ![o] = @ + 1]
  /\ UNCHANGED <<charged, returned, answer>>

Charge(o) ==
  /\ holds[o] >= 1
  /\ charged' = [charged EXCEPT ![o] = TRUE]
  /\ UNCHANGED <<holds, returned, answer>>

Buy(o) ==
  /\ answer[o] = "none"
  /\ charged[o] /\ ~returned[o]
  /\ answer' = [answer EXCEPT ![o] = "bought"]
  /\ UNCHANGED <<holds, charged, returned>>

Decline(o) ==
  /\ answer[o] = "none"
  /\ answer' = [answer EXCEPT ![o] = "not bought"]
  /\ UNCHANGED <<holds, charged, returned>>

\* With the answer, or by a late request after it.
GiveBack(o) ==
  /\ holds[o] >= 1
  /\ ~returned[o]
  /\ answer[o] # "bought"
  /\ returned' = [returned EXCEPT ![o] = TRUE]
  /\ answer' = [answer EXCEPT ![o] = "not bought"]
  /\ UNCHANGED <<holds, charged>>

\* The process that ran the saga is gone: nobody is answered.
GiveBackUnanswered(o) ==
  /\ holds[o] >= 1
  /\ ~returned[o]
  /\ answer[o] = "none"
  /\ returned' = [returned EXCEPT ![o] = TRUE]
  /\ UNCHANGED <<holds, charged, answer>>

ContractNext ==
  \E o \in Orders :
    \/ Hold(o) \/ Charge(o) \/ Buy(o) \/ Decline(o)
    \/ GiveBack(o) \/ GiveBackUnanswered(o)

ContractSpec == ContractInit /\ [][ContractNext]_contract
=============================================================================
