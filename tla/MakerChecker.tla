----------------------------- MODULE MakerChecker -----------------------------
(***************************************************************************)
(* What the approval queue promises of one school: a clerk submits a batch  *)
(* of records, a principal decides it once, and the accounts of the batch   *)
(* exist exactly when the decision was to approve.  It promises nothing of  *)
(* a batch that two principals handle at the same time: that is disowned.   *)
(***************************************************************************)
CONSTANTS Batches, Records

VARIABLES
  state,    \* of a batch: "absent", "PENDING", "APPROVED", "REJECTED"
            \* or "disowned"
  records,  \* the records submitted with a batch
  accounts  \* a batch's accounts: how many exist for each record

LOCAL INSTANCE Naturals

NoAccounts == [rec \in Records |-> 0]

Init ==
  /\ state = [b \in Batches |-> "absent"]
  /\ records = [b \in Batches |-> {}]
  /\ accounts = [b \in Batches |-> NoAccounts]

Submit(b, recs) ==
  /\ state[b] = "absent"
  /\ state' = [state EXCEPT ![b] = "PENDING"]
  /\ records' = [records EXCEPT ![b] = recs]
  /\ UNCHANGED accounts

Approve(b) ==
  /\ state[b] = "PENDING"
  /\ state' = [state EXCEPT ![b] = "APPROVED"]
  /\ accounts' = [accounts EXCEPT ![b] =
                    [rec \in Records |-> IF rec \in records[b] THEN 1 ELSE 0]]
  /\ UNCHANGED records

Reject(b) ==
  /\ state[b] = "PENDING"
  /\ state' = [state EXCEPT ![b] = "REJECTED"]
  /\ UNCHANGED <<records, accounts>>

Disown(b) ==
  /\ state[b] = "PENDING"
  /\ state' = [state EXCEPT ![b] = "disowned"]
  /\ records' = [records EXCEPT ![b] = {}]
  /\ UNCHANGED accounts

Next ==
  \E b \in Batches :
    \/ \E recs \in SUBSET Records : Submit(b, recs)
    \/ Approve(b)
    \/ Reject(b)
    \/ Disown(b)

vars == <<state, records, accounts>>

Spec == Init /\ [][Next]_vars
=============================================================================
