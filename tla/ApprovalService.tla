-------------------------- MODULE ApprovalService --------------------------
(***************************************************************************)
(* ApprovalService (workflow/approval.py) over a shared ApprovalStore      *)
(* (workflow/store.py).  Several service processes use one database.       *)
(*                                                                         *)
(* A process runs one call at a time (_WORKFLOW_LOCK).  A call is one      *)
(* store transaction, which re-reads the record, applies the operation and *)
(* writes the record with its audit events, and after it the refresh of    *)
(* the caller's request object from the committed row.  Between the two,   *)
(* other processes commit, the answer is lost, or the process dies.  A     *)
(* call that raises is rolled back and changes nothing here, so the guards *)
(* of the actions are the conditions under which it does not.              *)
(***************************************************************************)
EXTENDS ApprovalRecord, Functions

CONSTANTS
    Services,   \* processes that share the store
    Keys,       \* ApprovalRequest.key of the records of one context and policy
    MaxEvents,  \* bound on the rows of the audit table
    MaxEvidence \* bound on the evidence given to one record

(* A key is the decision fingerprint and the approver set; an empty        *)
(* approver set is refused by valid_cosign_contract.                       *)
ASSUME ServiceAssumption ==
    /\ \A k \in Keys : k.approvers \in (SUBSET Approvers) \ {{}}
    /\ MaxEvents \in Nat /\ MaxEvidence \in Nat

VARIABLES
    records,  \* table approvals: the record stored under each key
    audit,    \* table audit: how many events of each action it holds
    handle,   \* per process and key: the ApprovalRequest object it holds
    reply     \* per process: what a committed call has still to hand over

vars == <<records, audit, handle, reply>>

NoRecord == [state |-> "absent"]    \* no row, or no object held
NoReply == [record |-> NoRecord]    \* no call under way

Action ==
    {"approval_created", "approval_delegated", "evidence_added",
     "evidence_requested", "approval_recorded", "approval_granted",
     "approval_rejected", "waiver_granted", "approval_escalated"}

Reply == [key : Keys, record : Record] \cup {NoReply}

Exists(k) == records[k] # NoRecord

-----------------------------------------------------------------------------
Init ==
    /\ records = [k \in Keys |-> NoRecord]
    /\ audit = [a \in Action |-> 0]
    /\ handle = [s \in Services |-> [k \in Keys |-> NoRecord]]
    /\ reply = [s \in Services |-> NoReply]

(* The process is free, and holds a request object to call with.           *)
Ready(s, k) == reply[s] = NoReply /\ handle[s][k] # NoRecord

(* A faulty version: the caller's object is taken for the record.          *)
CurrentOfCaller(s, k) == handle[s][k]

(* The payload an operation works on: read again inside the transaction,   *)
(* not taken from the caller's object.                                     *)
Current(s, k) == records[k]

(* ApprovalStore.mutate: the record and its events, or neither.            *)
Mutate(s, k, record, events) ==
    /\ SumFunction(audit) + Cardinality(events) <= MaxEvents
    /\ records' = [records EXCEPT ![k] = record]
    /\ audit' = [a \in Action |-> audit[a] + IF a \in events THEN 1 ELSE 0]
    /\ reply' = [reply EXCEPT ![s] = [key |-> k, record |-> record]]
    /\ UNCHANGED handle

-----------------------------------------------------------------------------
(* A faulty version: create does not look for a stored record.             *)
CreateAlways(s, k, required, evidence) ==
    /\ reply[s] = NoReply
    /\ ValidContract(k.approvers, required)
    /\ Mutate(s, k, NewRecord(k.approvers, required, evidence), {"approval_created"})

(* A new request becomes a record; a request whose key is stored already   *)
(* gets the stored record back, with no event.                             *)
Create(s, k, required, evidence) ==
    /\ reply[s] = NoReply
    /\ ValidContract(k.approvers, required)
    /\ IF Exists(k)
       THEN Mutate(s, k, records[k], {})
       ELSE Mutate(s, k, NewRecord(k.approvers, required, evidence),
                   {"approval_created"})

Delegate(s, k, approver, delegate) ==
    /\ Ready(s, k) /\ Exists(k)
    /\ CanDelegate(Current(s, k), approver)
    /\ Mutate(s, k, Delegated(Current(s, k), approver, delegate),
              {"approval_delegated"})

AddEvidence(s, k) ==
    /\ Ready(s, k) /\ Exists(k)
    /\ CanAddEvidence(Current(s, k))
    /\ Current(s, k).evidence < MaxEvidence
    /\ Mutate(s, k, WithEvidence(Current(s, k)), {"evidence_added"})

RequestEvidence(s, k) ==
    /\ Ready(s, k) /\ Exists(k)
    /\ CanRequestEvidence(Current(s, k))
    /\ Mutate(s, k, Moved(Current(s, k), "evidence_requested"),
              {"evidence_requested"})

Approve(s, k, actor) ==
    /\ Ready(s, k) /\ Exists(k)
    /\ CanApprove(Current(s, k), actor)
    /\ Mutate(s, k, Approved(Current(s, k), actor),
              ApprovalEvents(Current(s, k), actor))

Reject(s, k, actor) ==
    /\ Ready(s, k) /\ Exists(k)
    /\ CanReject(Current(s, k), actor)
    /\ Mutate(s, k, Moved(Current(s, k), "rejected"), {"approval_rejected"})

GrantWaiver(s, k) ==
    /\ Ready(s, k) /\ Exists(k)
    /\ Mutate(s, k, Waived(Current(s, k)), {"waiver_granted"})

(* Before the deadline, or once the request has left the queue, the record *)
(* is written back as it is.                                               *)
ExpireOrEscalate(s, k, due) ==
    /\ Ready(s, k) /\ Exists(k)
    /\ IF Escalates(Current(s, k), due)
       THEN Mutate(s, k, Moved(Current(s, k), "escalated"),
                   {"approval_escalated"})
       ELSE Mutate(s, k, Current(s, k), {})

-----------------------------------------------------------------------------
(* The end of a call: the caller's object takes the committed fields.      *)
Return(s) ==
    /\ reply[s] # NoReply
    /\ handle' = [handle EXCEPT ![s][reply[s].key] = reply[s].record]
    /\ reply' = [reply EXCEPT ![s] = NoReply]
    /\ UNCHANGED <<records, audit>>

(* The commit reached the database, its answer did not reach the process:  *)
(* the call raises and the caller keeps the object it had.                 *)
LoseAnswer(s) ==
    /\ reply[s] # NoReply
    /\ reply' = [reply EXCEPT ![s] = NoReply]
    /\ UNCHANGED <<records, audit, handle>>

(* A caller takes a copy of the stored record (get, get_by_context).       *)
Read(s, k) ==
    /\ reply[s] = NoReply
    /\ Exists(k)
    /\ handle' = [handle EXCEPT ![s][k] = records[k]]
    /\ UNCHANGED <<records, audit, reply>>

(* The process stops, and starts again knowing nothing.                    *)
Restart(s) ==
    /\ handle' = [handle EXCEPT ![s] = [k \in Keys |-> NoRecord]]
    /\ reply' = [reply EXCEPT ![s] = NoReply]
    /\ UNCHANGED <<records, audit>>

Next ==
    \E s \in Services :
        \/ \E k \in Keys :
              \/ \E required \in 1..Cardinality(k.approvers), evidence \in 0..MaxEvidence :
                    Create(s, k, required, evidence)
              \/ \E approver \in Approvers, delegate \in People :
                    Delegate(s, k, approver, delegate)
              \/ AddEvidence(s, k)
              \/ RequestEvidence(s, k)
              \/ \E actor \in People : Approve(s, k, actor) \/ Reject(s, k, actor)
              \/ GrantWaiver(s, k)
              \/ \E due \in BOOLEAN : ExpireOrEscalate(s, k, due)
              \/ Read(s, k)
        \/ Return(s)
        \/ LoseAnswer(s)
        \/ Restart(s)

Spec == Init /\ [][Next]_vars

-----------------------------------------------------------------------------
(* Types: the tables, the objects held by the processes and the answers    *)
(* under way have the shapes that ApprovalRequest and AuditEvent give them;*)
(* in particular only slots of approvers are ever signed.                  *)
TypeOK ==
    /\ records \in [Keys -> Record \cup {NoRecord}]
    /\ audit \in [Action -> Nat]
    /\ handle \in [Services -> [Keys -> Record \cup {NoRecord}]]
    /\ reply \in [Services -> Reply]

(* A record is approved exactly when as many of the approvers of its key   *)
(* as it requires have signed: no signature that completes the threshold   *)
(* is stored without the grant, and no grant without the signatures, in    *)
(* whatever order approve, reject, delegate and escalate interleave.       *)
QuorumExact ==
    \A k \in Keys : Exists(k) =>
        LET r == records[k]
        IN  /\ r.approvers = k.approvers
            /\ r.approvals \subseteq r.approvers
            /\ r.required \in 1..Cardinality(r.approvers)
            /\ r.state = "approved" <=> Cardinality(r.approvals) >= r.required

(* The audit table explains the records: mutate writes both or neither, so *)
(* there is one creation per record, one grant per approved record, one    *)
(* rejection per rejected one, and a signing event for every slot signed,  *)
(* also when answers are lost and calls are repeated.                      *)
AuditMatchesRecords ==
    LET InState(st) == Cardinality({k \in Keys : records[k].state = st})
        Slots == UNION {{k} \X records[k].approvals : k \in {x \in Keys : Exists(x)}}
    IN  /\ audit["approval_created"] = Cardinality({k \in Keys : Exists(k)})
        /\ audit["approval_granted"] = InState("approved")
        /\ audit["approval_rejected"] = InState("rejected")
        /\ audit["approval_recorded"] >= Cardinality(Slots)
        /\ audit["approval_escalated"] >= InState("escalated")

(* new can come after old in the life of one record.                       *)
Final == {"approved", "rejected", "expired"}
Precedes(old, new) ==
    /\ new.approvers = old.approvers /\ new.required = old.required
    /\ old.approvals \subseteq new.approvals
    /\ old.evidence <= new.evidence
    /\ old.waived => new.waived
    /\ old.state \in Final => new.state = old.state
    /\ Len(old.delegates) <= Len(new.delegates)
    /\ \A i \in DOMAIN old.delegates :
          new.delegates[i].approver = old.delegates[i].approver

(* No lost update: a commit never takes back a signature, evidence, a      *)
(* waiver, a delegation or a final state that another process put there,   *)
(* however old the request object it was called with.                      *)
RecordsOnlyAdvance ==
    [][\A k \in Keys : Exists(k) => Precedes(records[k], records'[k])]_vars

(* What a caller was told stays true: every object handed to a process is  *)
(* an earlier version of the stored record, across lost answers, restarts  *)
(* and the commits of other processes.                                     *)
HandlesAreHistory ==
    \A s \in Services, k \in Keys : handle[s][k] # NoRecord =>
        Exists(k) /\ Precedes(handle[s][k], records[k])

-----------------------------------------------------------------------------
(* The ballot of CosignLedger that a record stands for.                    *)
Phase(st) ==
    CASE st = "absent" -> "absent"
      [] st = "approved" -> "granted"
      [] st \in {"rejected", "expired"} -> "refused"
      [] OTHER -> "open"

ballotPhase == [k \in Keys |-> Phase(records[k].state)]
ballotSigned == [k \in Keys |-> IF Exists(k) THEN records[k].approvals ELSE {}]
ballotQuorum == [k \in Keys |-> IF Exists(k) THEN records[k].required ELSE 0]

Ledger == INSTANCE CosignLedger WITH
    phase <- ballotPhase, signed <- ballotSigned, quorum <- ballotQuorum

(* The service, its transactions and its crashes included, behaves as the  *)
(* ledger: each commit is one step of a ballot or leaves the ballots alone.*)
ImplementsLedger == Ledger!Spec
=============================================================================
