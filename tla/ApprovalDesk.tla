---------------------------- MODULE ApprovalDesk ----------------------------
(***************************************************************************)
(* How a change under review gets its approval: the decision of            *)
(* ChangeEvaluator (change/evaluator.py), the request_approval tool of     *)
(* agents_mcp/server.py that people call on the strength of it, and the    *)
(* approval records both look at.  One change context and one policy       *)
(* revision; each store transaction is one step (see ApprovalService).     *)
(*                                                                         *)
(* The tool and the evaluator find "the" request of a context by           *)
(* get_by_context, which returns the row with the greatest updated_at.     *)
(* The clocks of the processes are taken to agree, so of that order only   *)
(* the row committed last matters.                                         *)
(***************************************************************************)
EXTENDS ApprovalRecord, Decision

CONSTANTS
    Changes,       \* what the working tree may hold, with its evaluation
    Prepared,      \* what prepare_change stored: [approvers, tests]
    ApproverLists, \* the lists of approvers callers give to create
    Waivers,       \* whether a library caller grants waivers as well
    MaxRequests    \* bound on the requests stored

(* A change: the findings and owners its evaluation collects, whether any  *)
(* test is required, whether the prepared context no longer matches it.    *)
ASSUME DeskAssumption ==
    /\ Changes \subseteq [id : STRING, findings : SUBSET Finding(Approvers),
                          owners : SUBSET Approvers, tests : BOOLEAN, stale : BOOLEAN]
    /\ Prepared \in [approvers : SUBSET Approvers, tests : BOOLEAN]
    /\ ApproverLists \subseteq (SUBSET Approvers) \ {{}}
    /\ Waivers \in BOOLEAN /\ MaxRequests \in Nat

VARIABLES
    content,  \* the change as it is now
    records,  \* table approvals
    latest,   \* key of the row with the greatest updated_at
    lapsed,   \* keys of the records whose waiver has expired
    call,     \* per person: the tool call under way
    vouched   \* history: who approved, giving which fingerprint

vars == <<content, records, latest, lapsed, call, vouched>>

-----------------------------------------------------------------------------
(* The evaluation.  The MCP tool brings the prepared context in and never  *)
(* has test results; CI brings the results of the tests it ran, which are  *)
(* taken to pass, and no context.                                          *)
Channel == {"mcp", "ci"}

StaleContext ==
    [severity |-> "high", confidence |-> 100, mode |-> "blocking",
     violated |-> FALSE, unknown |-> TRUE, public |-> FALSE, approvers |-> {}]

Input(ch, c) ==
    [findings |-> c.findings \cup (IF ch = "mcp" /\ c.stale THEN {StaleContext} ELSE {}),
     owners |-> c.owners \cup (IF ch = "mcp" THEN Prepared.approvers ELSE {}),
     tests |-> c.tests \/ (ch = "mcp" /\ Prepared.tests),
     passed |-> ch = "ci", known |-> TRUE, satisfied |-> FALSE]

(* A faulty version: the test results are part of the fingerprint.         *)
FingerprintOfRun(ch, c) ==
    [content |-> c.id, tests |-> <<Input(ch, c).tests, Input(ch, c).passed>>,
     approvers |-> RequiredApprovers(Input(ch, c))]

(* _decision_fingerprint: a hash of the diff, the sources, the tests and   *)
(* the approvers of the first decide; taken as injective.                  *)
Fingerprint(ch, c) ==
    [content |-> c.id, tests |-> Input(ch, c).tests,
     approvers |-> RequiredApprovers(Input(ch, c))]

Fingerprints == {Fingerprint(ch, c) : ch \in Channel, c \in Changes}
Keys == [fingerprint : Fingerprints, approvers : ApproverLists]

NoRecord == [state |-> "absent"]
NoKey == [approvers |-> {}]
Idle == [op |-> "none"]
Op == {"approve", "reject", "add_evidence"}
Call == [key : Keys, op : Op, fingerprint : Fingerprints] \cup {Idle}
Exists(k) == records[k] # NoRecord
WaiverActive(k) == records[k].waived /\ k \notin lapsed

(* A faulty version: an expired waiver hides the signatures.               *)
SatisfiedUnlessLapsed(fp) ==
    /\ latest # NoKey
    /\ latest.fingerprint = fp
    /\ fp.approvers \subseteq latest.approvers
    /\ LET r == records[latest]
       IN  /\ r.state = "approved" =>
                  fp.approvers \subseteq r.approvals /\ ThresholdMet(r)
           /\ WaiverActive(latest) \/ (r.state = "approved" /\ ~r.waived)

(* _approval: the latest record of the context counts if it is for this    *)
(* fingerprint, names every required approver, and is approved by all of   *)
(* them or waived.                                                         *)
Satisfied(fp) ==
    /\ latest # NoKey
    /\ latest.fingerprint = fp
    /\ fp.approvers \subseteq latest.approvers
    /\ LET r == records[latest]
       IN  /\ r.state = "approved" =>
                  fp.approvers \subseteq r.approvals /\ ThresholdMet(r)
           /\ WaiverActive(latest) \/ r.state = "approved"

(* _evaluate: the decision before, and after, the approval is looked up.   *)
FirstDecision(ch, c) == Decide(Input(ch, c))
FinalDecision(ch, c) ==
    Decide([Input(ch, c) EXCEPT !.satisfied = Satisfied(Fingerprint(ch, c))])

(* The approval is what lets the change past the evaluator.                *)
Released(ch, c) ==
    /\ FirstDecision(ch, c) = "REQUIRE_APPROVAL"
    /\ FinalDecision(ch, c) # "REQUIRE_APPROVAL"

-----------------------------------------------------------------------------
Init ==
    /\ content \in Changes
    /\ records = [k \in Keys |-> NoRecord]
    /\ latest = NoKey
    /\ lapsed = {}
    /\ call = [p \in People |-> Idle]
    /\ vouched = {}

(* The diff, the sources it rests on or the governed knowledge change.     *)
Edit(c) ==
    /\ content' = c
    /\ UNCHANGED <<records, latest, lapsed, call, vouched>>

(* request_approval, action "create", with the fingerprint of a decision   *)
(* the caller was given now or earlier.  A key that is stored already is   *)
(* returned as it is, and its updated_at stays what it was.                *)
Create(p, ch, c, approvers, required) ==
    LET k == [fingerprint |-> Fingerprint(ch, c), approvers |-> approvers]
    IN  /\ call[p] = Idle
        /\ ValidContract(approvers, required)
        /\ IF Exists(k)
           THEN UNCHANGED <<records, latest>>
           ELSE /\ Cardinality({x \in Keys : Exists(x)}) < MaxRequests
                /\ records' = [records EXCEPT ![k] = NewRecord(approvers, required, 0)]
                /\ latest' = k
        /\ UNCHANGED <<content, lapsed, call, vouched>>

(* A faulty version: nobody asks whether there is a request.               *)
ReadAnything(p, op, fp) ==
    /\ call[p] = Idle
    /\ call' = [call EXCEPT ![p] = [key |-> latest, op |-> op, fingerprint |-> fp]]
    /\ UNCHANGED <<content, records, latest, lapsed, vouched>>

(* A faulty version: the latest record is taken without a look at the      *)
(* fingerprint.                                                            *)
ReadUnchecked(p, op, fp) ==
    /\ call[p] = Idle
    /\ latest # NoKey
    /\ call' = [call EXCEPT ![p] = [key |-> latest, op |-> op, fingerprint |-> fp]]
    /\ UNCHANGED <<content, records, latest, lapsed, vouched>>

(* The other actions first read the latest record of the context           *)
(* (_read_approval) and raise unless it is for the fingerprint they were   *)
(* given.                                                                  *)
ReadRequest(p, op, fp) ==
    /\ call[p] = Idle
    /\ latest # NoKey
    /\ latest.fingerprint = fp
    /\ call' = [call EXCEPT ![p] = [key |-> latest, op |-> op, fingerprint |-> fp]]
    /\ UNCHANGED <<content, records, latest, lapsed, vouched>>

(* The service call on the key that was read, in a transaction of its own: *)
(* the record may have moved on, and it becomes the latest again.          *)
Commit(p, op, record) ==
    /\ records' = [records EXCEPT ![call[p].key] = record]
    /\ latest' = call[p].key
    /\ call' = [call EXCEPT ![p] = Idle]
    /\ vouched' = IF op = "approve"
                  THEN vouched \cup {<<p, call[p].fingerprint>>}
                  ELSE vouched
    /\ UNCHANGED <<content, lapsed>>

Reading(p, op) == call[p] # Idle /\ call[p].op = op

Approve(p) ==
    /\ Reading(p, "approve")
    /\ CanApprove(records[call[p].key], p)
    /\ Commit(p, "approve", Approved(records[call[p].key], p))

Reject(p) ==
    /\ Reading(p, "reject")
    /\ CanReject(records[call[p].key], p)
    /\ Commit(p, "reject", Moved(records[call[p].key], "rejected"))

(* How much evidence there is makes no difference to the desk.             *)
AddEvidence(p) ==
    /\ Reading(p, "add_evidence")
    /\ CanAddEvidence(records[call[p].key])
    /\ Commit(p, "add_evidence", Moved(records[call[p].key], "pending"))

(* The service raises, or the call is lost, before anything is committed.  *)
Fail(p) ==
    /\ call[p] # Idle
    /\ call' = [call EXCEPT ![p] = Idle]
    /\ UNCHANGED <<content, records, latest, lapsed, vouched>>

(* grant_waiver, which no tool offers, and the end of a waiver's term.     *)
GrantWaiver(k) ==
    /\ Waivers /\ Exists(k)
    /\ records' = [records EXCEPT ![k] = Waived(@)]
    /\ latest' = k
    /\ lapsed' = lapsed \ {k}
    /\ UNCHANGED <<content, call, vouched>>

Lapse(k) ==
    /\ Exists(k) /\ WaiverActive(k)
    /\ lapsed' = lapsed \cup {k}
    /\ UNCHANGED <<content, records, latest, call, vouched>>

Next ==
    \/ \E c \in Changes : Edit(c)
    \/ \E p \in People, ch \in Channel, c \in Changes, approvers \in ApproverLists :
          \E required \in 1..Cardinality(approvers) : Create(p, ch, c, approvers, required)
    \/ \E p \in People, op \in Op, fp \in Fingerprints :
          ReadRequest(p, op, fp)
    \/ \E p \in People : Approve(p) \/ Reject(p) \/ AddEvidence(p) \/ Fail(p)
    \/ \E k \in Keys : GrantWaiver(k) \/ Lapse(k)

Spec == Init /\ [][Next]_vars

-----------------------------------------------------------------------------
(* Types; and the latest record, and every one a call has read, is stored. *)
TypeOK ==
    /\ content \in Changes
    /\ records \in [Keys -> Record \cup {NoRecord}]
    /\ latest \in Keys \cup {NoKey}
    /\ lapsed \subseteq Keys
    /\ vouched \subseteq People \X Fingerprints
    /\ latest # NoKey => Exists(latest)
    /\ call \in [People -> Call]
    /\ \A p \in People : call[p] # Idle => Exists(call[p].key)

(* An approval is bound to the change it was given for (PRODUCTION.md,     *)
(* principle 4): what is released now, through either channel, was         *)
(* approved by every required approver giving its present fingerprint, or  *)
(* is covered by a waiver of that very request, whatever was edited,       *)
(* requested and approved between.                                         *)
ReleaseVouched ==
    \A ch \in Channel : Released(ch, content) =>
        LET fp == Fingerprint(ch, content)
        IN  \/ \A a \in fp.approvers : <<a, fp>> \in vouched
            \/ latest.fingerprint = fp /\ WaiverActive(latest)

(* A late answer cannot undo a release that rests on a granted request:    *)
(* while that request stays the latest, whatever calls still arrive for it *)
(* and whatever waiver runs out leave the change released.                 *)
ReleaseKept ==
    [][\A ch \in Channel :
          (/\ content' = content /\ latest' = latest /\ latest # NoKey
           /\ records[latest].state = "approved" /\ Released(ch, content))
          => Released(ch, content)']_vars

(* prepare_change named an approver or a test that an evaluation without   *)
(* the prepared context does not ask for.                                  *)
PreparedAsksMore(c) ==
    \/ ~(Prepared.approvers \subseteq RequiredApprovers(Input("ci", c)))
    \/ Prepared.tests /\ ~c.tests

(* How far "the agent and CI get a consistent verification" (README.md)    *)
(* goes for an approval: what the agent's channel releases is sent for     *)
(* approval again by CI if, and only if, CI asks for one at all and the    *)
(* prepared context asked for more than CI does.  The approval is of a     *)
(* fingerprint with the prepared approvers and tests (evaluator.py:167-179)*)
(* and CI evaluates without them (ci/check.py:34); neither the test        *)
(* results, of which only CI has any, nor a stale context makes CI ask     *)
(* again.                                                                  *)
GateHonoursDesk ==
    Released("mcp", content) =>
        (FinalDecision("ci", content) = "REQUIRE_APPROVAL"
           <=> /\ FirstDecision("ci", content) = "REQUIRE_APPROVAL"
               /\ PreparedAsksMore(content))

(* _next_actions advises a request with the required approvers and one     *)
(* co-signature.  A request made so, once it is granted, releases the      *)
(* change it was made for.                                                 *)
AdviceReleases ==
    \A ch \in Channel :
        LET fp == Fingerprint(ch, content)
        IN  (/\ latest # NoKey
             /\ latest = [fingerprint |-> fp, approvers |-> fp.approvers]
             /\ records[latest].required = 1
             /\ records[latest].state = "approved"
             /\ FirstDecision(ch, content) = "REQUIRE_APPROVAL")
            => Released(ch, content)
=============================================================================
