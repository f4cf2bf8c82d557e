------------------------- MODULE ApprovalDeskProofs -------------------------
(***************************************************************************)
(* The desk for any changes, prepared context, approvers and number of     *)
(* requests: an approval is bound to the change it was given for.  The     *)
(* invariant behind it ties each signature of a stored record to a person  *)
(* who gave the fingerprint the record is stored under.                    *)
(***************************************************************************)
EXTENDS ApprovalDesk, TLAPS, FiniteSetTheorems

(* Nobody delegates at the desk, so everybody signs for themselves.        *)
DeskRecord(k, r) ==
    /\ r \in Record
    /\ r.approvers = k.approvers
    /\ r.delegates = <<>>

SignedFor(k, r, v) == \A p \in r.approvals : <<p, k.fingerprint>> \in v

DeskInv ==
    /\ TypeOK
    /\ \A k \in Keys : Exists(k) =>
          DeskRecord(k, records[k]) /\ SignedFor(k, records[k], vouched)
    /\ \A p \in People : call[p] # Idle => call[p].fingerprint = call[p].key.fingerprint

LEMMA Sentinels ==
    /\ NoRecord \notin Record
    /\ NoKey \notin Keys
    /\ Idle \notin [key : Keys, op : Op, fingerprint : Fingerprints]
<1>1. NoRecord \notin Record BY DEF NoRecord, Record, ApprovalState
<1>2. NoKey \notin Keys BY DEF NoKey, Keys
<1>3. Idle \notin [key : Keys, op : Op, fingerprint : Fingerprints]
  BY DEF Idle, Op
<1> QED BY <1>1, <1>2, <1>3

(* A call under way is about a stored record, with its fingerprint.        *)
LEMMA CallUnderWay ==
    ASSUME DeskInv, NEW q \in People, call[q] # Idle
    PROVE  /\ call[q] \in [key : Keys, op : Op, fingerprint : Fingerprints]
           /\ call[q].key \in Keys /\ Exists(call[q].key)
           /\ call[q].fingerprint \in Fingerprints
           /\ call[q].fingerprint = call[q].key.fingerprint
<1>1. call[q] \in Call /\ Exists(call[q].key)
      /\ call[q].fingerprint = call[q].key.fingerprint
  BY DEF DeskInv, TypeOK
<1>2. call[q] \in [key : Keys, op : Op, fingerprint : Fingerprints]
  BY <1>1 DEF Call
<1> QED BY <1>1, <1>2

-----------------------------------------------------------------------------
(* What the operations make of a record of the desk.                       *)
LEMMA NewDeskRecord ==
    ASSUME NEW k \in Keys, NEW required \in Nat
    PROVE  /\ DeskRecord(k, NewRecord(k.approvers, required, 0))
           /\ NewRecord(k.approvers, required, 0).approvals = {}
<1>1. k.approvers \in SUBSET Approvers BY DeskAssumption DEF Keys, DeskAssumption
<1>2. <<>> \in Seq(Delegation) OBVIOUS
<1> QED BY <1>1, <1>2 DEF DeskRecord, NewRecord, Record, ApprovalState

LEMMA MovedDeskRecord ==
    ASSUME NEW k, NEW r, DeskRecord(k, r), NEW target \in ApprovalState
    PROVE  DeskRecord(k, Moved(r, target)) /\ Moved(r, target).approvals = r.approvals
BY DEF DeskRecord, Moved, Record

LEMMA WaivedDeskRecord ==
    ASSUME NEW k, NEW r, DeskRecord(k, r)
    PROVE  DeskRecord(k, Waived(r)) /\ Waived(r).approvals = r.approvals
BY DEF DeskRecord, Waived, Record

LEMMA ApprovedDeskRecord ==
    ASSUME NEW k, NEW r, DeskRecord(k, r), NEW p \in People, CanApprove(r, p)
    PROVE  /\ DeskRecord(k, Approved(r, p))
           /\ Approved(r, p).approvals = r.approvals \cup {p}
<1>1. DOMAIN r.delegates = {} BY DEF DeskRecord
<1>2. p \in r.approvers BY <1>1 DEF CanApprove, Eligible
<1>3. ApprovalSlot(r, p) = p BY <1>1 DEF ApprovalSlot
<1>4. /\ DeskRecord(k, Signed(r, p))
      /\ Signed(r, p).approvals = r.approvals \cup {p}
  BY <1>2, <1>3 DEF DeskRecord, Signed, Record
<1>5. CASE ThresholdMet(Signed(r, p))
  <2>1. Approved(r, p) = Moved(Signed(r, p), "approved") BY <1>5 DEF Approved
  <2>2. "approved" \in ApprovalState BY DEF ApprovalState
  <2> QED BY <1>4, <2>1, <2>2, MovedDeskRecord
<1>6. CASE ~ThresholdMet(Signed(r, p))
  <2>1. Approved(r, p) = Signed(r, p) BY <1>6 DEF Approved
  <2> QED BY <1>4, <2>1
<1> QED BY <1>5, <1>6

-----------------------------------------------------------------------------
(* A record is put under a key whose fingerprint its new signatures gave.  *)
LEMMA StoredKeepsInv ==
    ASSUME DeskInv, NEW k \in Keys, NEW r,
           DeskRecord(k, r), SignedFor(k, r, vouched'),
           records' = [records EXCEPT ![k] = r],
           vouched \subseteq vouched'
    PROVE  /\ records' \in [Keys -> Record \cup {NoRecord}]
           /\ \A j \in Keys : Exists(j) \/ j = k => Exists(j)'
           /\ \A j \in Keys : Exists(j)' =>
                 DeskRecord(j, records'[j]) /\ SignedFor(j, records'[j], vouched')
<1>1. records \in [Keys -> Record \cup {NoRecord}] BY DEF DeskInv, TypeOK
<1>2. r \in Record /\ r # NoRecord BY Sentinels DEF DeskRecord
<1>3. /\ records' \in [Keys -> Record \cup {NoRecord}]
      /\ records'[k] = r
      /\ \A j \in Keys : j # k => records'[j] = records[j]
  BY <1>1, <1>2
<1>4. ASSUME NEW j \in Keys, Exists(j)'
      PROVE  DeskRecord(j, records'[j]) /\ SignedFor(j, records'[j], vouched')
  <2>1. CASE j = k BY <1>3, <2>1
  <2>2. CASE j # k
    <3>1. records'[j] = records[j] /\ Exists(j) BY <1>3, <1>4, <2>2 DEF Exists
    <3> QED BY <3>1 DEF DeskInv, SignedFor
  <2> QED BY <2>1, <2>2
<1>5. \A j \in Keys : Exists(j) \/ j = k => Exists(j)'
  BY <1>2, <1>3 DEF Exists
<1> QED BY <1>3, <1>4, <1>5

(* The commit of a call that read the request it signs.                    *)
LEMMA CommitKeepsInv ==
    ASSUME DeskInv, NEW p \in People, NEW op \in Op, call[p] # Idle, NEW r,
           Commit(p, op, r), DeskRecord(call[p].key, r),
           r.approvals \subseteq records[call[p].key].approvals
                                 \cup (IF op = "approve" THEN {p} ELSE {})
    PROVE  DeskInv'
<1> DEFINE k == call[p].key
           fp == call[p].fingerprint
<1>1. /\ call[p] \in [key : Keys, op : Op, fingerprint : Fingerprints]
      /\ k \in Keys /\ fp \in Fingerprints /\ fp = k.fingerprint /\ Exists(k)
  BY CallUnderWay
<1>2. /\ records' = [records EXCEPT ![k] = r] /\ latest' = k
      /\ call' = [call EXCEPT ![p] = Idle]
      /\ vouched' = (IF op = "approve" THEN vouched \cup {<<p, fp>>} ELSE vouched)
      /\ content' = content /\ lapsed' = lapsed
  BY DEF Commit
<1>3. vouched \subseteq vouched' /\ vouched' \subseteq People \X Fingerprints
  BY <1>1, <1>2 DEF DeskInv, TypeOK
<1>4. SignedFor(k, r, vouched')
  <2> SUFFICES ASSUME NEW q \in r.approvals PROVE <<q, k.fingerprint>> \in vouched'
    BY DEF SignedFor
  <2>1. CASE q \in records[k].approvals
    BY <1>1, <1>3, <2>1 DEF DeskInv, SignedFor
  <2>2. CASE q \notin records[k].approvals
    <3>1. op = "approve" /\ q = p BY <2>2
    <3> QED BY <1>1, <1>2, <3>1
  <2> QED BY <2>1, <2>2
<1> HIDE DEF k, fp
<1>5. /\ records' \in [Keys -> Record \cup {NoRecord}]
      /\ \A j \in Keys : Exists(j) \/ j = k => Exists(j)'
      /\ \A j \in Keys : Exists(j)' =>
            DeskRecord(j, records'[j]) /\ SignedFor(j, records'[j], vouched')
  <2>1. DeskRecord(k, r) BY DEF k
  <2> QED BY <1>1, <1>2, <1>3, <1>4, <2>1, StoredKeepsInv
<1>6. /\ call' \in [People -> Call]
      /\ \A q \in People : call'[q] # Idle => call'[q] = call[q]
  BY <1>2 DEF DeskInv, TypeOK, Call
<1>7. \A q \in People : call'[q] # Idle =>
        records'[call'[q].key] # NoRecord /\ call'[q].fingerprint = call'[q].key.fingerprint
  <2> SUFFICES ASSUME NEW q \in People, call'[q] # Idle
               PROVE  records'[call'[q].key] # NoRecord /\ call'[q].fingerprint = call'[q].key.fingerprint
    OBVIOUS
  <2>1. call'[q] = call[q] /\ call[q] # Idle BY <1>6
  <2>2. /\ call[q].key \in Keys /\ Exists(call[q].key)
        /\ call[q].fingerprint = call[q].key.fingerprint
    BY <2>1, CallUnderWay
  <2>3. records'[call[q].key] # NoRecord BY <1>5, <2>2 DEF Exists
  <2> QED BY <2>1, <2>2, <2>3 DEF Exists
<1>8. latest' \in Keys /\ Exists(latest)'
  BY <1>1, <1>2, <1>5 DEF Exists
<1> QED BY <1>2, <1>3, <1>5, <1>6, <1>7, <1>8 DEF DeskInv, TypeOK, Exists

-----------------------------------------------------------------------------
LEMMA DeskInit == Init => DeskInv
<1> SUFFICES ASSUME Init PROVE DeskInv OBVIOUS
<1>1. \A k \in Keys : ~Exists(k) BY DEF Init, Exists
<1>2. \A p \in People : call[p] = Idle BY DEF Init
<1> QED BY <1>1, <1>2 DEF Init, DeskInv, TypeOK, Call

LEMMA DeskStep == DeskInv /\ [Next]_vars => DeskInv'
<1> SUFFICES ASSUME DeskInv, [Next]_vars PROVE DeskInv' OBVIOUS
<1>0. TypeOK BY DEF DeskInv
<1>1. CASE UNCHANGED vars BY <1>1 DEF vars, DeskInv, TypeOK, Exists
<1>2. ASSUME NEW c \in Changes, Edit(c) PROVE DeskInv'
  BY <1>2 DEF Edit, DeskInv, TypeOK, Exists
<1>3. ASSUME NEW p \in People, NEW ch \in Channel, NEW c \in Changes,
             NEW approvers \in ApproverLists, NEW required \in 1..Cardinality(approvers),
             Create(p, ch, c, approvers, required)
      PROVE  DeskInv'
  <2> DEFINE k == [fingerprint |-> Fingerprint(ch, c), approvers |-> approvers]
             r == NewRecord(approvers, required, 0)
  <2>1. k \in Keys /\ k.approvers = approvers BY DEF Keys, Fingerprints
  <2>2. /\ content' = content /\ lapsed' = lapsed /\ call' = call /\ vouched' = vouched
        /\ \/ Exists(k) /\ records' = records /\ latest' = latest
           \/ ~Exists(k) /\ records' = [records EXCEPT ![k] = r] /\ latest' = k
    BY <1>3 DEF Create
  <2>3. required \in Nat OBVIOUS
  <2>4. DeskRecord(k, r) /\ SignedFor(k, r, vouched')
    BY <2>1, <2>3, NewDeskRecord DEF SignedFor
  <2> HIDE DEF k, r
  <2>5. CASE records' = records /\ latest' = latest
    BY <2>1, <2>2, <2>5 DEF DeskInv, TypeOK, Exists
  <2>6. CASE records' = [records EXCEPT ![k] = r] /\ latest' = k
    <3>1. /\ records' \in [Keys -> Record \cup {NoRecord}]
          /\ \A j \in Keys : Exists(j) \/ j = k => Exists(j)'
          /\ \A j \in Keys : Exists(j)' =>
                DeskRecord(j, records'[j]) /\ SignedFor(j, records'[j], vouched')
      BY <2>1, <2>2, <2>4, <2>6, StoredKeepsInv
    <3>2. \A q \in People : call'[q] # Idle =>
            records'[call'[q].key] # NoRecord /\ call'[q].fingerprint = call'[q].key.fingerprint
      <4> SUFFICES ASSUME NEW q \in People, call[q] # Idle
                   PROVE  /\ records'[call[q].key] # NoRecord
                          /\ call[q].fingerprint = call[q].key.fingerprint
        BY <2>2 DEF Exists
      <4>1. call[q].key \in Keys /\ Exists(call[q].key)
            /\ call[q].fingerprint = call[q].key.fingerprint
        BY CallUnderWay
      <4> QED BY <3>1, <4>1 DEF Exists
    <3>3. latest' \in Keys /\ Exists(latest)' BY <2>1, <2>6, <3>1 DEF Exists
    <3> QED BY <2>1, <2>2, <3>1, <3>2, <3>3 DEF DeskInv, TypeOK, Exists
  <2> QED BY <2>2, <2>5, <2>6
<1>4. ASSUME NEW p \in People, NEW op \in Op, NEW fp \in Fingerprints,
             ReadRequest(p, op, fp)
      PROVE  DeskInv'
  <2> DEFINE new == [key |-> latest, op |-> op, fingerprint |-> fp]
  <2>1. latest \in Keys /\ Exists(latest) /\ latest.fingerprint = fp
    BY <1>4 DEF ReadRequest, DeskInv, TypeOK
  <2>2. new \in Call /\ new.key = latest /\ new.fingerprint = fp BY <2>1 DEF Call
  <2>3. call' = [call EXCEPT ![p] = new]
        /\ UNCHANGED <<content, records, latest, lapsed, vouched>>
    BY <1>4 DEF ReadRequest
  <2> HIDE DEF new
  <2>4. call' \in [People -> Call] /\ call'[p] = new
        /\ \A q \in People : q # p => call'[q] = call[q]
    BY <2>2, <2>3 DEF DeskInv, TypeOK
  <2>5. \A q \in People : call'[q] # Idle =>
          records'[call'[q].key] # NoRecord /\ call'[q].fingerprint = call'[q].key.fingerprint
    <3> SUFFICES ASSUME NEW q \in People, call'[q] # Idle
                 PROVE  /\ records'[call'[q].key] # NoRecord
                        /\ call'[q].fingerprint = call'[q].key.fingerprint
      BY <2>3 DEF Exists
    <3>1. CASE q = p BY <2>1, <2>2, <2>3, <2>4, <3>1 DEF Exists
    <3>2. CASE q # p
      <4>1. call'[q] = call[q] /\ call[q] # Idle BY <2>4, <3>2
      <4> QED BY <2>3, <4>1, CallUnderWay DEF Exists
    <3> QED BY <3>1, <3>2
  <2> QED BY <2>3, <2>4, <2>5 DEF DeskInv, TypeOK, Exists
<1>5. ASSUME NEW p \in People, Approve(p) PROVE DeskInv'
  <2> DEFINE k == call[p].key
  <2>1. call[p] # Idle /\ CanApprove(records[k], p)
        /\ Commit(p, "approve", Approved(records[k], p))
    BY <1>5 DEF Approve, Reading
  <2>2. DeskRecord(k, records[k])
    BY <2>1, CallUnderWay DEF DeskInv
  <2>3. /\ DeskRecord(k, Approved(records[k], p))
        /\ Approved(records[k], p).approvals = records[k].approvals \cup {p}
    BY <2>1, <2>2, ApprovedDeskRecord
  <2> QED BY <2>1, <2>3, CommitKeepsInv DEF Op
<1>6. ASSUME NEW p \in People, Reject(p) PROVE DeskInv'
  <2> DEFINE k == call[p].key
  <2>1. call[p] # Idle /\ Commit(p, "reject", Moved(records[k], "rejected"))
    BY <1>6 DEF Reject, Reading
  <2>2. DeskRecord(k, records[k]) BY <2>1, CallUnderWay DEF DeskInv
  <2>3. /\ DeskRecord(k, Moved(records[k], "rejected"))
        /\ Moved(records[k], "rejected").approvals = records[k].approvals
    BY <2>2, MovedDeskRecord DEF ApprovalState
  <2> QED BY <2>1, <2>3, CommitKeepsInv DEF Op
<1>7. ASSUME NEW p \in People, AddEvidence(p) PROVE DeskInv'
  <2> DEFINE k == call[p].key
  <2>1. call[p] # Idle /\ Commit(p, "add_evidence", Moved(records[k], "pending"))
    BY <1>7 DEF AddEvidence, Reading
  <2>2. DeskRecord(k, records[k]) BY <2>1, CallUnderWay DEF DeskInv
  <2>3. /\ DeskRecord(k, Moved(records[k], "pending"))
        /\ Moved(records[k], "pending").approvals = records[k].approvals
    BY <2>2, MovedDeskRecord DEF ApprovalState
  <2> QED BY <2>1, <2>3, CommitKeepsInv DEF Op
<1>8. ASSUME NEW p \in People, Fail(p) PROVE DeskInv'
  <2>1. call' = [call EXCEPT ![p] = Idle]
        /\ UNCHANGED <<content, records, latest, lapsed, vouched>>
    BY <1>8 DEF Fail
  <2>2. /\ call' \in [People -> Call]
        /\ \A q \in People : call'[q] # Idle => call'[q] = call[q]
    BY <2>1 DEF DeskInv, TypeOK, Call
  <2> QED BY <2>1, <2>2 DEF DeskInv, TypeOK, Exists
<1>9. ASSUME NEW k \in Keys, GrantWaiver(k) PROVE DeskInv'
  <2>1. /\ Exists(k) /\ latest' = k /\ lapsed' = lapsed \ {k}
        /\ records' = [records EXCEPT ![k] = Waived(records[k])]
        /\ content' = content /\ call' = call /\ vouched' = vouched
    BY <1>9 DEF GrantWaiver
  <2>2. DeskRecord(k, Waived(records[k])) /\ SignedFor(k, Waived(records[k]), vouched')
    BY <2>1, WaivedDeskRecord DEF DeskInv, SignedFor
  <2>3. /\ records' \in [Keys -> Record \cup {NoRecord}]
        /\ \A j \in Keys : Exists(j) \/ j = k => Exists(j)'
        /\ \A j \in Keys : Exists(j)' =>
              DeskRecord(j, records'[j]) /\ SignedFor(j, records'[j], vouched')
    BY <2>1, <2>2, StoredKeepsInv
  <2>4. \A q \in People : call'[q] # Idle =>
          records'[call'[q].key] # NoRecord /\ call'[q].fingerprint = call'[q].key.fingerprint
    <3> SUFFICES ASSUME NEW q \in People, call[q] # Idle
                 PROVE  /\ records'[call[q].key] # NoRecord
                        /\ call[q].fingerprint = call[q].key.fingerprint
      BY <2>1 DEF Exists
    <3>1. call[q].key \in Keys /\ Exists(call[q].key)
          /\ call[q].fingerprint = call[q].key.fingerprint
      BY CallUnderWay
    <3> QED BY <2>3, <3>1 DEF Exists
  <2>5. latest' \in Keys /\ Exists(latest)' BY <2>1, <2>3 DEF Exists
  <2> QED BY <2>1, <2>3, <2>4, <2>5 DEF DeskInv, TypeOK, Exists
<1>10. ASSUME NEW k \in Keys, Lapse(k) PROVE DeskInv'
  <2>1. /\ lapsed' = lapsed \cup {k}
        /\ UNCHANGED <<content, records, latest, call, vouched>>
    BY <1>10 DEF Lapse
  <2> QED BY <2>1 DEF DeskInv, TypeOK, Exists
<1> QED BY <1>1, <1>2, <1>3, <1>4, <1>5, <1>6, <1>7, <1>8, <1>9, <1>10 DEF Next

(* The types of the desk, for any changes and people.                      *)
THEOREM TypeCorrect == Spec => []TypeOK
<1>1. DeskInv => TypeOK BY DEF DeskInv
<1> QED BY <1>1, DeskInit, DeskStep, PTL DEF Spec

-----------------------------------------------------------------------------
(* The input of the first decide has no approval.                          *)
LEMMA InputKnowsNoApproval ==
    ASSUME NEW ch, NEW c
    PROVE  [Input(ch, c) EXCEPT !.satisfied = FALSE] = Input(ch, c)
<1> DEFINE in == Input(ch, c)
<1>1. in \in [findings : {in.findings}, owners : {in.owners}, tests : {in.tests},
              passed : {in.passed}, known : {TRUE}, satisfied : {FALSE}]
  BY DEF Input
<1> HIDE DEF in
<1>2. [in EXCEPT !.satisfied = FALSE] = in BY <1>1
<1> QED BY <1>2 DEF in

(* Without a satisfied approval the second decide is the first again, so a *)
(* release rests on a satisfied approval of the present fingerprint.       *)
LEMMA ReleaseNeedsApproval ==
    ASSUME NEW ch, NEW c, Released(ch, c)
    PROVE  Satisfied(Fingerprint(ch, c))
<1> SUFFICES ASSUME ~Satisfied(Fingerprint(ch, c)) PROVE FALSE OBVIOUS
<1> DEFINE sat == Satisfied(Fingerprint(ch, c))
<1>1. sat = FALSE BY DEF Satisfied
<1> HIDE DEF sat
<1>2. [Input(ch, c) EXCEPT !.satisfied = sat] = Input(ch, c)
  BY <1>1, InputKnowsNoApproval
<1>3. FinalDecision(ch, c) = FirstDecision(ch, c)
  BY <1>2 DEF FinalDecision, FirstDecision, sat
<1> QED BY <1>3 DEF Released

(* "Approvals are bound to the current change" (PRODUCTION.md): for any    *)
(* changes and people, whatever is edited, requested, signed late or       *)
(* waived in between, a released change was approved by every required     *)
(* approver giving its present fingerprint, or that request is waived.     *)
THEOREM ReleasesAreVouched == Spec => []ReleaseVouched
<1>1. DeskInv => ReleaseVouched
  <2> SUFFICES ASSUME DeskInv, NEW ch \in Channel, Released(ch, content)
               PROVE  \/ \A a \in Fingerprint(ch, content).approvers :
                             <<a, Fingerprint(ch, content)>> \in vouched
                      \/ latest.fingerprint = Fingerprint(ch, content) /\ WaiverActive(latest)
    BY DEF ReleaseVouched
  <2> DEFINE fp == Fingerprint(ch, content)
  <2>1. Satisfied(fp) BY ReleaseNeedsApproval
  <2> HIDE DEF fp
  <2>2. latest \in Keys /\ latest.fingerprint = fp /\ Exists(latest)
    BY <2>1 DEF Satisfied, DeskInv, TypeOK
  <2>3. CASE WaiverActive(latest) BY <2>2, <2>3 DEF fp
  <2>4. CASE ~WaiverActive(latest)
    <3>1. fp.approvers \subseteq records[latest].approvals
      BY <2>1, <2>4 DEF Satisfied
    <3>2. \A a \in records[latest].approvals : <<a, fp>> \in vouched
      BY <2>2 DEF DeskInv, SignedFor
    <3> QED BY <3>1, <3>2 DEF fp
  <2> QED BY <2>3, <2>4
<1> QED BY <1>1, DeskInit, DeskStep, PTL DEF Spec

-----------------------------------------------------------------------------
(* A satisfied approval, whatever the change, is not asked for again.      *)
LEMMA SatisfiedLifts ==
    ASSUME NEW ch, NEW c
    PROVE  Decide([Input(ch, c) EXCEPT !.satisfied = TRUE]) # "REQUIRE_APPROVAL"
<1> DEFINE in == [Input(ch, c) EXCEPT !.satisfied = TRUE]
<1>1. in.satisfied BY DEF Input
<1> HIDE DEF in
<1>2. Decide(in) # "REQUIRE_APPROVAL" BY <1>1 DEF Decide
<1> QED BY <1>2 DEF in

LEMMA ApprovalLifts ==
    ASSUME NEW ch, NEW c, Satisfied(Fingerprint(ch, c))
    PROVE  FinalDecision(ch, c) # "REQUIRE_APPROVAL"
<1>1. Satisfied(Fingerprint(ch, c)) = TRUE BY DEF Satisfied
<1> QED BY <1>1, SatisfiedLifts DEF FinalDecision

(* Nothing leads out of a granted record that its threshold granted: a late*)
(* signature, rejection or piece of evidence raises (the transition table).*)
LEMMA NoWayFromApproved ==
    ASSUME NEW k, NEW r, DeskRecord(k, r), r.state = "approved", ThresholdMet(r)
    PROVE  /\ \A p \in People : ~CanApprove(r, p) /\ ~CanReject(r, p)
           /\ ~CanAddEvidence(r)
<1>1. \A target : ~CanMove(r, target) BY DEF CanMove, Transitions, ApprovalState
<1>2. ASSUME NEW p \in People, CanApprove(r, p) PROVE FALSE
  <2>1. /\ DeskRecord(k, Signed(r, p)) \/ Signed(r, p).required = r.required
        /\ Signed(r, p).approvals = r.approvals \cup {ApprovalSlot(r, p)}
        /\ Signed(r, p).required = r.required
    BY DEF Signed, DeskRecord, Record
  <2>2. IsFiniteSet(r.approvals) /\ IsFiniteSet(r.approvals \cup {ApprovalSlot(r, p)})
    <3>1. IsFiniteSet(r.approvals) BY PeopleAssumption, FS_Subset DEF DeskRecord, Record
    <3> QED BY <3>1, FS_AddElement
  <2>3. /\ Cardinality(r.approvals) \in Nat
        /\ Cardinality(r.approvals \cup {ApprovalSlot(r, p)}) \in Nat
        /\ Cardinality(r.approvals) <= Cardinality(r.approvals \cup {ApprovalSlot(r, p)})
    BY <2>2, FS_CardinalityType, FS_Subset
  <2>4. r.required \in Nat BY DEF DeskRecord, Record
  <2>5. ThresholdMet(Signed(r, p)) BY <2>1, <2>3, <2>4 DEF ThresholdMet
  <2> QED BY <1>1, <1>2, <2>5 DEF CanApprove
<1> QED BY <1>1, <1>2 DEF CanReject, CanAddEvidence

(* What may happen to a granted record while it stays the latest: a waiver *)
(* is granted on top of it, or runs out.                                   *)
LEMMA GrantedStays ==
    ASSUME DeskInv, [Next]_vars, latest # NoKey, latest' = latest,
           records[latest].state = "approved", ThresholdMet(records[latest])
    PROVE  records'[latest] = records[latest] \/ records'[latest] = Waived(records[latest])
<1> DEFINE k == latest
<1>1. k \in Keys /\ Exists(k) /\ DeskRecord(k, records[k]) BY DEF DeskInv, TypeOK
<1>2. DOMAIN records = Keys BY DEF DeskInv, TypeOK
<1> HIDE DEF k
<1>3. ASSUME NEW p \in People, Approve(p) \/ Reject(p) \/ AddEvidence(p) PROVE FALSE
  <2>1. \E op, r : Commit(p, op, r) BY <1>3 DEF Approve, Reject, AddEvidence
  <2>2. call[p].key = latest BY <2>1 DEF Commit
  <2>3. CanApprove(records[latest], p) \/ CanReject(records[latest], p)
        \/ CanAddEvidence(records[latest])
    BY <1>3, <2>2 DEF Approve, Reject, AddEvidence
  <2> QED BY <1>1, <2>3, NoWayFromApproved DEF k
<1>4. ASSUME NEW p, NEW ch, NEW c, NEW approvers, NEW required,
             Create(p, ch, c, approvers, required)
      PROVE  records' = records
  <2> DEFINE j == [fingerprint |-> Fingerprint(ch, c), approvers |-> approvers]
  <2>1. CASE Exists(j) BY <1>4, <2>1 DEF Create
  <2>2. CASE ~Exists(j)
    <3>1. latest' = j BY <1>4, <2>2 DEF Create
    <3> QED BY <1>1, <2>2, <3>1 DEF k
  <2> QED BY <2>1, <2>2
<1>5. ASSUME NEW j \in Keys, GrantWaiver(j) PROVE records'[k] = Waived(records[k])
  <2>1. j = k /\ records' = [records EXCEPT ![j] = Waived(records[j])]
    BY <1>5 DEF GrantWaiver, k
  <2> QED BY <1>1, <1>2, <2>1
<1>6. ASSUME NEW c, Edit(c) PROVE records' = records BY <1>6 DEF Edit
<1>7. ASSUME NEW p, NEW op, NEW fp, ReadRequest(p, op, fp) PROVE records' = records
  BY <1>7 DEF ReadRequest
<1>8. ASSUME NEW p, Fail(p) PROVE records' = records BY <1>8 DEF Fail
<1>9. ASSUME NEW j, Lapse(j) PROVE records' = records BY <1>9 DEF Lapse
<1>10. UNCHANGED vars => records' = records BY DEF vars
<1> QED BY <1>3, <1>4, <1>5, <1>6, <1>7, <1>8, <1>9, <1>10 DEF Next, k

(* A release that rests on a granted request is kept while that request is *)
(* the latest, for any changes, people and requests: whatever calls still  *)
(* arrive for it, and whatever waiver runs out.                            *)
THEOREM GrantedReleaseStays == Spec => ReleaseKept
<1>1. ASSUME DeskInv, [Next]_vars, NEW ch \in Channel, Released(ch, content),
             records[latest].state = "approved", content' = content, latest' = latest
      PROVE  Released(ch, content)'
  <2> DEFINE fp == Fingerprint(ch, content)
             r == records[latest]
             s == records'[latest]
  <2>1. Satisfied(fp) BY <1>1, ReleaseNeedsApproval
  <2> HIDE DEF fp
  <2>2. /\ latest # NoKey /\ latest.fingerprint = fp /\ fp.approvers \subseteq latest.approvers
        /\ fp.approvers \subseteq r.approvals /\ ThresholdMet(r)
    BY <1>1, <2>1 DEF Satisfied
  <2>3. latest \in Keys /\ r \in Record
    BY <1>1, <2>2 DEF DeskInv, TypeOK, DeskRecord
  <2>4. s = r \/ s = Waived(r) BY <1>1, <2>2, GrantedStays
  <2>5. s.state = "approved" /\ s.approvals = r.approvals /\ s.required = r.required
    BY <1>1, <2>3, <2>4 DEF Waived, Record
  <2>6. fp' = fp BY <1>1 DEF fp, Fingerprint, Input
  <2>7. Satisfied(fp)'
    BY <1>1, <2>2, <2>5, <2>6 DEF Satisfied, ThresholdMet
  <2>8. FirstDecision(ch, content)' = FirstDecision(ch, content)
    BY <1>1 DEF FirstDecision, Input
  <2>9. FinalDecision(ch, content)' # "REQUIRE_APPROVAL"
    <3>1. Satisfied(fp)' = TRUE BY <2>7 DEF Satisfied
    <3>2. FinalDecision(ch, content)' = Decide([Input(ch, content') EXCEPT !.satisfied = Satisfied(fp)'])
      BY DEF FinalDecision, fp, Input
    <3> QED BY <3>1, <3>2, SatisfiedLifts
  <2> QED BY <1>1, <2>7, <2>8, <2>9 DEF Released
<1>2. DeskInv /\ [Next]_vars =>
        [\A ch \in Channel :
            (/\ content' = content /\ latest' = latest /\ latest # NoKey
             /\ records[latest].state = "approved" /\ Released(ch, content))
            => Released(ch, content)']_vars
  BY <1>1
<1> QED BY <1>2, DeskInit, DeskStep, PTL DEF Spec, ReleaseKept

-----------------------------------------------------------------------------
(* If both ask for an approval, it is the same one unless the prepared     *)
(* context asks for more: only that makes the two fingerprints differ.     *)
LEMMA FingerprintsDiffer ==
    ASSUME NEW c \in Changes,
           FirstDecision("mcp", c) = "REQUIRE_APPROVAL",
           FirstDecision("ci", c) = "REQUIRE_APPROVAL"
    PROVE  Fingerprint("mcp", c) = Fingerprint("ci", c) <=> ~PreparedAsksMore(c)
<1> DEFINE m == Input("mcp", c)
           g == Input("ci", c)
<1>1. c.tests \in BOOLEAN /\ Prepared.tests \in BOOLEAN
  BY DeskAssumption DEF DeskAssumption
<1>2. /\ m.tests = (c.tests \/ Prepared.tests) /\ g.tests = c.tests
      /\ m.owners = c.owners \cup Prepared.approvers /\ g.owners = c.owners
      /\ m.findings = c.findings \cup (IF c.stale THEN {StaleContext} ELSE {})
      /\ g.findings = c.findings
  BY <1>1 DEF Input
<1> HIDE DEF m, g
<1>3. UNION {f.approvers : f \in Active(m.findings)} = UNION {f.approvers : f \in Active(g.findings)}
  <2>1. Active(g.findings) \subseteq Active(m.findings)
        /\ Active(m.findings) \subseteq Active(g.findings) \cup {StaleContext}
    BY <1>2 DEF Active
  <2>2. StaleContext.approvers = {} BY DEF StaleContext
  <2> QED BY <2>1, <2>2
<1>4. RequiredApprovers(m) = RequiredApprovers(g) \cup Prepared.approvers
  <2>1. Decide(m) = "REQUIRE_APPROVAL" /\ Decide(g) = "REQUIRE_APPROVAL"
    BY DEF FirstDecision, m, g
  <2> QED BY <1>2, <1>3, <2>1 DEF RequiredApprovers
<1>5. RequiredApprovers(m) = RequiredApprovers(g)
        <=> Prepared.approvers \subseteq RequiredApprovers(g)
  BY <1>4
<1>6. m.tests = g.tests <=> ~(Prepared.tests /\ ~c.tests) BY <1>1, <1>2
<1>7. Fingerprint("mcp", c) = Fingerprint("ci", c)
        <=> m.tests = g.tests /\ RequiredApprovers(m) = RequiredApprovers(g)
  <2> DEFINE S == m.tests
             T == g.tests
             V == RequiredApprovers(m)
             W == RequiredApprovers(g)
  <2>1. Fingerprint("mcp", c) = [content |-> c.id, tests |-> S, approvers |-> V]
        /\ Fingerprint("ci", c) = [content |-> c.id, tests |-> T, approvers |-> W]
    BY DEF Fingerprint, m, g
  <2> HIDE DEF S, T, V, W
  <2>2. Fingerprint("mcp", c) = Fingerprint("ci", c) <=> S = T /\ V = W BY <2>1
  <2> QED BY <2>2 DEF S, T, V, W
<1> QED BY <1>5, <1>6, <1>7 DEF PreparedAsksMore, g

(* An unsatisfied approval leaves the first decision as it is.             *)
LEMMA UnsatisfiedIsFirst ==
    ASSUME NEW ch, NEW c, ~Satisfied(Fingerprint(ch, c))
    PROVE  FinalDecision(ch, c) = FirstDecision(ch, c)
<1> DEFINE sat == Satisfied(Fingerprint(ch, c))
<1>1. sat = FALSE BY DEF Satisfied
<1> HIDE DEF sat
<1>2. [Input(ch, c) EXCEPT !.satisfied = sat] = Input(ch, c)
  BY <1>1, InputKnowsNoApproval
<1> QED BY <1>2 DEF FinalDecision, FirstDecision, sat

(* For any changes, prepared context, people and requests: CI sends what   *)
(* the agent's channel released for approval again if and only if it asks  *)
(* for one at all and the prepared context asked for more.                 *)
THEOREM GateAgreesWithDesk == Spec => []GateHonoursDesk
<1>1. DeskInv => GateHonoursDesk
  <2> SUFFICES ASSUME DeskInv, Released("mcp", content)
               PROVE  FinalDecision("ci", content) = "REQUIRE_APPROVAL"
                        <=> /\ FirstDecision("ci", content) = "REQUIRE_APPROVAL"
                            /\ PreparedAsksMore(content)
    BY DEF GateHonoursDesk
  <2> DEFINE mine == Fingerprint("mcp", content)
             theirs == Fingerprint("ci", content)
  <2>1. content \in Changes /\ FirstDecision("mcp", content) = "REQUIRE_APPROVAL"
    BY DEF DeskInv, TypeOK, Released
  <2>2. Satisfied(mine) BY ReleaseNeedsApproval
  <2>3. latest.fingerprint = mine BY <2>2 DEF Satisfied
  <2>4. CASE FirstDecision("ci", content) # "REQUIRE_APPROVAL"
    <3>1. Satisfied(theirs) => FinalDecision("ci", content) # "REQUIRE_APPROVAL"
      BY ApprovalLifts
    <3>2. ~Satisfied(theirs) => FinalDecision("ci", content) # "REQUIRE_APPROVAL"
      BY <2>4, UnsatisfiedIsFirst
    <3> QED BY <2>4, <3>1, <3>2
  <2>5. CASE FirstDecision("ci", content) = "REQUIRE_APPROVAL" /\ ~PreparedAsksMore(content)
    <3>1. mine = theirs BY <2>1, <2>5, FingerprintsDiffer
    <3>2. FinalDecision("ci", content) # "REQUIRE_APPROVAL" BY <2>2, <3>1, ApprovalLifts
    <3> QED BY <2>5, <3>2
  <2>6. CASE FirstDecision("ci", content) = "REQUIRE_APPROVAL" /\ PreparedAsksMore(content)
    <3>1. mine # theirs BY <2>1, <2>6, FingerprintsDiffer
    <3>2. ~Satisfied(theirs)
      <4> HIDE DEF mine, theirs
      <4> QED BY <2>3, <3>1 DEF Satisfied
    <3>3. FinalDecision("ci", content) = FirstDecision("ci", content)
      BY <3>2, UnsatisfiedIsFirst
    <3> QED BY <2>6, <3>3
  <2> QED BY <2>4, <2>5, <2>6
<1> QED BY <1>1, DeskInit, DeskStep, PTL DEF Spec
=============================================================================
