----------------------- MODULE ApprovalServiceProofs -----------------------
(***************************************************************************)
(* Proofs about ApprovalService, for any sets of people, processes and     *)
(* keys and any bounds.  First what each operation makes of one record,    *)
(* then the inductive invariant IInv, then what follows from it.           *)
(***************************************************************************)
EXTENDS ApprovalService, FiniteSetTheorems, WellFoundedInduction, SequenceTheorems, TLAPS

(* What every stored record satisfies.  QuorumExact leaves out the last    *)
(* conjunct, without which a delegate's signature could fill a slot that   *)
(* is no approver's.                                                       *)
Good(k, r) ==
    /\ r \in Record
    /\ r.approvers = k.approvers
    /\ r.approvals \subseteq r.approvers
    /\ r.required \in 1..Cardinality(r.approvers)
    /\ r.state = "approved" <=> Cardinality(r.approvals) >= r.required
    /\ \A i \in DOMAIN r.delegates : r.delegates[i].approver \in r.approvers

(* A non-empty set of positions has a first one.                          *)
LEMMA LeastIndex ==
    ASSUME NEW n \in Nat, NEW S \in SUBSET (1..n), S # {}
    PROVE  \E i \in S : \A j \in S : i <= j
<1> DEFINE UpTo(i) == {j \in S : j <= i}
           Initials == {UpTo(i) : i \in S}
           R == StrictSubsetOrdering(1..n)
<1>1. IsWellFoundedOn(R, SUBSET (1..n))
  <2>1. IsFiniteSet(1..n)
    BY FS_Interval
  <2>2. FiniteSubsetsOf(1..n) = SUBSET (1..n)
    BY <2>1, FS_FiniteSubsetsOfFinite
  <2> QED
    BY <2>2, FS_StrictSubsetOrderingWellFounded
<1>2. PICK U \in Initials : \A V \in Initials : ~(<<V, U>> \in R)
  <2> HIDE DEF R
  <2>1. Initials \subseteq SUBSET (1..n) /\ Initials # {}
    OBVIOUS
  <2> HIDE DEF Initials
  <2> QED
    BY <1>1, <2>1, WFMin
<1>3. PICK i \in S : U = UpTo(i)
  BY <1>2
<1>4. ASSUME NEW j \in S, ~(i <= j)
      PROVE  FALSE
  <2>1. UpTo(j) \subseteq UpTo(i) /\ i \in UpTo(i) /\ i \notin UpTo(j)
    <3>1. i \in Nat /\ j \in Nat /\ S \subseteq Nat /\ j < i
      BY <1>4
    <3>2. \A x \in S : x <= j => x <= i
      BY <3>1
    <3>3. i <= i /\ ~(i <= j)
      BY <3>1
    <3> QED
      BY <3>2, <3>3
  <2>2. UpTo(j) \in SUBSET (1..n) /\ UpTo(i) \in SUBSET (1..n)
    OBVIOUS
  <2>3. <<UpTo(j), U>> \in R
    BY <1>3, <2>1, <2>2 DEF StrictSubsetOrdering
  <2> QED
    BY <1>2, <2>3
<1> QED
  BY <1>4

(* Whoever approve listens to signs for one of the approvers of the record.*)
LEMMA SlotIsApprover ==
    ASSUME NEW k, NEW r, Good(k, r), NEW actor \in Eligible(r)
    PROVE  ApprovalSlot(r, actor) \in r.approvers
<1> DEFINE held == {i \in DOMAIN r.delegates : r.delegates[i].delegate = actor}
<1>1. CASE held = {}
  <2>1. actor \in r.approvers
    BY <1>1 DEF Eligible
  <2> QED
    BY <1>1, <2>1 DEF ApprovalSlot
<1>2. CASE held # {}
  <2>1. Len(r.delegates) \in Nat /\ DOMAIN r.delegates = 1..Len(r.delegates)
    BY LenProperties DEF Good, Record
  <2>2. \E i \in held : \A j \in held : i <= j
    BY <1>2, <2>1, LeastIndex
  <2>3. (CHOOSE i \in held : \A j \in held : i <= j) \in held
    BY <2>2
  <2> QED
    BY <1>2, <2>3 DEF ApprovalSlot, Good
<1> QED
  BY <1>1, <1>2

(* Sizes of sets of approvers are naturals, and grow with the sets.        *)
LEMMA ApproversFinite ==
    ASSUME NEW S \in SUBSET Approvers, NEW T \in SUBSET S
    PROVE  /\ Cardinality(S) \in Nat /\ Cardinality(T) \in Nat
           /\ Cardinality(T) <= Cardinality(S)
<1>1. IsFiniteSet(S) /\ IsFiniteSet(T)
  BY PeopleAssumption, FS_Subset
<1> QED
  BY <1>1, FS_CardinalityType, FS_Subset

-----------------------------------------------------------------------------
(* Precedes is a preorder on good records.                                 *)
LEMMA PrecedesReflexive ==
    ASSUME NEW r \in Record
    PROVE  Precedes(r, r)
<1>1. Len(r.delegates) \in Nat
  BY LenProperties DEF Record
<1> QED
  BY <1>1 DEF Precedes, Record

LEMMA PrecedesTransitive ==
    ASSUME NEW r1 \in Record, NEW r2 \in Record, NEW r3 \in Record,
           Precedes(r1, r2), Precedes(r2, r3)
    PROVE  Precedes(r1, r3)
<1>1. /\ Len(r1.delegates) \in Nat /\ DOMAIN r1.delegates = 1..Len(r1.delegates)
      /\ Len(r2.delegates) \in Nat /\ DOMAIN r2.delegates = 1..Len(r2.delegates)
      /\ Len(r3.delegates) \in Nat
  BY LenProperties DEF Record
<1>2. Len(r1.delegates) <= Len(r3.delegates)
  BY <1>1 DEF Precedes
<1>3. \A i \in DOMAIN r1.delegates :
        r3.delegates[i].approver = r1.delegates[i].approver
  BY <1>1 DEF Precedes
<1>4. r1.evidence <= r3.evidence
  BY DEF Precedes, Record
<1> QED
  BY <1>2, <1>3, <1>4 DEF Precedes

-----------------------------------------------------------------------------
(* What the operations make of a good record is good and comes after it.   *)

LEMMA NewRecordGood ==
    ASSUME NEW k \in Keys, NEW required \in Nat, NEW evidence \in Nat,
           ValidContract(k.approvers, required)
    PROVE  Good(k, NewRecord(k.approvers, required, evidence))
<1> DEFINE r == NewRecord(k.approvers, required, evidence)
<1>1. k.approvers \in SUBSET Approvers
  BY ServiceAssumption
<1>2. r \in Record
  BY <1>1, EmptySeq DEF NewRecord, Record, ApprovalState
<1>3. Cardinality({}) = 0
  BY FS_EmptySet
<1>4. r.required \in 1..Cardinality(r.approvers) /\ r.required > 0
  BY <1>1, ApproversFinite DEF ValidContract, NewRecord
<1> QED
  BY <1>1, <1>2, <1>3, <1>4 DEF Good, NewRecord

(* Moving an ungranted record to a state that is not "approved", with or   *)
(* without evidence.                                                       *)
LEMMA MovedGood ==
    ASSUME NEW k, NEW r, Good(k, r),
           NEW target \in ApprovalState \ {"approved"}, CanMove(r, target)
    PROVE  Good(k, Moved(r, target)) /\ Precedes(r, Moved(r, target))
<1>1. r \in Record
  BY DEF Good
<1>2. r.state \notin Final
  BY <1>1 DEF CanMove, Transitions, Record, ApprovalState, Final
<1>3. Moved(r, target) \in Record
  BY <1>1 DEF Moved, Record
<1>4. Good(k, Moved(r, target))
  BY <1>1, <1>2, <1>3 DEF Good, Moved, Record, Final
<1>5. Precedes(r, Moved(r, target))
  BY <1>1, <1>2, PrecedesReflexive DEF Precedes, Moved, Record
<1> QED
  BY <1>4, <1>5

LEMMA WithEvidenceGood ==
    ASSUME NEW k, NEW r, Good(k, r), CanAddEvidence(r)
    PROVE  Good(k, WithEvidence(r)) /\ Precedes(r, WithEvidence(r))
<1> DEFINE m == Moved(r, "pending")
<1>1. Good(k, m) /\ Precedes(r, m)
  BY MovedGood DEF CanAddEvidence, ApprovalState
<1>2. m \in Record /\ WithEvidence(r) \in Record
  BY <1>1 DEF Good, Record, WithEvidence
<1>3. Good(k, WithEvidence(r))
  BY <1>1, <1>2 DEF Good, WithEvidence, Record
<1>4. Precedes(r, WithEvidence(r))
  BY <1>1, <1>2 DEF Good, Precedes, WithEvidence, Record, Moved
<1> QED
  BY <1>3, <1>4

LEMMA WaivedGood ==
    ASSUME NEW k, NEW r, Good(k, r)
    PROVE  Good(k, Waived(r)) /\ Precedes(r, Waived(r))
<1>1. r \in Record /\ Waived(r) \in Record
  BY DEF Good, Record, Waived
<1>2. Good(k, Waived(r))
  BY <1>1 DEF Good, Waived, Record
<1>3. Precedes(r, Waived(r))
  BY <1>1, PrecedesReflexive DEF Precedes, Waived, Record
<1> QED
  BY <1>2, <1>3
(* A delegation is a new entry at the end, or a new delegate for an        *)
(* approver that has one.                                                  *)
LEMMA DelegatedGood ==
    ASSUME NEW k, NEW r, Good(k, r), NEW approver \in Approvers,
           NEW delegate \in People, CanDelegate(r, approver)
    PROVE  /\ Good(k, Delegated(r, approver, delegate))
           /\ Precedes(r, Delegated(r, approver, delegate))
<1> DEFINE entry == [approver |-> approver, delegate |-> delegate]
           at == {i \in DOMAIN r.delegates : r.delegates[i].approver = approver}
           d == Delegated(r, approver, delegate)
           n == Len(r.delegates)
<1>1. /\ r \in Record /\ r.delegates \in Seq(Delegation)
      /\ n \in Nat /\ DOMAIN r.delegates = 1..n
  BY LenProperties DEF Good, Record
<1>2. entry \in Delegation /\ entry.approver \in r.approvers
  BY DEF Delegation, CanDelegate
<1>3. ASSUME NEW ds \in Seq(Delegation), d = [r EXCEPT !.delegates = ds],
             n <= Len(ds),
             \A i \in 1..n : ds[i].approver = r.delegates[i].approver,
             \A i \in DOMAIN ds : ds[i].approver \in r.approvers
      PROVE  Good(k, d) /\ Precedes(r, d)
  <2>1. d \in Record
    BY <1>1, <1>3 DEF Record
  <2>2. /\ d.delegates = ds /\ d.approvers = r.approvers
        /\ d.approvals = r.approvals /\ d.required = r.required
        /\ d.state = r.state /\ d.evidence = r.evidence /\ d.waived = r.waived
    BY <1>1, <1>3 DEF Record
  <2>3. Good(k, d)
    BY <2>1, <2>2, <1>3 DEF Good
  <2>4. Precedes(r, d)
    BY <1>1, <1>3, <2>2, PrecedesReflexive DEF Precedes
  <2> QED
    BY <2>3, <2>4
<1>4. CASE at = {}
  <2> DEFINE ds == Append(r.delegates, entry)
  <2>1. /\ ds \in Seq(Delegation) /\ Len(ds) = n + 1
        /\ \A i \in 1..n : ds[i] = r.delegates[i]
        /\ ds[n + 1] = entry
    BY <1>1, <1>2, AppendProperties
  <2>2. DOMAIN ds = 1..(n + 1)
    BY <2>1, LenProperties
  <2>3. d = [r EXCEPT !.delegates = ds]
    BY <1>4 DEF Delegated
  <2>4. \A i \in DOMAIN ds : ds[i].approver \in r.approvers
    BY <1>1, <1>2, <2>1, <2>2 DEF Good
  <2>5. n <= Len(ds)
    BY <1>1, <2>1
  <2> HIDE DEF ds
  <2> QED
    BY <1>3, <2>1, <2>3, <2>4, <2>5
<1>5. CASE at # {}
  <2> DEFINE ds == [i \in DOMAIN r.delegates |-> IF i \in at THEN entry ELSE r.delegates[i]]
  <2>1. /\ \A i \in 1..n : r.delegates[i] \in Delegation
        /\ \A i \in 1..n : ds[i] = IF i \in at THEN entry ELSE r.delegates[i]
    BY <1>1
  <2>2. ds \in [1..n -> Delegation] /\ DOMAIN ds = 1..n
    BY <1>1, <1>2, <2>1
  <2>3. ds \in Seq(Delegation) /\ Len(ds) = n
    BY <1>1, <2>2, SeqDef
  <2>4. \A i \in 1..n : ds[i].approver = r.delegates[i].approver
    BY <1>1, <2>1
  <2>5. d = [r EXCEPT !.delegates = ds]
    BY <1>5 DEF Delegated
  <2>6. \A i \in DOMAIN ds : ds[i].approver \in r.approvers
    BY <1>1, <2>2, <2>4 DEF Good
  <2>7. n <= Len(ds)
    BY <1>1, <2>3
  <2> HIDE DEF ds
  <2> QED
    BY <1>3, <2>3, <2>4, <2>5, <2>6, <2>7
<1> QED
  BY <1>4, <1>5

(* A signature short of the threshold leaves the state alone, and cannot   *)
(* be short of it on an approved record; the one that meets it grants.     *)
LEMMA ApprovedGood ==
    ASSUME NEW k, NEW r, Good(k, r), NEW actor \in People, CanApprove(r, actor)
    PROVE  Good(k, Approved(r, actor)) /\ Precedes(r, Approved(r, actor))
<1> DEFINE slot == ApprovalSlot(r, actor)
           s == Signed(r, actor)
<1>1. r \in Record /\ slot \in r.approvers
  BY SlotIsApprover DEF Good, CanApprove
<1>2. /\ s \in Record
      /\ s.approvals = r.approvals \cup {slot} /\ s.approvals \subseteq s.approvers
      /\ s.approvers = r.approvers /\ s.required = r.required
      /\ s.state = r.state /\ s.delegates = r.delegates
      /\ s.evidence = r.evidence /\ s.waived = r.waived
  BY <1>1 DEF Good, Signed, Record
<1>3. /\ Cardinality(r.approvals) \in Nat /\ Cardinality(s.approvals) \in Nat
      /\ Cardinality(r.approvals) <= Cardinality(s.approvals)
  BY <1>1, <1>2, ApproversFinite DEF Record
<1>4. r.required \in Nat
  BY <1>1 DEF Record
<1>5. Precedes(r, s)
  BY <1>1, <1>2, PrecedesReflexive DEF Precedes
<1>6. CASE ThresholdMet(s)
  <2>1. r.state \notin Final
    BY <1>1, <1>6 DEF CanApprove, CanMove, Transitions, Record, ApprovalState, Final
  <2>2. Approved(r, actor) = Moved(s, "approved")
    BY <1>6 DEF Approved
  <2>3. Moved(s, "approved") \in Record
    BY <1>2 DEF Moved, Record, ApprovalState
  <2>4. Good(k, Moved(s, "approved"))
    BY <1>2, <1>6, <2>3 DEF Good, Moved, Record, ThresholdMet
  <2>5. Precedes(r, Moved(s, "approved"))
    BY <1>2, <1>5, <2>1 DEF Precedes, Moved, Record
  <2> QED
    BY <2>2, <2>4, <2>5
<1>7. CASE ~ThresholdMet(s)
  <2>1. Approved(r, actor) = s
    BY <1>7 DEF Approved
  <2>2. ~(Cardinality(s.approvals) >= s.required) /\ s.state # "approved"
    BY <1>2, <1>3, <1>4, <1>7 DEF ThresholdMet, Good
  <2>3. Good(k, s)
    BY <1>2, <2>2 DEF Good
  <2> QED
    BY <1>5, <2>1, <2>3
<1> QED
  BY <1>6, <1>7

-----------------------------------------------------------------------------
(* The inductive invariant: every stored record is good, and whatever a    *)
(* process holds or is about to be handed is an earlier version of it.     *)
IInv ==
    /\ TypeOK
    /\ \A k \in Keys : Exists(k) => Good(k, records[k])
    /\ HandlesAreHistory
    /\ \A s \in Services : reply[s] # NoReply =>
          /\ Exists(reply[s].key)
          /\ Precedes(reply[s].record, records[reply[s].key])

(* What one step may do to the records.                                    *)
Advance == \A k \in Keys : Exists(k) => Exists(k)' /\ Precedes(records[k], records[k]')

LEMMA Sentinels == NoRecord \notin Record /\ (\A k : NoReply # [key |-> k, record |-> NoRecord])
                   /\ NoReply \notin [key : Keys, record : Record]
<1>1. NoRecord \notin Record
  BY DEF NoRecord, Record, ApprovalState
<1>2. NoReply.record \notin Record
  BY <1>1 DEF NoReply
<1>3. \A k : [key |-> k, record |-> NoRecord] # NoReply
  BY DEF NoReply
<1> QED
  BY <1>1, <1>2, <1>3

(* A commit of a good record that comes after the stored one.              *)
LEMMA CommitStep ==
    ASSUME IInv, NEW s \in Services, NEW k \in Keys, NEW r, NEW ev,
           Good(k, r), Exists(k) => Precedes(records[k], r),
           Mutate(s, k, r, ev)
    PROVE  IInv' /\ Advance
<1>1. r \in Record /\ r # NoRecord
  BY Sentinels DEF Good
<1>2. TypeOK'
  BY <1>1 DEF IInv, TypeOK, Mutate, Reply
<1>3. /\ records'[k] = r
      /\ \A x \in Keys \ {k} : records'[x] = records[x]
  BY DEF Mutate, IInv, TypeOK
<1>4. \A x \in Keys : Exists(x) => records[x] \in Record
  BY DEF IInv, TypeOK, Exists
<1>5. Advance
  BY <1>1, <1>3, <1>4, PrecedesReflexive DEF Advance, Exists
<1>6. (\A x \in Keys : Exists(x) => Good(x, records[x]))'
  BY <1>3 DEF IInv, Exists
<1>7. ASSUME NEW x \in Keys, NEW old \in Record, Exists(x), Precedes(old, records[x])
      PROVE  Exists(x)' /\ Precedes(old, records[x]')
  <2>1. records[x]' \in Record
    BY <1>1, <1>3, <1>4, <1>7
  <2> QED
    BY <1>4, <1>5, <1>7, <2>1, PrecedesTransitive DEF Advance
<1>8. HandlesAreHistory'
  <2>1. handle' = handle
    BY DEF Mutate
  <2>2. \A t \in Services, x \in Keys : handle[t][x] # NoRecord => handle[t][x] \in Record
    BY DEF IInv, TypeOK
  <2> QED
    BY <1>7, <2>1, <2>2 DEF IInv, HandlesAreHistory
<1>9. ASSUME NEW t \in Services, (reply[t] # NoReply)'
      PROVE  (Exists(reply[t].key) /\ Precedes(reply[t].record, records[reply[t].key]))'
  <2>1. CASE t = s
    <3>1. reply'[t] = [key |-> k, record |-> r]
      BY <2>1 DEF Mutate, IInv, TypeOK
    <3>2. Exists(k)' /\ Precedes(r, records'[k])
      BY <1>1, <1>3, PrecedesReflexive DEF Exists
    <3> QED
      BY <3>1, <3>2 DEF Exists
  <2>2. CASE t # s
    <3>1. reply'[t] = reply[t] /\ reply[t] # NoReply
      BY <1>9, <2>2 DEF Mutate, IInv, TypeOK
    <3>2. PICK x \in Keys : x = reply[t].key
      BY <3>1 DEF IInv, TypeOK, Reply
    <3>3. PICK old \in Record : old = reply[t].record
      BY <3>1 DEF IInv, TypeOK, Reply
    <3>4. Exists(x) /\ Precedes(old, records[x])
      BY <3>1, <3>2, <3>3 DEF IInv
    <3>5. Exists(x)' /\ Precedes(old, records[x]')
      BY <1>7, <3>4
    <3> QED
      BY <3>1, <3>2, <3>3, <3>5 DEF Exists
  <2> QED
    BY <2>1, <2>2
<1> QED
  BY <1>2, <1>5, <1>6, <1>8, <1>9 DEF IInv

(* Init, and every step: an accepted operation commits a good record, the  *)
(* other actions leave the records alone and hand over what is stored.     *)
LEMMA InitIInv == Init => IInv
<1> SUFFICES ASSUME Init PROVE IInv
  OBVIOUS
<1>1. TypeOK
  BY DEF Init, TypeOK, Reply
<1> QED
  BY <1>1 DEF Init, IInv, HandlesAreHistory, Exists

LEMMA OperationStep ==
    ASSUME IInv, NEW s \in Services, NEW k \in Keys,
           \/ \E required \in 1..Cardinality(k.approvers), evidence \in 0..MaxEvidence :
                 Create(s, k, required, evidence)
           \/ \E approver \in Approvers, delegate \in People :
                 Delegate(s, k, approver, delegate)
           \/ AddEvidence(s, k)
           \/ RequestEvidence(s, k)
           \/ \E actor \in People : Approve(s, k, actor) \/ Reject(s, k, actor)
           \/ GrantWaiver(s, k)
           \/ \E due \in BOOLEAN : ExpireOrEscalate(s, k, due)
    PROVE  IInv' /\ Advance
<1>1. /\ Exists(k) => Good(k, records[k]) /\ records[k] \in Record
      /\ Current(s, k) = records[k]
  BY DEF IInv, Good, Current
<1>2. ASSUME NEW required \in 1..Cardinality(k.approvers), NEW evidence \in 0..MaxEvidence,
             Create(s, k, required, evidence)
      PROVE  IInv' /\ Advance
  <2>1. CASE Exists(k)
    BY <1>1, <1>2, <2>1, PrecedesReflexive, CommitStep DEF Create
  <2>2. CASE ~Exists(k)
    <3>1. required \in Nat /\ evidence \in Nat
      BY <1>2, ServiceAssumption, ApproversFinite
    <3>2. Good(k, NewRecord(k.approvers, required, evidence))
      BY <1>2, <3>1, NewRecordGood DEF Create
    <3> QED
      BY <1>2, <2>2, <3>2, CommitStep DEF Create
  <2> QED
    BY <2>1, <2>2
<1>3. ASSUME NEW approver \in Approvers, NEW delegate \in People,
             Delegate(s, k, approver, delegate)
      PROVE  IInv' /\ Advance
  BY <1>1, <1>3, DelegatedGood, CommitStep DEF Delegate
<1>4. CASE AddEvidence(s, k)
  BY <1>1, <1>4, WithEvidenceGood, CommitStep DEF AddEvidence
<1>5. CASE RequestEvidence(s, k)
  BY <1>1, <1>5, MovedGood, CommitStep
     DEF RequestEvidence, CanRequestEvidence, ApprovalState
<1>6. ASSUME NEW actor \in People, Approve(s, k, actor)
      PROVE  IInv' /\ Advance
  BY <1>1, <1>6, ApprovedGood, CommitStep DEF Approve
<1>7. ASSUME NEW actor \in People, Reject(s, k, actor)
      PROVE  IInv' /\ Advance
  BY <1>1, <1>7, MovedGood, CommitStep DEF Reject, CanReject, ApprovalState
<1>8. CASE GrantWaiver(s, k)
  BY <1>1, <1>8, WaivedGood, CommitStep DEF GrantWaiver
<1>9. ASSUME NEW due \in BOOLEAN, ExpireOrEscalate(s, k, due)
      PROVE  IInv' /\ Advance
  <2>1. CASE Escalates(records[k], due)
    <3>1. CanMove(records[k], "escalated")
      BY <2>1 DEF Escalates, CanMove, Transitions, ApprovalState
    <3> QED
      BY <1>1, <1>9, <2>1, <3>1, MovedGood, CommitStep DEF ExpireOrEscalate, ApprovalState
  <2>2. CASE ~Escalates(records[k], due)
    BY <1>1, <1>9, <2>2, PrecedesReflexive, CommitStep DEF ExpireOrEscalate
  <2> QED
    BY <2>1, <2>2
<1> QED
  BY <1>2, <1>3, <1>4, <1>5, <1>6, <1>7, <1>8, <1>9

(* Steps that leave both tables alone keep the invariant if what they put  *)
(* into a process's object is stored or was under way to it.               *)
LEMMA ProcessStep ==
    ASSUME IInv, NEW s \in Services,
           Return(s) \/ LoseAnswer(s) \/ Restart(s) \/ (\E k \in Keys : Read(s, k))
    PROVE  IInv' /\ Advance
<1>1. records' = records /\ audit' = audit
  BY DEF Return, LoseAnswer, Restart, Read
<1>2. \A k \in Keys : Exists(k) => records[k] \in Record /\ Precedes(records[k], records[k])
  BY PrecedesReflexive DEF IInv, TypeOK, Exists
<1>3. Advance
  BY <1>1, <1>2 DEF Advance, Exists
<1>4. reply' \in [Services -> Reply]
      /\ \A t \in Services : reply'[t] # NoReply => reply'[t] = reply[t]
  BY DEF Return, LoseAnswer, Restart, Read, IInv, TypeOK, Reply
<1>5. ASSUME NEW t \in Services, NEW k \in Keys, handle'[t][k] # NoRecord
      PROVE  /\ handle'[t][k] \in Record
             /\ Exists(k) /\ Precedes(handle'[t][k], records[k])
  <2>1. CASE handle'[t][k] = handle[t][k]
    BY <1>5, <2>1 DEF IInv, TypeOK, HandlesAreHistory
  <2>2. CASE Return(s) /\ handle'[t][k] # handle[t][k]
    <3>1. t = s /\ k = reply[s].key /\ handle'[t][k] = reply[s].record /\ reply[s] # NoReply
      BY <2>2 DEF Return, IInv, TypeOK
    <3> QED
      BY <3>1 DEF IInv, TypeOK, Reply
  <2>3. CASE (\E x \in Keys : Read(s, x)) /\ handle'[t][k] # handle[t][k]
    <3>1. handle'[t][k] = records[k] /\ Exists(k)
      BY <2>3 DEF Read, IInv, TypeOK
    <3> QED
      BY <1>2, <3>1
  <2>4. CASE Restart(s) \/ LoseAnswer(s)
    <3>1. handle'[t][k] \in {NoRecord, handle[t][k]}
      BY <2>4 DEF Restart, LoseAnswer, IInv, TypeOK
    <3> QED
      BY <1>5, <2>1, <3>1
  <2> QED
    BY <2>1, <2>2, <2>3, <2>4
<1>6. handle' \in [Services -> [Keys -> Record \cup {NoRecord}]]
  BY DEF Return, LoseAnswer, Restart, Read, IInv, TypeOK, Reply, Exists
<1> QED
  BY <1>1, <1>2, <1>3, <1>4, <1>5, <1>6 DEF IInv, TypeOK, HandlesAreHistory, Exists

LEMMA StepIInv == IInv /\ [Next]_vars => IInv' /\ Advance
<1> SUFFICES ASSUME IInv, [Next]_vars PROVE IInv' /\ Advance
  OBVIOUS
<1>1. ASSUME NEW s \in Services, NEW k \in Keys,
             \/ \E required \in 1..Cardinality(k.approvers), evidence \in 0..MaxEvidence :
                   Create(s, k, required, evidence)
             \/ \E approver \in Approvers, delegate \in People :
                   Delegate(s, k, approver, delegate)
             \/ AddEvidence(s, k)
             \/ RequestEvidence(s, k)
             \/ \E actor \in People : Approve(s, k, actor) \/ Reject(s, k, actor)
             \/ GrantWaiver(s, k)
             \/ \E due \in BOOLEAN : ExpireOrEscalate(s, k, due)
      PROVE  IInv' /\ Advance
  BY <1>1, OperationStep
<1>2. ASSUME NEW s \in Services,
             Return(s) \/ LoseAnswer(s) \/ Restart(s) \/ (\E k \in Keys : Read(s, k))
      PROVE  IInv' /\ Advance
  BY <1>2, ProcessStep
<1>3. CASE UNCHANGED vars
  <2>1. \A k \in Keys : Exists(k) => Precedes(records[k], records[k])
    BY PrecedesReflexive DEF IInv, TypeOK, Exists
  <2> QED
    BY <1>3, <2>1 DEF vars, IInv, TypeOK, HandlesAreHistory, Exists, Advance
<1> QED
  BY <1>1, <1>2, <1>3 DEF Next

LEMMA Invariance == Spec => []IInv
<1> QED
  BY InitIInv, StepIInv, PTL DEF Spec

-----------------------------------------------------------------------------
(* The tables, objects and answers always have their types: only slots of  *)
(* approvers are ever signed (approve, delegate).                          *)
THEOREM TypeCorrect == Spec => []TypeOK
<1>1. IInv => TypeOK
  BY DEF IInv
<1> QED
  BY <1>1, Invariance, PTL

(* In every reachable state a stored record is approved exactly when its   *)
(* approvers' signatures meet the threshold (approve, reject, delegate,    *)
(* expire_or_escalate in any order and from any process).                  *)
THEOREM QuorumIsExact == Spec => []QuorumExact
<1>1. IInv => QuorumExact
  BY DEF IInv, Good, QuorumExact
<1> QED
  BY <1>1, Invariance, PTL

(* No commit takes back what another commit stored (mutate re-reads the    *)
(* row, _mutate ignores the state of the caller's object).                 *)
THEOREM NoLostUpdate == Spec => RecordsOnlyAdvance
<1>1. IInv /\ [Next]_vars => [\A k \in Keys : Exists(k) => Precedes(records[k], records'[k])]_vars
  BY StepIInv DEF Advance
<1> QED
  BY <1>1, Invariance, PTL DEF Spec, RecordsOnlyAdvance

(* Every object a process holds is an earlier version of the stored record,*)
(* whatever answers were lost and processes restarted.                     *)
THEOREM HandlesTellThePast == Spec => []HandlesAreHistory
<1>1. IInv => HandlesAreHistory
  BY DEF IInv
<1> QED
  BY <1>1, Invariance, PTL

-----------------------------------------------------------------------------
(* The ledger counts the same sets (its operator comes in by INSTANCE).    *)
LEMMA SameCardinality == \A S : Ledger!Cardinality(S) = Cardinality(S)
  BY DEF Ledger!Cardinality, Cardinality

(* The refinement.  A commit changes the ballot of its key only; what it   *)
(* makes of that ballot decides which step of the ledger it is.            *)
LEMMA BallotOfCommit ==
    ASSUME IInv, NEW s \in Services, NEW k \in Keys, NEW r \in Record, NEW ev,
           Mutate(s, k, r, ev)
    PROVE  /\ ballotPhase' = [ballotPhase EXCEPT ![k] = Phase(r.state)]
           /\ ballotSigned' = [ballotSigned EXCEPT ![k] = r.approvals]
           /\ ballotQuorum' = [ballotQuorum EXCEPT ![k] = r.required]
<1>1. records' = [records EXCEPT ![k] = r] /\ r # NoRecord
  BY Sentinels DEF Mutate
<1>2. records \in [Keys -> Record \cup {NoRecord}]
  BY DEF IInv, TypeOK
<1> QED
  BY <1>1, <1>2 DEF ballotPhase, ballotSigned, ballotQuorum, Exists

(* An operation that leaves signatures and phase alone is a stutter.       *)
LEMMA SameBallot ==
    ASSUME IInv, NEW s \in Services, NEW k \in Keys, NEW r \in Record, NEW ev,
           Mutate(s, k, r, ev), Exists(k),
           Phase(r.state) = Phase(records[k].state),
           r.approvals = records[k].approvals, r.required = records[k].required
    PROVE  UNCHANGED Ledger!vars
<1>1. /\ ballotPhase[k] = Phase(r.state) /\ ballotSigned[k] = r.approvals
      /\ ballotQuorum[k] = r.required
  BY DEF ballotPhase, ballotSigned, ballotQuorum
<1>2. /\ ballotPhase = [ballotPhase EXCEPT ![k] = Phase(r.state)]
      /\ ballotSigned = [ballotSigned EXCEPT ![k] = r.approvals]
      /\ ballotQuorum = [ballotQuorum EXCEPT ![k] = r.required]
  BY <1>1 DEF ballotPhase, ballotSigned, ballotQuorum
<1> QED
  BY <1>2, BallotOfCommit DEF Ledger!vars

LEMMA CreateRefines ==
    ASSUME IInv, NEW s \in Services, NEW k \in Keys,
           NEW required \in 1..Cardinality(k.approvers), NEW evidence \in 0..MaxEvidence,
           Create(s, k, required, evidence)
    PROVE  [Ledger!Next]_(Ledger!vars)
<1>1. CASE Exists(k)
  <2>1. records[k] \in Record
    BY <1>1 DEF IInv, Good
  <2> QED
    BY <1>1, <2>1, SameBallot DEF Create
<1>2. CASE ~Exists(k)
  <2> DEFINE r == NewRecord(k.approvers, required, evidence)
  <2>1. required \in Nat /\ evidence \in Nat
    BY ServiceAssumption, ApproversFinite
  <2>2. r \in Record
    BY <2>1, NewRecordGood DEF Create, Good
  <2>3. /\ ballotPhase' = [ballotPhase EXCEPT ![k] = "open"]
        /\ ballotSigned' = [ballotSigned EXCEPT ![k] = {}]
        /\ ballotQuorum' = [ballotQuorum EXCEPT ![k] = required]
    BY <1>2, <2>2, BallotOfCommit DEF Create, NewRecord, Phase
  <2>4. ballotPhase[k] = "absent"
    <3>1. records[k].state = "absent"
      BY <1>2 DEF Exists, NoRecord
    <3> QED
      BY <3>1 DEF ballotPhase, Phase
  <2>5. ballotSigned' = ballotSigned
    <3>1. ballotSigned = [ballotSigned EXCEPT ![k] = {}]
      BY <1>2 DEF ballotSigned
    <3> QED
      BY <2>3, <3>1
  <2>6. Ledger!Open(k, required)
    BY <2>3, <2>4, <2>5 DEF Ledger!Open
  <2> QED
    BY <2>6, SameCardinality DEF Ledger!Next
<1> QED
  BY <1>1, <1>2

LEMMA ApproveRefines ==
    ASSUME IInv, NEW s \in Services, NEW k \in Keys, NEW actor \in People,
           Approve(s, k, actor)
    PROVE  [Ledger!Next]_(Ledger!vars)
<1> DEFINE r == records[k]
           a == Approved(r, actor)
           slot == ApprovalSlot(r, actor)
           signed == r.approvals \cup {slot}
<1>1. Exists(k) /\ Good(k, r) /\ r \in Record /\ CanApprove(r, actor)
  BY DEF Approve, IInv, Good, Current
<1>2. slot \in k.approvers /\ a \in Record
  BY <1>1, SlotIsApprover, ApprovedGood DEF Good, CanApprove
<1>3. a.approvals = signed /\ a.required = r.required
  BY <1>1 DEF Approved, Signed, Moved, Record
<1>4. /\ ballotPhase' = [ballotPhase EXCEPT ![k] = Phase(a.state)]
      /\ ballotSigned' = [ballotSigned EXCEPT ![k] = signed]
      /\ ballotQuorum' = [ballotQuorum EXCEPT ![k] = r.required]
  BY <1>2, <1>3, BallotOfCommit DEF Approve, Current
<1>5. /\ ballotPhase[k] = Phase(r.state) /\ ballotSigned[k] = r.approvals
      /\ ballotQuorum[k] = r.required /\ ballotQuorum' = ballotQuorum
  BY <1>1, <1>4 DEF ballotPhase, ballotSigned, ballotQuorum
<1>6. /\ Cardinality(r.approvals) \in Nat /\ Cardinality(signed) \in Nat
      /\ Cardinality(r.approvals) <= Cardinality(signed) /\ r.required \in Nat
  <2>1. signed \in SUBSET Approvers
    BY <1>1, <1>2 DEF Good, Record
  <2> QED
    BY <1>1, <2>1, ApproversFinite DEF Record
<1>7. CASE Cardinality(signed) >= r.required
  <2>1. CanMove(r, "approved") /\ a.state = "approved"
    BY <1>1, <1>7 DEF CanApprove, Approved, Signed, ThresholdMet, Moved, Record
  <2>2. r.state \in {"pending", "escalated"}
    BY <1>1, <2>1 DEF CanMove, Transitions, Record, ApprovalState
  <2>3. Phase(r.state) = "open" /\ Phase(a.state) = "granted"
    BY <2>1, <2>2 DEF Phase
  <2>4. Cardinality(r.approvals) < r.required
    BY <1>1, <1>6, <2>2 DEF Good
  <2>5. Ledger!Grant(k, slot)
    BY <1>4, <1>5, <1>7, <2>3, <2>4, SameCardinality DEF Ledger!Grant
  <2> QED
    BY <1>2, <2>5 DEF Ledger!Next
<1>8. CASE Cardinality(signed) < r.required
  <2>1. a.state = r.state
    BY <1>1, <1>6, <1>8 DEF Approved, Signed, ThresholdMet, Record
  <2>2. r.state # "approved"
    BY <1>1, <1>6, <1>8 DEF Good
  <2>3. Phase(r.state) \in {"open", "refused"}
    BY <1>1, <2>2 DEF Phase, Record, ApprovalState
  <2>4. ballotPhase' = ballotPhase
    BY <1>4, <1>5, <2>1 DEF ballotPhase
  <2>5. Ledger!Sign(k, slot)
    BY <1>4, <1>5, <1>8, <2>3, <2>4, SameCardinality DEF Ledger!Sign
  <2> QED
    BY <1>2, <2>5 DEF Ledger!Next
<1> QED
  BY <1>6, <1>7, <1>8

LEMMA RejectRefines ==
    ASSUME IInv, NEW s \in Services, NEW k \in Keys, NEW actor \in People,
           Reject(s, k, actor)
    PROVE  [Ledger!Next]_(Ledger!vars)
<1> DEFINE r == records[k]
           m == Moved(r, "rejected")
<1>1. Exists(k) /\ Good(k, r) /\ r \in Record /\ CanMove(r, "rejected")
  BY DEF Reject, CanReject, IInv, Good, Current
<1>2. /\ m \in Record /\ m.state = "rejected"
      /\ m.approvals = r.approvals /\ m.required = r.required
  BY <1>1 DEF Moved, Record, ApprovalState
<1>3. /\ ballotPhase' = [ballotPhase EXCEPT ![k] = "refused"]
      /\ ballotSigned' = ballotSigned /\ ballotQuorum' = ballotQuorum
  <2>1. Mutate(s, k, m, {"approval_rejected"})
    BY DEF Reject, Current
  <2>2. Phase(m.state) = "refused"
    BY <1>2 DEF Phase
  <2>3. /\ ballotPhase' = [ballotPhase EXCEPT ![k] = "refused"]
        /\ ballotSigned' = [ballotSigned EXCEPT ![k] = r.approvals]
        /\ ballotQuorum' = [ballotQuorum EXCEPT ![k] = r.required]
    BY <1>2, <2>1, <2>2, BallotOfCommit
  <2>4. /\ ballotSigned = [ballotSigned EXCEPT ![k] = r.approvals]
        /\ ballotQuorum = [ballotQuorum EXCEPT ![k] = r.required]
    BY <1>1 DEF ballotSigned, ballotQuorum
  <2> QED
    BY <2>3, <2>4
<1>4. ballotPhase[k] = "open"
  BY <1>1 DEF ballotPhase, Phase, CanMove, Transitions, Record, ApprovalState
<1>5. Ledger!Refuse(k)
  BY <1>3, <1>4 DEF Ledger!Refuse
<1> QED
  BY <1>5 DEF Ledger!Next

(* The operations the ledger does not see.                                 *)
LEMMA OtherOperationsStutter ==
    ASSUME IInv, NEW s \in Services, NEW k \in Keys,
           \/ \E approver \in Approvers, delegate \in People :
                 Delegate(s, k, approver, delegate)
           \/ AddEvidence(s, k)
           \/ RequestEvidence(s, k)
           \/ GrantWaiver(s, k)
           \/ \E due \in BOOLEAN : ExpireOrEscalate(s, k, due)
    PROVE  UNCHANGED Ledger!vars
<1> DEFINE r == records[k]
<1>1. Exists(k) /\ Good(k, r) /\ r \in Record /\ Current(s, k) = r
  BY DEF Delegate, AddEvidence, RequestEvidence, GrantWaiver, ExpireOrEscalate, IInv, Good, Current
<1>2. ASSUME NEW target \in {"pending", "evidence_requested", "escalated"}, CanMove(r, target)
      PROVE  /\ Moved(r, target) \in Record /\ Phase(target) = Phase(r.state)
             /\ Moved(r, target).state = target
             /\ Moved(r, target).approvals = r.approvals
             /\ Moved(r, target).required = r.required
  BY <1>1, <1>2 DEF Moved, Record, ApprovalState, Phase, CanMove, Transitions
<1>3. ASSUME NEW approver \in Approvers, NEW delegate \in People,
             Delegate(s, k, approver, delegate)
      PROVE  UNCHANGED Ledger!vars
  <2> DEFINE d == Delegated(r, approver, delegate)
  <2>1. d \in Record
    BY <1>1, <1>3, DelegatedGood DEF Delegate, Good
  <2>2. d.state = r.state /\ d.approvals = r.approvals /\ d.required = r.required
    BY <1>1 DEF Delegated, Record
  <2> QED
    BY <1>1, <1>3, <2>1, <2>2, SameBallot DEF Delegate
<1>4. CASE AddEvidence(s, k)
  <2>1. CanMove(r, "pending")
    BY <1>1, <1>4 DEF AddEvidence, CanAddEvidence
  <2>2. /\ WithEvidence(r) \in Record /\ WithEvidence(r).state = "pending"
        /\ WithEvidence(r).approvals = r.approvals /\ WithEvidence(r).required = r.required
    <3>1. PICK m \in Record : /\ m = Moved(r, "pending") /\ m.state = "pending"
                              /\ m.approvals = r.approvals /\ m.required = r.required
      BY <1>2, <2>1
    <3>2. WithEvidence(r) = [m EXCEPT !.evidence = @ + 1]
      BY <3>1 DEF WithEvidence
    <3> QED
      BY <3>1, <3>2 DEF Record
  <2> QED
    BY <1>1, <1>2, <1>4, <2>1, <2>2, SameBallot DEF AddEvidence
<1>5. CASE RequestEvidence(s, k)
  BY <1>1, <1>2, <1>5, SameBallot DEF RequestEvidence, CanRequestEvidence
<1>6. CASE GrantWaiver(s, k)
  <2>1. /\ Waived(r) \in Record /\ Waived(r).state = r.state
        /\ Waived(r).approvals = r.approvals /\ Waived(r).required = r.required
    BY <1>1 DEF Waived, Record
  <2> QED
    BY <1>1, <1>6, <2>1, SameBallot DEF GrantWaiver
<1>7. ASSUME NEW due \in BOOLEAN, ExpireOrEscalate(s, k, due)
      PROVE  UNCHANGED Ledger!vars
  <2>1. CASE Escalates(r, due)
    <3>1. CanMove(r, "escalated")
      BY <2>1 DEF Escalates, CanMove, Transitions, ApprovalState
    <3> QED
      BY <1>1, <1>2, <1>7, <2>1, <3>1, SameBallot DEF ExpireOrEscalate
  <2>2. CASE ~Escalates(r, due)
    BY <1>1, <1>7, <2>2, SameBallot DEF ExpireOrEscalate
  <2> QED
    BY <2>1, <2>2
<1> QED
  BY <1>3, <1>4, <1>5, <1>6, <1>7

(* The service implements the ledger: every commit is one step of a ballot *)
(* or none, and nothing else it does is seen there.                        *)
THEOREM ServiceImplementsLedger == Spec => ImplementsLedger
<1>1. Init => Ledger!Init
  BY DEF Init, Ledger!Init, ballotPhase, ballotSigned, ballotQuorum, Exists, NoRecord, Phase
<1>2. IInv /\ [Next]_vars => [Ledger!Next]_(Ledger!vars)
  <2> SUFFICES ASSUME IInv, [Next]_vars PROVE [Ledger!Next]_(Ledger!vars)
    OBVIOUS
  <2>1. ASSUME records' = records PROVE UNCHANGED Ledger!vars
    BY <2>1 DEF Ledger!vars, ballotPhase, ballotSigned, ballotQuorum, Exists
  <2>2. ASSUME NEW s \in Services
        PROVE  Return(s) \/ LoseAnswer(s) \/ Restart(s) \/ (\E k \in Keys : Read(s, k))
               => records' = records
    BY DEF Return, LoseAnswer, Restart, Read
  <2>3. CASE UNCHANGED vars
    BY <2>1, <2>3 DEF vars
  <2>4. CASE Next
    BY <2>1, <2>2, <2>4, CreateRefines, ApproveRefines, RejectRefines,
       OtherOperationsStutter DEF Next
  <2> QED
    BY <2>3, <2>4
<1> QED
  BY <1>1, <1>2, Invariance, PTL DEF Spec, ImplementsLedger, Ledger!Spec
-----------------------------------------------------------------------------
(* The audit table counts: what it says of the records needs IInv (nothing *)
(* leaves "approved" or "rejected") and that finitely many are stored.     *)
Stored == {k \in Keys : Exists(k)}
InState(rs, st) == {k \in Keys : rs[k].state = st}
Slots == UNION {{k} \X records[k].approvals : k \in {x \in Keys : Exists(x)}}

AuditInv == IInv /\ IsFiniteSet(Stored) /\ AuditMatchesRecords

LEMMA InStateStored ==
    ASSUME IInv, NEW st \in ApprovalState
    PROVE  InState(records, st) \subseteq Stored
BY DEF InState, Stored, Exists, NoRecord, ApprovalState

LEMMA SlotsFinite ==
    ASSUME IInv, IsFiniteSet(Stored)
    PROVE  IsFiniteSet(Slots)
<1>1. IsFiniteSet(Approvers) BY PeopleAssumption
<1>2. IsFiniteSet(Stored \X Approvers) BY <1>1, FS_Product
<1>3. Slots \in SUBSET (Stored \X Approvers)
  BY DEF Slots, Stored, IInv, Good, Record
<1> QED BY <1>2, <1>3, FS_Subset

(* A commit moves its own key between the sets the audit table counts.     *)
LEMMA SetsOfCommit ==
    ASSUME IInv, NEW s \in Services, NEW k \in Keys, NEW r \in Record, NEW ev,
           Mutate(s, k, r, ev)
    PROVE  /\ Stored' = Stored \cup {k}
           /\ \A st \in ApprovalState :
                InState(records', st) =
                   IF r.state = st THEN InState(records, st) \cup {k} ELSE InState(records, st) \ {k}
           /\ Slots' = Slots \cup ({k} \X r.approvals) \/ Exists(k)
           /\ \A slot : (Exists(k) /\ r.approvals = records[k].approvals \cup {slot})
                        => Slots' = Slots \cup {<<k, slot>>}
           /\ (Exists(k) /\ r.approvals = records[k].approvals) => Slots' = Slots
<1>1. records' = [records EXCEPT ![k] = r] /\ r # NoRecord
  BY Sentinels DEF Mutate
<1>2. /\ DOMAIN records = Keys /\ records'[k] = r
      /\ \A j \in Keys : j # k => records'[j] = records[j]
  BY <1>1 DEF IInv, TypeOK
<1>3. \A j \in Keys : Exists(j)' <=> j = k \/ Exists(j)
  BY <1>1, <1>2 DEF Exists
<1>4. Stored' = Stored \cup {k} BY <1>3 DEF Stored
<1>5. \A st \in ApprovalState :
        InState(records', st) =
           IF r.state = st THEN InState(records, st) \cup {k} ELSE InState(records, st) \ {k}
  BY <1>2 DEF InState
<1>6. /\ \A x : x \in Slots <=> \E j \in Keys : Exists(j) /\ x \in {j} \X records[j].approvals
      /\ \A x : x \in Slots' <=>
                \E j \in Keys : Exists(j)' /\ x \in {j} \X records'[j].approvals
  BY DEF Slots
<1>7. CASE Exists(k)
  <2>1. \A x : x \in Slots' <=>
           x \in {k} \X r.approvals
           \/ \E j \in Keys : j # k /\ Exists(j) /\ x \in {j} \X records[j].approvals
    BY <1>2, <1>3, <1>6
  <2>2. \A x : x \in Slots <=>
           x \in {k} \X records[k].approvals
           \/ \E j \in Keys : j # k /\ Exists(j) /\ x \in {j} \X records[j].approvals
    BY <1>6, <1>7
  <2>3. (r.approvals = records[k].approvals) => Slots' = Slots
    BY <2>1, <2>2
  <2>4. ASSUME NEW slot, r.approvals = records[k].approvals \cup {slot}
        PROVE  Slots' = Slots \cup {<<k, slot>>}
    <3>1. \A x : x \in {k} \X r.approvals
                 <=> x \in {k} \X records[k].approvals \/ x = <<k, slot>>
      BY <2>4
    <3> QED BY <2>1, <2>2, <3>1
  <2> QED BY <1>4, <1>5, <1>7, <2>3, <2>4
<1>8. CASE ~Exists(k)
  <2>1. \A x : x \in Slots' <=> x \in Slots \/ x \in {k} \X r.approvals
    BY <1>2, <1>3, <1>6, <1>8
  <2> QED BY <1>4, <1>5, <1>8, <2>1
<1> QED BY <1>7, <1>8

(* The counts after a commit whose events tell what it made of the record. *)
LEMMA AuditOfCommit ==
    ASSUME AuditInv, IInv', NEW s \in Services, NEW k \in Keys, NEW r \in Record,
           NEW ev, Mutate(s, k, r, ev),
           "approval_created" \in ev <=> ~Exists(k),
           ~Exists(k) => r.approvals = {} /\ r.state = "pending",
           "approval_granted" \in ev <=> r.state = "approved" /\ records[k].state # "approved",
           records[k].state = "approved" => r.state = "approved",
           "approval_rejected" \in ev <=> r.state = "rejected" /\ records[k].state # "rejected",
           records[k].state = "rejected" => r.state = "rejected",
           r.state = "escalated" => records[k].state = "escalated" \/ "approval_escalated" \in ev,
           Exists(k) => \/ r.approvals = records[k].approvals
                        \/ /\ "approval_recorded" \in ev
                           /\ \E slot : r.approvals = records[k].approvals \cup {slot}
    PROVE  AuditInv'
<1>1. /\ Stored' = Stored \cup {k}
      /\ \A st \in ApprovalState :
            InState(records', st) =
               IF r.state = st THEN InState(records, st) \cup {k} ELSE InState(records, st) \ {k}
      /\ Slots' = Slots \cup ({k} \X r.approvals) \/ Exists(k)
      /\ \A slot : (Exists(k) /\ r.approvals = records[k].approvals \cup {slot})
                   => Slots' = Slots \cup {<<k, slot>>}
      /\ (Exists(k) /\ r.approvals = records[k].approvals) => Slots' = Slots
  BY SetsOfCommit DEF AuditInv
<1>2. /\ audit \in [Action -> Nat]
      /\ audit' = [a \in Action |-> audit[a] + IF a \in ev THEN 1 ELSE 0]
  BY DEF AuditInv, IInv, TypeOK, Mutate
<1>3. \A a \in Action : audit[a] \in Nat /\ audit'[a] = audit[a] + IF a \in ev THEN 1 ELSE 0
  BY <1>2
<1>4. /\ audit["approval_created"] = Cardinality(Stored)
      /\ audit["approval_granted"] = Cardinality(InState(records, "approved"))
      /\ audit["approval_rejected"] = Cardinality(InState(records, "rejected"))
      /\ audit["approval_recorded"] >= Cardinality(Slots)
      /\ audit["approval_escalated"] >= Cardinality(InState(records, "escalated"))
  BY DEF AuditInv, AuditMatchesRecords, Stored, InState, Slots
<1>5. IsFiniteSet(Stored) /\ IsFiniteSet(Stored')
      /\ Cardinality(Stored') = IF Exists(k) THEN Cardinality(Stored) ELSE Cardinality(Stored) + 1
  <2>1. IsFiniteSet(Stored) BY DEF AuditInv
  <2>2. k \in Stored <=> Exists(k) BY DEF Stored
  <2> QED BY <1>1, <2>1, <2>2, FS_AddElement
<1>6. audit'["approval_created"] = Cardinality(Stored')
  <2>1. Cardinality(Stored) \in Nat BY <1>5, FS_CardinalityType
  <2> QED BY <1>3, <1>4, <1>5, <2>1 DEF Action
<1>7. \A st \in ApprovalState :
        /\ IsFiniteSet(InState(records, st)) /\ Cardinality(InState(records, st)) \in Nat
        /\ k \in InState(records, st) <=> records[k].state = st
  <2> TAKE st \in ApprovalState
  <2>1. InState(records, st) \subseteq Stored BY InStateStored DEF AuditInv
  <2>2. IsFiniteSet(InState(records, st)) BY <1>5, <2>1, FS_Subset
  <2> QED BY <2>2, FS_CardinalityType DEF InState
<1>8. ASSUME NEW st \in {"approved", "rejected"}, NEW a \in Action,
             audit[a] = Cardinality(InState(records, st)),
             a \in ev <=> r.state = st /\ records[k].state # st,
             records[k].state = st => r.state = st
      PROVE  audit'[a] = Cardinality(InState(records', st))
  <2> DEFINE S == InState(records, st)
             T == InState(records', st)
  <2>1. /\ IsFiniteSet(S) /\ Cardinality(S) \in Nat /\ audit[a] = Cardinality(S)
        /\ k \in S <=> records[k].state = st
        /\ T = IF r.state = st THEN S \cup {k} ELSE S \ {k}
        /\ audit'[a] = audit[a] + IF a \in ev THEN 1 ELSE 0
    BY <1>1, <1>3, <1>7, <1>8 DEF ApprovalState
  <2> HIDE DEF S, T
  <2>2. CASE r.state = st
    <3>1. Cardinality(T) = IF k \in S THEN Cardinality(S) ELSE Cardinality(S) + 1
      BY <2>1, <2>2, FS_AddElement
    <3> QED BY <1>8, <2>1, <2>2, <3>1 DEF T
  <2>3. CASE r.state # st
    <3>1. T = S /\ a \notin ev BY <1>8, <2>1, <2>3
    <3>2. audit[a] \in Nat /\ audit'[a] = audit[a] + 0 BY <2>1, <3>1
    <3>3. audit'[a] = Cardinality(S) BY <2>1, <3>2
    <3> QED BY <3>1, <3>3, Zenon DEF T
  <2> QED BY <2>2, <2>3
<1>9. audit'["approval_escalated"] >= Cardinality(InState(records', "escalated"))
  <2> DEFINE S == InState(records, "escalated")
             T == InState(records', "escalated")
  <2>1. IsFiniteSet(S) /\ Cardinality(S) \in Nat /\ (k \in S <=> records[k].state = "escalated")
    BY <1>7 DEF ApprovalState
  <2>2. T = IF r.state = "escalated" THEN S \cup {k} ELSE S \ {k}
    BY <1>1 DEF ApprovalState
  <2>3. audit["approval_escalated"] >= Cardinality(S) BY <1>4
  <2>4. "approval_escalated" \in Action BY DEF Action
  <2> HIDE DEF S, T
  <2>5. CASE r.state = "escalated"
    <3>1. Cardinality(T) = IF k \in S THEN Cardinality(S) ELSE Cardinality(S) + 1
      BY <2>1, <2>2, <2>5, FS_AddElement
    <3> QED BY <1>3, <2>1, <2>3, <2>4, <2>5, <3>1 DEF T
  <2>6. CASE r.state # "escalated"
    <3>1. Cardinality(T) \in Nat /\ Cardinality(T) <= Cardinality(S)
      <4>1. T \in SUBSET S BY <2>2, <2>6
      <4> QED BY <2>1, <4>1, FS_Subset, FS_CardinalityType
    <3> QED BY <1>3, <2>1, <2>3, <2>4, <3>1 DEF T
  <2> QED BY <2>5, <2>6
<1>10. audit'["approval_recorded"] >= Cardinality(Slots')
  <2>1. IsFiniteSet(Slots) /\ Cardinality(Slots) \in Nat
    BY SlotsFinite, FS_CardinalityType DEF AuditInv
  <2>2. audit["approval_recorded"] >= Cardinality(Slots) BY <1>4
  <2>3. "approval_recorded" \in Action BY DEF Action
  <2>4. CASE ~Exists(k) \/ r.approvals = records[k].approvals
    <3>1. Slots' = Slots
      <4>1. CASE ~Exists(k)
        <5>1. Slots' = Slots \cup ({k} \X {}) BY <1>1, <4>1
        <5> QED BY <5>1
      <4>2. CASE Exists(k) BY <1>1, <2>4, <4>2
      <4> QED BY <4>1, <4>2
    <3> QED BY <1>3, <2>1, <2>2, <2>3, <3>1
  <2>5. CASE Exists(k) /\ r.approvals # records[k].approvals
    <3>1. PICK slot : r.approvals = records[k].approvals \cup {slot} BY <2>5
    <3>2. Slots' = Slots \cup {<<k, slot>>} BY <1>1, <2>5, <3>1
    <3>3. Cardinality(Slots') = Cardinality(Slots) \/ Cardinality(Slots') = Cardinality(Slots) + 1
      BY <2>1, <3>2, FS_AddElement
    <3>4. "approval_recorded" \in ev BY <2>5
    <3> QED BY <1>3, <2>1, <2>2, <2>3, <3>3, <3>4
  <2> QED BY <2>4, <2>5
<1>11. AuditMatchesRecords'
  <2>1. /\ audit'["approval_granted"] = Cardinality(InState(records', "approved"))
        /\ audit'["approval_rejected"] = Cardinality(InState(records', "rejected"))
    BY <1>4, <1>8 DEF Action
  <2> QED BY <1>6, <1>9, <1>10, <2>1 DEF AuditMatchesRecords, Stored, InState, Slots
<1> QED BY <1>5, <1>11 DEF AuditInv

(* Each operation names what it did in its events.                         *)
LEMMA AuditOfOperation ==
    ASSUME AuditInv, NEW s \in Services, NEW k \in Keys,
           \/ \E required \in 1..Cardinality(k.approvers), evidence \in 0..MaxEvidence :
                 Create(s, k, required, evidence)
           \/ \E approver \in Approvers, delegate \in People :
                 Delegate(s, k, approver, delegate)
           \/ AddEvidence(s, k)
           \/ RequestEvidence(s, k)
           \/ \E actor \in People : Approve(s, k, actor) \/ Reject(s, k, actor)
           \/ GrantWaiver(s, k)
           \/ \E due \in BOOLEAN : ExpireOrEscalate(s, k, due)
    PROVE  AuditInv'
<1> DEFINE old == records[k]
<1>1. IInv /\ IInv' BY OperationStep DEF AuditInv
<1>2. Exists(k) => Good(k, old) /\ old \in Record BY <1>1 DEF IInv, Good
<1>3. ~Exists(k) => old.state = "absent" BY DEF Exists, NoRecord
<1>4. ASSUME NEW r, NEW ev, Exists(k), Mutate(s, k, r, ev),
             r.approvals = old.approvals, r \in Record,
             "approval_created" \notin ev, "approval_granted" \notin ev,
             \/ r.state = old.state /\ ev \cap {"approval_rejected", "approval_escalated"} = {}
             \/ /\ old.state \notin Final /\ r.state \notin {"approved", "rejected"}
                /\ "approval_rejected" \notin ev
                /\ r.state = "escalated" => "approval_escalated" \in ev
             \/ /\ old.state \notin Final /\ r.state = "rejected" /\ "approval_rejected" \in ev
      PROVE  AuditInv'
  BY <1>1, <1>4, AuditOfCommit DEF Final
<1>5. ASSUME NEW required \in 1..Cardinality(k.approvers), NEW evidence \in 0..MaxEvidence,
             Create(s, k, required, evidence)
      PROVE  AuditInv'
  <2>1. CASE Exists(k) BY <1>2, <1>4, <1>5, <2>1 DEF Create
  <2>2. CASE ~Exists(k)
    <3> DEFINE r == NewRecord(k.approvers, required, evidence)
    <3>1. required \in Nat /\ evidence \in Nat BY ServiceAssumption, ApproversFinite
    <3>2. r \in Record /\ Mutate(s, k, r, {"approval_created"})
      BY <1>5, <2>2, <3>1, NewRecordGood DEF Create, Good
    <3>3. r.approvals = {} /\ r.state = "pending" BY DEF NewRecord
    <3> HIDE DEF r
    <3> QED BY <1>1, <1>3, <2>2, <3>2, <3>3, AuditOfCommit
  <2> QED BY <2>1, <2>2
<1>6. ASSUME NEW approver \in Approvers, NEW delegate \in People,
             Delegate(s, k, approver, delegate)
      PROVE  AuditInv'
  <2> DEFINE d == Delegated(old, approver, delegate)
  <2>1. Exists(k) /\ Mutate(s, k, d, {"approval_delegated"}) /\ d \in Record
    BY <1>2, <1>6, DelegatedGood DEF Delegate, Current, Good
  <2>2. d.state = old.state /\ d.approvals = old.approvals
    BY <1>2, <2>1 DEF Delegated, Record
  <2> HIDE DEF d
  <2> QED BY <1>4, <2>1, <2>2
<1>7. ASSUME NEW target \in ApprovalState, CanMove(old, target), Exists(k)
      PROVE  /\ Moved(old, target) \in Record /\ Moved(old, target).state = target
             /\ Moved(old, target).approvals = old.approvals /\ old.state \notin Final
  BY <1>2, <1>7 DEF Moved, Record, CanMove, Transitions, ApprovalState, Final
<1>8. CASE AddEvidence(s, k)
  <2>1. CanMove(old, "pending") /\ Exists(k) /\ Mutate(s, k, WithEvidence(old), {"evidence_added"})
    BY <1>8 DEF AddEvidence, CanAddEvidence, Current
  <2>2. /\ WithEvidence(old) \in Record /\ WithEvidence(old).state = "pending"
        /\ WithEvidence(old).approvals = old.approvals /\ old.state \notin Final
    <3>1. PICK m \in Record : /\ m = Moved(old, "pending") /\ m.state = "pending"
                              /\ m.approvals = old.approvals /\ old.state \notin Final
      BY <1>7, <2>1 DEF ApprovalState
    <3> QED BY <3>1 DEF Record, WithEvidence
  <2> QED BY <1>4, <2>1, <2>2
<1>9. CASE RequestEvidence(s, k)
  <2>1. /\ CanMove(old, "evidence_requested") /\ Exists(k)
        /\ Mutate(s, k, Moved(old, "evidence_requested"), {"evidence_requested"})
    BY <1>9 DEF RequestEvidence, CanRequestEvidence, Current
  <2> QED BY <1>4, <1>7, <2>1 DEF ApprovalState
<1>10. ASSUME NEW actor \in People, Reject(s, k, actor) PROVE AuditInv'
  <2>1. /\ CanMove(old, "rejected") /\ Exists(k)
        /\ Mutate(s, k, Moved(old, "rejected"), {"approval_rejected"})
    BY <1>10 DEF Reject, CanReject, Current
  <2> QED BY <1>4, <1>7, <2>1 DEF ApprovalState
<1>11. CASE GrantWaiver(s, k)
  <2>1. Exists(k) /\ Mutate(s, k, Waived(old), {"waiver_granted"})
    BY <1>11 DEF GrantWaiver, Current
  <2>2. /\ Waived(old) \in Record /\ Waived(old).state = old.state
        /\ Waived(old).approvals = old.approvals
    BY <1>2, <2>1 DEF Waived, Record
  <2> QED BY <1>4, <2>1, <2>2
<1>12. ASSUME NEW due \in BOOLEAN, ExpireOrEscalate(s, k, due) PROVE AuditInv'
  <2>1. CASE Escalates(old, due)
    <3>1. /\ CanMove(old, "escalated") /\ Exists(k)
          /\ Mutate(s, k, Moved(old, "escalated"), {"approval_escalated"})
      BY <1>12, <2>1 DEF ExpireOrEscalate, Current, Escalates, CanMove, Transitions, ApprovalState
    <3> QED BY <1>4, <1>7, <3>1 DEF ApprovalState
  <2>2. CASE ~Escalates(old, due)
    BY <1>2, <1>4, <1>12, <2>2 DEF ExpireOrEscalate, Current
  <2> QED BY <2>1, <2>2
<1>13. ASSUME NEW actor \in People, Approve(s, k, actor) PROVE AuditInv'
  <2> DEFINE a == Approved(old, actor)
             ev == ApprovalEvents(old, actor)
             slot == ApprovalSlot(old, actor)
  <2>1. Exists(k) /\ Mutate(s, k, a, ev) /\ CanApprove(old, actor) /\ a \in Record
    BY <1>2, <1>13, ApprovedGood DEF Approve, Current, Good
  <2>2. a.approvals = old.approvals \cup {slot} /\ "approval_recorded" \in ev
        /\ ev \subseteq {"approval_recorded", "approval_granted"}
    BY <1>2, <2>1 DEF Approved, Signed, Moved, Record, ApprovalEvents
  <2>3. CASE ThresholdMet(Signed(old, actor))
    <3>1. "approval_granted" \in ev BY <2>3 DEF ApprovalEvents
    <3>2. CanMove(old, "approved") BY <2>1, <2>3 DEF CanApprove
    <3>3. a.state = "approved" BY <1>2, <2>1, <2>3 DEF Approved, Signed, Moved, Record
    <3>4. old.state \notin Final BY <1>7, <2>1, <3>2 DEF ApprovalState
    <3> HIDE DEF a, ev, slot
    <3> QED BY <1>1, <2>1, <2>2, <3>1, <3>3, <3>4, AuditOfCommit DEF Final
  <2>4. CASE ~ThresholdMet(Signed(old, actor))
    <3>1. "approval_granted" \notin ev BY <2>4 DEF ApprovalEvents
    <3>2. a.state = old.state BY <1>2, <2>1, <2>4 DEF Approved, Signed, Record
    <3> HIDE DEF a, ev, slot
    <3> QED BY <1>1, <2>1, <2>2, <3>1, <3>2, AuditOfCommit
  <2> QED BY <2>3, <2>4
<1> QED BY <1>5, <1>6, <1>8, <1>9, <1>10, <1>11, <1>12, <1>13

(* The audit table explains the records, for any people, processes, keys   *)
(* and bounds: mutate stores a record and its events, or neither, and a    *)
(* call repeated after a lost answer is logged again only for what it does.*)
THEOREM AuditExplainsRecords == Spec => []AuditMatchesRecords
<1>1. Init => AuditInv
  <2> SUFFICES ASSUME Init PROVE AuditInv OBVIOUS
  <2>1. IInv BY InitIInv
  <2>2. \A k \in Keys : ~Exists(k) /\ records[k].state = "absent" BY DEF Init, Exists, NoRecord
  <2>3. Stored = {} /\ Slots = {} /\ (\A st \in ApprovalState : InState(records, st) = {})
    BY <2>2 DEF Stored, Slots, InState, ApprovalState
  <2>4. \A a \in Action : audit[a] = 0 BY DEF Init
  <2>5. /\ audit["approval_created"] = Cardinality(Stored)
        /\ audit["approval_granted"] = Cardinality(InState(records, "approved"))
        /\ audit["approval_rejected"] = Cardinality(InState(records, "rejected"))
        /\ audit["approval_recorded"] >= Cardinality(Slots)
        /\ audit["approval_escalated"] >= Cardinality(InState(records, "escalated"))
    BY <2>3, <2>4, FS_EmptySet DEF Action, ApprovalState
  <2>6. AuditMatchesRecords
    BY <2>5 DEF AuditMatchesRecords, Stored, Slots, InState
  <2> QED BY <2>1, <2>3, <2>6, FS_EmptySet DEF AuditInv
<1>2. AuditInv /\ [Next]_vars => AuditInv'
  <2> SUFFICES ASSUME AuditInv, [Next]_vars PROVE AuditInv' OBVIOUS
  <2>1. IInv' BY StepIInv DEF AuditInv
  <2>2. ASSUME records' = records, audit' = audit PROVE AuditInv'
    BY <2>1, <2>2 DEF AuditInv, AuditMatchesRecords, Stored, Exists
  <2>3. \A s \in Services : Return(s) \/ LoseAnswer(s) \/ Restart(s) \/ (\E k \in Keys : Read(s, k))
          => records' = records /\ audit' = audit
    BY DEF Return, LoseAnswer, Restart, Read
  <2>4. CASE UNCHANGED vars BY <2>2, <2>4 DEF vars
  <2>5. CASE Next BY <2>2, <2>3, <2>5, AuditOfOperation DEF Next
  <2> QED BY <2>4, <2>5
<1>3. AuditInv => AuditMatchesRecords BY DEF AuditInv
<1> QED BY <1>1, <1>2, <1>3, PTL DEF Spec
=============================================================================
