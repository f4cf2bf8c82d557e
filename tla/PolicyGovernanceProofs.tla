----------------------- MODULE PolicyGovernanceProofs -----------------------
(***************************************************************************)
(* The governance of policies for any number of policies, definitions,     *)
(* samples and signed records: what is enforced was promoted by its        *)
(* present owner, one stage after the other, and can always be taken back. *)
(***************************************************************************)
EXTENDS PolicyGovernance, TLAPS

Basis == {NoBasis} \cup [approval : OwnerApproval, drill : RollbackDrill \cup {NoDrill}]

(* The types of TypeOK, and that of the history.                           *)
Types ==
    /\ registry \in [Policies -> Entry \cup {Absent}]
    /\ legacy \in BOOLEAN
    /\ signed \in [observations : SUBSET Observation, approvals : SUBSET OwnerApproval,
                   drills : SUBSET RollbackDrill]
    /\ now \in Time
    /\ basis \in [Policies -> [Enforcing -> Basis]]

LEMMA Ranks ==
    ASSUME NEW m \in Mode, NEW n \in Mode
    PROVE  /\ Rank[m] \in 0..3
           /\ Rank[m] = Rank[n] => m = n
           /\ m \in Enforcing <=> Rank[m] >= 2
           /\ m \in Observing <=> Rank[m] < 2
           /\ m = "blocking" <=> Rank[m] = 3
  BY DEF Mode, Rank, Enforcing, Observing

LEMMA EntryNotAbsent == \A e \in Entry : e # Absent /\ e.mode \in Mode /\ e.def \in Definitions
  BY DEF Entry, Absent, Mode

(* A change that needs no bundle: what it enforces was enforced before, of *)
(* the same definition and at least as strictly.                           *)
LEMMA ChangeOnlyRelaxes ==
    ASSUME Types, NEW p \in Policies, NEW entry \in Entry,
           NeedsNoBundle(registry[p], entry), entry.mode \in Enforcing
    PROVE  /\ registry[p] \in Entry
           /\ registry[p].def = entry.def
           /\ Rank[entry.mode] <= Rank[registry[p].mode]
<1>1. entry.mode \in Mode /\ entry.mode \notin Observing
  BY EntryNotAbsent DEF Enforcing, Observing
<1>2. registry[p] # Absent /\ registry[p].def = entry.def
  BY <1>1 DEF NeedsNoBundle, DefinitionChanged
<1>3. registry[p] \in Entry BY <1>2 DEF Types
<1>4. ~(Rank[entry.mode] > Rank[registry[p].mode])
  BY <1>2 DEF NeedsNoBundle, Promotes
<1>5. Rank[entry.mode] \in 0..3 /\ Rank[registry[p].mode] \in 0..3
  BY <1>1, <1>3, EntryNotAbsent, Ranks
<1> QED BY <1>2, <1>3, <1>4, <1>5

(* A promotion: one stage, by its owner, of the definition that stays.     *)
LEMMA PromotionIsApproved ==
    ASSUME Types, ~Misfiled, NEW p \in Policies, NEW entry \in Entry, NEW b \in Bundle,
           Promotable(p, registry[p], entry, b)
    PROVE  /\ registry[p] \in Entry
           /\ Rank[entry.mode] = Rank[registry[p].mode] + 1
           /\ b.approval \in signed.approvals
           /\ b.approval.policy = p
           /\ b.approval.target = entry.mode
           /\ b.approval.owner = registry[p].def.owner
           /\ entry.mode \in Enforcing => registry[p].def = entry.def
<1>1. registry[p] # Absent BY DEF Promotable, Promotes
<1>2. registry[p] \in Entry BY <1>1 DEF Types
<1>3. b.approval \in signed.approvals /\ b.drill \in signed.drills \cup {NoDrill}
  BY DEF Bundle
<1>4. b.approval.policy = p BY DEF Promotable
<1>5. b.approval.owner = registry[p].def.owner
  BY <1>4 DEF Promotable, Eligible, ApprovalBinds
<1>6. entry.mode \in Enforcing => registry[p].def = entry.def
  BY DEF Promotable, DefinitionChanged, Enforcing, Observing
<1> QED BY <1>2, <1>3, <1>4, <1>5, <1>6 DEF Promotable

-----------------------------------------------------------------------------
(* What each step does to the registry and to what promotions rested on.   *)
Relaxed(p, entry) ==
    /\ entry \in Entry /\ NeedsNoBundle(registry[p], entry)
    /\ registry' = [registry EXCEPT ![p] = entry]
    /\ UNCHANGED <<signed, basis>>

Promoted(p, entry, b) ==
    /\ entry \in Entry /\ b \in Bundle /\ Promotable(p, registry[p], entry, b)
    /\ registry' = [registry EXCEPT ![p] = entry]
    /\ basis' = IF entry.mode \in Enforcing
                THEN [basis EXCEPT ![p][entry.mode] =
                        [approval |-> b.approval, drill |-> b.drill]]
                ELSE basis
    /\ signed' = signed

Unmoved ==
    /\ UNCHANGED <<registry, basis>>
    /\ signed.approvals \subseteq signed'.approvals

LEMMA Signing ==
    ASSUME Types, NEW kind \in {"observations", "approvals", "drills"}, NEW record,
           record \in CASE kind = "observations" -> Observation
                        [] kind = "approvals" -> OwnerApproval
                        [] kind = "drills" -> RollbackDrill,
           Sign(kind, record)
    PROVE  Types' /\ Unmoved
<1>1. /\ signed' \in [observations : SUBSET Observation, approvals : SUBSET OwnerApproval,
                      drills : SUBSET RollbackDrill]
      /\ signed.approvals \subseteq signed'.approvals
  BY DEF Types, Sign
<1> QED BY <1>1 DEF Types, Sign, Unmoved

LEMMA Steps ==
    ASSUME Types, [Next]_vars
    PROVE  \/ Unmoved /\ Types'
           \/ \E p \in Policies, entry \in Entry : Relaxed(p, entry) /\ Types'
           \/ \E p \in Policies, entry \in Entry, b \in Bundle :
                 Promoted(p, entry, b) /\ Types'
<1>1. CASE UNCHANGED vars BY <1>1 DEF vars, Types, Unmoved
<1>2. CASE Tick
  BY <1>2, GovernanceAssumption DEF Tick, Types, Unmoved, Time, GovernanceAssumption
<1>3. ASSUME NEW s \in Samples, Observe(s) PROVE Unmoved /\ Types'
  <2>1. [sample |-> s, at |-> now] \in Observation BY DEF Types, Observation
  <2> QED BY <1>3, <2>1, Signing DEF Observe
<1>4. ASSUME NEW p \in Policies, ApproveNext(p) PROVE Unmoved /\ Types'
  <2>1. registry[p] \in Entry BY <1>4 DEF ApproveNext, Types
  <2> DEFINE record == [policy |-> p, from |-> registry[p].mode,
                        target |-> NextMode[registry[p].mode],
                        owner |-> registry[p].def.owner, at |-> now]
  <2>2. registry[p].mode \in Mode \ {"blocking"} /\ registry[p].def \in Definitions
    BY <1>4, <2>1, EntryNotAbsent DEF ApproveNext
  <2>3. NextMode[registry[p].mode] \in Mode BY <2>2 DEF NextMode, Mode
  <2>4. record \in OwnerApproval BY <2>2, <2>3 DEF OwnerApproval, Types
  <2> HIDE DEF record
  <2>5. Sign("approvals", record) BY <1>4 DEF ApproveNext, record
  <2> QED BY <2>4, <2>5, Signing
<1>5. ASSUME NEW p \in Policies, NEW passed \in BOOLEAN, Drill(p, passed) PROVE Unmoved /\ Types'
  <2>1. registry[p] \in Entry BY <1>5 DEF Drill, Types
  <2> DEFINE record == [policy |-> p, owner |-> registry[p].def.owner,
                        passed |-> passed, at |-> now]
  <2>2. record \in RollbackDrill
    BY <2>1, EntryNotAbsent DEF RollbackDrill, Types
  <2> HIDE DEF record
  <2>3. Sign("drills", record) BY <1>5 DEF Drill, record
  <2> QED BY <2>2, <2>3, Signing
<1>6. ASSUME NEW p \in Policies, NEW entry \in Entry, Change(p, entry)
      PROVE  Relaxed(p, entry) /\ Types'
  <2>1. registry' \in [Policies -> Entry \cup {Absent}]
    BY <1>6 DEF Change, Types
  <2> QED BY <1>6, <2>1 DEF Change, Types, Relaxed
<1>7. ASSUME NEW p \in Policies, NEW entry \in Entry, NEW b \in Bundle, Promote(p, entry, b)
      PROVE  Promoted(p, entry, b) /\ Types'
  <2>1. registry' \in [Policies -> Entry \cup {Absent}]
    BY <1>7 DEF Promote, Types
  <2>2. [approval |-> b.approval, drill |-> b.drill] \in Basis
    <3>1. b.approval \in signed.approvals /\ b.drill \in signed.drills \cup {NoDrill}
      BY DEF Bundle
    <3>2. b.approval \in OwnerApproval /\ b.drill \in RollbackDrill \cup {NoDrill}
      BY <3>1 DEF Types
    <3> QED BY <3>2 DEF Basis
  <2>3. basis' \in [Policies -> [Enforcing -> Basis]]
    BY <1>7, <2>2 DEF Promote, Types
  <2> QED BY <1>7, <2>1, <2>3 DEF Promote, Types, Promoted
<1> QED BY <1>1, <1>2, <1>3, <1>4, <1>5, <1>6, <1>7 DEF Next

LEMMA InitTypes == Init => Types
<1> SUFFICES ASSUME Init PROVE Types OBVIOUS
<1>1. registry \in [Policies -> Entry \cup {Absent}] BY DEF Init
<1>2. legacy \in BOOLEAN BY DEF Init
<1>3. signed \in [observations : SUBSET Observation, approvals : SUBSET OwnerApproval,
                  drills : SUBSET RollbackDrill]
  BY DEF Init
<1>4. now \in Time BY GovernanceAssumption DEF Init, Time, GovernanceAssumption
<1>5. basis \in [Policies -> [Enforcing -> Basis]] BY DEF Init, Basis
<1> QED BY <1>1, <1>2, <1>3, <1>4, <1>5 DEF Types

LEMMA TypesHold == Spec => []Types
<1>1. Types /\ [Next]_vars => Types' BY Steps
<1> QED BY <1>1, InitTypes, PTL DEF Spec

-----------------------------------------------------------------------------
(* Every stage on the way to the present mode rests on an approval.        *)
Based(p, m) ==
    /\ basis[p][m] # NoBasis
    /\ basis[p][m].approval \in signed.approvals
    /\ basis[p][m].approval.policy = p
    /\ basis[p][m].approval.target = m
    /\ basis[p][m].approval.owner = registry[p].def.owner

LEMMA EnforcedByStages ==
    EnforcedIsApproved <=>
        \A p \in Policies : \A m \in Enforcing :
            (registry[p].mode \in Enforcing /\ Rank[m] <= Rank[registry[p].mode]) => Based(p, m)
  BY DEF EnforcedIsApproved, Based

LEMMA UnmovedBased ==
    ASSUME NEW p \in Policies, NEW m \in Enforcing, Based(p, m),
           basis'[p] = basis[p], signed.approvals \subseteq signed'.approvals,
           registry'[p].def = registry[p].def
    PROVE  Based(p, m)'
  BY DEF Based

LEMMA EnforcedStep ==
    ASSUME ~Misfiled, Types, EnforcedIsApproved, [Next]_vars
    PROVE  EnforcedIsApproved'
<1> DEFINE Stages(p) == \A m \in Enforcing :
              (registry[p].mode \in Enforcing /\ Rank[m] <= Rank[registry[p].mode]) => Based(p, m)
<1>0. \A p \in Policies : Stages(p) BY EnforcedByStages
<1>a. SUFFICES ASSUME NEW p \in Policies, NEW m \in Enforcing,
                      registry'[p].mode \in Enforcing, Rank[m] <= Rank[registry'[p].mode]
               PROVE  Based(p, m)'
  BY DEF EnforcedIsApproved, Based
<1>1. CASE Unmoved
  <2>1. Based(p, m) BY <1>0, <1>1, <1>a DEF Unmoved
  <2> QED BY <1>1, <2>1, UnmovedBased DEF Unmoved
<1>2. ASSUME NEW q \in Policies, NEW entry \in Entry, Relaxed(q, entry) PROVE Based(p, m)'
  <2>1. CASE q # p
    <3>1. registry'[p] = registry[p] BY <1>2, <2>1 DEF Relaxed, Types
    <3>2. Based(p, m) BY <1>0, <1>a, <3>1
    <3> QED BY <1>2, <3>1, <3>2, UnmovedBased DEF Relaxed
  <2>2. CASE q = p
    <3>1. registry'[p] = entry BY <1>2, <2>2 DEF Relaxed, Types
    <3>2. /\ registry[p] \in Entry /\ registry[p].def = entry.def
          /\ Rank[entry.mode] <= Rank[registry[p].mode]
      BY <1>2, <1>a, <2>2, <3>1, ChangeOnlyRelaxes DEF Relaxed
    <3>3. {m, entry.mode, registry[p].mode} \subseteq Mode
      BY <3>2, EntryNotAbsent DEF Enforcing, Mode
    <3>4. registry[p].mode \in Enforcing /\ Rank[m] <= Rank[registry[p].mode]
      BY <1>a, <3>1, <3>2, <3>3, Ranks
    <3>5. Based(p, m) BY <1>0, <3>4
    <3> QED BY <1>2, <3>1, <3>2, <3>5, UnmovedBased DEF Relaxed
  <2> QED BY <2>1, <2>2
<1>3. ASSUME NEW q \in Policies, NEW entry \in Entry, NEW b \in Bundle, Promoted(q, entry, b)
      PROVE  Based(p, m)'
  <2>1. CASE q # p
    <3>1. registry'[p] = registry[p] /\ basis'[p] = basis[p]
      BY <1>3, <2>1 DEF Promoted, Types
    <3>2. Based(p, m) BY <1>0, <1>a, <3>1
    <3> QED BY <1>3, <3>1, <3>2, UnmovedBased DEF Promoted
  <2>2. CASE q = p
    <3>1. registry'[p] = entry /\ entry.mode \in Enforcing
      BY <1>3, <1>a, <2>2 DEF Promoted, Types
    <3>2. /\ registry[p] \in Entry
          /\ Rank[entry.mode] = Rank[registry[p].mode] + 1
          /\ b.approval \in signed.approvals
          /\ b.approval.policy = p
          /\ b.approval.target = entry.mode
          /\ b.approval.owner = registry[p].def.owner
          /\ registry[p].def = entry.def
      BY <1>3, <2>2, <3>1, PromotionIsApproved DEF Promoted
    <3>3. {m, entry.mode, registry[p].mode} \subseteq Mode
      BY <3>2, EntryNotAbsent DEF Enforcing, Mode
    <3>4. basis' = [basis EXCEPT ![p][entry.mode] =
                      [approval |-> b.approval, drill |-> b.drill]]
      BY <1>3, <2>2, <3>1 DEF Promoted
    <3>5. CASE m = entry.mode
      <4>1. basis'[p][m] = [approval |-> b.approval, drill |-> b.drill]
        BY <3>1, <3>4, <3>5 DEF Types
      <4>2. basis'[p][m] # NoBasis BY <4>1 DEF NoBasis
      <4>3. signed' = signed BY <1>3 DEF Promoted
      <4> QED BY <3>1, <3>2, <3>5, <4>1, <4>2, <4>3 DEF Based
    <3>6. CASE m # entry.mode
      <4>1. basis'[p][m] = basis[p][m] BY <1>a, <3>1, <3>4, <3>6 DEF Types
      <4>2. registry[p].mode \in Enforcing /\ Rank[m] <= Rank[registry[p].mode]
        BY <1>a, <3>1, <3>2, <3>3, <3>6, Ranks
      <4>3. Based(p, m) BY <1>0, <4>2
      <4> QED BY <1>3, <3>1, <3>2, <4>1, <4>3 DEF Based, Promoted
    <3> QED BY <3>5, <3>6
  <2> QED BY <2>1, <2>2
<1> QED BY <1>1, <1>2, <1>3, Steps

LEMMA EnforcedInit == Init => EnforcedIsApproved
<1> SUFFICES ASSUME Init, NEW p \in Policies PROVE registry[p].mode \notin Enforcing
  BY DEF EnforcedIsApproved
<1>1. CASE registry = [q \in Policies |-> Absent] BY <1>1 DEF Absent, Enforcing
<1>2. CASE registry \in [Policies -> {e \in Entry : e.mode \in Observing}]
  BY <1>2 DEF Enforcing, Observing
<1> QED BY <1>1, <1>2 DEF Init

(* As long as bundles are filed under their own policy, every enforced     *)
(* policy was promoted, stage after stage, by the owner it has today.      *)
THEOREM OnlyOwnersEnforce == Spec /\ ~Misfiled => []EnforcedIsApproved
<1>1. ~Misfiled /\ Types /\ EnforcedIsApproved /\ [Next]_vars => EnforcedIsApproved'
  BY EnforcedStep
<1>2. CASE ~Misfiled
  <2>1. Types /\ EnforcedIsApproved /\ [Next]_vars => EnforcedIsApproved' BY <1>1, <1>2
  <2> QED BY <2>1, EnforcedInit, TypesHold, PTL DEF Spec
<1>3. CASE Misfiled BY <1>3
<1> QED BY <1>2, <1>3

(* Types; what is enforced was promoted.                                   *)
THEOREM TypeCorrect == Spec /\ ~Misfiled => []TypeOK
<1>1. Types /\ EnforcedIsApproved => TypeOK
  <2> SUFFICES ASSUME Types, EnforcedIsApproved, NEW p \in Policies,
                      registry[p].mode \in Enforcing
               PROVE  basis[p][registry[p].mode] # NoBasis
    BY DEF Types, TypeOK
  <2>1. Rank[registry[p].mode] \in 0..3 BY Ranks DEF Enforcing, Mode
  <2> QED BY <2>1 DEF EnforcedIsApproved
<1> QED BY <1>1, TypesHold, OnlyOwnersEnforce, PTL

-----------------------------------------------------------------------------
LEMMA PromotionToBlockingIsPrecise ==
    ASSUME Types, ~Misfiled, NEW p \in Policies, NEW entry \in Entry, NEW b \in Bundle,
           Promotable(p, registry[p], entry, b), entry.mode = "blocking"
    PROVE  /\ entry.def.precision = "high"
           /\ b.drill # NoDrill /\ b.drill.passed
           /\ b.drill.policy = p /\ b.drill.owner = entry.def.owner
<1>1. /\ registry[p].def = entry.def
      /\ b.approval.policy = p /\ b.approval.target = "blocking"
  BY PromotionIsApproved DEF Enforcing
<1>2. MayBlock(b) BY DEF Promotable, Eligible
<1> QED BY <1>1, <1>2 DEF MayBlock

LEMMA BlockingStep ==
    ASSUME ~Misfiled, Types, BlockingIsPrecise, [Next]_vars
    PROVE  BlockingIsPrecise'
<1> DEFINE Precise(p) ==
        registry[p].mode = "blocking" =>
            /\ registry[p].def.precision = "high"
            /\ basis[p].blocking.drill # NoDrill /\ basis[p].blocking.drill.passed
            /\ basis[p].blocking.drill.policy = p
            /\ basis[p].blocking.drill.owner = registry[p].def.owner
<1>0. \A p \in Policies : Precise(p) BY DEF BlockingIsPrecise
<1>a. SUFFICES ASSUME NEW p \in Policies PROVE Precise(p)'
  BY DEF BlockingIsPrecise
<1>1. CASE Unmoved BY <1>0, <1>1 DEF Unmoved
<1>2. ASSUME NEW q \in Policies, NEW entry \in Entry, Relaxed(q, entry) PROVE Precise(p)'
  <2>1. CASE q # p BY <1>0, <1>2, <2>1 DEF Relaxed, Types
  <2>2. CASE q = p
    <3>1. registry'[p] = entry /\ basis' = basis BY <1>2, <2>2 DEF Relaxed, Types
    <3>2. SUFFICES ASSUME entry.mode = "blocking" PROVE Precise(p)' BY <3>1
    <3>3. /\ registry[p] \in Entry /\ registry[p].def = entry.def
          /\ Rank[entry.mode] <= Rank[registry[p].mode]
      BY <1>2, <2>2, <3>2, ChangeOnlyRelaxes DEF Relaxed, Enforcing
    <3>4. registry[p].mode = "blocking"
      BY <3>2, <3>3, EntryNotAbsent, Ranks DEF Mode
    <3> QED BY <1>0, <3>1, <3>3, <3>4
  <2> QED BY <2>1, <2>2
<1>3. ASSUME NEW q \in Policies, NEW entry \in Entry, NEW b \in Bundle, Promoted(q, entry, b)
      PROVE  Precise(p)'
  <2>1. CASE q # p
    <3>1. registry'[p] = registry[p] /\ basis'[p] = basis[p]
      BY <1>3, <2>1 DEF Promoted, Types
    <3> QED BY <1>0, <3>1
  <2>2. CASE q = p
    <3>1. registry'[p] = entry BY <1>3, <2>2 DEF Promoted, Types
    <3>2. SUFFICES ASSUME entry.mode = "blocking" PROVE Precise(p)' BY <3>1
    <3>3. basis'[p].blocking = [approval |-> b.approval, drill |-> b.drill]
      <4>1. basis' = [basis EXCEPT ![p]["blocking"] =
                        [approval |-> b.approval, drill |-> b.drill]]
        BY <1>3, <2>2, <3>2 DEF Promoted, Enforcing
      <4> QED BY <4>1 DEF Types, Enforcing
    <3> QED BY <1>3, <2>2, <3>1, <3>2, <3>3, PromotionToBlockingIsPrecise DEF Promoted
  <2> QED BY <2>1, <2>2
<1> QED BY <1>1, <1>2, <1>3, Steps

(* As long as bundles are filed under their own policy, what blocks is     *)
(* precise, and its present owner has rehearsed taking it back.            *)
THEOREM OnlyPreciseBlock == Spec /\ ~Misfiled => []BlockingIsPrecise
<1>1. Init => BlockingIsPrecise
  <2> SUFFICES ASSUME Init, NEW p \in Policies PROVE registry[p].mode # "blocking"
    BY DEF BlockingIsPrecise
  <2>1. CASE registry = [q \in Policies |-> Absent] BY <2>1 DEF Absent
  <2>2. CASE registry \in [Policies -> {e \in Entry : e.mode \in Observing}]
    BY <2>2 DEF Observing
  <2> QED BY <2>1, <2>2 DEF Init
<1>2. CASE ~Misfiled
  <2>1. Types /\ BlockingIsPrecise /\ [Next]_vars => BlockingIsPrecise'
    BY <1>2, BlockingStep
  <2> QED BY <1>1, <2>1, TypesHold, PTL DEF Spec
<1>3. CASE Misfiled BY <1>3
<1> QED BY <1>2, <1>3

(* Whatever evidence there is, any policy can be taken back to any earlier *)
(* stage.                                                                  *)
THEOREM RollbackNeedsNothing == Spec => []RollbackAlwaysOpen
<1>1. Types => RollbackAlwaysOpen
  <2> SUFFICES ASSUME Types, NEW p \in Policies, registry[p] # Absent, NEW m \in Mode,
                      Rank[m] < Rank[registry[p].mode]
               PROVE  NeedsNoBundle(registry[p], [registry[p] EXCEPT !.mode = m])
    BY DEF RollbackAlwaysOpen
  <2> DEFINE back == [registry[p] EXCEPT !.mode = m]
  <2>1. registry[p] \in Entry BY DEF Types
  <2>2. back.mode = m /\ back.def = registry[p].def BY <2>1 DEF Entry
  <2>3. ~(Rank[back.mode] > Rank[registry[p].mode])
    BY <2>1, <2>2, EntryNotAbsent, Ranks
  <2> HIDE DEF back
  <2> QED BY <2>2, <2>3 DEF NeedsNoBundle, DefinitionChanged, Promotes, back
<1> QED BY <1>1, TypesHold, PTL

-----------------------------------------------------------------------------
LEMMA LadderStep ==
    ASSUME Types, [Next]_vars
    PROVE  [Ladder!Next]_[p \in Policies |-> registry[p].mode]
<1> DEFINE stage == [p \in Policies |-> registry[p].mode]
<1>0. /\ DOMAIN stage' = Policies
      /\ \A p \in Policies : stage[p] = registry[p].mode /\ stage'[p] = registry'[p].mode
  OBVIOUS
<1>a. SUFFICES ASSUME NEW p \in Policies
               PROVE  Ladder!Register(p) \/ Ladder!Promote(p) \/ Ladder!Rollback(p)
                      \/ stage'[p] = stage[p]
  BY <1>0 DEF Ladder!Next
<1>1. CASE Unmoved BY <1>0, <1>1 DEF Unmoved
<1>2. ASSUME NEW q \in Policies, NEW entry \in Entry, Relaxed(q, entry)
      PROVE  Ladder!Register(p) \/ Ladder!Rollback(p) \/ stage'[p] = stage[p]
  <2>1. CASE q # p BY <1>0, <1>2, <2>1 DEF Relaxed, Types
  <2>2. CASE q = p
    <3>1. registry'[p] = entry BY <1>2, <2>2 DEF Relaxed, Types
    <3>2. CASE registry[p] = Absent
      <4>1. stage[p] = "unregistered" /\ stage'[p] \in {"draft", "shadow"}
        BY <1>0, <1>2, <2>2, <3>1, <3>2 DEF Relaxed, NeedsNoBundle, Observing, Absent
      <4> QED BY <4>1 DEF Ladder!Register
    <3>3. CASE registry[p] # Absent
      <4>1. registry[p] \in Entry BY <3>3 DEF Types
      <4>2. registry[p].mode \in Mode /\ entry.mode \in Mode
        BY <4>1, EntryNotAbsent
      <4>3. ~(Rank[entry.mode] > Rank[registry[p].mode])
        BY <1>2, <2>2, <3>3 DEF Relaxed, NeedsNoBundle, Promotes
      <4>4. entry.mode = registry[p].mode \/ Rank[entry.mode] < Rank[registry[p].mode]
        BY <4>2, <4>3, Ranks
      <4>5. Rank[entry.mode] < Rank[registry[p].mode] => Ladder!Rollback(p)
        BY <1>0, <3>1, <4>2 DEF Ladder!Rollback, Ladder!Mode, Ladder!Rank, Mode, Rank
      <4> QED BY <1>0, <3>1, <4>4, <4>5
    <3> QED BY <3>2, <3>3
  <2> QED BY <2>1, <2>2
<1>3. ASSUME NEW q \in Policies, NEW entry \in Entry, NEW b \in Bundle, Promoted(q, entry, b)
      PROVE  Ladder!Promote(p) \/ stage'[p] = stage[p]
  <2>1. CASE q # p BY <1>0, <1>3, <2>1 DEF Promoted, Types
  <2>2. CASE q = p
    <3>1. registry'[p] = entry BY <1>3, <2>2 DEF Promoted, Types
    <3>2. registry[p] # Absent /\ Rank[entry.mode] = Rank[registry[p].mode] + 1
      BY <1>3, <2>2 DEF Promoted, Promotable, Promotes
    <3>3. registry[p].mode \in Mode /\ entry.mode \in Mode
      BY <3>2, EntryNotAbsent DEF Types
    <3> QED BY <1>0, <3>1, <3>2, <3>3
            DEF Ladder!Promote, Ladder!Mode, Ladder!Rank, Mode, Rank
  <2> QED BY <2>1, <2>2
<1> QED BY <1>1, <1>2, <1>3, Steps

(* The registry, changed by proposals that pass the gate, follows the life *)
(* of a policy: one stage up at a time.                                    *)
THEOREM RegistryKeepsLadder == Spec => KeepsLadder
<1>1. Init => Ladder!Init
  <2> SUFFICES ASSUME Init PROVE Ladder!Init OBVIOUS
  <2>1. CASE registry = [q \in Policies |-> Absent]
    BY <2>1 DEF Ladder!Init, Absent
  <2>2. CASE registry \in [Policies -> {e \in Entry : e.mode \in Observing}]
    BY <2>2 DEF Ladder!Init, Observing
  <2> QED BY <2>1, <2>2 DEF Init
<1>2. Types /\ [Next]_vars => [Ladder!Next]_[p \in Policies |-> registry[p].mode]
  BY LadderStep
<1> QED BY <1>1, <1>2, TypesHold, PTL DEF Spec, KeepsLadder, Ladder!Spec
=============================================================================
