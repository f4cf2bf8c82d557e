-------------------------- MODULE PolicyGovernance --------------------------
(***************************************************************************)
(* How a policy gets to stop changes: the registry (policy/registry.py),   *)
(* the signed evidence that the organization collects about policies       *)
(* (policy/calibration.py), and the gate that every change of the registry *)
(* passes (policy/governance_gate.py).                                     *)
(*                                                                         *)
(* A promotion brings a bundle: observations, the approval of the owner    *)
(* and a rollback drill, each signed on its own and valid for good, and    *)
(* put together by whoever proposes the change.  The checks of one policy  *)
(* read no other, so a change touches one policy here.  A bundle with a    *)
(* record that nobody signed, or with a head that is not that of its       *)
(* approval, is refused, and is left out.                                  *)
(***************************************************************************)
EXTENDS Naturals, FiniteSets

CONSTANTS
    Policies,
    Definitions,   \* the fields that _definition_changed compares: [owner, precision, rule]
    Samples,       \* changes people label: [id, expected, triggered]
    Gates,         \* [samples, positives, negatives] and, in percent, [fp, fn, unknown]
    MaxTime,       \* bound on the clock
    MaxRecords,    \* bound on the signed records
    Misfiled       \* whether the file of one policy may hold the bundle of another

ASSUME GovernanceAssumption ==
    /\ \A s \in Samples : s.expected \in {"violation", "none", "unknown"}
                          /\ s.triggered \in BOOLEAN
    /\ \A field \in {"samples", "positives", "negatives", "fp", "fn", "unknown"} :
          Gates[field] \in Nat
    /\ MaxTime \in Nat /\ MaxRecords \in Nat /\ Misfiled \in BOOLEAN

VARIABLES
    registry,  \* the merged registry: an entry per policy, or none
    legacy,    \* whether it is in the format without file patterns
    signed,    \* the records signed so far
    now,
    basis      \* history: per policy and stage, what its last promotion rested on

vars == <<registry, legacy, signed, now, basis>>

Mode == {"draft", "shadow", "warning", "blocking"}
Rank == [draft |-> 0, shadow |-> 1, warning |-> 2, blocking |-> 3]
NextMode == [draft |-> "shadow", shadow |-> "warning", warning |-> "blocking"]
Observing == {"draft", "shadow"}
Enforcing == {"warning", "blocking"}

Absent == [mode |-> "unregistered"]
Entry == [mode : Mode, def : Definitions]

Time == 0..MaxTime
Observation == [sample : Samples, at : Time]
OwnerApproval == [policy : Policies, from : Mode, target : Mode,
                  owner : {d.owner : d \in Definitions}, at : Time]
RollbackDrill == [policy : Policies, owner : {d.owner : d \in Definitions},
                  passed : BOOLEAN, at : Time]
NoDrill == [policy |-> "none"]
NoBasis == [approval |-> "none"]

(* The evidence a bundle may be assembled from.                            *)
Bundle ==
    [start : Time, end : Time, approval : signed.approvals,
     drill : signed.drills \cup {NoDrill},
     observations : SUBSET signed.observations, repeated : BOOLEAN]

Init ==
    /\ \/ legacy = FALSE /\ registry = [p \in Policies |-> Absent]
       \/ legacy = TRUE /\ registry \in [Policies -> {e \in Entry : e.mode \in Observing}]
    /\ signed = [observations |-> {}, approvals |-> {}, drills |-> {}]
    /\ now = 0
    /\ basis = [p \in Policies |-> [m \in Enforcing |-> NoBasis]]

-----------------------------------------------------------------------------
(* People label governed changes, owners approve promotions of the policy  *)
(* as it is registered, operations rehearse its rollback.                  *)
Records ==
    Cardinality(signed.observations) + Cardinality(signed.approvals)
      + Cardinality(signed.drills)

Sign(kind, record) ==
    /\ Records < MaxRecords
    /\ signed' = [signed EXCEPT ![kind] = @ \cup {record}]
    /\ UNCHANGED <<registry, legacy, now, basis>>

Observe(s) == Sign("observations", [sample |-> s, at |-> now])

ApproveNext(p) ==
    /\ registry[p] # Absent /\ registry[p].mode # "blocking"
    /\ Sign("approvals", [policy |-> p, from |-> registry[p].mode,
                          target |-> NextMode[registry[p].mode],
                          owner |-> registry[p].def.owner, at |-> now])

Drill(p, passed) ==
    /\ registry[p] # Absent
    /\ Sign("drills", [policy |-> p, owner |-> registry[p].def.owner,
                       passed |-> passed, at |-> now])

Tick ==
    /\ now < MaxTime
    /\ now' = now + 1
    /\ UNCHANGED <<registry, legacy, signed, basis>>

-----------------------------------------------------------------------------
(* A faulty version: the approval of any owner will do.                    *)
ApprovalOfAnybody(b) ==
    LET policy == registry[b.approval.policy]
    IN  /\ policy # Absent
        /\ policy.mode = b.approval.from
        /\ b.approval.target = NextMode[b.approval.from]
        /\ b.start <= b.approval.at

(* verify_bundle: an approval by the owner of the policy, as it is         *)
(* registered, for the stage after its present one, not older than the     *)
(* window.                                                                 *)
ApprovalBinds(b) ==
    LET policy == registry[b.approval.policy]
    IN  /\ policy # Absent
        /\ policy.mode = b.approval.from
        /\ b.approval.target = NextMode[b.approval.from]
        /\ b.approval.owner = policy.def.owner
        /\ b.start <= b.approval.at

(* To block, a policy has high precision and its rollback was rehearsed by *)
(* its owner since the window began.                                       *)
MayBlock(b) ==
    LET policy == registry[b.approval.policy]
    IN  b.approval.target = "blocking" =>
            /\ policy.def.precision = "high"
            /\ b.drill # NoDrill
            /\ b.drill.passed
            /\ b.drill.policy = b.approval.policy
            /\ b.drill.owner = policy.def.owner
            /\ b.drill.at >= b.start

(* Each sample once, all within the window, enough of either kind, and     *)
(* few errors among them.  Rates are compared as integers.                 *)
Measured(b) ==
    LET Labelled(what) == {o \in b.observations : o.sample.expected = what}
        Count(what) == Cardinality(Labelled(what))
        total == Cardinality(b.observations)
        falsePositives == Cardinality({o \in Labelled("none") : o.sample.triggered})
        falseNegatives == Cardinality({o \in Labelled("violation") : ~o.sample.triggered})
    IN  /\ b.start < b.end
        /\ ~b.repeated
        /\ \A o, q \in b.observations : o.sample.id = q.sample.id => o = q
        /\ \A o \in b.observations : o.at \in b.start..b.end
        /\ total >= Gates.samples
        /\ Count("violation") >= Gates.positives
        /\ Count("none") >= Gates.negatives
        /\ falsePositives * 100 <= Gates.fp * Count("none")
        /\ falseNegatives * 100 <= Gates.fn * Count("violation")
        /\ Count("unknown") * 100 <= Gates.unknown * total

Eligible(b) == ApprovalBinds(b) /\ MayBlock(b) /\ Measured(b)

-----------------------------------------------------------------------------
(* A faulty version: the precision of the validator is not compared.       *)
DefinitionChangedButPrecision(before, after) ==
    [before EXCEPT !.precision = after.precision] # after

(* _definition_changed                                                     *)
DefinitionChanged(before, after) == before # after

Promotes(before, entry) == before # Absent /\ Rank[entry.mode] > Rank[before.mode]

(* A faulty version: a new policy may start in any mode.                   *)
NewInAnyMode(before, entry) ==
    before # Absent =>
        /\ DefinitionChanged(before.def, entry.def) => entry.mode \in Observing
        /\ ~Promotes(before, entry)

(* A faulty version: a promotion whose bundle is missing passes.           *)
BundleMayBeMissing(before, entry) ==
    /\ before = Absent => entry.mode \in Observing
    /\ before # Absent =>
          (DefinitionChanged(before.def, entry.def) => entry.mode \in Observing)

(* A faulty version: every change of the mode has to be measured.          *)
MoveNeedsBundle(before, entry) ==
    /\ before = Absent => entry.mode \in Observing
    /\ before # Absent =>
          /\ DefinitionChanged(before.def, entry.def) => entry.mode \in Observing
          /\ entry.mode = before.mode

(* verify_registry_change, of a change that promotes nothing: a new policy *)
(* only observes, and so does one whose definition changed.                *)
NeedsNoBundle(before, entry) ==
    /\ before = Absent => entry.mode \in Observing
    /\ before # Absent =>
          /\ DefinitionChanged(before.def, entry.def) => entry.mode \in Observing
          /\ ~Promotes(before, entry)

(* verify_registry_change, of a promotion by the bundle found under the    *)
(* name of the policy.  The bundle is verified against the merged registry,*)
(* which raises as long as that is in the old format.                      *)
Promotable(p, before, entry, b) ==
    /\ Promotes(before, entry)
    /\ DefinitionChanged(before.def, entry.def) => entry.mode \in Observing
    /\ Rank[entry.mode] = Rank[before.mode] + 1
    /\ ~legacy
    /\ b.approval.policy = p \/ Misfiled
    /\ Eligible(b)
    /\ b.approval.from = before.mode
    /\ b.approval.target = entry.mode

(* A change that passes the gate is merged, in the present format.         *)
Change(p, entry) ==
    /\ NeedsNoBundle(registry[p], entry)
    /\ registry' = [registry EXCEPT ![p] = entry]
    /\ legacy' = FALSE
    /\ UNCHANGED <<signed, now, basis>>

Promote(p, entry, b) ==
    /\ Promotable(p, registry[p], entry, b)
    /\ registry' = [registry EXCEPT ![p] = entry]
    /\ basis' = IF entry.mode \in Enforcing
                THEN [basis EXCEPT ![p][entry.mode] =
                        [approval |-> b.approval, drill |-> b.drill]]
                ELSE basis
    /\ UNCHANGED <<legacy, signed, now>>

Next ==
    \/ Tick
    \/ \E s \in Samples : Observe(s)
    \/ \E p \in Policies :
          \/ ApproveNext(p)
          \/ \E passed \in BOOLEAN : Drill(p, passed)
          \/ \E entry \in Entry : Change(p, entry)
          \/ \E entry \in Entry :
                /\ Promotes(registry[p], entry)
                /\ \E b \in Bundle : Promote(p, entry, b)

Spec == Init /\ [][Next]_vars

-----------------------------------------------------------------------------
(* Types; what is registered stays so, and only a measured promotion       *)
(* enforces anything.                                                      *)
TypeOK ==
    /\ registry \in [Policies -> Entry \cup {Absent}]
    /\ legacy \in BOOLEAN
    /\ signed \in [observations : SUBSET Observation, approvals : SUBSET OwnerApproval,
                   drills : SUBSET RollbackDrill]
    /\ now \in Time
    /\ \A p \in Policies : registry[p].mode \in Enforcing =>
          basis[p][registry[p].mode] # NoBasis

(* The owner of every enforced policy, as the registry names it today, has *)
(* approved each stage on the way to its mode: neither a change of owner,  *)
(* nor a rollback, nor evidence signed for another stage leaves a policy   *)
(* enforced that its owner never promoted.  (Where bundles are misfiled it *)
(* may rest on the evidence of another policy.)                            *)
EnforcedIsApproved ==
    \A p \in Policies : \A m \in Enforcing :
        (registry[p].mode \in Enforcing /\ Rank[m] <= Rank[registry[p].mode]) =>
            /\ basis[p][m] # NoBasis
            /\ basis[p][m].approval \in signed.approvals
            /\ basis[p][m].approval.policy = p
            /\ basis[p][m].approval.target = m
            /\ basis[p][m].approval.owner = registry[p].def.owner

(* "Blocking requires a high-precision deterministic validator" and "a     *)
(* signed, current, successful rollback drill": of this policy, by its     *)
(* present owner, however its definition changed before.                   *)
BlockingIsPrecise ==
    \A p \in Policies : registry[p].mode = "blocking" =>
        /\ registry[p].def.precision = "high"
        /\ LET drill == basis[p].blocking.drill
           IN  /\ drill # NoDrill /\ drill.passed
               /\ drill.policy = p /\ drill.owner = registry[p].def.owner

(* Whatever happened, every policy can be taken back at once: no rollback  *)
(* waits for evidence.                                                     *)
RollbackAlwaysOpen ==
    \A p \in Policies : registry[p] # Absent =>
        \A m \in Mode : Rank[m] < Rank[registry[p].mode] =>
            NeedsNoBundle(registry[p], [registry[p] EXCEPT !.mode = m])

(* The registry follows the life of a policy: one stage up at a time.      *)
Ladder == INSTANCE PolicyLadder WITH stage <- [p \in Policies |-> registry[p].mode]
KeepsLadder == Ladder!Spec
=============================================================================
