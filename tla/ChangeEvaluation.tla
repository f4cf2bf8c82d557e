-------------------------- MODULE ChangeEvaluation --------------------------
(***************************************************************************)
(* ChangeEvaluator._evaluate (change/evaluator.py) on a working tree that  *)
(* moves under it: the developer applies the diff, takes it back, or edits *)
(* the file by hand, between any two reads of one evaluation and between   *)
(* one evaluation and the next.                                            *)
(*                                                                         *)
(* A digest is the part of the tree it is the digest of.  What the impact  *)
(* analysis says of a diff is a parameter here and computed in             *)
(* ImpactAnalysis; the approval is in ApprovalDesk.                        *)
(***************************************************************************)
EXTENDS PolicyInvariants, Decision

CONSTANTS
    Changes,         \* [diff, before, after, edited, governance, passed]: a diff, the trees
                     \* it is between, the trees the developer's own edits lead to, the
                     \* invariants the code is governed by, and whether the tests passed
    Suffix,          \* per path, the suffix of its name
    Registry,        \* per policy, [severity, mode, owner, tests]
    GovernedBy,      \* per path, the policies whose file patterns match it
    Analysed(_, _),  \* of a diff in the graph of a tree: NoArtifact, or [resolved, boundary,
                     \* approvers, tests], whether a capability was found, whether the search
                     \* ended at an unknown boundary, its at most one owner, and the tests
    MaxEvaluations   \* bound on the evaluations of a change

(* _artifact_kind                                                          *)
Kind ==
    [path \in DOMAIN Suffix |->
        CASE Suffix[path] \in {".yaml", ".yml", ".json"} -> "openapi"
          [] Suffix[path] \in {".avsc", ".schema"} -> "message-schema"
          [] Suffix[path] \in {".properties", ".conf", ".env"} -> "configuration"
          [] OTHER -> Suffix[path]]

(* A policy of the registry governs files of formats its validator is for. *)
Validated == {".proto", "openapi", ".sql", "message-schema", "configuration"}
ASSUME EvaluationAssumption ==
    /\ DOMAIN GovernedBy = DOMAIN Suffix
    /\ \A path \in DOMAIN Suffix : GovernedBy[path] # {} => Kind[path] \in Validated
    /\ \A path \in DOMAIN Suffix : GovernedBy[path] \subseteq DOMAIN Registry
    /\ \A p \in DOMAIN Registry : Registry[p].mode \in Mode /\ Registry[p].severity \in DOMAIN Weight
    /\ "fault" \notin DOMAIN Registry
    /\ MaxEvaluations \in Nat

Paths == DOMAIN Suffix

(* The diff is text; the trees have files at the paths there are; and no   *)
(* invariant is called as the evaluator calls a finding of its own.        *)
ASSUME ChangesAssumption ==
    /\ NoPath \notin Paths /\ Unsafe \notin Paths
    /\ \A c \in Changes :
          /\ c.diff \in Seq(DiffLine(Paths \cup {NoPath, Unsafe}))
          /\ {c.before, c.after} \cup c.edited \subseteq [Paths -> FileText \cup {Absent}]
          /\ \A i \in c.governance.invariants : i.id # "stale context"

VARIABLES
    change,    \* the change that is evaluated
    tree,      \* what the working tree holds
    pc,        \* how far the evaluation is
    files,     \* the parsed diff
    current,   \* the digest of the tree when the evaluation began
    target,    \* the digest the approval is bound to
    read,      \* the tree that was read, and what was rebuilt from it, for validation
    findings,
    verdicts   \* history: the evaluations that ended
vars == <<change, tree, pc, files, current, target, read, findings, verdicts>>

File == files[1]

PoliciesAt(path) == IF path = NoPath THEN {} ELSE GovernedBy[path]
Policies(file) == PoliciesAt(file.old) \cup PoliciesAt(file.new)
Python(file) == ".py" \in {Kind[path] : path \in {file.old, file.new} \ {NoPath}}

(* _graph_relative_path: only what the graph is built from is digested.    *)
Digested(path) == path # NoPath /\ Suffix[path] \in {".java", ".yaml", ".proto"}
DigestOf(where) == [path \in {p \in Paths : Digested(p)} |-> where[path]]

Init ==
    /\ change \in Changes
    /\ tree \in {change.before, change.after}
    /\ pc = "idle" /\ files = Fault
    /\ current = Nothing /\ target = Nothing /\ read = Nothing /\ findings = {}
    /\ verdicts = {}

-----------------------------------------------------------------------------
(* The working tree: somebody applies the diff, reverts it, or edits.      *)
MoveTree ==
    /\ tree' \in ({change.before, change.after} \cup change.edited) \ {tree}
    /\ UNCHANGED <<change, pc, files, current, target, read, findings, verdicts>>

(* An evaluation begins with the digest of the tree as it is.              *)
Begin ==
    /\ pc = "idle" /\ Cardinality(verdicts) < MaxEvaluations
    /\ current' = DigestOf(tree)
    /\ files' = ParseUnified(change.diff)
    /\ pc' = IF files' = Fault THEN "refuse" ELSE "digest"
    /\ UNCHANGED <<change, tree, target, read, findings, verdicts>>

(* An evaluation ends with its verdict.                                    *)
Return(verdict) ==
    /\ pc' = "idle"
    /\ verdicts' = verdicts \cup {verdict}
    /\ current' = Nothing /\ target' = Nothing /\ read' = Nothing /\ findings' = {}
    /\ UNCHANGED <<change, tree, files>>

(* A finding, the fields its kind of finding does not set being those of   *)
(* FindingV2; one of what is not known; and one of a policy.               *)
Raised(id, severity) ==
    [id |-> id, severity |-> severity, confidence |-> 100, mode |-> "blocking",
     violated |-> FALSE, unknown |-> FALSE, public |-> FALSE, approvers |-> {}]
Asked(id, approvers) == [Raised(id, "high") EXCEPT !.unknown = TRUE, !.approvers = approvers]
ByPolicy(p) ==
    [Raised(p, Registry[p].severity) EXCEPT !.mode = Registry[p].mode,
                                            !.approvers = {Registry[p].owner}]
StaleContext == Asked("stale context", {})

(* _conservative: what cannot be parsed is sent to a person.               *)
Refuse ==
    /\ pc = "refuse"
    /\ Return([decision |-> "REQUIRE_APPROVAL", digest |-> current, rebuilt |-> FALSE,
               found |-> {Asked("diff", {})}])

(* _change_content_digests: the digests of the tree before and after the   *)
(* diff, of which it now holds either.                                     *)
ContentDigests(sides) ==
    IF ~Digested(File.old) /\ ~Digested(File.new)
    THEN [baseline |-> DigestOf(tree), target |-> DigestOf(tree)]
    ELSE IF sides = ReconstructionError THEN [baseline |-> Nothing, target |-> current]
    ELSE [baseline |-> DigestOf([p \in Paths |-> IF p = File.old THEN sides.before
                                                 ELSE IF p = File.new THEN Absent ELSE tree[p]]),
          target |-> DigestOf([p \in Paths |-> IF p = File.new THEN sides.after
                                               ELSE IF p = File.old THEN Absent ELSE tree[p]])]

(* A faulty version: only the policies of the new path are asked.          *)
NewPathOnly(sides) ==
    {[policy |-> p, kind |-> Kind[File.new], source |-> sides.after, baseline |-> sides.before] :
        p \in PoliciesAt(File.new)}

(* _validate_file: a policy that governs both paths compares both sides,   *)
(* if the artifact is still of its kind; or else the old path has lost     *)
(* everything and the new one has no baseline.                             *)
Validations(sides) ==
    LET old == PoliciesAt(File.old)
        new == PoliciesAt(File.new)
        both == {p \in old \cap new : Kind[File.old] = Kind[File.new]}
        Of(p, path, source, baseline) ==
            [policy |-> p, kind |-> Kind[path], source |-> source, baseline |-> baseline]
    IN  {Of(p, File.new, sides.after, sides.before) : p \in both}
        \cup {Of(p, File.old, NoText, sides.before) : p \in old \ both}
        \cup {Of(p, File.new, sides.after, Nothing) : p \in new \ both}

(* The name of either path, or a line that comes, says so.                 *)
PublicChange(file) ==
    \/ \E path \in {file.old, file.new} \ {NoPath} :
           Suffix[path] \in {".proto", ".yaml", ".yml", ".json"}
    \/ \E k \in DOMAIN file.hunks : \E line \in ToSet(file.hunks[k].lines) :
           line.mark = "+" /\ Has(Lexemes[line.text], "message")

(* The findings on the file, each of the severity and in the mode of its   *)
(* policy.  What cannot be rebuilt is unknown to every policy of either    *)
(* path.                                                                   *)
FileFindings(sides) ==
    IF sides = ReconstructionError
    THEN {[ByPolicy(p) EXCEPT !.severity = "high", !.unknown = TRUE] : p \in Policies(File)}
    ELSE {[ByPolicy(v.policy) EXCEPT !.violated = Violates(v.kind, v.source, v.baseline),
                                     !.public = PublicChange(File)] :
             v \in Validations(sides)}

(* The tests of the policies that act, unless the file is not rebuilt ...  *)
Acts(mode) == mode \notin {"draft", "shadow"}
FileTests(sides) ==
    IF sides = ReconstructionError THEN {}
    ELSE UNION {Registry[p].tests : p \in {q \in Policies(File) : Acts(Registry[q].mode)}}

(* ... and _python_required_tests: of the contracts of either path.        *)
PythonTests ==
    IF ~Python(File) THEN {}
    ELSE UNION {c.tests : c \in {d \in change.governance.contracts :
                                    d.source \in {File.old, File.new}}}

(* _policy_mode: an invariant that is no policy of the registry blocks.    *)
ModeOf(id) == IF id \in DOMAIN Registry THEN Registry[id].mode ELSE "blocking"

(* _python_findings: the statuses as findings of the same form.            *)
PythonFindings(sides) ==
    LET Severity == [violated |-> "critical", incomplete |-> "high", passed |-> "medium"]
    IN  IF ~Python(File) THEN {}
        ELSE {[Raised(f.id, Severity[f.status]) EXCEPT !.mode = ModeOf(f.id),
                                                       !.violated = f.status = "violated",
                                                       !.unknown = f.status = "incomplete"] :
                 f \in InvariantFindings(change.governance, File, sides)}

NoArtifact == [artifact |-> "none is indexed"]

(* _impact_boundary: what the impact analysis adds.  It looks the changed  *)
(* symbol up in the graph of the tree as it is, on whichever side of the   *)
(* diff that may be.                                                       *)
ImpactBoundary(graph) ==
    LET report == Analysed(change.diff, graph)
    IN  IF report = NoArtifact THEN [findings |-> {}, tests |-> {}, owners |-> {}]
        ELSE IF ~report.resolved
        THEN [findings |-> {Asked("impact", {})}, tests |-> {}, owners |-> {}]
        ELSE IF ~report.boundary
        THEN [findings |-> {}, tests |-> report.tests, owners |-> {}]
        ELSE [findings |-> {Asked("impact", report.approvers)},
              tests |-> report.tests, owners |-> report.approvers]

DecisionOn(raised, tests, impact) ==
    Decide([findings |-> raised \cup impact.findings,
            owners |-> (UNION {f.approvers : f \in Active(raised)}) \cup impact.owners,
            tests |-> tests \cup impact.tests # {},
            passed |-> change.passed, known |-> TRUE, satisfied |-> FALSE])

(* The diff is worked through once for the digests ...                     *)
Digest ==
    /\ pc = "digest"
    /\ LET digests == ContentDigests(Reconstruct(File, tree))
       IN  /\ target' = digests.target
           /\ findings' = IF digests.baseline \in {Nothing, DigestOf(change.before)}
                          THEN {} ELSE {StaleContext}
    /\ pc' = "validate"
    /\ UNCHANGED <<change, tree, files, current, read, verdicts>>

(* ... and again, of what the tree holds by then, for the validators.      *)
Validate ==
    /\ pc = "validate"
    /\ LET sides == Reconstruct(File, tree)
       IN  /\ read' = [tree |-> tree, sides |-> sides]
           /\ findings' = findings \cup PythonFindings(sides) \cup FileFindings(sides)
    /\ pc' = "decide"
    /\ UNCHANGED <<change, tree, files, current, target, verdicts>>

(* The decision, without an approval; the graph is built in the meantime.  *)
Conclude ==
    /\ pc = "decide"
    /\ Return([decision |-> DecisionOn(findings, PythonTests \cup FileTests(read.sides),
                                       ImpactBoundary(DigestOf(tree))),
               digest |-> target, rebuilt |-> read.sides # ReconstructionError,
               found |-> findings])

Next == MoveTree \/ Begin \/ Refuse \/ Digest \/ Validate \/ Conclude

Spec == Init /\ [][Next]_vars

-----------------------------------------------------------------------------
(* What was rebuilt is a change the diff describes, of the file that was   *)
(* read: no line outside the hunks is lost or moved, also when the hunks   *)
(* are not where their headers say and when the tree holds neither side.   *)
RebuiltIsPatch ==
    (read # Nothing /\ read.sides # ReconstructionError) =>
        /\ IsPatch(read.sides.before.lines, read.sides.after.lines, File.hunks)
        /\ LET disk == At(read.tree, BasePath(File, read.tree))
           IN  \/ disk \in {read.sides.before, read.sides.after, Absent}
               \/ File.operation = "add"

(* "Return virtual before/after graph digests independent of worktree diff *)
(* state" (change/evaluator.py:571): of a change that has been prepared on *)
(* the tree it starts from, every evaluation binds the approval to the     *)
(* content after the diff and has the same findings on the file, whenever  *)
(* the diff is applied or reverted.  (What the impact analysis adds is not *)
(* among them: its graph is that of the tree as it is, so the tests, the   *)
(* owners and with them the decision may differ from side to side.)        *)
SideDoesNotMatter ==
    (change.edited = {} /\ files # Fault) =>
        \A v \in verdicts :
            /\ v.rebuilt /\ StaleContext \notin v.found
            /\ v.digest = DigestOf(change.after)
            /\ \A w \in verdicts : w.found = v.found

(* The changes it can be said of for every diff: nobody edits, and the     *)
(* trees are alike but for the one file, which is at the old path before   *)
(* and at the new one after ...                                            *)
OldText(file, c) == IF file.operation = "add" THEN NoText ELSE At(c.before, file.old)
NewText(file, c) == IF file.operation = "delete" THEN NoText ELSE At(c.after, file.new)

SidesOf(file, c) == [before |-> OldText(file, c), after |-> NewText(file, c)]

OnlyItChanges(file, c) ==
    /\ c.edited = {}
    /\ \A path \in Paths \ {file.old, file.new} : c.before[path] = c.after[path]
    /\ file.old # file.new => At(c.before, file.new) = Absent /\ At(c.after, file.old) = Absent
    /\ Absent \notin {OldText(file, c), NewText(file, c)}

(* ... its last line ends on both sides or on none, or as the diff says of *)
(* the only side there is ...                                              *)
EndsAlike(file, before, after) ==
    LET eol == \A k \in DOMAIN file.hunks : ~file.hunks[k].noeol
    IN  CASE file.operation = "add" -> after = Text(after.lines, eol)
          [] file.operation = "delete" -> before = Text(before.lines, eol)
          [] OTHER -> before = Text(before.lines, after.eol) /\ after = Text(after.lines, before.eol)

(* ... the hunks are found on both sides, and the side the file could be   *)
(* mistaken for lacks one of them.                                         *)
NotMistaken(file, before, after) ==
    /\ IsToldPatch(before, after, file.hunks)
    /\ (file.operation \in {"modify", "rename"} /\ file.hunks # <<>>) =>
          IF LineDelta(file) > 0 THEN Foreign(before, Blocks(file.hunks, "+"))
                                 ELSE Foreign(after, Blocks(file.hunks, "-"))

Determined(c) ==
    LET file == ParseUnified(c.diff)[1]
        before == OldText(file, c)
        after == NewText(file, c)
    IN  /\ OnlyItChanges(file, c)
        /\ EndsAlike(file, before, after)
        /\ NotMistaken(file, before.lines, after.lines)

(* What the texts mean, said by the places of their lexemes.  A field of a *)
(* message: the messages whose braces are open around it, and its number.  *)
ProtoPublished(code) ==
    LET Count(i, kinds) == Cardinality({k \in 1..i : code[k].is \in kinds})
        Depth(i) == Count(i, {"message", "block"}) - Count(i, {"close"})
        Around(i) == SetToSortSeq({o \in 1..i : /\ code[o].is = "message"
                                                /\ \A k \in o..i : Depth(k) >= Depth(o)}, <)
        Field(i) == <<[k \in DOMAIN Around(i) |-> code[Around(i)[k]].name],
                      code[i].name, code[i].number>>
    IN  {Field(i) : i \in {k \in DOMAIN code : code[k].is = "field" /\ Around(k) # <<>>}}

Names(lexemes, kind) == {x.name : x \in {y \in ToSet(lexemes) : y.is = kind}}
Schemas(text) == ToSet(Parts(Lexed(text), "schema"))

Published(kind, text) ==
    CASE kind = ".proto" -> ProtoPublished(Uncommented(Lexed(text)))
      [] kind = "openapi" -> UNION {{<<s[1].name, x>> : x \in Names(s, "property")} : s \in Schemas(text)}
      [] kind = "message-schema" -> IF Has(Lexed(text), "version") THEN {"version"} ELSE {}
      [] OTHER -> {}

(* A write that is in no comment, string or parentheses, and no begin      *)
(* before it that no commit has closed.                                    *)
Bare(text) ==
    LET l == Lexed(text)
        Line(i) == Max({0} \cup {k \in 1..i : l[k] = NewLine})
        Before(i, kind) == {k \in (Line(i) + 1)..(i - 1) : l[k].is = kind}
        InString(i) == Cardinality(Before(i, "quote")) % 2 = 1
        Hidden(i) == \/ InString(i) \/ Before(i, "--") # {}
                     \/ Cardinality(Before(i, "(")) > Cardinality(Before(i, ")"))
                     \/ \E o \in 1..i : /\ l[o].is = "/*" /\ ~InString(o)
                                        /\ \A k \in o..(i - 1) : l[k].is # "*/"
        Runs(i, word) == l[i] = [is |-> "word", word |-> word] /\ ~Hidden(i)
    IN  \E i \in DOMAIN l :
            /\ Runs(i, "write")
            /\ \A b \in 1..i : Runs(b, "begin") => \E c \in b..i : Runs(c, "commit")

(* What no artifact of its kind may be.                                    *)
Unfit(kind, text) ==
    \/ kind = "openapi" /\ \E s \in Schemas(text) :
           Names(s, "property") # {} /\ ~(Names(s, "required") \subseteq Names(s, "property"))
    \/ kind = ".sql" /\ Bare(text)
    \/ kind = "message-schema" /\ ~Has(Lexed(text), "version")
    \/ kind = "configuration" /\ Has(Lexed(text), "credential")

(* The method runs in its transaction, and nothing protected is called     *)
(* before the required call with the required argument.                    *)
Guarded(text, invariant) ==
    LET code == SelectSeq(Lexed(text), LAMBDA x : x # NewLine)
        InClass(i) == \E k \in 1..i : /\ code[k] = [is |-> "class", name |-> invariant.class]
                                      /\ \A j \in (k + 1)..i : code[j].is # "class"
        Method(i) == code[i] = [is |-> "def", name |-> invariant.function] /\ InClass(i)
    IN  \E m \in DOMAIN code :
            LET body == {i \in (m + 1)..Len(code) : \A k \in (m + 1)..i : code[k].is = "call"}
                Calls(name) == {i \in body : code[i].name = name}
            IN  /\ Method(m)
                /\ \E t \in 1..m : /\ code[t] = [is |-> "decorator", name |-> invariant.decorator]
                                   /\ \A k \in t..(m - 1) : code[k].is = "decorator"
                /\ Calls(invariant.before) # {}
                /\ \A b \in Calls(invariant.before) : \E c \in Calls(invariant.call) :
                       c < b /\ code[c].argument = invariant.argument

(* A field that a governed file publishes is lost: it is gone, or its file *)
(* is gone from under the policy or became an artifact of another kind.    *)
Compared(file, policy) ==
    /\ policy \in PoliciesAt(file.old) \cap PoliciesAt(file.new)
    /\ Kind[file.old] = Kind[file.new]
Loses(file, c, policy) ==
    LET left == IF Compared(file, policy) THEN Published(Kind[file.new], At(c.after, file.new)) ELSE {}
    IN  ~(Published(Kind[file.old], At(c.before, file.old)) \subseteq left)

(* A contract begins without any of the fields it has to have, or a file   *)
(* is what none of its kind may be.                                        *)
Offends(file, c, policy) ==
    LET begun == At(c.after, file.new)
    IN  \/ Unfit(Kind[file.new], begun)
        \/ /\ ~Compared(file, policy) /\ Kind[file.new] = ".proto" /\ Has(Lexed(begun), "message")
           /\ \A f \in Published(".proto", begun) : f[2] \notin Identifying

Losing(file, c) ==
    {p \in PoliciesAt(file.old) : Loses(file, c, p)}
    \cup {p \in PoliciesAt(file.new) : Offends(file, c, p)}

Unguarded(file, c) ==
    {invariant \in c.governance.invariants :
        /\ invariant.file \in {file.old, file.new}
        /\ ~Guarded(At(c.after, invariant.file), invariant)}

(* A loss blocks if its policy is critical and blocks; the invariants are  *)
(* critical all.  In mode warning it is a matter of a person.              *)
GraveLoss ==
    \/ \E p \in Losing(File, change) : Registry[p].severity = "critical" /\ Registry[p].mode = "blocking"
    \/ \E i \in Unguarded(File, change) : ModeOf(i.id) = "blocking"
WarnedLoss ==
    \/ \E p \in Losing(File, change) : Registry[p].mode = "warning"
    \/ \E i \in Unguarded(File, change) : ModeOf(i.id) = "warning"

(* That the validators read the texts of a change as they are meant: each  *)
(* finds a loss where there is one, and only there, unless it says that it *)
(* could not look.                                                         *)
Statuses(file, c) ==
    IF Python(file) THEN InvariantFindings(c.governance, file, SidesOf(file, c)) ELSE {}

ReadAsMeant(c) ==
    LET file == ParseUnified(c.diff)[1]
        before == At(c.before, file.old)
        after == At(c.after, file.new)
    IN  /\ \A policy \in PoliciesAt(file.old) :
              IF Compared(file, policy)
              THEN Violates(Kind[file.new], after, before)
                     <=> Loses(file, c, policy) \/ Offends(file, c, policy)
              ELSE Violates(Kind[file.old], NoText, before) <=> Loses(file, c, policy)
        /\ \A policy \in PoliciesAt(file.new) : ~Compared(file, policy) =>
              (Violates(Kind[file.new], after, Nothing) <=> Offends(file, c, policy))
        /\ \A f \in Statuses(file, c) :
              f.status = "violated" => \E i \in Unguarded(file, c) : i.id = f.id
        /\ \A i \in Unguarded(file, c) :
              \E f \in Statuses(file, c) : \/ f.status = "violated" /\ f.id = i.id
                                           \/ f.status = "incomplete" /\ f.id \in {i.id, "fault"}

(* Something was not read that a policy in mode warning or blocking, or an *)
(* invariant, is about: the context is stale, a method does not parse, the *)
(* governance does not load or does not cover a Python file, or the file   *)
(* is not rebuilt.                                                         *)
Unread(verdict) ==
    \/ \E f \in verdict.found : f.unknown /\ Acts(f.mode)
    \/ Python(File) /\ Uncovered(change.governance, File)
    \/ /\ ~verdict.rebuilt
       /\ \/ \E p \in Policies(File) : Acts(Registry[p].mode)
          \/ Python(File) /\ \E i \in Checked(change.governance, File) : Acts(ModeOf(i.id))

(* What could not be parsed, or was not read, never passes: it is blocked, *)
(* or a person is asked.  (A file that no policy but draft and shadow ones *)
(* governs may pass unread.)                                               *)
UnreadIsAsked ==
    \A v \in verdicts :
        IF files = Fault THEN v.decision = "REQUIRE_APPROVAL"
        ELSE Unread(v) => v.decision \in {"BLOCK", "REQUIRE_APPROVAL"}

(* What loses a published field, writes outside a transaction or unguards  *)
(* a protected method is held as its policy asks.  Where that is critical  *)
(* and blocks, it is blocked, or, unread, a person is asked; and nothing   *)
(* else is blocked.  In mode warning a person is asked, once the tests     *)
(* have passed.  Renaming, deleting, commenting out, damaging the diff, or *)
(* applying it halfway through does not hide it.  (A loss under a policy   *)
(* that blocks and is not critical, or is in draft or shadow, may pass.)   *)
LossIsHeld ==
    LET grave == GraveLoss
        warned == WarnedLoss
    IN  /\ UnreadIsAsked
        /\ (change.edited = {} /\ files # Fault) =>
              \A v \in verdicts :
                  /\ v.decision = "BLOCK" => grave
                  /\ grave /\ ~Unread(v) => v.decision = "BLOCK"
                  /\ warned => v.decision # "ALLOW"
                  /\ warned /\ change.passed => v.decision \in {"BLOCK", "REQUIRE_APPROVAL"}

(* "Redemption must check the idempotency key first, in its transaction"   *)
(* (title of the invariant, policy/invariants.yaml:4): what passes leaves  *)
(* no protected call before the check of the key.                          *)
KeyCheckedFirst ==
    \A v \in verdicts :
        v.decision \in {"ALLOW", "ALLOW_WITH_TESTS"} => Unguarded(File, change) = {}
=============================================================================
