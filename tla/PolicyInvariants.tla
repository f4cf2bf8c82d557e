-------------------------- MODULE PolicyInvariants --------------------------
(***************************************************************************)
(* The invariants of protected Python methods: loading them                *)
(* (policy/invariants.py), checking a method against one                   *)
(* (validate_invariant of policy/validators.py), and the pipeline that     *)
(* does so for a changed file (evaluate_parsed of decision/legacy.py).     *)
(* Pure definitions, used by ChangeEvaluation.                             *)
(*                                                                         *)
(* The governance of the code is a record with                             *)
(*   contracts   [id, source, policies, tests]: the protected files, and   *)
(*               the tests of the capability each belongs to               *)
(*   invariants  [id, file, class, function, decorator, call, argument,    *)
(*               before, evidence], evidence being pairs <<kind, id>>      *)
(*   documents   [id, policies]: the knowledge that is cited               *)
(* The lexemes of Python are class, def and decorator, with a name, and    *)
(* call, with a name and its first argument.  The calls of a method stand  *)
(* one after the other.                                                    *)
(***************************************************************************)
EXTENDS ArtifactValidators

Referenced(governance) ==
    (UNION {c.policies : c \in governance.contracts})
    \cup (UNION {d.policies : d \in governance.documents})

(* load_invariants and _validate_cross_file_references: every invariant    *)
(* has an ID of its own and evidence that exists, and every policy that a  *)
(* contract or a document names is an invariant.                           *)
Loads(governance) ==
    LET ids == {i.id : i \in governance.invariants}
        cited == UNION {i.evidence : i \in governance.invariants}
        Ids(kind) == {e[2] : e \in {f \in cited : f[1] = kind}}
    IN  /\ Cardinality(ids) = Cardinality(governance.invariants)
        /\ \A i \in governance.invariants : i.evidence # {}
        /\ Referenced(governance) \subseteq ids
        /\ Ids("registry") \subseteq {c.id : c \in governance.contracts}
        /\ Ids("knowledge") \subseteq {d.id : d \in governance.documents}

-----------------------------------------------------------------------------
(* ast.parse: what has a body has one.                                     *)
Follows == [class |-> {"decorator", "def", "call"}, def |-> {"call"},
            decorator |-> {"decorator", "def"}]
Parses(code) ==
    \A i \in DOMAIN code :
        code[i].is \in DOMAIN Follows =>
            i < Len(code) /\ code[i + 1].is \in Follows[code[i].is]

(* validate_invariant: the first method of that name in the first class of *)
(* that name, its decorators and its calls.                                *)
Keeps(code, invariant) ==
    LET Until(i, kinds) == Min({Len(code) + 1} \cup {j \in i..Len(code) : code[j].is \in kinds})
        classes == {i \in DOMAIN code : code[i] = [is |-> "class", name |-> invariant.class]}
        class == Min(classes)
        methods == {i \in class..(Until(class + 1, {"class"}) - 1) :
                       code[i] = [is |-> "def", name |-> invariant.function]}
        method == Min(methods)
        decorators == {code[i].name : i \in {j \in 1..(method - 1) :
                          \A k \in j..(method - 1) : code[k].is = "decorator"}}
        calls == (method + 1)..(Until(method + 1, {"class", "def", "decorator"}) - 1)
        required == {i \in calls : code[i].name = invariant.call}
        protected == {i \in calls : code[i].name = invariant.before}
    IN  /\ classes # {} /\ methods # {}
        /\ invariant.decorator \in decorators
        /\ protected # {}
        /\ \E i \in required : code[i].argument = invariant.argument
        /\ Min(required) < Min(protected)

Status(text, invariant) ==
    LET code == SelectSeq(Lexed(text), LAMBDA x : x # NewLine)
    IN  IF ~Parses(code) THEN "incomplete"
        ELSE IF Keeps(code, invariant) THEN "passed" ELSE "violated"

(* inject_full_text: a contract of either path, and all the knowledge.     *)
Retrieves(governance, file) ==
    /\ governance.documents # {}
    /\ \E c \in governance.contracts : c.source \in {file.old, file.new}

(* _service_path: the new path, or the old one of a file that is deleted;  *)
(* what the contracts of that file name, and which of it is about the file.*)
ServicePath(file) == IF file.new = NoPath THEN file.old ELSE file.new
Covering(governance, file) ==
    UNION {c.policies : c \in {d \in governance.contracts : d.source = ServicePath(file)}}
Checked(governance, file) ==
    {i \in governance.invariants :
        i.id \in Covering(governance, file) /\ i.file = ServicePath(file)}

Uncovered(governance, file) ==
    \/ ~Loads(governance)
    \/ Covering(governance, file) = {} \/ ~Retrieves(governance, file)

(* evaluate_parsed: the findings on one changed file, by id and status.    *)
InvariantFindings(governance, file, sides) ==
    IF Uncovered(governance, file)
    THEN {[id |-> "fault", status |-> "incomplete"]}
    ELSE {[id |-> i.id,
           status |-> IF sides = ReconstructionError THEN "incomplete" ELSE Status(sides.after, i)] :
             i \in Checked(governance, file)}
=============================================================================
