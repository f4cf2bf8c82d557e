------------------------------ MODULE GateRun ------------------------------
(***************************************************************************)
(* The CI gate (ci/runner.py, and ci/check.py, which runs no tests): it    *)
(* evaluates the change, runs the tests that asks for, evaluates it again  *)
(* with their results, and exits.  Meanwhile sources are edited, and people*)
(* approve in the database the gate has open.                              *)
(***************************************************************************)
EXTENDS ApprovalStorage, Decision

CONSTANTS
    Changes,   \* what the sources may hold, with its evaluation: id, findings, owners, tests
    Hanging,   \* the tests that do not end by themselves
    Gate       \* the gate's process

ASSUME GateAssumption == Gate \notin Instance

VARIABLES
    content,   \* the sources as they are
    gate       \* the run: mode, how far it is, results, final (what it decided on), exit

gateVars == <<migrationVars, storageVars, content, gate>>

NotRun == [at |-> "none"]
NoCode == 3

Init ==
    /\ MigrationInit /\ StorageInit
    /\ content \in Changes
    /\ \E mode \in {"run", "check"} :
          gate = [mode |-> mode, at |-> "start", required |-> {}, results |-> <<>>,
                  final |-> NotRun, exit |-> NoCode]

Edit ==
    /\ content' \in Changes \ {content}
    /\ UNCHANGED <<migrationVars, storageVars, gate>>

-----------------------------------------------------------------------------
(* _approval, of the record as ApprovalDesk has it: the last operation     *)
(* approved this very change.                                              *)
Approved(value, c) == value.record # <<>> /\ Last(value.record) = c.id

(* A faulty version: a test without result is taken for no failure.        *)
MissingIsNoFailure(c, results) == \A t \in c.tests \cap DOMAIN results : results[t]

(* _tests_passed: a result of every required test, and each passed.        *)
TestsPassed(c, results) == c.tests \subseteq DOMAIN results /\ \A t \in c.tests : results[t]

Evaluate(c, results, value) ==
    Decide([findings |-> c.findings, owners |-> c.owners, tests |-> c.tests # {},
            passed |-> TestsPassed(c, results), known |-> TRUE,
            satisfied |-> Approved(value, c)])

(* gate_exit_code                                                          *)
ExitCode(decision) == IF decision = "ALLOW" THEN 0 ELSE 1

(* The store is opened for writing, and the diff evaluated.                *)
GateOpen ==
    /\ gate.at = "start" /\ Open(Gate)
    /\ gate' = [gate EXCEPT !.at = IF gate.mode = "run" THEN "first" ELSE "final"]
    /\ UNCHANGED <<migrationVars, content>>

GateFirst ==
    /\ gate.at = "first"
    /\ gate' = [gate EXCEPT !.at = "tests", !.required = content.tests]
    /\ UNCHANGED <<migrationVars, storageVars, content>>

(* A faulty version: a test is waited for as long as it takes.             *)
TestToItsEnd(t) ==
    /\ gate.at = "tests" /\ t \in gate.required \ DOMAIN gate.results
    /\ t \notin Hanging
    /\ \E passed \in BOOLEAN :
          gate' = [gate EXCEPT !.results =
                     [x \in DOMAIN @ \cup {t} |-> IF x = t THEN passed ELSE @[x]]]
    /\ UNCHANGED <<migrationVars, storageVars, content>>

(* _execute_test: one at a time.  Whatever goes wrong, a time limit        *)
(* included, is a failure of the test.                                     *)
Test(t) ==
    /\ gate.at = "tests" /\ t \in gate.required \ DOMAIN gate.results
    /\ \E passed \in BOOLEAN :
          /\ t \in Hanging => ~passed
          /\ gate' = [gate EXCEPT !.results =
                        [x \in DOMAIN @ \cup {t} |-> IF x = t THEN passed ELSE @[x]]]
    /\ UNCHANGED <<migrationVars, storageVars, content>>

TestsDone ==
    /\ gate.at = "tests" /\ gate.required = DOMAIN gate.results
    /\ gate' = [gate EXCEPT !.at = "final"]
    /\ UNCHANGED <<migrationVars, storageVars, content>>

GateFinal ==
    /\ gate.at = "final"
    /\ gate' = [gate EXCEPT !.at = "close",
                  !.final = [at |-> "decided", change |-> content, value |-> Committed],
                  !.exit = ExitCode(Evaluate(content, gate.results, Committed))]
    /\ UNCHANGED <<migrationVars, storageVars, content>>

(* An evaluation raises, which only the runner answers with a code of its  *)
(* own.                                                                    *)
GateError ==
    /\ gate.at \in {"first", "final"}
    /\ gate' = [gate EXCEPT !.at = "close",
                           !.exit = IF gate.mode = "run" THEN 2 ELSE 1]
    /\ UNCHANGED <<migrationVars, storageVars, content>>

(* The store is closed in any case, and the process exits.                 *)
GateClose ==
    /\ gate.at = "close"
    /\ conns' = conns \ {Gate}
    /\ IF conns' = {} THEN main' = wal /\ wal' = NoLog ELSE UNCHANGED <<main, wal>>
    /\ gate' = [gate EXCEPT !.at = "done"]
    /\ UNCHANGED <<migrationVars, backend, txn, writer, view, content>>

GateStep ==
    \/ GateOpen \/ GateFirst \/ TestsDone \/ GateFinal \/ GateError \/ GateClose
    \/ \E t \in gate.required : Test(t)

(* The rest of the world.  On PostgreSQL an instance is migrated first, and*)
(* what ends it ends its transaction.                                      *)
World ==
    \/ Edit
    \/ \E i \in Instance : (Open(i) \/ Storing(i)) /\ UNCHANGED <<migrationVars, content, gate>>
    \/ (Viewing \/ Checkpoint) /\ UNCHANGED <<migrationVars, content, gate>>
    \/ backend = "postgres" /\ Migration /\ UNCHANGED <<storageVars, content, gate>>
    \/ \E i \in Instance :
          /\ IF backend = "postgres" THEN Stop(i) ELSE i \in conns /\ UNCHANGED migrationVars
          /\ Crash(i)
          /\ UNCHANGED <<content, gate>>

Next == World \/ GateStep

(* The gate's process runs: nothing it does waits for another, its tests   *)
(* have a time limit, and reading a database in WAL mode waits for nobody. *)
Spec == Init /\ [][Next]_gateVars /\ WF_gateVars(GateStep)

-----------------------------------------------------------------------------
(* The gate lets a change through only if every test its last evaluation   *)
(* asks for was executed by this very run and passed, nothing in it is     *)
(* forbidden, and what needs a person's approval had one for exactly that  *)
(* content, committed by then: whatever was edited, approved or superseded *)
(* while the tests ran.                                                    *)
GateProves ==
    gate.exit = 0 =>
        LET c == gate.final.change
            needed == Decide([findings |-> c.findings, owners |-> c.owners, tests |-> FALSE,
                              passed |-> TRUE, known |-> TRUE, satisfied |-> FALSE])
        IN  /\ \A t \in c.tests : t \in DOMAIN gate.results /\ gate.results[t]
            /\ needed # "BLOCK"
            /\ needed = "REQUIRE_APPROVAL" =>
                  Last(gate.final.value.record) = c.id /\ IsPrefix(gate.final.value.record, Committed.record)

(* The gate ends, also when a test hangs or the store is in use.           *)
GateEnds == (gate.at # "start") ~> (gate.at = "done")
=============================================================================
