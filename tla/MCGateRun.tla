----------------------------- MODULE MCGateRun -----------------------------
(* Releases whose migrations extend each other, one that changed a file    *)
(* that is applied elsewhere, and one with two files of one version.       *)
EXTENDS GateRun

File(version, name, sum) == [version |-> version, name |-> name, sum |-> sum]
Releases ==
    {<<File(1, "initial", "x")>>,
     <<File(1, "initial", "x"), File(2, "packs", "x")>>,
     <<File(1, "initial", "y"), File(2, "packs", "x")>>,
     <<File(1, "initial", "x"), File(1, "packs", "x")>>}

Risky == [severity |-> "high", confidence |-> 100, mode |-> "blocking",
          violated |-> FALSE, unknown |-> TRUE, public |-> FALSE, approvers |-> {"a"}]
Change(id, findings, tests) == [id |-> id, findings |-> findings, owners |-> {}, tests |-> tests]
ThreeChanges ==
    {Change("plain", {}, {"quick"}), Change("risky", {Risky}, {"quick"}),
     Change("wide", {}, {"quick", "slow"})}
=============================================================================
