-------------------------- MODULE MCImpactAnalysis --------------------------
(* Two services: core with an entity, a service that calls it, and a       *)
(* contract; shop with a class that publishes what core consumes, and its  *)
(* own copy of the contract.  Any part of what ties them may be missing.   *)
EXTENDS ImpactAnalysis

Code ==
    {[is |-> "class", repo |-> "core", name |-> "Record", entity |-> TRUE],
     [is |-> "class", repo |-> "core", name |-> "Service", entity |-> FALSE],
     [is |-> "method", repo |-> "core", owner |-> "Service", name |-> "run"],
     [is |-> "method", repo |-> "shop", owner |-> "Cart", name |-> "pay"],
     [is |-> "field", repo |-> "shop", owner |-> "Cart", name |-> "total", type |-> "int"]}
MaybeCode ==
    {[is |-> "field", repo |-> "core", owner |-> "Record", name |-> "status", type |-> "int"],
     [is |-> "field", repo |-> "core", owner |-> "Service", name |-> "record", type |-> "Record"],
     [is |-> "method", repo |-> "core", owner |-> "Record", name |-> "save"],
     [is |-> "call", repo |-> "core", owner |-> "Service", container |-> "run",
      receiver |-> "record", name |-> "save"]}
MaybeContracts ==
    {[is |-> "openapi", repo |-> "core", name |-> "redeem"],
     [is |-> "proto", repo |-> "core", name |-> "code"],
     [is |-> "proto", repo |-> "shop", name |-> "code"]}
Run == <<"method", "core", "Service", "run">>
Pay == <<"method", "shop", "Cart", "pay">>
Topic == <<"mq", "shop", "paid">>
Manual ==
    {{}, {Link(Pay, Topic, "PUBLISHES"), Link(Run, Topic, "CONSUMES")},
     {Link(Pay, Topic, "PUBLISHES"), Link(Run, Topic, "INVOKES")}}

AllSources ==
    {[repos |-> {"core", "shop"}, facts |-> Code \cup code, contracts |-> contracts,
      manual |-> manual, boundary |-> boundary] :
        code \in SUBSET MaybeCode, contracts \in SUBSET MaybeContracts,
        manual \in Manual, boundary \in {{}, {Pay}}}

(* Two capabilities of one owner and one of another, one of them not for   *)
(* the graph.                                                              *)
TheCatalog ==
    [capabilities |->
        {[id |-> "redemption", owner |-> "platform", repositories |-> {"core"}, graph |-> TRUE,
          words |-> {"redemption", "field"}, sourceWords |-> {"status"}],
         [id |-> "checkout", owner |-> "merchant", repositories |-> {"shop", "gone"}, graph |-> TRUE,
          words |-> {"checkout", "field"}, sourceWords |-> {"cart"}],
         [id |-> "ledger", owner |-> "platform", repositories |-> {"core"}, graph |-> FALSE,
          words |-> {"ledger"}, sourceWords |-> {}]},
     invariants |-> {[id |-> "once", capability |-> "redemption"]},
     policies |-> {[id |-> "key", capability |-> "redemption"], [id |-> "price", capability |-> "checkout"],
                   [id |-> "audit", capability |-> "ledger"]},
     tests |-> {[capability |-> "redemption", policy |-> "key", owner |-> "platform"],
                [capability |-> "checkout", policy |-> "price", owner |-> "merchant"]}]

Changed ==
    {[repo |-> "core", file |-> "Record", removed |-> {"status"}, proto |-> FALSE, route |-> FALSE],
     [repo |-> "core", file |-> "Service", removed |-> {"run"}, proto |-> FALSE, route |-> FALSE],
     [repo |-> "shop", file |-> "Cart", removed |-> {"total", "pay"}, proto |-> FALSE, route |-> FALSE],
     [repo |-> "shop", file |-> "Cart", removed |-> {"pay"}, proto |-> FALSE, route |-> FALSE],
     [repo |-> "shop", file |-> "Cart", removed |-> {}, proto |-> FALSE, route |-> FALSE],
     [repo |-> "core", file |-> "api", removed |-> {"code"}, proto |-> TRUE, route |-> FALSE],
     [repo |-> "core", file |-> "api", removed |-> {}, proto |-> FALSE, route |-> TRUE]}
(* Other words in the diff matter where the search may find no way out.    *)
OfADeadEnd(c) == c.removed \in {{}, {"total", "pay"}}
AllDiffs ==
    {[repo |-> p[1].repo, file |-> p[1].file, removed |-> p[1].removed, proto |-> p[1].proto,
      route |-> p[1].route, fresh |-> FALSE, signals |-> p[2]] :
        p \in {q \in Changed \X {{"status"}, {"field"}, {"ledger", "cart"}} :
                 q[2] = {"status"} \/ OfADeadEnd(q[1])}}
    \cup {[repo |-> "core", file |-> "Service", removed |-> {}, proto |-> FALSE, route |-> FALSE,
           fresh |-> TRUE, signals |-> {"status"}]}
=============================================================================
