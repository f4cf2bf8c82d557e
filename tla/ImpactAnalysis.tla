--------------------------- MODULE ImpactAnalysis ---------------------------
(***************************************************************************)
(* The impact analysis of one change: the diff is resolved to a node of the*)
(* graph (changed_id_from_diff_text), a breadth-first search looks for the *)
(* business terminals it reaches (impact/analyzer.py), the report says what*)
(* that asks for (impact/service.py), and the evaluator makes a finding of *)
(* it (_impact_boundary).  One step takes one node out of the queue.       *)
(***************************************************************************)
EXTENDS ImpactGraph, Decision, Integers, SequencesExt

CONSTANTS
    Sources,    \* the sources that may be indexed
    Catalog,    \* the catalog; its capabilities also have words and sourceWords,
                \* and it has policies (id, capability) and tests (capability, policy, owner)
    Diffs       \* the diffs: repo and file (a class) of the first changed file, fresh (it is
                \* new), proto, route (a route is added), removed (names), signals (words)

ASSUME CatalogAssumption ==
    /\ IsFiniteSet(Catalog.capabilities)
    /\ \A c \in Catalog.capabilities : c.graph \in BOOLEAN

(* The facts and contracts are those of the files of the repositories.     *)
ASSUME SourcesAssumption ==
    \A s \in Sources :
        /\ \A f \in s.facts \cup s.contracts : f.repo \in s.repos
        /\ IsFiniteSet(Index(s, Catalog).nodes)

VARIABLES
    sources,    \* what was indexed
    graph,      \* the graph of it
    diff,       \* the change
    start,      \* the node the diff is resolved to
    pc,         \* "resolve", "search", "report" or "done"
    queue,      \* nodes to look at (at, crossed, and the path to them), as sets
                \* of those that one node led to
    seen,       \* the nodes that are or were in the queue, with crossed
    routes,     \* the first path that reached a terminal, of every one reached
    outcome     \* the finding (if any), the tests and the owners

vars == <<sources, graph, diff, start, pc, queue, seen, routes, outcome>>

NoArtifact == <<"no indexed changed artifact">>

Structural == {"DECLARES", "DEPLOYED_WITH", "BELONGS_TO_CAPABILITY", "PROTECTED_BY", "OWNED_BY"}
Semantic == {"EXPOSES", "SERIALIZES_TO", "MAPS_TO", "CONSUMES", "CALLS", "PUBLISHES", "OBSERVED_CALL"}
Terminal(node) == node[1] \in {"capability", "invariant", "owner"}

Init ==
    /\ sources \in Sources
    /\ graph = Index(sources, Catalog)
    /\ diff \in Diffs
    /\ start = NoArtifact /\ pc = "resolve"
    /\ queue = <<>> /\ seen = {} /\ routes = <<>>
    /\ outcome = [findings |-> {}, tests |-> {}, owners |-> {}]

-----------------------------------------------------------------------------
(* changed_id_from_diff_text.  Of the nodes of the file, or of all proto   *)
(* fields, the one that most removed names occur in, the shortest first; a *)
(* boundary node if none occurs.                                           *)
Candidates ==
    IF diff.proto THEN {n \in graph.nodes : n[1] = "proto"}
    ELSE {n \in graph.nodes : n[1] \in {"class", "field", "method", "call"}
                              /\ n[2] = diff.repo /\ n[3] = diff.file}

Hits(n) == Cardinality(diff.removed \cap {n[i] : i \in 2..Len(n)})

ChangedId ==
    LET better(m, n) == \/ Hits(m) > Hits(n)
                        \/ Hits(m) = Hits(n) /\ Len(m) < Len(n)
        best(ids) == CHOOSE n \in ids : ~\E m \in ids : better(m, n)
        dynamic == Candidates \cap graph.dynamic
    IN  IF diff.fresh THEN NoArtifact
        ELSE IF diff.route THEN <<"unindexed-route", diff.repo>>
        ELSE IF Candidates = {} THEN NoArtifact
        ELSE IF Hits(best(Candidates)) > 0 THEN best(Candidates)
        ELSE IF dynamic # {} THEN best(dynamic)
        ELSE NoArtifact

(* What is no indexed artifact is not analysed; a node that is not indexed *)
(* has no route, and neither has a boundary of one.                        *)
Resolve ==
    /\ pc = "resolve"
    /\ start' = ChangedId
    /\ pc' = IF start' = NoArtifact THEN "done"
             ELSE IF start' \in graph.nodes THEN "search" ELSE "report"
    /\ queue' = IF pc' = "search" THEN <<{[at |-> start', crossed |-> FALSE, path |-> <<start'>>]}>> ELSE <<>>
    /\ seen' = IF pc' = "search" THEN {<<start', FALSE>>} ELSE {}
    /\ UNCHANGED <<sources, graph, diff, routes, outcome>>

-----------------------------------------------------------------------------
(* From a node, along an edge of any direction, but not back to the start. *)
(* Before a service boundary is crossed only what crosses one counts.      *)
OtherEnd(e, node) == IF e.from = node THEN e.to ELSE e.from
Steps(node, crossed) ==
    {<<OtherEnd(e, node), crossed \/ e.kind \in Semantic>> :
        e \in {f \in graph.edges : /\ node \in {f.from, f.to}
                                   /\ OtherEnd(f, node) # start
                                   /\ f.kind \in Semantic \/ (crossed /\ f.kind \in Structural)}}

Unseen(head) == Steps(head.at, head.crossed) \ seen

(* A faulty version: what was found last is looked at first.               *)
EnqueueFirst(found, rest) == found \o rest

Enqueue(found, rest) == rest \o found
Batch(entries) == IF entries = {} THEN <<>> ELSE <<entries>>

(* The turn of the node at the head of the queue.  What it leads to is put *)
(* there in the order of the edges' ids, which is left open here.          *)
Visit ==
    /\ pc = "search" /\ queue # <<>>
    /\ \E head \in Head(queue) :
          LET found == {[at |-> s[1], crossed |-> s[2], path |-> Append(head.path, s[1])] :
                           s \in Unseen(head)}
              rest == Batch(Head(queue) \ {head}) \o Tail(queue)
          IN  /\ queue' = Enqueue(Batch(found), rest)
              /\ seen' = seen \cup Unseen(head)
              /\ routes' =
                   IF head.crossed /\ head.at # start /\ Terminal(head.at) /\ head.at \notin DOMAIN routes
                   THEN [n \in DOMAIN routes \cup {head.at} |->
                            IF n = head.at THEN head.path ELSE routes[n]]
                   ELSE routes
    /\ UNCHANGED <<sources, graph, diff, start, pc, outcome>>

(* A faulty version: the search is over when a terminal was reached.       *)
FinishWithRoute ==
    /\ pc = "search" /\ queue = <<>> /\ DOMAIN routes # {}
    /\ pc' = "report"
    /\ UNCHANGED <<sources, graph, diff, start, queue, seen, routes, outcome>>

Finish ==
    /\ pc = "search" /\ queue = <<>>
    /\ pc' = "report"
    /\ UNCHANGED <<sources, graph, diff, start, queue, seen, routes, outcome>>

-----------------------------------------------------------------------------
(* _infer_capability: the one whose words the diff has most of, if it is   *)
(* one.                                                                    *)
Score(c) == 6 * Cardinality(diff.signals \cap c.sourceWords)
            + 4 * Cardinality(diff.signals \cap c.words)
            + 4 * Cardinality(diff.signals \cap c.repositories)

Inferred ==
    LET eligible == {c \in Catalog.capabilities :
                        /\ \E p \in Catalog.policies : p.capability = c.id
                        /\ \E t \in Catalog.tests : t.capability = c.id}
        best == {c \in eligible : Score(c) > 0 /\ \A d \in eligible : Score(d) <= Score(c)}
    IN  IF Cardinality(best) = 1 THEN best ELSE {}

(* select_required_tests, of every policy of the capability.               *)
RequiredTests(c) ==
    {t \in Catalog.tests :
        /\ t.capability = c.id /\ t.owner = c.owner
        /\ \E p \in Catalog.policies : p.id = t.policy /\ p.capability = c.id}

Asked(approvers) ==
    [severity |-> "high", confidence |-> 100, mode |-> "blocking",
     violated |-> FALSE, unknown |-> TRUE, public |-> FALSE, approvers |-> approvers]

(* A faulty version: no route is no impact.                                *)
NoRouteNoImpact(c) ==
    [findings |-> {}, tests |-> RequiredTests(c), owners |-> {}]

(* The report on a capability and the finding made of it: what leads to no *)
(* terminal is unknown, and a matter of the capability's owner.            *)
Reported(c) ==
    [findings |-> IF DOMAIN routes = {} THEN {Asked({c.owner})} ELSE {},
     tests |-> RequiredTests(c),
     owners |-> IF DOMAIN routes = {} THEN {c.owner} ELSE {}]

Report ==
    /\ pc = "report"
    /\ outcome' = IF Inferred = {}
                  THEN [findings |-> {Asked({})}, tests |-> {}, owners |-> {}]
                  ELSE Reported(CHOOSE c \in Inferred : TRUE)
    /\ pc' = "done"
    /\ UNCHANGED <<sources, graph, diff, start, queue, seen, routes>>

Next == Resolve \/ Visit \/ Finish \/ Report

Spec == Init /\ [][Next]_vars

(* One call of one thread: nothing it waits for.                           *)
FairSpec == Spec /\ WF_vars(Next)

-----------------------------------------------------------------------------
(* Types; the edges of the graph are between nodes of it, so that nothing  *)
(* is reached that the graph says nothing of.                              *)
TypeOK ==
    /\ pc \in {"resolve", "search", "report", "done"}
    /\ \A e \in graph.edges : {e.from, e.to} \subseteq graph.nodes
    /\ \A i \in DOMAIN queue : \A e \in queue[i] :
          e.at \in graph.nodes /\ e.crossed \in BOOLEAN
    /\ seen \subseteq graph.nodes \X BOOLEAN
    /\ DOMAIN routes \subseteq {n \in graph.nodes : Terminal(n)}

(* What is reached in at most k steps, said without a queue.               *)
Within[k \in Nat] ==
    IF k = 0 THEN {<<start, FALSE>>}
    ELSE LET nearer == Within[k - 1]
         IN  nearer \cup UNION {Steps(s[1], s[2]) : s \in nearer}
IsRoute(path) ==
    /\ path[1] = start
    /\ \A i \in 1..(Len(path) - 1) : \E e \in graph.edges :
          /\ e.kind \in IF i = 1 THEN Semantic ELSE Semantic \cup Structural
          /\ {e.from, e.to} = {path[i], path[i + 1]}

(* The search ends with a route to every terminal within reach and to none *)
(* beyond: each a path of the graph that starts by crossing a boundary, and*)
(* there is no shorter one.  Cycles and parallel ways lose none.           *)
RoutesAreShortest ==
    (pc = "report" /\ start \in graph.nodes) =>
        /\ DOMAIN routes =
              {n \in graph.nodes : Terminal(n) /\ <<n, TRUE>> \in Within[Cardinality(graph.nodes)]}
        /\ \A n \in DOMAIN routes :
              /\ IsRoute(routes[n]) /\ Last(routes[n]) = n
              /\ <<n, TRUE>> \notin Within[Len(routes[n]) - 2]

(* What a repository of a capability persists is the business of it: a     *)
(* change of such a field reaches the capability, its owner and all its    *)
(* invariants, whatever else the graph holds.                              *)
PersistedIsBusiness ==
    pc = "report" =>
        \A f \in Persisted(sources.facts), c \in GraphCapabilities(Catalog) :
            (start = Symbol(f) /\ f.repo \in c.repositories) =>
                {CapabilityId(c), OwnerId(c)} \cup {InvariantId(i) : i \in InvariantsOf(c, Catalog)}
                    \subseteq DOMAIN routes

(* A changed artifact without a way to the business is a matter of a       *)
(* person: of the owner of the capability, when the diff says which it is. *)
DeadEndIsAsked ==
    (pc = "done" /\ start # NoArtifact) =>
        LET decision == Decide([findings |-> outcome.findings, owners |-> outcome.owners,
                                tests |-> outcome.tests # {}, passed |-> FALSE,
                                known |-> TRUE, satisfied |-> FALSE])
        IN  /\ decision = "REQUIRE_APPROVAL" <=> (DOMAIN routes = {} \/ Inferred = {})
            /\ DOMAIN routes = {} => outcome.owners = {c.owner : c \in Inferred}

(* The analysis of a graph with cycles ends.                               *)
Answers == <>(pc = "done")
=============================================================================
