---------------------------- MODULE ImpactGraph ----------------------------
(***************************************************************************)
(* The graph that graph/indexer.py builds of the source repositories and   *)
(* the semantic catalog.  Pure definitions, used by ImpactAnalysis.        *)
(*                                                                         *)
(* Sources are a record with                                               *)
(*   repos      the repositories                                           *)
(*   facts      what the Java analyzer says of them: is (class, field,     *)
(*              method or call), repo, owner (the class) and name; for a   *)
(*              class whether it is an entity, for a field its type, for a *)
(*              call the method it is in and the field it is called on     *)
(*   contracts  the fields and endpoints of contracts: is (openapi or      *)
(*              proto), repo and name                                      *)
(*   manual     the edges of bizguard-manual-edges.yaml                    *)
(*   boundary   its boundary nodes                                         *)
(* and a catalog one with capabilities (id, owner, repositories, graph) and*)
(* invariants (id, capability).  An identifier is a tuple, scheme first.   *)
(***************************************************************************)
EXTENDS FiniteSets, Sequences

Repository(r) == <<"repository", r>>
Service(r) == <<"service", r>>
Symbol(f) == IF f.is = "class" THEN <<"class", f.repo, f.name>>
             ELSE <<f.is, f.repo, f.owner, f.name>>
Column(f) == <<"db", f.repo, f.owner, f.name>>
(* A proto field is the field of its message, whichever repository has it. *)
ContractId(c) == IF c.is = "proto" THEN <<"proto", c.name>> ELSE <<"api", c.repo, c.name>>
CapabilityId(c) == <<"capability", c.id>>
OwnerId(c) == <<"owner", c.owner>>
InvariantId(i) == <<"invariant", i.id>>

(* An edge is known by its kind and its ends.                              *)
Link(a, b, kind) == [from |-> a, to |-> b, kind |-> kind]

Of(facts, what) == {f \in facts : f.is = what}

-----------------------------------------------------------------------------
(* index: every declaration belongs to its repository; a call is a node but*)
(* nothing declares it.                                                    *)
DeclaredEdges(sources) ==
    {Link(Repository(r), Service(r), "DEPLOYED_WITH") : r \in sources.repos}
    \cup {Link(Repository(f.repo), Symbol(f), "DECLARES") :
             f \in sources.facts \ Of(sources.facts, "call")}
    \cup {Link(Service(c.repo), ContractId(c),
               IF c.is = "proto" THEN "SERIALIZES_TO" ELSE "EXPOSES") : c \in sources.contracts}

Persisted(facts) ==
    {f \in Of(facts, "field") :
        \E c \in Of(facts, "class") : c.entity /\ c.repo = f.repo /\ c.name = f.owner}

(* A faulty version: the column is not tied to the service it lives in.    *)
ColumnsOnly(facts) == {Link(Symbol(f), Column(f), "MAPS_TO") : f \in Persisted(facts)}

(* _add_persistence_edges: a field of an entity is a column.               *)
PersistenceEdges(facts) ==
    {Link(Symbol(f), Column(f), "MAPS_TO") : f \in Persisted(facts)}
    \cup {Link(Column(f), Service(f.repo), "DEPLOYED_WITH") : f \in Persisted(facts)}

(* _add_call_edges: a call on a field is one of the method of its type, if *)
(* the repository has it.                                                  *)
CallEdges(facts) ==
    LET Resolves(call, m, f, n) ==
            /\ {m.repo, f.repo, n.repo} = {call.repo}
            /\ m.owner = call.owner /\ m.name = call.container
            /\ f.owner = call.owner /\ f.name = call.receiver
            /\ n.owner = f.type /\ n.name = call.name
        methods == Of(facts, "method")
    IN  {Link(Symbol(p[1]), Symbol(p[2]), "CALLS") :
            p \in {q \in methods \X methods :
                      \E call \in Of(facts, "call"), f \in Of(facts, "field") :
                          Resolves(call, q[1], f, q[2])}}

(* _add_business_nodes: only the capabilities the catalog selects, tied to *)
(* those of their services that are there.                                 *)
GraphCapabilities(catalog) == {c \in catalog.capabilities : c.graph}
InvariantsOf(c, catalog) == {i \in catalog.invariants : i.capability = c.id}
BusinessEdges(c, sources, catalog) ==
    {Link(Service(r), CapabilityId(c), "BELONGS_TO_CAPABILITY") :
        r \in c.repositories \cap sources.repos}
    \cup {Link(CapabilityId(c), OwnerId(c), "OWNED_BY")}
    \cup {Link(InvariantId(i), CapabilityId(c), "BELONGS_TO_CAPABILITY") : i \in InvariantsOf(c, catalog)}
    \cup {Link(CapabilityId(c), InvariantId(i), "PROTECTED_BY") : i \in InvariantsOf(c, catalog)}

(* A faulty version: the ends of manual edges are not made nodes.          *)
IndexedNodesOnly(sources, catalog) ==
    {Repository(r) : r \in sources.repos} \cup {Service(r) : r \in sources.repos}
    \cup {Symbol(f) : f \in sources.facts} \cup {Column(f) : f \in Persisted(sources.facts)}
    \cup {ContractId(c) : c \in sources.contracts} \cup sources.boundary
    \cup UNION {{CapabilityId(c), OwnerId(c)} \cup {InvariantId(i) : i \in InvariantsOf(c, catalog)} :
                   c \in GraphCapabilities(catalog)}

Nodes(sources, catalog) ==
    {Repository(r) : r \in sources.repos} \cup {Service(r) : r \in sources.repos}
    \cup {Symbol(f) : f \in sources.facts} \cup {Column(f) : f \in Persisted(sources.facts)}
    \cup {ContractId(c) : c \in sources.contracts}
    \cup (UNION {{e.from, e.to} : e \in sources.manual}) \cup sources.boundary
    \cup UNION {{CapabilityId(c), OwnerId(c)} \cup {InvariantId(i) : i \in InvariantsOf(c, catalog)} :
                   c \in GraphCapabilities(catalog)}

(* index                                                                   *)
Index(sources, catalog) ==
    [nodes |-> Nodes(sources, catalog),
     edges |-> DeclaredEdges(sources) \cup PersistenceEdges(sources.facts)
               \cup CallEdges(sources.facts) \cup sources.manual
               \cup UNION {BusinessEdges(c, sources, catalog) : c \in GraphCapabilities(catalog)},
     dynamic |-> sources.boundary]
=============================================================================
