---------------------------- MODULE ContextPacks ----------------------------
(***************************************************************************)
(* prepare_change: ContextCompiler.compile (context/compiler.py) with its  *)
(* process-local ContextCache (context/cache.py), and the ContextStore     *)
(* (change/store.py) that server processes share: SQLite, where put is a   *)
(* read and a write with a lock of the process around them, or PostgreSQL, *)
(* where it is one transaction.                                            *)
(*                                                                         *)
(* A pack stands for its payload.  Its ID hashes the task, the revisions,  *)
(* the principal and the digests of the sources, but not the token budget, *)
(* which the pack contains and which decides what is trimmed from it: two  *)
(* packs may share an ID.  The cache key has the budget as well.           *)
(***************************************************************************)
CONSTANTS
    Processes,  \* server processes, one compile at a time each
    Packs,      \* the packs that requests compile to: [id, budget]
    Absent      \* no row

ASSUME PacksAssumption == Absent \notin Packs

VARIABLES
    backend,   \* the database the deployment is configured with
    table,     \* the context table: the pack stored under each ID
    cache,     \* per process: the packs in its cache, of the right revisions and in time
    call,      \* per process: the pack it is about to put, and how far it is
    confirmed, \* history: the packs whose put has returned
    answered   \* history: the packs prepare_change has returned

vars == <<backend, table, cache, call, confirmed, answered>>

Ids == {p.id : p \in Packs}
Idle == [step |-> "idle"]
Call == [step : {"compiled", "checked", "written"}, pack : Packs] \cup {Idle}

Init ==
    /\ backend \in {"sqlite", "postgres"}
    /\ table = [id \in Ids |-> Absent]
    /\ cache = [s \in Processes |-> {}]
    /\ call = [s \in Processes |-> Idle]
    /\ confirmed = {}
    /\ answered = {}

(* A cached pack is the answer: nothing is stored.                         *)
AnswerFromCache(s, p) ==
    /\ call[s] = Idle
    /\ p \in cache[s]
    /\ answered' = answered \cup {p}
    /\ UNCHANGED <<table, cache, call, confirmed>>

(* Otherwise the pack is compiled and put into the cache, before the store.*)
Compile(s, p) ==
    /\ call[s] = Idle
    /\ p \notin cache[s]
    /\ cache' = [cache EXCEPT ![s] = @ \cup {p}]
    /\ call' = [call EXCEPT ![s] = [step |-> "compiled", pack |-> p]]
    /\ UNCHANGED <<table, confirmed, answered>>

-----------------------------------------------------------------------------
(* The rest of the call once its transaction is committed.                 *)
Written(s) ==
    /\ call' = [call EXCEPT ![s].step = "written"]
    /\ UNCHANGED <<cache, confirmed, answered>>

(* put of ChangeContextStore, first half: a different payload under the    *)
(* same ID is an error.                                                    *)
CheckStored(s) ==
    /\ backend = "sqlite"
    /\ call[s].step = "compiled"
    /\ table[call[s].pack.id] \in {Absent, call[s].pack}
    /\ call' = [call EXCEPT ![s].step = "checked"]
    /\ UNCHANGED <<table, cache, confirmed, answered>>

(* A faulty version: INSERT OR REPLACE.                                    *)
InsertOrReplace(s) ==
    /\ backend = "sqlite"
    /\ call[s].step = "checked"
    /\ table' = [table EXCEPT ![call[s].pack.id] = call[s].pack]
    /\ Written(s)

(* A faulty version: no commit.                                            *)
InsertUncommitted(s) ==
    /\ backend = "sqlite"
    /\ call[s].step = "checked"
    /\ Written(s)
    /\ UNCHANGED table

(* Second half: INSERT OR IGNORE, and the commit.                          *)
InsertOrIgnore(s) ==
    /\ backend = "sqlite"
    /\ call[s].step = "checked"
    /\ table' = [table EXCEPT ![call[s].pack.id] = IF @ = Absent THEN call[s].pack ELSE @]
    /\ Written(s)

(* A faulty version: the stored row is not read back.                      *)
PutUnverified(s) ==
    /\ backend = "postgres"
    /\ call[s].step = "compiled"
    /\ table' = [table EXCEPT ![call[s].pack.id] = IF @ = Absent THEN call[s].pack ELSE @]
    /\ Written(s)

(* A faulty version: ON CONFLICT DO UPDATE.                                *)
Upsert(s) ==
    /\ backend = "postgres"
    /\ call[s].step = "compiled"
    /\ table' = [table EXCEPT ![call[s].pack.id] = call[s].pack]
    /\ Written(s)

(* put of PostgresChangeContextStore: ON CONFLICT DO NOTHING, then the row *)
(* is read back and must be the payload.                                   *)
PutVerified(s) ==
    /\ backend = "postgres"
    /\ call[s].step = "compiled"
    /\ table[call[s].pack.id] \in {Absent, call[s].pack}
    /\ table' = [table EXCEPT ![call[s].pack.id] = call[s].pack]
    /\ Written(s)

(* put returns, and so does prepare_change.                                *)
Return(s) ==
    /\ call[s].step = "written"
    /\ call' = [call EXCEPT ![s] = Idle]
    /\ confirmed' = confirmed \cup {call[s].pack}
    /\ answered' = answered \cup {call[s].pack}
    /\ UNCHANGED <<table, cache>>

(* put raises: the ID has another payload, the database is locked or away, *)
(* or its answer to the commit is lost.                                    *)
Raise(s) ==
    /\ call[s] # Idle
    /\ call' = [call EXCEPT ![s] = Idle]
    /\ UNCHANGED <<table, cache, confirmed, answered>>

-----------------------------------------------------------------------------
(* is_stale: the entry's ten minutes are over.                             *)
Expire(s, p) ==
    /\ p \in cache[s]
    /\ cache' = [cache EXCEPT ![s] = @ \ {p}]
    /\ UNCHANGED <<table, call, confirmed, answered>>

Restart(s) ==
    /\ cache' = [cache EXCEPT ![s] = {}]
    /\ call' = [call EXCEPT ![s] = Idle]
    /\ UNCHANGED <<table, confirmed, answered>>

Next ==
    /\ UNCHANGED backend
    /\ \E s \in Processes :
           \/ \E p \in Packs : AnswerFromCache(s, p) \/ Compile(s, p) \/ Expire(s, p)
           \/ CheckStored(s)
           \/ InsertOrIgnore(s)
           \/ PutVerified(s)
           \/ Return(s)
           \/ Raise(s)
           \/ Restart(s)

Spec == Init /\ [][Next]_vars

-----------------------------------------------------------------------------
(* Types; a row holds a pack of its own ID, and there is one for every ID  *)
(* that a call believes written.                                           *)
TypeOK ==
    /\ backend \in {"sqlite", "postgres"}
    /\ table \in [Ids -> Packs \cup {Absent}]
    /\ \A id \in Ids : table[id] # Absent => table[id].id = id
    /\ cache \in [Processes -> SUBSET Packs]
    /\ call \in [Processes -> Call]
    /\ \A s \in Processes :
          call[s].step = "written" => table[call[s].pack.id] # Absent
    /\ confirmed \subseteq Packs /\ answered \subseteq Packs

(* "Without mutating a previously stored ID": however the puts of several  *)
(* processes interleave, fail and are repeated, a stored pack stays.       *)
StoreImmutable ==
    [][\A id \in Ids : table[id] # Absent => table'[id] = table[id]]_vars

(* "Store a new immutable context or verify an identical retry": a put     *)
(* that PostgreSQL answered has its payload in the store.                  *)
PutConfirms ==
    backend = "postgres" => \A p \in confirmed : table[p.id] = p

(* The PostgreSQL store, with all that compile and the cache do around it, *)
(* keeps the promise of the protocol.                                      *)
PromisedTable == IF backend = "postgres" THEN table ELSE [id \in Ids |-> Absent]
PromisedConfirmed == IF backend = "postgres" THEN confirmed ELSE {}
Promise == INSTANCE WriteOnce
             WITH table <- PromisedTable, confirmed <- PromisedConfirmed
KeepsPromise == Promise!Spec
=============================================================================
