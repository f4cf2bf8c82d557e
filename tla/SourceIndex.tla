---------------------------- MODULE SourceIndex ----------------------------
(***************************************************************************)
(* The indexes that server processes keep in memory over files that people *)
(* and agents edit meanwhile: the graph of the repositories                *)
(* (ContextCompiler._graph, ChangeEvaluator._impact_boundary with          *)
(* graph/indexer.py) and the knowledge base (_knowledge of the MCP server, *)
(* ContextCompiler._search).                                               *)
(*                                                                         *)
(* A call digests the files, and rebuilds the index under a lock if its    *)
(* label is another digest.  Files are read one after the other, and each  *)
(* pass over them reads them again.  The knowledge base is labelled with   *)
(* the digest the call came with, the graph with a digest that index()     *)
(* takes after it has read the sources.                                    *)
(***************************************************************************)
EXTENDS Naturals

CONSTANTS
    Callers,    \* threads that use the index
    Files,      \* number of indexed files
    Versions,   \* bound on the versions of one file
    Reverts     \* whether an edit may bring an earlier version back

ASSUME SourceIndexAssumption ==
    /\ Files \in Nat \ {0} /\ Versions \in Nat \ {0}
    /\ Reverts \in BOOLEAN

VARIABLES
    kind,   \* which of the two indexes this is: "graph" or "knowledge"
    disk,   \* the version of each file
    cache,  \* the shared index: what it was built from, and its label
    lock,   \* the caller that holds the lock, or nobody
    call    \* per caller: where it is, and what it has read

vars == <<kind, disk, cache, lock, call>>

(* What a pass over the files has read; a digest is taken as injective.    *)
Content == [1..Files -> 0..Versions]
Nothing == [f \in 1..Files |-> 0]

Nobody == "nobody"
ASSUME NobodyAssumption == Nobody \notin Callers

Empty == [built |-> Nothing, label |-> Nothing]  \* 0 is no version of a file
Idle == [step |-> "idle", next |-> 1, digest |-> Nothing, built |-> Nothing,
         label |-> Nothing, quiet |-> FALSE]
Where == {"idle", "digest", "wait", "build", "label", "done"}

Init ==
    /\ kind \in {"graph", "knowledge"}
    /\ disk = [f \in 1..Files |-> 1]
    /\ cache = Empty
    /\ lock = Nobody
    /\ call = [c \in Callers |-> Idle]

-----------------------------------------------------------------------------
(* Somebody writes a file while the server runs.                           *)
Edit(f, v) ==
    /\ v # disk[f] /\ (v > disk[f] \/ Reverts)
    /\ disk' = [disk EXCEPT ![f] = v]
    /\ call' = [c \in Callers |-> [call[c] EXCEPT !.quiet = FALSE]]
    /\ UNCHANGED <<cache, lock>>

Begin(c) ==
    /\ call[c].step \in {"idle", "done"}
    /\ call' = [call EXCEPT ![c] = [Idle EXCEPT !.step = "digest", !.quiet = TRUE]]
    /\ UNCHANGED <<disk, cache, lock>>

(* One file of a pass, into the given field; then, the next step.          *)
ReadInto(c, record, then) ==
    call' = [call EXCEPT ![c] =
               IF @.next = Files
               THEN [record EXCEPT !.next = 1, !.step = then]
               ELSE [record EXCEPT !.next = @ + 1]]

(* content_digest, or the signature of the knowledge directory.            *)
Digest(c) ==
    /\ call[c].step = "digest"
    /\ ReadInto(c, [call[c] EXCEPT !.digest[call[c].next] = disk[call[c].next]], "wait")
    /\ UNCHANGED <<disk, cache, lock>>

(* A cached index whose label is the digest is the answer.                 *)
UseCached(c) ==
    /\ call[c].step = "wait" /\ lock = Nobody
    /\ cache.label = call[c].digest
    /\ call' = [call EXCEPT ![c].built = cache.built, ![c].step = "done"]
    /\ UNCHANGED <<disk, cache, lock>>

(* A faulty version: two calls may rebuild at once.                        *)
RebuildUnlocked(c) ==
    /\ call[c].step = "wait"
    /\ cache.label # call[c].digest
    /\ lock' = c
    /\ call' = [call EXCEPT ![c].step = "build"]
    /\ UNCHANGED <<disk, cache>>

Rebuild(c) ==
    /\ call[c].step = "wait" /\ lock = Nobody
    /\ cache.label # call[c].digest
    /\ lock' = c
    /\ call' = [call EXCEPT ![c].step = "build"]
    /\ UNCHANGED <<disk, cache>>

(* index, ingest_directory: the sources are read again and parsed.         *)
Build(c) ==
    /\ call[c].step = "build"
    /\ ReadInto(c, [call[c] EXCEPT !.built[call[c].next] = disk[call[c].next]], "label")
    /\ UNCHANGED <<disk, cache, lock>>

Publish(c, label) ==
    /\ cache' = [built |-> call[c].built, label |-> label]
    /\ lock' = Nobody
    /\ UNCHANGED disk

(* A faulty version: the signature is taken again at the end.              *)
PublishRelabelled(c) ==
    /\ kind = "knowledge"
    /\ call[c].step = "label"
    /\ Publish(c, disk)
    /\ call' = [call EXCEPT ![c].step = "done"]

(* The knowledge base keeps the signature the call came with.              *)
PublishKnowledge(c) ==
    /\ kind = "knowledge"
    /\ call[c].step = "label"
    /\ Publish(c, call[c].digest)
    /\ call' = [call EXCEPT ![c].step = "done"]

(* The last lines of index: a third pass over the files gives the label.   *)
LabelGraph(c) ==
    /\ kind = "graph"
    /\ call[c].step = "label"
    /\ LET read == [call[c] EXCEPT !.label[call[c].next] = disk[call[c].next]]
       IN  /\ ReadInto(c, read, "done")
           /\ IF call[c].next = Files
              THEN Publish(c, read.label)
              ELSE UNCHANGED <<disk, cache, lock>>

(* A faulty version: the lock is not given back when index raises.         *)
RaiseWithLock(c) ==
    /\ call[c].step \in {"digest", "build", "label"}
    /\ call' = [call EXCEPT ![c] = Idle]
    /\ UNCHANGED <<disk, cache, lock>>

(* A source that cannot be read or parsed: the call raises, nothing is     *)
(* published.                                                              *)
Raise(c) ==
    /\ call[c].step \in {"digest", "build", "label"}
    /\ lock' = IF lock = c THEN Nobody ELSE lock
    /\ call' = [call EXCEPT ![c] = Idle]
    /\ UNCHANGED <<disk, cache>>

Next ==
    /\ UNCHANGED kind
    /\ \/ \E f \in 1..Files, v \in 1..Versions : Edit(f, v)
       \/ \E c \in Callers :
             \/ Begin(c) \/ Digest(c) \/ UseCached(c) \/ Rebuild(c) \/ Build(c)
             \/ PublishKnowledge(c) \/ LabelGraph(c) \/ Raise(c)

(* The threads of the server run: a call that can go on does.  Whether it  *)
(* ends well, when calls come and what is edited is left open.             *)
Step(c) ==
    /\ UNCHANGED kind
    /\ \/ Digest(c) \/ UseCached(c) \/ Rebuild(c) \/ Build(c)
       \/ PublishKnowledge(c) \/ LabelGraph(c)

Spec == Init /\ [][Next]_vars
FairSpec == Spec /\ \A c \in Callers : WF_vars(Step(c))

-----------------------------------------------------------------------------
(* Types; one caller at a time builds, and it is the one with the lock.    *)
TypeOK ==
    /\ kind \in {"graph", "knowledge"}
    /\ disk \in [1..Files -> 1..Versions]
    /\ cache \in [built : Content, label : Content]
    /\ lock \in Callers \cup {Nobody}
    /\ call \in [Callers -> [step : Where, next : 1..Files, digest : Content,
                             built : Content, label : Content, quiet : BOOLEAN]]
    /\ \A c \in Callers : call[c].step \in {"build", "label"} <=> lock = c

Current ==
    \A c \in Callers :
        (call[c].step = "done" /\ call[c].quiet) => call[c].built = disk

(* "Reuse the in-memory knowledge index until a governed file changes": a  *)
(* call during which no file changes is answered from the files as they    *)
(* are, whatever was edited while earlier calls, whose index it may reuse, *)
(* were building.                                                          *)
CurrentWhenQuiet == kind = "knowledge" => Current

(* Whoever builds gives the lock back, also when a source turns out to be  *)
(* unreadable, so no call waits for an index that will never come.         *)
LockReleased == \A c \in Callers : lock = c ~> lock = Nobody
=============================================================================
