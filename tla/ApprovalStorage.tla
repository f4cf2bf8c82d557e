-------------------------- MODULE ApprovalStorage --------------------------
(***************************************************************************)
(* The database of the approvals (workflow/store.py) under the processes   *)
(* that share it: the SQLite file with its write-ahead log, or PostgreSQL. *)
(* The steps of a transaction of mutate, which ApprovalService takes for   *)
(* one, and the read-only look of an evaluation at the file of processes   *)
(* that may be writing it (agents_mcp/server.py).                          *)
(*                                                                         *)
(* The table holds one record.  Its value is the operations that made it,  *)
(* each the change it approved; the audit is the operations logged.        *)
(***************************************************************************)
EXTENDS SchemaMigration

CONSTANTS
    Approvable,  \* the changes an operation may approve
    MaxWrites    \* bound on the operations committed

VARIABLES
    backend,  \* "sqlite" or "postgres"
    main,     \* the database: record and audit
    wal,      \* the same with what the write-ahead log adds to it
    conns,    \* the processes that have the SQLite file open for writing
    txn,      \* per process: the transaction it is in
    writer,   \* who holds the write lock
    view      \* the read-only look of an evaluation

storageVars == <<backend, main, wal, conns, txn, writer, view>>

Empty == [record |-> <<>>, audit |-> <<>>]
NoLog == [log |-> "none"]
NoTxn == [step |-> "none"]
NoView == [step |-> "none"]

StorageInit ==
    /\ backend \in {"sqlite", "postgres"}
    /\ main = Empty /\ wal = NoLog
    /\ conns = {} /\ writer = Nobody
    /\ txn = [i \in Instance |-> NoTxn]
    /\ view = NoView

Committed == IF wal = NoLog THEN main ELSE wal
Connected(i) == IF backend = "sqlite" THEN i \in conns ELSE phase[i] = "ready"

-----------------------------------------------------------------------------
(* SqliteApprovalStore.__init__: whoever opens the file for writing makes  *)
(* the log, or recovers it.                                                *)
Open(i) ==
    /\ backend = "sqlite" /\ i \notin conns
    /\ conns' = conns \cup {i}
    /\ wal' = Committed
    /\ UNCHANGED <<backend, main, txn, writer, view>>

(* A faulty version: the transaction is not begun as one that writes.      *)
BeginDeferred(i) ==
    /\ Connected(i) /\ txn[i] = NoTxn
    /\ Len(Committed.record) < MaxWrites
    /\ writer' = i
    /\ txn' = [txn EXCEPT ![i] = [step |-> "read", value |-> Committed]]
    /\ UNCHANGED <<backend, main, wal, conns, view>>

(* mutate: BEGIN IMMEDIATE, or the advisory lock of the key, then the row. *)
Begin(i) ==
    /\ Connected(i) /\ txn[i] = NoTxn /\ writer = Nobody
    /\ Len(Committed.record) < MaxWrites
    /\ writer' = i
    /\ txn' = [txn EXCEPT ![i] = [step |-> "read", value |-> Committed]]
    /\ UNCHANGED <<backend, main, wal, conns, view>>

(* The record of the operation's result ...                                *)
Update(i) ==
    /\ txn[i].step = "read"
    /\ \E c \in Approvable :
          txn' = [txn EXCEPT ![i] = [step |-> "updated",
                    value |-> [record |-> Append(txn[i].value.record, c),
                               audit |-> txn[i].value.audit]]]
    /\ UNCHANGED <<backend, main, wal, conns, writer, view>>

(* ... and its audit events ...                                            *)
Log(i) ==
    /\ txn[i].step = "updated"
    /\ LET record == txn[i].value.record
           audit == txn[i].value.audit
       IN  txn' = [txn EXCEPT ![i] = [step |-> "logged",
                      value |-> [record |-> record, audit |-> Append(audit, Last(record))]]]
    /\ UNCHANGED <<backend, main, wal, conns, writer, view>>

End(i) ==
    /\ txn' = [txn EXCEPT ![i] = NoTxn]
    /\ writer' = IF writer = i THEN Nobody ELSE writer

(* ... become visible together,                                            *)
Commit(i) ==
    /\ txn[i].step = "logged"
    /\ IF backend = "sqlite" THEN wal' = txn[i].value /\ UNCHANGED main
                             ELSE main' = txn[i].value /\ UNCHANGED wal
    /\ End(i)
    /\ UNCHANGED <<backend, conns, view>>

(* or not at all: the operation raises, or the database does.              *)
Rollback(i) ==
    /\ txn[i] # NoTxn
    /\ End(i)
    /\ UNCHANGED <<backend, main, wal, conns, view>>

(* SQLite moves the log into the file now and then, ...                    *)
Checkpoint ==
    /\ wal # NoLog
    /\ main' = wal
    /\ UNCHANGED <<backend, wal, conns, txn, writer, view>>

(* ... and removes it when the last process closes the file.               *)
Close(i) ==
    /\ i \in conns /\ txn[i] = NoTxn
    /\ conns' = conns \ {i}
    /\ IF conns' = {} THEN main' = wal /\ wal' = NoLog ELSE UNCHANGED <<main, wal>>
    /\ UNCHANGED <<backend, txn, writer, view>>

(* A process dies: its transaction is gone, the log stays behind.          *)
Crash(i) ==
    /\ conns' = conns \ {i}
    /\ End(i)
    /\ UNCHANGED <<backend, main, wal, view>>

-----------------------------------------------------------------------------
(* A faulty version: nobody looks for the log.                             *)
LogIgnored == FALSE

(* Path(f"{path}-wal").exists()                                            *)
Uncheckpointed == wal # NoLog

(* evaluate_change, in a process that has not opened the store: if there is*)
(* no log the file is opened read-only, or else no approval is looked up.  *)
Look ==
    /\ backend = "sqlite" /\ view.step \in {"none", "answered", "raised"}
    /\ view' = IF Uncheckpointed THEN [step |-> "answered", since |-> Committed, value |-> NoLog]
               ELSE [step |-> "found", since |-> Committed]
    /\ UNCHANGED <<backend, main, wal, conns, txn, writer>>

(* SqliteApprovalStore(read_only) looks once more.                         *)
OpenReadOnly ==
    /\ view.step = "found"
    /\ view' = IF Uncheckpointed THEN [step |-> "raised"]
               ELSE [step |-> "open", since |-> view.since, opened |-> main]
    /\ UNCHANGED <<backend, main, wal, conns, txn, writer>>

(* The file is taken for immutable: if it is written nevertheless, the read*)
(* may find the pages of before, those of now, or a mix and raise.         *)
ReadView ==
    /\ view.step = "open"
    /\ view' \in {[step |-> "answered", since |-> view.since, value |-> v] : v \in {main, view.opened}}
                 \cup (IF main = view.opened THEN {} ELSE {[step |-> "raised"]})
    /\ UNCHANGED <<backend, main, wal, conns, txn, writer>>

Viewing == Look \/ OpenReadOnly \/ ReadView

Storing(i) ==
    \/ Begin(i) \/ Update(i) \/ Log(i) \/ Commit(i) \/ Rollback(i) \/ Close(i)

-----------------------------------------------------------------------------
(* No update is lost and none is half done: what is committed is the result*)
(* of the operations in the audit, in their order, each on the one before; *)
(* two transactions never build on the same record.                        *)
AuditIsRecord ==
    /\ Committed.record = Committed.audit
    /\ \A i \in Instance : txn[i] # NoTxn => IsPrefix(Committed.record, txn[i].value.record)

(* An evaluation that only looks at the file sees what was committed when  *)
(* it began or since, or says it does not know: it never takes an approval *)
(* that was superseded before it began for the present one.                *)
ViewIsCommitted ==
    (view.step = "answered" /\ view.value # NoLog) =>
        /\ IsPrefix(view.since.record, view.value.record)
        /\ IsPrefix(view.value.record, Committed.record)
=============================================================================
