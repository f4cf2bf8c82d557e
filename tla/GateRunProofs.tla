--------------------------- MODULE GateRunProofs ---------------------------
(***************************************************************************)
(* The database under any number of servers and a gate, with any changes,  *)
(* tests and operations: what is committed only grows, so every part of the*)
(* invariant (a transaction, a look at the file, the verdict of the gate)  *)
(* says which of two histories is the earlier one.                         *)
(***************************************************************************)
EXTENDS GateRun, SequenceTheorems, TLAPS

History == Seq(Approvable)
Value == [record : History, audit : History]

(* What one value of the database is to a later one.                       *)
Before(s, t) == Len(s) <= Len(t) /\ \A k \in 1..Len(s) : s[k] = t[k]

LEMMA PrefixIsPointwise ==
    ASSUME NEW S, NEW s \in Seq(S), NEW t \in Seq(S)
    PROVE  IsPrefix(s, t) <=> Before(s, t)
<1>1. Len(s) \in Nat /\ Len(t) \in Nat OBVIOUS
<1>2. ASSUME IsPrefix(s, t) PROVE Before(s, t)
  <2>1. Len(s) <= Len(t) /\ SubSeq(s, 1, Len(s)) = SubSeq(t, 1, Len(s))
    BY <1>2 DEF IsPrefix
  <2> SUFFICES ASSUME NEW k \in 1..Len(s) PROVE s[k] = t[k] BY <2>1 DEF Before
  <2>2. SubSeq(s, 1, Len(s))[k] = s[k] BY <1>1
  <2>3. SubSeq(t, 1, Len(s))[k] = t[k] BY <1>1, <2>1
  <2> QED BY <2>1, <2>2, <2>3
<1>3. ASSUME Before(s, t) PROVE IsPrefix(s, t)
  <2>1. Len(s) <= Len(t) /\ \A k \in 1..Len(s) : s[k] = t[k] BY <1>3 DEF Before
  <2>2. SubSeq(s, 1, Len(s)) = SubSeq(t, 1, Len(s)) BY <1>1, <2>1
  <2> QED BY <2>1, <2>2 DEF IsPrefix
<1> QED BY <1>2, <1>3

LEMMA PrefixIsBefore ==
    ASSUME NEW s \in History, NEW t \in History
    PROVE  IsPrefix(s, t) <=> Before(s, t)
BY PrefixIsPointwise DEF History

LEMMA BeforeItself ==
    ASSUME NEW s \in History
    PROVE  Before(s, s)
BY DEF Before, History

LEMMA BeforeTransitive ==
    ASSUME NEW s \in History, NEW t \in History, NEW u \in History,
           Before(s, t), Before(t, u)
    PROVE  Before(s, u)
<1>1. Len(s) \in Nat /\ Len(t) \in Nat /\ Len(u) \in Nat BY DEF History
<1>2. \A k \in 1..Len(s) : k \in 1..Len(t) BY <1>1 DEF Before
<1> QED BY <1>1, <1>2 DEF Before

LEMMA BeforeAppend ==
    ASSUME NEW s \in History, NEW c \in Approvable
    PROVE  /\ Append(s, c) \in History
           /\ Before(s, Append(s, c))
           /\ Last(Append(s, c)) = c
<1>1. Append(s, c) \in History /\ Len(Append(s, c)) = Len(s) + 1 /\ Len(s) \in Nat
  BY DEF History
<1>2. \A k \in 1..Len(s) : Append(s, c)[k] = s[k] BY DEF History
<1>3. Append(s, c)[Len(s) + 1] = c BY DEF History
<1> QED BY <1>1, <1>2, <1>3 DEF Before, Last

(* Values in which record and audit tell the same.                         *)
Sound == {v \in Value : v.record = v.audit}

LEMMA NoLogIsNoValue == NoLog \notin Value
<1> SUFFICES ASSUME NEW v \in Value, v = NoLog PROVE FALSE OBVIOUS
<1>1. DOMAIN v = {"record", "audit"} BY DEF Value
<1>2. DOMAIN NoLog = {"log"} BY DEF NoLog
<1> QED BY <1>1, <1>2

-----------------------------------------------------------------------------
(* The file, its log and who has it open.                                  *)
Files ==
    /\ backend \in {"sqlite", "postgres"}
    /\ main \in Sound
    /\ wal # NoLog => wal \in Sound /\ Before(main.record, wal.record)
    /\ conns # {} => wal # NoLog
    /\ backend = "postgres" => wal = NoLog /\ conns = {}

(* A transaction builds on what is committed, and there is only one.       *)
BuildsOnCommitted(t) ==
    /\ t.value \in Value
    /\ \/ t = [step |-> "read", value |-> t.value] /\ t.value = Committed
       \/ /\ t = [step |-> "updated", value |-> t.value]
          /\ \E c \in Approvable : t.value.record = Append(Committed.record, c)
          /\ t.value.audit = Committed.audit
       \/ /\ t = [step |-> "logged", value |-> t.value]
          /\ t.value \in Sound
          /\ Before(Committed.record, t.value.record)

Transactions ==
    /\ DOMAIN txn = Instance
    /\ \A i \in Instance : txn[i] # NoTxn => writer = i /\ BuildsOnCommitted(txn[i])

(* A look at the file never lies before its beginning.                     *)
Views ==
    /\ view.step = "found" => view.since \in Sound /\ Before(view.since.record, Committed.record)
    /\ view.step = "open" =>
          /\ view.since \in Sound /\ view.opened \in Sound
          /\ Before(view.since.record, view.opened.record)
          /\ Before(view.opened.record, main.record)
    /\ (view.step = "answered" /\ view.value # NoLog) =>
          /\ view.since \in Sound /\ view.value \in Sound
          /\ Before(view.since.record, view.value.record)
          /\ Before(view.value.record, Committed.record)

Storage == Files /\ Transactions /\ Views

(* The gate has the store open as long as it runs; what it let through it  *)
(* decided on a content and a committed value.                             *)
Verdict ==
    /\ content \in Changes
    /\ {"at", "results", "required", "final", "exit"} \subseteq DOMAIN gate
    /\ gate.at \in {"first", "tests", "final", "close"} => Gate \in conns
    /\ gate.at \in {"start", "first", "tests", "final"} => gate.exit = NoCode
    /\ gate.exit = 0 =>
          /\ gate.final.value \in Sound
          /\ Before(gate.final.value.record, Committed.record)
          /\ Evaluate(gate.final.change, gate.results, gate.final.value) = "ALLOW"

Inv == Storage /\ Verdict

LEMMA CommittedIsSound ==
    ASSUME Files
    PROVE  Committed \in Sound /\ Before(main.record, Committed.record)
BY BeforeItself DEF Files, Committed, Sound, Value

-----------------------------------------------------------------------------
(* What a step can be for the database, whoever takes it.                  *)
Leave(p) ==
    /\ p \in conns
    /\ conns' = conns \ {p}
    /\ IF conns' = {} THEN main' = wal /\ wal' = NoLog ELSE UNCHANGED <<main, wal>>
    /\ UNCHANGED <<backend, txn, writer, view>>

SameFiles == UNCHANGED <<backend, main, wal, conns>>

LEMMA StorageSteps ==
    ASSUME Inv, [Next]_gateVars
    PROVE  \/ \E p \in Instance \cup {Gate} : Open(p) \/ Leave(p)
           \/ \E i \in Instance : Begin(i) \/ Update(i) \/ Log(i) \/ Commit(i) \/ Rollback(i) \/ Crash(i)
           \/ Checkpoint
           \/ Viewing
           \/ UNCHANGED storageVars
<1>1. CASE Next
  <2>1. CASE World
    <3>1. ASSUME NEW i \in Instance, Storing(i)
          PROVE  Begin(i) \/ Update(i) \/ Log(i) \/ Commit(i) \/ Rollback(i) \/ Leave(i)
      BY <3>1 DEF Storing, Close, Leave
    <3> QED BY <2>1, <3>1 DEF World, Edit
  <2>2. CASE GateStep
    <3>1. GateOpen => Open(Gate) BY DEF GateOpen
    <3>2. GateClose => Leave(Gate) BY DEF GateClose, Leave, Inv, Verdict
    <3>3. GateFirst \/ TestsDone \/ GateFinal \/ GateError => UNCHANGED storageVars
      BY DEF GateFirst, TestsDone, GateFinal, GateError
    <3>4. \A t : Test(t) => UNCHANGED storageVars BY DEF Test
    <3> QED BY <2>2, <3>1, <3>2, <3>3, <3>4 DEF GateStep
  <2> QED BY <1>1, <2>1, <2>2 DEF Next
<1>2. CASE UNCHANGED gateVars BY <1>2 DEF gateVars
<1> QED BY <1>1, <1>2

(* What is committed, and what is in the file, only grows.                 *)
Grows ==
    /\ Before(main.record, main'.record)
    /\ Before(Committed.record, Committed'.record)

LEMMA SameFilesGrow ==
    ASSUME Files, SameFiles
    PROVE  Files' /\ Committed' = Committed /\ Grows
<1>1. Files' /\ Committed' = Committed BY DEF Files, SameFiles, Committed
<1>2. main' = main BY DEF SameFiles
<1>3. main.record \in History /\ Committed.record \in History
  BY CommittedIsSound DEF Files, Sound, Value
<1> QED BY <1>1, <1>2, <1>3, BeforeItself DEF Grows

LEMMA OpenStep ==
    ASSUME Files, NEW p, Open(p)
    PROVE  Files' /\ Committed' = Committed /\ Grows
<1>1. Committed \in Sound /\ Before(main.record, Committed.record) BY CommittedIsSound
<1>2. Committed # NoLog BY <1>1, NoLogIsNoValue DEF Sound
<1>3. Committed' = Committed BY <1>2 DEF Open, Committed
<1>4. Files' BY <1>1, <1>2 DEF Files, Open
<1>5. main' = main /\ main.record \in History /\ Committed.record \in History
  BY <1>1 DEF Open, Files, Sound, Value
<1> QED BY <1>3, <1>4, <1>5, BeforeItself DEF Grows

LEMMA LeaveStep ==
    ASSUME Files, NEW p, Leave(p)
    PROVE  Files' /\ Committed' = Committed /\ Grows
<1>1. wal # NoLog /\ wal \in Sound /\ main \in Sound /\ Before(main.record, wal.record)
  BY DEF Files, Leave
<1>2. main.record \in History /\ wal.record \in History BY <1>1 DEF Sound, Value
<1>3. CASE conns' = {}
  <2>1. main' = wal /\ wal' = NoLog /\ backend' = backend BY <1>3 DEF Leave
  <2>2. Committed' = Committed BY <1>1, <2>1 DEF Committed
  <2>3. Files' BY <1>1, <1>3, <2>1 DEF Files
  <2> QED BY <1>1, <1>2, <2>1, <2>2, <2>3, BeforeItself DEF Grows, Committed
<1>4. CASE conns' # {}
  <2>1. main' = main /\ wal' = wal /\ backend' = backend /\ conns' \subseteq conns
    BY <1>4 DEF Leave
  <2>2. Committed' = Committed BY <2>1 DEF Committed
  <2>3. Files' BY <2>1 DEF Files
  <2> QED BY <1>1, <1>2, <2>1, <2>2, <2>3, BeforeItself DEF Grows, Committed
<1> QED BY <1>3, <1>4

LEMMA CrashStep ==
    ASSUME Files, NEW i, Crash(i)
    PROVE  Files' /\ Committed' = Committed /\ Grows
<1>1. main' = main /\ wal' = wal /\ backend' = backend /\ conns' \subseteq conns
  BY DEF Crash
<1>2. Files' /\ Committed' = Committed BY <1>1 DEF Files, Committed
<1>3. main.record \in History /\ Committed.record \in History
  BY CommittedIsSound DEF Files, Sound, Value
<1> QED BY <1>1, <1>2, <1>3, BeforeItself DEF Grows

LEMMA CheckpointStep ==
    ASSUME Files, Checkpoint
    PROVE  Files' /\ Committed' = Committed /\ Grows
<1>1. /\ wal # NoLog /\ main' = wal /\ wal' = wal /\ conns' = conns /\ backend' = backend
      /\ wal \in Sound /\ Before(main.record, wal.record)
  BY DEF Checkpoint, Files
<1>2. wal.record \in History BY <1>1 DEF Sound, Value
<1>3. Files' BY <1>1, <1>2, BeforeItself DEF Files
<1>4. Committed' = Committed /\ Committed = wal BY <1>1 DEF Committed
<1> QED BY <1>1, <1>2, <1>3, <1>4, BeforeItself DEF Grows

LEMMA CommitStep ==
    ASSUME Files, Transactions, NEW i \in Instance, Commit(i)
    PROVE  Files' /\ Grows
<1> DEFINE v == txn[i].value
<1>1. txn[i] # NoTxn /\ BuildsOnCommitted(txn[i]) /\ txn[i].step = "logged"
  BY DEF Commit, NoTxn, Transactions
<1>2. v \in Sound /\ Before(Committed.record, v.record)
  BY <1>1 DEF BuildsOnCommitted
<1>3. v # NoLog BY <1>2, NoLogIsNoValue DEF Sound
<1>4. /\ Committed \in Sound /\ main \in Sound /\ Before(main.record, Committed.record)
  BY CommittedIsSound DEF Files
<1>5. /\ v.record \in History /\ Committed.record \in History /\ main.record \in History
  BY <1>2, <1>4 DEF Sound, Value
<1>6. Before(main.record, v.record) /\ Before(main.record, main.record)
  BY <1>2, <1>4, <1>5, BeforeTransitive, BeforeItself
<1>7. CASE backend = "sqlite"
  <2>1. wal' = v /\ main' = main /\ conns' = conns /\ backend' = backend
    BY <1>7 DEF Commit
  <2>2. Committed' = v BY <1>3, <2>1 DEF Committed
  <2>3. Files' BY <1>2, <1>3, <1>6, <1>7, <2>1 DEF Files
  <2> QED BY <1>2, <1>6, <2>1, <2>2, <2>3 DEF Grows
<1>8. CASE backend # "sqlite"
  <2>1. main' = v /\ wal' = wal /\ wal = NoLog /\ conns' = conns /\ backend' = backend
    BY <1>8 DEF Commit, Files
  <2>2. Committed' = v BY <2>1 DEF Committed
  <2>3. Files' BY <1>2, <1>8, <2>1 DEF Files
  <2> QED BY <1>2, <1>6, <2>1, <2>2, <2>3 DEF Grows
<1> QED BY <1>7, <1>8

LEMMA FilesStep ==
    ASSUME Inv, [Next]_gateVars
    PROVE  /\ Files' /\ Grows
           /\ Committed' = Committed \/ \E i \in Instance : Commit(i)
<1> USE DEF Inv, Storage
<1>1. ASSUME NEW i \in Instance, Begin(i) \/ Update(i) \/ Log(i) \/ Rollback(i) PROVE SameFiles
  BY <1>1 DEF Begin, Update, Log, Rollback, SameFiles
<1>2. Viewing => SameFiles BY DEF Viewing, Look, OpenReadOnly, ReadView, SameFiles
<1>3. UNCHANGED storageVars => SameFiles BY DEF storageVars, SameFiles
<1> QED BY <1>1, <1>2, <1>3, StorageSteps, SameFilesGrow, OpenStep, LeaveStep, CrashStep,
           CheckpointStep, CommitStep

-----------------------------------------------------------------------------
(* Whose transaction it is, and nobody else's.                             *)
LEMMA OneTransaction ==
    ASSUME Transactions, NEW i \in Instance, txn[i] # NoTxn, NEW j \in Instance, j # i
    PROVE  txn[j] = NoTxn
BY DEF Transactions

LEMMA NoneBegun ==
    ASSUME Transactions, writer = Nobody, NEW j \in Instance
    PROVE  txn[j] = NoTxn
BY InstanceAssumption DEF Transactions, InstanceAssumption

LEMMA BeginStep ==
    ASSUME Files, Transactions, NEW i \in Instance, Begin(i)
    PROVE  Transactions'
<1>1. /\ Committed' = Committed /\ writer' = i /\ writer = Nobody
      /\ txn' = [txn EXCEPT ![i] = [step |-> "read", value |-> Committed]]
  BY DEF Begin, Committed
<1>2. DOMAIN txn' = Instance /\ txn'[i] = [step |-> "read", value |-> Committed]
  BY <1>1 DEF Transactions
<1>3. \A j \in Instance : j # i => txn'[j] = NoTxn
  BY <1>1, NoneBegun DEF Transactions
<1>4. BuildsOnCommitted(txn[i])'
  BY <1>1, <1>2, CommittedIsSound DEF BuildsOnCommitted, Sound
<1> QED BY <1>1, <1>2, <1>3, <1>4 DEF Transactions

LEMMA UpdateStep ==
    ASSUME Files, Transactions, NEW i \in Instance, Update(i)
    PROVE  Transactions'
<1>1. Committed' = Committed /\ writer' = writer BY DEF Update, Committed
<1>2. txn[i] # NoTxn /\ txn[i].step = "read" BY DEF Update, NoTxn
<1>3. txn[i].value = Committed /\ writer = i
  BY <1>2 DEF Transactions, BuildsOnCommitted
<1>4. Committed \in Value BY CommittedIsSound DEF Sound
<1>5. PICK c \in Approvable :
         txn' = [txn EXCEPT ![i] = [step |-> "updated",
                    value |-> [record |-> Append(txn[i].value.record, c),
                               audit |-> txn[i].value.audit]]]
  BY Zenon DEF Update
<1> DEFINE v == [record |-> Append(Committed.record, c), audit |-> Committed.audit]
<1>7. DOMAIN txn' = Instance /\ txn'[i] = [step |-> "updated", value |-> v]
  BY <1>3, <1>5 DEF Transactions
<1>8. Append(Committed.record, c) \in History /\ Committed.audit \in History
  BY <1>4, BeforeAppend DEF Value
<1>9. BuildsOnCommitted(txn[i])'
  <2> HIDE DEF v
  <2>1. v \in Value /\ v.record = Append(Committed.record, c) /\ v.audit = Committed.audit
    BY <1>8 DEF Value, v
  <2> QED BY <1>1, <1>7, <2>1 DEF BuildsOnCommitted
<1>10. \A j \in Instance : j # i => txn'[j] = NoTxn
  BY <1>2, <1>5, OneTransaction DEF Transactions
<1> QED BY <1>1, <1>3, <1>7, <1>9, <1>10 DEF Transactions

LEMMA LogStep ==
    ASSUME Files, Transactions, NEW i \in Instance, Log(i)
    PROVE  Transactions'
<1>1. Committed' = Committed /\ writer' = writer BY DEF Log, Committed
<1>2. txn[i] # NoTxn /\ txn[i].step = "updated" BY DEF Log, NoTxn
<1> DEFINE u == txn[i].value
<1>3. /\ u \in Value /\ u.audit = Committed.audit
      /\ writer = i
  BY <1>2 DEF Transactions, BuildsOnCommitted
<1>4. PICK c \in Approvable : u.record = Append(Committed.record, c)
  BY <1>2 DEF Transactions, BuildsOnCommitted
<1>5. /\ Committed.record \in History /\ Committed.audit = Committed.record
  BY CommittedIsSound DEF Sound, Value
<1>6. Last(u.record) = c BY <1>4, <1>5, BeforeAppend
<1> DEFINE v == [record |-> u.record, audit |-> Append(u.audit, Last(u.record))]
<1>7. txn' = [txn EXCEPT ![i] = [step |-> "logged", value |-> v]]
  BY Zenon DEF Log
<1>8. v = [record |-> Append(Committed.record, c), audit |-> Append(Committed.record, c)]
  BY <1>3, <1>4, <1>5, <1>6
<1>9. DOMAIN txn' = Instance /\ txn'[i] = [step |-> "logged", value |-> v]
  BY <1>7 DEF Transactions
<1>10. BuildsOnCommitted(txn[i])'
  <2> HIDE DEF v
  <2>1. v \in Sound /\ Before(Committed.record, v.record)
    BY <1>5, <1>8, BeforeAppend DEF Sound, Value
  <2> QED BY <1>1, <1>9, <2>1 DEF BuildsOnCommitted, Sound
<1>11. \A j \in Instance : j # i => txn'[j] = NoTxn
  <2> HIDE DEF v
  <2> QED BY <1>2, <1>7, OneTransaction DEF Transactions
<1> QED BY <1>1, <1>3, <1>9, <1>10, <1>11 DEF Transactions

LEMMA EndStep ==
    ASSUME Files, Transactions, NEW i \in Instance, End(i),
           Committed' = Committed \/ txn[i] # NoTxn
    PROVE  Transactions'
<1>1. DOMAIN txn' = Instance /\ txn'[i] = NoTxn BY DEF End, Transactions
<1>2. ASSUME NEW j \in Instance, txn'[j] # NoTxn
      PROVE  writer' = j /\ BuildsOnCommitted(txn[j])'
  <2>1. j # i /\ txn'[j] = txn[j] BY <1>1, <1>2 DEF End, Transactions
  <2>2. writer = j /\ BuildsOnCommitted(txn[j]) BY <1>2, <2>1 DEF Transactions
  <2>3. Committed' = Committed BY <1>2, <2>1, OneTransaction
  <2>4. writer' = j BY <2>1, <2>2 DEF End
  <2> QED BY <2>1, <2>2, <2>3, <2>4 DEF BuildsOnCommitted
<1> QED BY <1>1, <1>2 DEF Transactions

LEMMA TransactionsStep ==
    ASSUME Inv, [Next]_gateVars
    PROVE  Transactions'
<1> USE DEF Inv, Storage
<1>1. ASSUME NEW i \in Instance, Commit(i) PROVE Transactions'
  BY <1>1, EndStep DEF Commit, NoTxn
<1>2. ASSUME NEW i \in Instance, Rollback(i) PROVE Transactions'
  BY <1>2, EndStep DEF Rollback
<1>3. ASSUME NEW i \in Instance, Crash(i) PROVE Transactions'
  BY <1>3, EndStep, CrashStep DEF Crash
<1>4. ASSUME UNCHANGED <<txn, writer>> PROVE Transactions'
  <2>1. Committed' = Committed
    <3>1. ASSUME NEW i \in Instance, Commit(i) PROVE FALSE
      <4>1. txn[i] # NoTxn /\ txn'[i] = NoTxn BY <3>1 DEF Commit, End, NoTxn, Transactions
      <4> QED BY <1>4, <4>1
    <3> QED BY <3>1, FilesStep
  <2> QED BY <1>4, <2>1 DEF Transactions, BuildsOnCommitted
<1>5. ASSUME NEW p, Open(p) \/ Leave(p) PROVE Transactions'
  BY <1>4, <1>5 DEF Open, Leave
<1>6. Checkpoint \/ Viewing \/ UNCHANGED storageVars => Transactions'
  BY <1>4 DEF Checkpoint, Viewing, Look, OpenReadOnly, ReadView, storageVars
<1> QED BY <1>1, <1>2, <1>3, <1>5, <1>6, StorageSteps, BeginStep, UpdateStep, LogStep

-----------------------------------------------------------------------------
(* Whatever was committed before stays a part of what is committed.        *)
LEMMA GrowthKeeps ==
    ASSUME Files, Files', Grows
    PROVE  /\ \A v \in Sound : Before(v.record, Committed.record) => Before(v.record, Committed'.record)
           /\ \A v \in Sound : Before(v.record, main.record) => Before(v.record, main'.record)
<1>1. main \in Sound /\ main' \in Sound BY DEF Files
<1>2. Committed \in Sound BY CommittedIsSound
<1>3. Committed' \in Sound BY DEF Files, Committed
<1>4. \A v \in Sound : v.record \in History BY DEF Sound, Value
<1> QED BY <1>1, <1>2, <1>3, <1>4, BeforeTransitive DEF Grows

LEMMA ViewingStep ==
    ASSUME Files, Views, Viewing, SameFiles
    PROVE  Views'
<1>1. Committed' = Committed /\ main' = main BY DEF SameFiles, Committed
<1>2. /\ Committed \in Sound /\ main \in Sound
      /\ Before(main.record, Committed.record)
      /\ Before(main.record, main.record) /\ Before(Committed.record, Committed.record)
  BY CommittedIsSound, BeforeItself DEF Files, Sound, Value
<1>3. CASE Look
  <2>1. CASE Uncheckpointed
    <3>1. view' = [step |-> "answered", since |-> Committed, value |-> NoLog]
      BY <1>3, <2>1 DEF Look
    <3> QED BY <3>1 DEF Views
  <2>2. CASE ~Uncheckpointed
    <3>1. view' = [step |-> "found", since |-> Committed]
      BY <1>3, <2>2 DEF Look
    <3> QED BY <1>1, <1>2, <3>1 DEF Views
  <2> QED BY <2>1, <2>2
<1>4. CASE OpenReadOnly
  <2>1. view.since \in Sound /\ Before(view.since.record, Committed.record)
    BY <1>4 DEF OpenReadOnly, Views
  <2>2. CASE Uncheckpointed
    <3>1. view' = [step |-> "raised"] BY <1>4, <2>2 DEF OpenReadOnly
    <3> QED BY <3>1 DEF Views
  <2>3. CASE ~Uncheckpointed
    <3>1. view' = [step |-> "open", since |-> view.since, opened |-> main]
      BY <1>4, <2>3 DEF OpenReadOnly
    <3>2. Committed = main BY <2>3 DEF Uncheckpointed, Committed
    <3> QED BY <1>1, <1>2, <2>1, <3>1, <3>2 DEF Views
  <2> QED BY <2>2, <2>3
<1>5. CASE ReadView
  <2>1. /\ view.since \in Sound /\ view.opened \in Sound
        /\ Before(view.since.record, view.opened.record)
        /\ Before(view.opened.record, main.record)
    BY <1>5 DEF ReadView, Views
  <2>2. /\ view.since.record \in History /\ view.opened.record \in History
        /\ main.record \in History /\ Committed.record \in History
    BY <1>2, <2>1 DEF Sound, Value
  <2>3. Before(view.since.record, main.record) /\ Before(view.opened.record, Committed.record)
    BY <1>2, <2>1, <2>2, BeforeTransitive
  <2>4. \/ view' = [step |-> "raised"]
        \/ \E v \in {main, view.opened} :
              view' = [step |-> "answered", since |-> view.since, value |-> v]
    BY <1>5 DEF ReadView
  <2>5. CASE view' = [step |-> "raised"] BY <2>5 DEF Views
  <2>6. ASSUME NEW v \in {main, view.opened},
               view' = [step |-> "answered", since |-> view.since, value |-> v]
        PROVE  Views'
    <3>1. v \in Sound /\ Before(view.since.record, v.record) /\ Before(v.record, Committed.record)
      BY <1>2, <2>1, <2>3
    <3> QED BY <1>1, <2>1, <2>6, <3>1 DEF Views
  <2> QED BY <2>4, <2>5, <2>6
<1> QED BY <1>3, <1>4, <1>5 DEF Viewing

LEMMA ViewsStep ==
    ASSUME Inv, [Next]_gateVars
    PROVE  Views'
<1> USE DEF Inv, Storage
<1>1. Files' /\ Grows BY FilesStep
<1>2. ASSUME view' = view PROVE Views'
  BY <1>1, <1>2, GrowthKeeps DEF Views
<1>3. CASE Viewing
  BY <1>3, ViewingStep DEF Viewing, Look, OpenReadOnly, ReadView, SameFiles
<1>4. ASSUME NEW p, Open(p) \/ Leave(p) PROVE view' = view
  BY <1>4 DEF Open, Leave
<1>5. ASSUME NEW i \in Instance,
             Begin(i) \/ Update(i) \/ Log(i) \/ Commit(i) \/ Rollback(i) \/ Crash(i)
      PROVE  view' = view
  BY <1>5 DEF Begin, Update, Log, Commit, Rollback, Crash
<1>6. Checkpoint \/ UNCHANGED storageVars => view' = view
  BY DEF Checkpoint, storageVars
<1> QED BY <1>2, <1>3, <1>4, <1>5, <1>6, StorageSteps

-----------------------------------------------------------------------------
(* The gate among the others: they leave its run and its connection alone. *)
LEMMA WorldLeavesGate ==
    ASSUME Verdict, World \/ UNCHANGED gateVars
    PROVE  gate' = gate /\ content' \in Changes /\ (Gate \in conns => Gate \in conns')
<1>1. CASE Edit BY <1>1 DEF Edit, storageVars, Verdict
<1>2. ASSUME NEW i \in Instance, Open(i) \/ Storing(i)
      PROVE  Gate \in conns => Gate \in conns'
  BY <1>2, GateAssumption
     DEF Open, Storing, Begin, Update, Log, Commit, Rollback, Close, GateAssumption
<1>3. Viewing \/ Checkpoint => conns' = conns
  BY DEF Viewing, Look, OpenReadOnly, ReadView, Checkpoint
<1>4. ASSUME NEW i \in Instance, Crash(i) PROVE Gate \in conns => Gate \in conns'
  BY <1>4, GateAssumption DEF Crash, GateAssumption
<1>5. UNCHANGED storageVars => conns' = conns BY DEF storageVars
<1>6. CASE UNCHANGED gateVars BY <1>5, <1>6 DEF gateVars, Verdict
<1>7. CASE World /\ ~Edit
  BY <1>2, <1>3, <1>4, <1>5, <1>7 DEF World, Verdict
<1> QED BY <1>1, <1>6, <1>7

LEMMA VerdictStep ==
    ASSUME Inv, [Next]_gateVars
    PROVE  Verdict'
<1> USE DEF Inv, Storage, Verdict
<1>1. Files' /\ Grows BY FilesStep
<1>2. Committed \in Sound BY CommittedIsSound
<1>3. gate.exit = 0 => Before(gate.final.value.record, Committed'.record)
  BY <1>1, GrowthKeeps
<1>4. CASE World \/ UNCHANGED gateVars
  BY <1>3, <1>4, WorldLeavesGate
<1>5. CASE GateOpen
  <2>1. conns' = conns \cup {Gate} /\ content' = content BY <1>5 DEF GateOpen, Open
  <2>2. gate.exit = NoCode /\ gate'.exit = gate.exit /\ DOMAIN gate' = DOMAIN gate
    BY <1>5 DEF GateOpen
  <2> QED BY <2>1, <2>2 DEF NoCode
<1>6. CASE GateFirst
  <2>1. /\ gate.exit = NoCode /\ gate'.exit = gate.exit /\ DOMAIN gate' = DOMAIN gate
        /\ Gate \in conns /\ conns' = conns /\ content' = content
    BY <1>6 DEF GateFirst, storageVars
  <2> QED BY <2>1 DEF NoCode
<1>7. ASSUME NEW t, Test(t) PROVE Verdict'
  <2>1. /\ gate.exit = NoCode /\ gate'.exit = gate.exit /\ DOMAIN gate' = DOMAIN gate
        /\ Gate \in conns /\ conns' = conns /\ content' = content
    BY <1>7 DEF Test, storageVars
  <2> QED BY <2>1 DEF NoCode
<1>8. CASE TestsDone
  <2>1. /\ gate.exit = NoCode /\ gate'.exit = gate.exit /\ DOMAIN gate' = DOMAIN gate
        /\ Gate \in conns /\ conns' = conns /\ content' = content
    BY <1>8 DEF TestsDone, storageVars
  <2> QED BY <2>1 DEF NoCode
<1>9. CASE GateFinal
  <2>1. /\ gate'.at = "close" /\ DOMAIN gate' = DOMAIN gate /\ gate'.results = gate.results
        /\ gate'.final = [at |-> "decided", change |-> content, value |-> Committed]
        /\ gate'.exit = ExitCode(Evaluate(content, gate.results, Committed))
        /\ Gate \in conns /\ conns' = conns /\ content' = content
        /\ main' = main /\ wal' = wal
    BY <1>9 DEF GateFinal, storageVars
  <2>2. Committed' = Committed /\ Before(Committed.record, Committed.record)
    BY <1>2, <2>1, BeforeItself DEF Committed, Sound, Value
  <2>3. gate'.exit = 0 => Evaluate(content, gate.results, Committed) = "ALLOW"
    BY <2>1 DEF ExitCode
  <2> QED BY <1>2, <2>1, <2>2, <2>3
<1>10. CASE GateError
  <2>1. /\ gate'.exit \in {1, 2} /\ DOMAIN gate' = DOMAIN gate /\ gate'.at = "close"
        /\ Gate \in conns /\ conns' = conns /\ content' = content
    BY <1>10 DEF GateError, storageVars
  <2> QED BY <2>1
<1>11. CASE GateClose
  <2>1. /\ gate'.at = "done" /\ DOMAIN gate' = DOMAIN gate /\ content' = content
        /\ gate'.exit = gate.exit /\ gate'.final = gate.final /\ gate'.results = gate.results
    BY <1>11 DEF GateClose
  <2> QED BY <1>3, <2>1
<1> QED BY <1>4, <1>5, <1>6, <1>7, <1>8, <1>9, <1>10, <1>11 DEF Next, GateStep

LEMMA InvHolds == Spec => []Inv
<1>1. Init => Inv
  <2> SUFFICES ASSUME Init PROVE Inv OBVIOUS
  <2>1. Empty \in Sound BY DEF Empty, Sound, Value, History
  <2>2. Files BY <2>1 DEF Init, StorageInit, Files
  <2>3. Transactions BY DEF Init, StorageInit, Transactions
  <2>4. Views BY DEF Init, StorageInit, NoView, Views
  <2>5. Verdict BY DEF Init, Verdict, NoCode
  <2> QED BY <2>2, <2>3, <2>4, <2>5 DEF Inv, Storage
<1>2. Inv /\ [Next]_gateVars => Inv'
  BY FilesStep, TransactionsStep, ViewsStep, VerdictStep DEF Inv, Storage
<1> QED BY <1>1, <1>2, PTL DEF Spec

-----------------------------------------------------------------------------
(* No update is lost and none is half done, with either back end, however  *)
(* many processes write, fail and crash.                                   *)
THEOREM NoUpdateIsLost == Spec => []AuditIsRecord
<1>1. Inv => AuditIsRecord
  <2> SUFFICES ASSUME Inv PROVE AuditIsRecord OBVIOUS
  <2> USE DEF Inv, Storage
  <2>1. Committed \in Sound BY CommittedIsSound
  <2>2. Committed.record \in History BY <2>1 DEF Sound, Value
  <2>3. ASSUME NEW i \in Instance, txn[i] # NoTxn
        PROVE  IsPrefix(Committed.record, txn[i].value.record)
    <3>1. BuildsOnCommitted(txn[i]) BY <2>3 DEF Transactions
    <3>2. txn[i].value.record \in History BY <3>1 DEF BuildsOnCommitted, Value
    <3>3. Before(Committed.record, txn[i].value.record)
      BY <2>2, <3>1, BeforeItself, BeforeAppend DEF BuildsOnCommitted
    <3> QED BY <2>2, <3>2, <3>3, PrefixIsBefore
  <2> QED BY <2>1, <2>3 DEF AuditIsRecord, Sound
<1> QED BY <1>1, InvHolds, PTL

(* A look at a file that others write may raise, but never answers with    *)
(* what was superseded before it began.                                    *)
THEOREM LooksAreCommitted == Spec => []ViewIsCommitted
<1>1. Inv => ViewIsCommitted
  <2> SUFFICES ASSUME Inv, view.step = "answered", view.value # NoLog
               PROVE  /\ IsPrefix(view.since.record, view.value.record)
                      /\ IsPrefix(view.value.record, Committed.record)
    BY DEF ViewIsCommitted
  <2>1. /\ view.since \in Sound /\ view.value \in Sound
        /\ Before(view.since.record, view.value.record)
        /\ Before(view.value.record, Committed.record)
    BY DEF Inv, Storage, Views
  <2>2. /\ view.since.record \in History /\ view.value.record \in History
        /\ Committed.record \in History
    BY <2>1, CommittedIsSound DEF Inv, Storage, Sound, Value
  <2> QED BY <2>1, <2>2, PrefixIsBefore
<1> QED BY <1>1, InvHolds, PTL

(* What decide allows has its tests passed, and was approved if an approval*)
(* is what it would have asked for.                                        *)
LEMMA AllowedIsEarned ==
    ASSUME NEW c, NEW results, NEW value, Evaluate(c, results, value) = "ALLOW"
    PROVE  LET needed == Decide([findings |-> c.findings, owners |-> c.owners, tests |-> FALSE,
                                 passed |-> TRUE, known |-> TRUE, satisfied |-> FALSE])
           IN  /\ \A t \in c.tests : t \in DOMAIN results /\ results[t]
               /\ needed # "BLOCK"
               /\ needed = "REQUIRE_APPROVAL" => Approved(value, c)
<1> DEFINE in == [findings |-> c.findings, owners |-> c.owners, tests |-> c.tests # {},
                  passed |-> TestsPassed(c, results), known |-> TRUE,
                  satisfied |-> Approved(value, c)]
           asked == [findings |-> c.findings, owners |-> c.owners, tests |-> FALSE,
                     passed |-> TRUE, known |-> TRUE, satisfied |-> FALSE]
<1>1. Decide(in) = "ALLOW" BY DEF Evaluate
<1>2. /\ in.findings = asked.findings /\ in.owners = asked.owners /\ in.known /\ asked.known
      /\ in.tests = (c.tests # {}) /\ in.passed = TestsPassed(c, results)
      /\ in.satisfied = Approved(value, c)
      /\ ~asked.tests /\ ~asked.satisfied
  OBVIOUS
<1> HIDE DEF in, asked
<1>3. UnknownBoundary(in) = UnknownBoundary(asked) /\ SharedConcern(in) = SharedConcern(asked)
  BY <1>2 DEF UnknownBoundary, SharedConcern
<1>4. Critical(asked.findings) = {} /\ ~(in.tests /\ ~in.passed)
  BY <1>1, <1>2 DEF Decide
<1>5. Decide(asked) # "BLOCK" BY <1>2, <1>4 DEF Decide
<1>6. Decide(asked) = "REQUIRE_APPROVAL" => Approved(value, c)
  BY <1>1, <1>2, <1>3, <1>4 DEF Decide
<1>7. \A t \in c.tests : t \in DOMAIN results /\ results[t]
  BY <1>2, <1>4 DEF TestsPassed
<1> QED BY <1>5, <1>6, <1>7 DEF asked

(* The gate lets nothing through that its last evaluation, with the tests  *)
(* of this run and what was committed by then, did not allow.              *)
THEOREM GateIsSound == Spec => []GateProves
<1>1. Inv => GateProves
  <2> SUFFICES ASSUME Inv, gate.exit = 0 PROVE GateProves BY DEF GateProves
  <2> DEFINE c == gate.final.change
             value == gate.final.value
  <2>1. /\ value \in Sound /\ Before(value.record, Committed.record)
        /\ Evaluate(c, gate.results, value) = "ALLOW"
    BY DEF Inv, Verdict
  <2>2. value.record \in History /\ Committed.record \in History
    BY <2>1, CommittedIsSound DEF Inv, Storage, Sound, Value
  <2>3. IsPrefix(value.record, Committed.record) BY <2>1, <2>2, PrefixIsBefore
  <2>4. Approved(value, c) => Last(value.record) = c.id BY DEF Approved
  <2> HIDE DEF c, value
  <2> QED BY <2>1, <2>3, <2>4, AllowedIsEarned DEF GateProves, c, value
<1> QED BY <1>1, InvHolds, PTL
-----------------------------------------------------------------------------
(* The migrations.  What an instance has staged continues what is applied, *)
(* if its release does, and is nothing, if its release is an earlier one;  *)
(* and no file it has staged disagrees with one that is applied.           *)
Shipped == {files \in Directories : ValidFiles(files)}
Sequences == Seq(MigrationFile)

Continues(files, applied, st) ==
    /\ st \in Sequences
    /\ \A k \in 1..Len(st) : ~Changed(st[k], applied)
    /\ Before(applied, files) =>
          /\ Len(applied) + Len(st) <= Len(files)
          /\ \A k \in 1..Len(st) : st[k] = files[Len(applied) + k]
    /\ Before(files, applied) => st = <<>>

Migrates(i) ==
    /\ phase[i] \in {"down", "waiting", "migrating", "ready", "failed"}
    /\ phase[i] = "migrating" <=> migrator = i
    /\ phase[i] \in {"waiting", "migrating", "ready"} => directory[i] \in Shipped
    /\ phase[i] # "migrating" => staged[i] = <<>>
    /\ phase[i] = "migrating" =>
          existing[i] = schema /\ Continues(directory[i], schema, staged[i])
    /\ phase[i] = "ready" => ToSet(directory[i]) \subseteq ToSet(schema)

MigrationInv ==
    /\ DOMAIN phase = Instance /\ DOMAIN directory = Instance
    /\ DOMAIN existing = Instance /\ DOMAIN staged = Instance
    /\ schema \in Shipped \cup {<<>>}
    /\ \A i \in Instance : Migrates(i)

(* What there is to say of files and of what is applied.                   *)
LEMMA ShippedFiles ==
    ASSUME NEW d \in Shipped \cup {<<>>}
    PROVE  /\ d \in Sequences /\ Len(d) \in Nat /\ DOMAIN d = 1..Len(d)
           /\ \A j, k \in 1..Len(d) : d[j].name = d[k].name => j = k
           /\ ToSet(d) = {d[k] : k \in 1..Len(d)}
<1>1. d \in Sequences
  <2>1. <<>> \in Sequences BY DEF Sequences
  <2>2. Shipped \subseteq Sequences BY ReleaseAssumption DEF ReleaseAssumption, Shipped, Sequences
  <2> QED BY <2>1, <2>2
<1>2. Len(d) \in Nat /\ DOMAIN d = 1..Len(d) BY <1>1 DEF Sequences
<1>3. \A j, k \in 1..Len(d) : d[j].name = d[k].name => j = k
  <2>1. CASE d = <<>> BY <1>2, <2>1
  <2>2. CASE d \in Shipped
    BY <1>2, <2>2, ReleaseAssumption DEF ReleaseAssumption, Shipped
  <2> QED BY <2>1, <2>2
<1> QED BY <1>1, <1>2, <1>3 DEF ToSet

(* One of two releases continues the other, or they disagree on a file.    *)
LEMMA ReleasesFollow ==
    ASSUME NEW d \in Shipped, NEW s \in Shipped \cup {<<>>}
    PROVE  \/ Before(s, d) \/ Before(d, s)
           \/ \E j \in 1..Len(d), k \in 1..Len(s) : d[j].name = s[k].name /\ d[j].sum # s[k].sum
<1>1. d \in Sequences /\ s \in Sequences /\ Len(d) \in Nat
      /\ DOMAIN d = 1..Len(d) /\ DOMAIN s = 1..Len(s)
  BY ShippedFiles
<1>2. CASE s = <<>> BY <1>1, <1>2 DEF Before
<1>3. CASE s \in Shipped
  <2>1. IsPrefix(s, d) \/ IsPrefix(d, s) \/ Disagree(d, s)
    BY <1>3, ReleaseAssumption DEF ReleaseAssumption, Shipped
  <2> QED BY <1>1, <2>1, PrefixIsPointwise DEF Disagree, Sequences
<1> QED BY <1>2, <1>3

LEMMA NothingStaged ==
    ASSUME NEW d \in Shipped, NEW s \in Shipped \cup {<<>>}
    PROVE  Continues(d, s, <<>>)
<1>1. Len(d) \in Nat /\ Len(s) \in Nat BY ShippedFiles
<1>2. <<>> \in Sequences /\ Len(<<>>) = 0 BY DEF Sequences
<1>3. Before(s, d) => Len(s) <= Len(d) BY DEF Before
<1> QED BY <1>1, <1>2, <1>3 DEF Continues

(* The places of files that are neither applied nor staged.                *)
Left(files, applied, st) ==
    {j \in DOMAIN files : files[j] \notin ToSet(applied) \cup ToSet(st)}

(* If the release continues what is applied, the first file that is left is*)
(* the one after those staged.                                             *)
LEMMA LeftIsRest ==
    ASSUME NEW d \in Shipped, NEW s \in Shipped \cup {<<>>}, NEW st,
           Continues(d, s, st), Before(s, d)
    PROVE  Left(d, s, st) = (Len(s) + Len(st) + 1)..Len(d)
<1>1. /\ Len(d) \in Nat /\ DOMAIN d = 1..Len(d) /\ Len(s) \in Nat
      /\ \A j, k \in 1..Len(d) : d[j].name = d[k].name => j = k
      /\ ToSet(s) = {s[k] : k \in 1..Len(s)}
  BY ShippedFiles
<1>2. /\ Len(st) \in Nat /\ ToSet(st) = {st[k] : k \in 1..Len(st)}
      /\ Len(s) + Len(st) <= Len(d)
      /\ \A k \in 1..Len(st) : st[k] = d[Len(s) + k]
      /\ \A k \in 1..Len(s) : s[k] = d[k]
  BY DEF Continues, Sequences, ToSet, Before
<1>3. ASSUME NEW j \in 1..Len(d), j <= Len(s) + Len(st)
      PROVE  d[j] \in ToSet(s) \cup ToSet(st)
  <2>1. CASE j <= Len(s) BY <1>1, <1>2, <2>1
  <2>2. CASE ~(j <= Len(s))
    <3>1. j - Len(s) \in 1..Len(st) /\ Len(s) + (j - Len(s)) = j BY <1>1, <1>2, <1>3, <2>2
    <3> QED BY <1>2, <3>1
  <2> QED BY <2>1, <2>2
<1>4. ASSUME NEW j \in 1..Len(d), ~(j <= Len(s) + Len(st))
      PROVE  d[j] \notin ToSet(s) \cup ToSet(st)
  <2>1. ASSUME NEW k \in 1..Len(s), d[j] = s[k] PROVE FALSE
    <3>1. k \in 1..Len(d) /\ d[j] = d[k] /\ j # k BY <1>1, <1>2, <1>4, <2>1
    <3> QED BY <1>1, <3>1
  <2>2. ASSUME NEW k \in 1..Len(st), d[j] = st[k] PROVE FALSE
    <3>1. Len(s) + k \in 1..Len(d) /\ d[j] = d[Len(s) + k] /\ j # Len(s) + k
      BY <1>1, <1>2, <1>4, <2>2
    <3> QED BY <1>1, <3>1
  <2> QED BY <1>1, <1>2, <2>1, <2>2
<1>5. \A j : j \in Left(d, s, st) <=> j \in 1..Len(d) /\ ~(j <= Len(s) + Len(st))
  BY <1>1, <1>3, <1>4 DEF Left
<1>6. \A j : j \in (Len(s) + Len(st) + 1)..Len(d) <=> j \in 1..Len(d) /\ ~(j <= Len(s) + Len(st))
  BY <1>1, <1>2
<1> QED BY <1>5, <1>6

(* An earlier release has nothing left to apply.                           *)
LEMMA EarlierHasNothingLeft ==
    ASSUME NEW d \in Shipped, NEW s \in Shipped \cup {<<>>}, NEW st, Before(d, s)
    PROVE  Left(d, s, st) = {} /\ ToSet(d) \subseteq ToSet(s)
<1>1. /\ Len(d) \in Nat /\ DOMAIN d = 1..Len(d) /\ Len(s) \in Nat
      /\ ToSet(s) = {s[k] : k \in 1..Len(s)} /\ ToSet(d) = {d[k] : k \in 1..Len(d)}
  BY ShippedFiles
<1>2. \A j \in 1..Len(d) : j \in 1..Len(s) /\ d[j] = s[j] BY <1>1 DEF Before
<1> QED BY <1>1, <1>2 DEF Left

(* Staging the first file that is left keeps the order of the release.     *)
LEMMA StagedNext ==
    ASSUME NEW d \in Shipped, NEW s \in Shipped \cup {<<>>}, NEW st, Continues(d, s, st),
           NEW j \in Left(d, s, st), \A k \in Left(d, s, st) : j <= k, ~Changed(d[j], s)
    PROVE  Continues(d, s, Append(st, d[j]))
<1> DEFINE next == Append(st, d[j])
<1>1. /\ d \in Sequences /\ Len(d) \in Nat /\ DOMAIN d = 1..Len(d) /\ Len(s) \in Nat
      /\ st \in Sequences /\ Len(st) \in Nat /\ j \in 1..Len(d)
  BY ShippedFiles DEF Continues, Left, Sequences
<1>2. d[j] \in MigrationFile BY <1>1 DEF Sequences
<1>3. /\ next \in Sequences /\ Len(next) = Len(st) + 1
      /\ next[Len(st) + 1] = d[j] /\ \A k \in 1..Len(st) : next[k] = st[k]
  BY <1>1, <1>2 DEF Sequences
<1> HIDE DEF next
<1>4. \A k \in 1..Len(next) : ~Changed(next[k], s)
  <2> SUFFICES ASSUME NEW k \in 1..Len(next) PROVE ~Changed(next[k], s) OBVIOUS
  <2>1. k \in 1..Len(st) \/ k = Len(st) + 1 BY <1>1, <1>3
  <2> QED BY <1>3, <2>1 DEF Continues
<1>5. ASSUME Before(s, d)
      PROVE  /\ Len(s) + Len(next) <= Len(d)
             /\ \A k \in 1..Len(next) : next[k] = d[Len(s) + k]
  <2>1. Left(d, s, st) = (Len(s) + Len(st) + 1)..Len(d) BY <1>5, LeftIsRest
  <2>2. j = Len(s) + Len(st) + 1 BY <1>1, <2>1
  <2>3. Len(s) + Len(next) <= Len(d) BY <1>1, <1>3, <2>2
  <2> SUFFICES ASSUME NEW k \in 1..Len(next) PROVE next[k] = d[Len(s) + k] BY <2>3
  <2>4. CASE k \in 1..Len(st) BY <1>3, <1>5, <2>4 DEF Continues
  <2>5. CASE k = Len(st) + 1
    <3>1. Len(s) + k = j BY <1>1, <2>2, <2>5
    <3> QED BY <1>3, <2>5, <3>1
  <2> QED BY <1>1, <1>3, <2>4, <2>5
<1>6. ~Before(d, s) BY EarlierHasNothingLeft
<1> QED BY <1>3, <1>4, <1>5, <1>6 DEF Continues, next

(* A migration that has nothing left makes the schema that of a release.   *)
LEMMA StagedAll ==
    ASSUME NEW d \in Shipped, NEW s \in Shipped \cup {<<>>}, NEW st, Continues(d, s, st),
           Left(d, s, st) = {}
    PROVE  /\ s \o st \in Shipped \cup {<<>>}
           /\ ToSet(d) \subseteq ToSet(s \o st)
           /\ ToSet(s) \subseteq ToSet(s \o st)
<1>1. /\ d \in Sequences /\ Len(d) \in Nat /\ DOMAIN d = 1..Len(d)
      /\ s \in Sequences /\ Len(s) \in Nat
      /\ ToSet(s) = {s[k] : k \in 1..Len(s)} /\ ToSet(d) = {d[k] : k \in 1..Len(d)}
      /\ st \in Sequences /\ Len(st) \in Nat
  BY ShippedFiles DEF Continues, Sequences
<1>2. CASE Before(s, d)
  <2>1. (Len(s) + Len(st) + 1)..Len(d) = {} BY <1>2, LeftIsRest
  <2>2. Len(s) + Len(st) = Len(d) /\ \A k \in 1..Len(st) : st[k] = d[Len(s) + k]
    <3>1. Len(s) + Len(st) <= Len(d) /\ \A k \in 1..Len(st) : st[k] = d[Len(s) + k]
      BY <1>2 DEF Continues
    <3>2. ~(Len(s) + Len(st) + 1 <= Len(d)) BY <1>1, <2>1
    <3>3. Len(s) + Len(st) = Len(d)
      <4>1. \A a, b, c \in Nat : a + b <= c /\ ~(a + b + 1 <= c) => a + b = c OBVIOUS
      <4> QED BY <1>1, <3>1, <3>2, <4>1
    <3> QED BY <3>1, <3>3
  <2>3. s \o st = d
    <3>1. s \o st \in Sequences /\ Len(s \o st) = Len(d)
      BY <1>1, <2>2, ConcatProperties DEF Sequences
    <3>2. \A k \in 1..Len(d) : (s \o st)[k] = d[k]
      <4> SUFFICES ASSUME NEW k \in 1..Len(d) PROVE (s \o st)[k] = d[k] OBVIOUS
      <4>1. CASE k <= Len(s)
        <5>1. (s \o st)[k] = s[k] BY <1>1, <2>2, <4>1, ConcatProperties DEF Sequences
        <5> QED BY <1>1, <1>2, <4>1, <5>1 DEF Before
      <4>2. CASE ~(k <= Len(s))
        <5>1. (s \o st)[k] = st[k - Len(s)] BY <1>1, <2>2, <4>2, ConcatProperties DEF Sequences
        <5>2. k - Len(s) \in 1..Len(st) /\ Len(s) + (k - Len(s)) = k BY <1>1, <2>2, <4>2
        <5> QED BY <2>2, <5>1, <5>2
      <4> QED BY <4>1, <4>2
    <3> QED BY <1>1, <3>1, <3>2, SeqEqual DEF Sequences
  <2>4. ToSet(s) \subseteq ToSet(d)
    <3>1. \A k \in 1..Len(s) : k \in 1..Len(d) /\ s[k] = d[k] BY <1>1, <1>2 DEF Before
    <3> QED BY <1>1, <3>1
  <2> QED BY <2>3, <2>4
<1>3. CASE Before(d, s)
  <2>1. st = <<>> /\ ToSet(d) \subseteq ToSet(s) BY <1>3, EarlierHasNothingLeft DEF Continues
  <2>2. s \o st = s BY <1>1, <2>1 DEF Sequences
  <2> QED BY <2>1, <2>2
<1>4. ASSUME NEW j \in 1..Len(d), NEW k \in 1..Len(s), d[j].name = s[k].name, d[j].sum # s[k].sum
      PROVE  FALSE
  <2>1. Changed(d[j], s) BY <1>1, <1>4 DEF Changed
  <2>2. d[j] \notin ToSet(st)
    <3>1. \A m \in 1..Len(st) : d[j] # st[m] BY <2>1 DEF Continues
    <3> QED BY <1>1, <3>1 DEF ToSet, Sequences
  <2>3. d[j] \notin ToSet(s)
    <3> SUFFICES ASSUME NEW m \in 1..Len(s), d[j] = s[m] PROVE FALSE BY <1>1
    <3>1. m = k BY <1>4, ShippedFiles
    <3> QED BY <1>4, <3>1
  <2> QED BY <1>1, <2>2, <2>3 DEF Left
<1> QED BY <1>2, <1>3, <1>4, ReleasesFollow

-----------------------------------------------------------------------------
(* What a step can be for the migrations, whoever takes it.                *)
LEMMA MigrationSteps ==
    ASSUME [Next]_gateVars
    PROVE  \/ \E i \in Instance : \/ Start(i) \/ ReadApplied(i) \/ ApplyNext(i)
                                  \/ FailMigration(i) \/ CommitMigration(i) \/ Stop(i)
           \/ UNCHANGED migrationVars
<1>1. GateStep => UNCHANGED migrationVars
  BY DEF GateStep, GateOpen, GateFirst, Test, TestsDone, GateFinal, GateError, GateClose
<1>2. CASE World BY <1>2 DEF World, Edit, Migration
<1>3. UNCHANGED gateVars => UNCHANGED migrationVars BY DEF gateVars, migrationVars
<1> QED BY <1>1, <1>2, <1>3 DEF Next

(* A transaction that is over, with the schema as it was or continued.     *)
LEMMA SettleStep ==
    ASSUME MigrationInv, NEW i \in Instance,
           NEW outcome \in {"down", "failed", "ready"}, NEW applied, Settle(i, outcome, applied),
           schema \o applied \in Shipped \cup {<<>>},
           ToSet(schema) \subseteq ToSet(schema \o applied),
           applied # <<>> => migrator = i,
           outcome = "ready" => /\ directory[i] \in Shipped
                                /\ ToSet(directory[i]) \subseteq ToSet(schema \o applied)
    PROVE  MigrationInv'
<1>1. /\ DOMAIN phase' = Instance /\ DOMAIN staged' = Instance /\ DOMAIN existing' = Instance
      /\ phase'[i] = outcome /\ staged'[i] = <<>> /\ directory' = directory
      /\ schema' = schema \o applied /\ schema' \in Shipped \cup {<<>>}
      /\ migrator' = IF migrator = i THEN Nobody ELSE migrator
      /\ \A j \in Instance : j # i => /\ phase'[j] = phase[j] /\ staged'[j] = staged[j]
                                      /\ existing'[j] = existing[j]
  BY DEF MigrationInv, Settle
<1>2. migrator' # i BY <1>1, InstanceAssumption DEF InstanceAssumption
<1>3. Migrates(i)' BY <1>1, <1>2 DEF Migrates
<1>4. ASSUME NEW j \in Instance, j # i PROVE Migrates(j)'
  <2>1. Migrates(j) BY DEF MigrationInv
  <2>2. migrator' = j <=> migrator = j
    BY <1>1, <1>4, InstanceAssumption DEF InstanceAssumption
  <2>3. phase[j] = "migrating" => schema' = schema
    <3> SUFFICES ASSUME phase[j] = "migrating" PROVE schema' = schema OBVIOUS
    <3>1. applied = <<>> BY <1>4, <2>1 DEF Migrates
    <3>2. schema \in Sequences BY ShippedFiles DEF MigrationInv
    <3> QED BY <1>1, <3>1, <3>2, SeqEqual DEF Sequences
  <2> QED BY <1>1, <1>4, <2>1, <2>2, <2>3 DEF Migrates
<1> QED BY <1>1, <1>3, <1>4 DEF MigrationInv

LEMMA MigrationStep ==
    ASSUME MigrationInv, [Next]_gateVars
    PROVE  MigrationInv'
<1>1. schema \in Sequences /\ schema \o <<>> = schema
  <2>1. schema \in Sequences BY ShippedFiles DEF MigrationInv
  <2> QED BY <2>1 DEF Sequences
<1>2. ASSUME NEW i \in Instance, Start(i) PROVE MigrationInv'
  <2>1. PICK d \in Directories :
           /\ directory' = [directory EXCEPT ![i] = d]
           /\ phase' = [phase EXCEPT ![i] = IF ValidFiles(d) THEN "waiting" ELSE "failed"]
    BY <1>2 DEF Start
  <2>2. phase[i] = "down" /\ UNCHANGED <<existing, staged, migrator, schema>> BY <1>2 DEF Start
  <2>3. /\ DOMAIN phase' = Instance /\ DOMAIN directory' = Instance
        /\ phase'[i] \in {"waiting", "failed"} /\ directory'[i] = d
        /\ phase'[i] = "waiting" => d \in Shipped
        /\ \A j \in Instance : j # i => phase'[j] = phase[j] /\ directory'[j] = directory[j]
    BY <2>1 DEF MigrationInv, Shipped
  <2>4. \A j \in Instance : j # i => Migrates(j)' BY <2>2, <2>3 DEF MigrationInv, Migrates
  <2>5. Migrates(i)' BY <2>2, <2>3 DEF MigrationInv, Migrates
  <2> QED BY <2>2, <2>3, <2>4, <2>5 DEF MigrationInv
<1>3. ASSUME NEW i \in Instance, ReadApplied(i) PROVE MigrationInv'
  <2>1. /\ phase[i] = "waiting" /\ migrator = Nobody /\ migrator' = i
        /\ UNCHANGED <<directory, staged, schema>>
        /\ DOMAIN phase' = Instance /\ DOMAIN existing' = Instance
        /\ phase'[i] = "migrating" /\ existing'[i] = schema
        /\ \A j \in Instance : j # i => phase'[j] = phase[j] /\ existing'[j] = existing[j]
    BY <1>3 DEF ReadApplied, MigrationInv
  <2>2. \A j \in Instance : j # i => Migrates(j)'
    BY <2>1, InstanceAssumption DEF MigrationInv, Migrates, InstanceAssumption
  <2>3. Migrates(i)' BY <2>1, NothingStaged DEF MigrationInv, Migrates
  <2> QED BY <2>1, <2>2, <2>3 DEF MigrationInv
<1>4. ASSUME NEW i \in Instance, ApplyNext(i) PROVE MigrationInv'
  <2>1. /\ phase[i] = "migrating" /\ directory[i] \in Shipped /\ existing[i] = schema
        /\ Continues(directory[i], schema, staged[i])
    BY <1>4 DEF ApplyNext, MigrationInv, Migrates
  <2>2. Pending(i) = Left(directory[i], schema, staged[i]) BY <2>1 DEF Pending, Left
  <2>3. PICK j \in Pending(i) :
           /\ \A k \in Pending(i) : j <= k
           /\ ~Changed(directory[i][j], schema)
           /\ staged' = [staged EXCEPT ![i] = Append(staged[i], directory[i][j])]
    BY <1>4, <2>1 DEF ApplyNext
  <2>4. Continues(directory[i], schema, Append(staged[i], directory[i][j]))
    BY <2>1, <2>2, <2>3, StagedNext DEF MigrationInv
  <2>5. UNCHANGED <<phase, directory, existing, migrator, schema>> BY <1>4 DEF ApplyNext
  <2>6. /\ DOMAIN staged' = Instance /\ staged'[i] = Append(staged[i], directory[i][j])
        /\ \A k \in Instance : k # i => staged'[k] = staged[k]
    BY <2>3 DEF MigrationInv
  <2>7. \A k \in Instance : k # i => Migrates(k)' BY <2>5, <2>6 DEF MigrationInv, Migrates
  <2>8. Migrates(i)' BY <2>1, <2>4, <2>5, <2>6 DEF MigrationInv, Migrates
  <2> QED BY <2>5, <2>6, <2>7, <2>8 DEF MigrationInv
<1>5. ASSUME NEW i \in Instance, FailMigration(i) PROVE MigrationInv'
  BY <1>1, <1>5, SettleStep DEF FailMigration, MigrationInv
<1>6. ASSUME NEW i \in Instance, CommitMigration(i) PROVE MigrationInv'
  <2>1. /\ phase[i] = "migrating" /\ directory[i] \in Shipped /\ existing[i] = schema
        /\ Continues(directory[i], schema, staged[i]) /\ migrator = i
        /\ Settle(i, "ready", staged[i]) /\ Pending(i) = {}
    BY <1>6 DEF CommitMigration, MigrationInv, Migrates
  <2>2. Left(directory[i], schema, staged[i]) = {} BY <2>1 DEF Pending, Left
  <2> QED BY <2>1, <2>2, StagedAll, SettleStep DEF MigrationInv
<1>7. ASSUME NEW i \in Instance, Stop(i) PROVE MigrationInv'
  BY <1>1, <1>7, SettleStep DEF Stop, MigrationInv
<1>8. CASE UNCHANGED migrationVars
  <2>1. \A i \in Instance : Migrates(i) => Migrates(i)' BY <1>8 DEF migrationVars, Migrates
  <2> QED BY <1>8, <2>1 DEF migrationVars, MigrationInv
<1> QED BY <1>2, <1>3, <1>4, <1>5, <1>6, <1>7, <1>8, MigrationSteps

(* Whatever releases start, fail and crash together, on whatever number of *)
(* instances, the schema is that of one of them, and an instance that      *)
(* serves finds all of its own applied.                                    *)
THEOREM SchemaIsOfOneRelease == Spec => []SchemaAsShipped
<1>1. Init => MigrationInv
  <2> SUFFICES ASSUME Init PROVE MigrationInv OBVIOUS
  <2>1. \A i \in Instance : migrator # i
    BY InstanceAssumption DEF Init, MigrationInit, InstanceAssumption
  <2>2. \A i \in Instance : Migrates(i) BY <2>1 DEF Init, MigrationInit, Migrates
  <2> QED BY <2>2 DEF Init, MigrationInit, MigrationInv
<1>2. MigrationInv => SchemaAsShipped
  BY DEF MigrationInv, Migrates, SchemaAsShipped, Shipped
<1> QED BY <1>1, <1>2, MigrationStep, PTL DEF Spec
=============================================================================
