------------------------- MODULE ContextPacksProofs ------------------------
(***************************************************************************)
(* The context store for any number of processes, packs and budgets: a     *)
(* stored pack stays with either backend, and with PostgreSQL a put that   *)
(* returned has its payload in the store, so that the store implements     *)
(* WriteOnce.  With SQLite only the first holds.                           *)
(***************************************************************************)
EXTENDS ContextPacks, TLAPS

Rows == [Ids -> Packs \cup {Absent}]

(* One row replaced by a pack of its ID.                                   *)
LEMMA RowStored ==
    ASSUME TypeOK, NEW p \in Packs,
           table' = [table EXCEPT ![p.id] = p]
    PROVE  /\ table' \in Rows
           /\ table'[p.id] = p
           /\ \A id \in Ids : id # p.id => table'[id] = table[id]
           /\ \A id \in Ids : table'[id] # Absent => table'[id].id = id
<1>1. p.id \in Ids BY DEF Ids
<1>2. table \in Rows BY DEF TypeOK, Rows
<1>3. table' \in Rows /\ table'[p.id] = p
      /\ \A id \in Ids : id # p.id => table'[id] = table[id]
  BY <1>1, <1>2 DEF Rows
<1> QED BY <1>3 DEF TypeOK

(* What a put makes of the table: the pack of the call is stored under an  *)
(* ID that had none, or nothing happens.                                   *)
PutStep(s) ==
    /\ call[s] \in [step : {"compiled", "checked"}, pack : Packs]
    /\ call' = [call EXCEPT ![s].step = "written"]
    /\ UNCHANGED <<cache, confirmed, answered>>
    /\ LET p == call[s].pack
       IN  \/ table[p.id] = Absent /\ table' = [table EXCEPT ![p.id] = p]
           \/ table[p.id] # Absent /\ table' = table

LEMMA InsertIsPut ==
    ASSUME TypeOK, NEW s \in Processes, InsertOrIgnore(s)
    PROVE  PutStep(s)
<1>1. call[s] \in [step : {"compiled", "checked"}, pack : Packs]
  BY DEF TypeOK, Call, Idle, InsertOrIgnore
<1> DEFINE p == call[s].pack
<1>2. p \in Packs /\ p.id \in Ids BY <1>1 DEF Ids
<1>3. table' = [table EXCEPT ![p.id] = IF table[p.id] = Absent THEN p ELSE table[p.id]]
  BY DEF InsertOrIgnore
<1>4. CASE table[p.id] = Absent
  BY <1>1, <1>3, <1>4 DEF PutStep, InsertOrIgnore, Written
<1>5. CASE table[p.id] # Absent
  <2>1. table' = table BY <1>2, <1>3, <1>5 DEF TypeOK
  <2> QED BY <1>1, <1>5, <2>1 DEF PutStep, InsertOrIgnore, Written
<1> QED BY <1>4, <1>5

LEMMA VerifiedIsPut ==
    ASSUME TypeOK, NEW s \in Processes, PutVerified(s)
    PROVE  /\ PutStep(s)
           /\ table'[call[s].pack.id] = call[s].pack
<1>1. call[s] \in [step : {"compiled", "checked"}, pack : Packs]
  BY DEF TypeOK, Call, Idle, PutVerified
<1> DEFINE p == call[s].pack
<1>2. p \in Packs /\ p.id \in Ids BY <1>1 DEF Ids
<1>3. table' = [table EXCEPT ![p.id] = p] /\ table[p.id] \in {Absent, p}
  BY DEF PutVerified
<1>4. table'[p.id] = p BY <1>2, <1>3, RowStored
<1>5. CASE table[p.id] = Absent
  BY <1>1, <1>3, <1>4, <1>5 DEF PutStep, PutVerified, Written
<1>6. CASE table[p.id] # Absent
  <2>1. table' = table BY <1>2, <1>3, <1>6 DEF TypeOK
  <2> QED BY <1>1, <1>4, <1>6, <2>1 DEF PutStep, PutVerified, Written
<1> QED BY <1>5, <1>6

LEMMA PutKeepsTypes ==
    ASSUME TypeOK, NEW s \in Processes, PutStep(s), UNCHANGED backend
    PROVE  /\ TypeOK'
           /\ \A id \in Ids : table[id] # Absent => table'[id] = table[id]
<1> DEFINE p == call[s].pack
<1>1. p \in Packs /\ p.id \in Ids BY DEF PutStep, Ids
<1>2. /\ table' \in Rows
      /\ \A id \in Ids : table'[id] # Absent => table'[id].id = id
      /\ \A id \in Ids : table[id] # Absent => table'[id] = table[id]
      /\ table'[p.id] # Absent
  <2>1. CASE table[p.id] = Absent /\ table' = [table EXCEPT ![p.id] = p]
    <3>1. p # Absent BY <1>1, PacksAssumption DEF PacksAssumption
    <3> QED BY <1>1, <2>1, <3>1, RowStored
  <2>2. CASE table[p.id] # Absent /\ table' = table
    BY <2>2 DEF TypeOK, Rows
  <2> QED BY <2>1, <2>2 DEF PutStep
<1>3. /\ call' \in [Processes -> Call]
      /\ call'[s].pack = p
      /\ \A t \in Processes : t # s => call'[t] = call[t]
  BY <1>1 DEF PutStep, TypeOK, Call
<1>4. \A t \in Processes : call'[t].step = "written" => table'[call'[t].pack.id] # Absent
  <2> TAKE t \in Processes
  <2>1. CASE t = s BY <1>2, <1>3, <2>1
  <2>2. CASE t # s
    <3>1. call'[t] = call[t] BY <1>3, <2>2
    <3>2. call[t].step = "written" => call[t].pack \in Packs
      BY DEF TypeOK, Call, Idle
    <3> QED BY <1>2, <3>1, <3>2 DEF TypeOK, Ids
  <2> QED BY <2>1, <2>2
<1> QED BY <1>2, <1>3, <1>4 DEF TypeOK, Rows, PutStep

(* The steps that leave the table alone, each with what else it changes.   *)
LEMMA OtherStepsKeepTypes ==
    ASSUME TypeOK, UNCHANGED backend, NEW s \in Processes,
           \/ \E p \in Packs : AnswerFromCache(s, p) \/ Compile(s, p) \/ Expire(s, p)
           \/ CheckStored(s) \/ Return(s) \/ Raise(s) \/ Restart(s)
    PROVE  TypeOK' /\ table' = table
<1> USE DEF TypeOK
<1>0. Idle \in Call /\ Idle.step # "written" BY DEF Call, Idle
<1>1. ASSUME NEW p \in Packs, AnswerFromCache(s, p) PROVE TypeOK' /\ table' = table
  BY <1>1 DEF AnswerFromCache
<1>2. ASSUME NEW p \in Packs, Compile(s, p) PROVE TypeOK' /\ table' = table
  <2> DEFINE compiled == [step |-> "compiled", pack |-> p]
  <2>1. compiled \in Call /\ compiled.step # "written" BY DEF Call
  <2>2. call' = [call EXCEPT ![s] = compiled] /\ table' = table
    BY <1>2 DEF Compile
  <2> HIDE DEF compiled
  <2>3. /\ call' \in [Processes -> Call]
        /\ \A t \in Processes : call'[t].step = "written" => call'[t] = call[t]
    BY <2>1, <2>2
  <2>4. cache' \in [Processes -> SUBSET Packs] BY <1>2 DEF Compile
  <2> QED BY <1>2, <2>2, <2>3, <2>4 DEF Compile
<1>3. ASSUME NEW p \in Packs, Expire(s, p) PROVE TypeOK' /\ table' = table
  BY <1>3 DEF Expire
<1>4. CASE CheckStored(s)
  <2>1. call[s] \in [step : {"compiled"}, pack : Packs]
    BY <1>4 DEF Call, Idle, CheckStored
  <2> DEFINE checked == [call[s] EXCEPT !.step = "checked"]
  <2>2. call' = [call EXCEPT ![s] = checked] /\ table' = table
    BY <1>4 DEF CheckStored
  <2>3. checked \in Call /\ checked.step # "written" BY <2>1 DEF Call
  <2> HIDE DEF checked
  <2>4. /\ call' \in [Processes -> Call]
        /\ \A t \in Processes : call'[t].step = "written" => call'[t] = call[t]
    BY <2>2, <2>3
  <2> QED BY <1>4, <2>2, <2>4 DEF CheckStored
<1>5. CASE Return(s)
  <2>1. call[s].pack \in Packs BY <1>5 DEF Call, Idle, Return
  <2>2. /\ call' \in [Processes -> Call]
        /\ \A t \in Processes : call'[t].step = "written" => call'[t] = call[t]
    BY <1>0, <1>5 DEF Return
  <2> QED BY <1>5, <2>1, <2>2 DEF Return
<1>6. CASE Raise(s)
  <2>1. /\ call' \in [Processes -> Call]
        /\ \A t \in Processes : call'[t].step = "written" => call'[t] = call[t]
    BY <1>0, <1>6 DEF Raise
  <2> QED BY <1>6, <2>1 DEF Raise
<1>7. CASE Restart(s)
  <2>1. /\ call' \in [Processes -> Call]
        /\ \A t \in Processes : call'[t].step = "written" => call'[t] = call[t]
    BY <1>0, <1>7 DEF Restart
  <2>2. cache' \in [Processes -> SUBSET Packs] BY <1>7 DEF Restart
  <2> QED BY <1>7, <2>1, <2>2 DEF Restart
<1> QED BY <1>1, <1>2, <1>3, <1>4, <1>5, <1>6, <1>7

LEMMA InitTypes == Init => TypeOK
BY DEF Init, TypeOK, Call, Idle

LEMMA StepsKeepTypes == TypeOK /\ [Next]_vars => TypeOK'
<1> SUFFICES ASSUME TypeOK, [Next]_vars PROVE TypeOK' OBVIOUS
<1>1. CASE UNCHANGED vars BY <1>1 DEF vars, TypeOK
<1>2. CASE Next
  BY <1>2, InsertIsPut, VerifiedIsPut, PutKeepsTypes, OtherStepsKeepTypes DEF Next
<1> QED BY <1>1, <1>2

(* Every row holds a pack of its ID, and a call that believes its pack     *)
(* written finds a row, for any number of processes and packs.             *)
THEOREM TypeCorrect == Spec => []TypeOK
BY InitTypes, StepsKeepTypes, PTL DEF Spec

(* "Without mutating a previously stored ID", with either backend.         *)
THEOREM StoredPacksStay == Spec => StoreImmutable
<1>1. TypeOK /\ [Next]_vars =>
        [\A id \in Ids : table[id] # Absent => table'[id] = table[id]]_vars
  BY InsertIsPut, VerifiedIsPut, PutKeepsTypes, OtherStepsKeepTypes DEF Next
<1> QED BY <1>1, TypeCorrect, PTL DEF StoreImmutable, Spec

-----------------------------------------------------------------------------
(* The invariant behind the promise of put: with PostgreSQL, what a call   *)
(* believes written, and what was ever confirmed, is what the row holds.   *)
WrittenIsStored ==
    backend = "postgres" =>
        \A s \in Processes : call[s].step = "written" =>
            table[call[s].pack.id] = call[s].pack
ConfirmInv == WrittenIsStored /\ PutConfirms

LEMMA PostgresConfirmStep ==
    ASSUME backend = "postgres", TypeOK, ConfirmInv, [Next]_vars
    PROVE  ConfirmInv'
<1>0. backend' = backend BY DEF Next, vars
<1>1. CASE UNCHANGED vars BY <1>1 DEF vars, ConfirmInv, WrittenIsStored, PutConfirms
<1>2. ASSUME NEW s \in Processes, PutVerified(s) PROVE ConfirmInv'
  <2>1. PutStep(s) /\ table'[call[s].pack.id] = call[s].pack
        /\ \A id \in Ids : table[id] # Absent => table'[id] = table[id]
    BY <1>0, <1>2, VerifiedIsPut, PutKeepsTypes
  <2>2. ASSUME NEW q \in Packs, table[q.id] = q PROVE table'[q.id] = q
    <3>1. q.id \in Ids /\ q # Absent BY PacksAssumption DEF Ids, PacksAssumption
    <3> QED BY <2>1, <2>2, <3>1
  <2>3. PutConfirms'
    <3>1. confirmed' = confirmed /\ confirmed \subseteq Packs BY <2>1 DEF PutStep, TypeOK
    <3> QED BY <2>2, <3>1 DEF ConfirmInv, WrittenIsStored, PutConfirms
  <2>4. ASSUME NEW t \in Processes, call'[t].step = "written"
        PROVE  table'[call'[t].pack.id] = call'[t].pack
    <3>1. CASE t = s
      <4>1. call'[t].pack = call[s].pack BY <2>1, <3>1 DEF PutStep, TypeOK, Call
      <4> QED BY <2>1, <4>1
    <3>2. CASE t # s
      <4>1. call'[t] = call[t] BY <2>1, <3>2 DEF PutStep, TypeOK
      <4>2. call[t].pack \in Packs BY <2>4, <4>1 DEF TypeOK, Call, Idle
      <4> QED BY <2>2, <2>4, <4>1, <4>2 DEF ConfirmInv, WrittenIsStored
    <3> QED BY <3>1, <3>2
  <2> QED BY <2>3, <2>4 DEF ConfirmInv, WrittenIsStored
<1>3. ASSUME NEW s \in Processes,
             \/ \E p \in Packs : AnswerFromCache(s, p) \/ Compile(s, p) \/ Expire(s, p)
             \/ CheckStored(s) \/ Raise(s) \/ Restart(s)
      PROVE  ConfirmInv'
  <2>1. table' = table BY <1>0, <1>3, OtherStepsKeepTypes
  <2>2. confirmed' = confirmed
    BY <1>3 DEF AnswerFromCache, Compile, Expire, CheckStored, Raise, Restart
  <2>3. \A t \in Processes : call'[t].step = "written" => call'[t] = call[t]
    BY <1>3 DEF TypeOK, AnswerFromCache, Compile, Expire, CheckStored, Raise, Restart, Idle
  <2> QED BY <2>1, <2>2, <2>3 DEF ConfirmInv, WrittenIsStored, PutConfirms
<1>4. ASSUME NEW s \in Processes, Return(s) PROVE ConfirmInv'
  <2>1. /\ table' = table /\ confirmed' = confirmed \cup {call[s].pack}
        /\ table[call[s].pack.id] = call[s].pack
    BY <1>4 DEF Return, ConfirmInv, WrittenIsStored
  <2>2. \A t \in Processes : call'[t].step = "written" => call'[t] = call[t]
    BY <1>4 DEF TypeOK, Return, Idle
  <2> QED BY <2>1, <2>2 DEF ConfirmInv, WrittenIsStored, PutConfirms
<1>5. ASSUME NEW s \in Processes, InsertOrIgnore(s) PROVE ConfirmInv'
  BY <1>5 DEF InsertOrIgnore
<1> QED BY <1>1, <1>2, <1>3, <1>4, <1>5 DEF Next

LEMMA ConfirmInit == Init => ConfirmInv
BY DEF Init, ConfirmInv, WrittenIsStored, PutConfirms, Idle

LEMMA ConfirmStep == TypeOK /\ ConfirmInv /\ [Next]_vars => ConfirmInv'
<1> SUFFICES ASSUME TypeOK, ConfirmInv, [Next]_vars PROVE ConfirmInv' OBVIOUS
<1>1. CASE backend = "postgres" BY <1>1, PostgresConfirmStep
<1>2. CASE backend # "postgres"
  <2>1. backend' # "postgres" BY <1>2 DEF Next, vars
  <2> QED BY <2>1 DEF ConfirmInv, WrittenIsStored, PutConfirms
<1> QED BY <1>1, <1>2

(* "Store a new immutable context or verify an identical retry": with      *)
(* PostgreSQL, whatever put returned from is in the store.                 *)
THEOREM PutIsConfirmed == Spec => []PutConfirms
<1>1. ConfirmInv => PutConfirms BY DEF ConfirmInv
<1> QED BY <1>1, ConfirmStep, ConfirmInit, TypeCorrect, PTL DEF Spec

(* A step of the PostgreSQL store is a step of the promise, or not seen.   *)
LEMMA PostgresRefines ==
    ASSUME backend = "postgres", TypeOK, ConfirmInv, [Next]_vars
    PROVE  [Promise!Next]_(Promise!vars)
<1>0. backend' = backend BY DEF Next, vars
<1>a. /\ PromisedTable = table /\ PromisedTable' = table'
      /\ PromisedConfirmed = confirmed /\ PromisedConfirmed' = confirmed'
  BY <1>0 DEF PromisedTable, PromisedConfirmed
<1>1. CASE UNCHANGED vars BY <1>a, <1>1 DEF vars, Promise!vars
<1>2. ASSUME NEW s \in Processes, PutVerified(s) PROVE [Promise!Next]_(Promise!vars)
  <2>1. PutStep(s) /\ call[s].pack \in Packs /\ confirmed' = confirmed
    BY <1>2, VerifiedIsPut DEF PutStep
  <2> QED BY <1>a, <2>1 DEF PutStep, Promise!Next, Promise!Store, Promise!vars
<1>3. ASSUME NEW s \in Processes,
             \/ \E p \in Packs : AnswerFromCache(s, p) \/ Compile(s, p) \/ Expire(s, p)
             \/ CheckStored(s) \/ Raise(s) \/ Restart(s)
      PROVE  [Promise!Next]_(Promise!vars)
  <2>1. table' = table /\ confirmed' = confirmed
    BY <1>3 DEF AnswerFromCache, Compile, Expire, CheckStored, Raise, Restart
  <2> QED BY <1>a, <2>1 DEF Promise!vars
<1>4. ASSUME NEW s \in Processes, Return(s) PROVE [Promise!Next]_(Promise!vars)
  <2>1. call[s].pack \in Packs BY <1>4 DEF TypeOK, Call, Idle, Return
  <2>2. Promise!Verify(call[s].pack)
    BY <1>a, <1>4 DEF Return, ConfirmInv, WrittenIsStored, Promise!Verify
  <2> QED BY <2>1, <2>2 DEF Promise!Next
<1>5. ASSUME NEW s \in Processes, InsertOrIgnore(s) PROVE [Promise!Next]_(Promise!vars)
  BY <1>5 DEF InsertOrIgnore
<1> QED BY <1>1, <1>2, <1>3, <1>4, <1>5 DEF Next

(* The PostgreSQL store with everything around it implements WriteOnce: a  *)
(* put that stores is Store, a put that returns is Verify, and the rest    *)
(* (caches, failures, restarts, a SQLite deployment) is not seen.          *)
THEOREM PostgresKeepsPromise == Spec => KeepsPromise
<1>1. Init => Promise!Init
  BY DEF Init, Promise!Init, Ids, PromisedTable, PromisedConfirmed
<1>2. TypeOK /\ ConfirmInv /\ [Next]_vars => [Promise!Next]_(Promise!vars)
  <2> SUFFICES ASSUME TypeOK, ConfirmInv, [Next]_vars
               PROVE  [Promise!Next]_(Promise!vars)
    OBVIOUS
  <2>1. CASE backend = "postgres" BY <2>1, PostgresRefines
  <2>2. CASE backend # "postgres"
    <3>1. backend' = backend BY DEF Next, vars
    <3> QED BY <2>2, <3>1 DEF PromisedTable, PromisedConfirmed, Promise!vars
  <2> QED BY <2>1, <2>2
<1> QED BY <1>1, <1>2, ConfirmStep, ConfirmInit, TypeCorrect, PTL
        DEF Spec, KeepsPromise, Promise!Spec
=============================================================================
