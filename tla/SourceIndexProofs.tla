------------------------- MODULE SourceIndexProofs -------------------------
(***************************************************************************)
(* The index cache for any number of files, versions and callers: one      *)
(* caller at a time builds, and a knowledge base whose files only get      *)
(* newer is never served stale to a call that saw no edit.  The run        *)
(* index_graph shows what the graph's late label does instead.             *)
(***************************************************************************)
EXTENDS SourceIndex, TLAPS

(* The index names its files 1 to Files, so the last is one of them.       *)
LEMMA FileNumbers == Files \in 1..Files /\ 1 \in 1..Files
BY SourceIndexAssumption DEF SourceIndexAssumption

LEMMA IdleType ==
    Idle \in [step : Where, next : 1..Files, digest : Content,
              built : Content, label : Content, quiet : BOOLEAN]
BY FileNumbers, SourceIndexAssumption
   DEF Idle, Where, Content, Nothing, SourceIndexAssumption

CallType == [step : Where, next : 1..Files, digest : Content,
             built : Content, label : Content, quiet : BOOLEAN]

(* The version of the next file, put into what a call has read.            *)
LEMMA FileRead ==
    ASSUME TypeOK, NEW seen \in Content, NEW f \in 1..Files
    PROVE  /\ [seen EXCEPT ![f] = disk[f]] \in Content
           /\ [seen EXCEPT ![f] = disk[f]][f] = disk[f]
           /\ \A g \in 1..Files : g # f => [seen EXCEPT ![f] = disk[f]][g] = seen[g]
<1>1. disk[f] \in 0..Versions BY SourceIndexAssumption DEF TypeOK, SourceIndexAssumption
<1>2. DOMAIN seen = 1..Files BY DEF Content
<1> QED BY <1>1, <1>2 DEF Content

(* A pass over the files stays within them and within the versions.        *)
LEMMA ReadOneFile ==
    ASSUME TypeOK, NEW c \in Callers, NEW record \in CallType, NEW then \in Where,
           record.next = call[c].next,
           ReadInto(c, record, then)
    PROVE  /\ call' \in [Callers -> CallType]
           /\ \A d \in Callers : d # c => call'[d] = call[d]
           /\ call[c].next = Files => call'[c].step = then
           /\ call[c].next # Files => call'[c].step = record.step
           /\ call[c].next = Files => call'[c].next = 1
           /\ call[c].next # Files => call'[c].next = call[c].next + 1
           /\ call'[c].digest = record.digest
           /\ call'[c].built = record.built
           /\ call'[c].label = record.label
           /\ call'[c].quiet = record.quiet
<1>1. call \in [Callers -> CallType] BY DEF TypeOK, CallType
<1>2. DEFINE last == [record EXCEPT !.next = 1, !.step = then]
             more == [record EXCEPT !.next = call[c].next + 1]
<1>3. call' = [call EXCEPT ![c] = IF call[c].next = Files THEN last ELSE more]
  BY DEF ReadInto
<1>4. last \in CallType BY FileNumbers DEF CallType
<1>5. call[c].next # Files => more \in CallType
  <2>1. call[c].next \in 1..Files BY <1>1 DEF CallType
  <2>2. call[c].next # Files => call[c].next + 1 \in 1..Files
    BY <2>1, SourceIndexAssumption DEF SourceIndexAssumption
  <2> QED BY <2>2 DEF CallType
<1>6. CASE call[c].next = Files
  <2>1. call' = [call EXCEPT ![c] = last] BY <1>3, <1>6
  <2> QED BY <1>1, <1>4, <1>6, <2>1 DEF CallType
<1>7. CASE call[c].next # Files
  <2>1. call' = [call EXCEPT ![c] = more] BY <1>3, <1>7
  <2> QED BY <1>1, <1>5, <1>7, <2>1 DEF CallType
<1> QED BY <1>6, <1>7

(* What a step of one caller has to show: the other callers stay where     *)
(* they are, and the lock goes with the steps that build.                  *)
Builds(step) == step \in {"build", "label"}

OneCaller(c) ==
    /\ disk' = disk
    /\ cache' \in [built : Content, label : Content]
    /\ call' \in [Callers -> CallType]
    /\ \A d \in Callers : d # c => call'[d] = call[d]
    /\ \/ lock' = lock /\ (Builds(call'[c].step) <=> Builds(call[c].step))
       \/ lock' = Nobody /\ ~Builds(call'[c].step) /\ lock \in {c, Nobody}
       \/ lock' = c /\ Builds(call'[c].step) /\ lock = Nobody

LEMMA OneCallerKeepsTypes ==
    ASSUME TypeOK, NEW c \in Callers, OneCaller(c), kind' = kind
    PROVE  TypeOK'
<1>1. lock' \in Callers \cup {Nobody}
  BY DEF OneCaller, TypeOK
<1>2. \A d \in Callers : Builds(call'[d].step) <=> lock' = d
  <2> TAKE d \in Callers
  <2>1. \A e \in Callers : Builds(call[e].step) <=> lock = e
    BY DEF TypeOK, Builds
  <2>2. CASE d = c
    BY <2>1, <2>2, NobodyAssumption DEF OneCaller
  <2>3. CASE d # c
    <3>1. call'[d] = call[d] BY <2>3 DEF OneCaller
    <3> QED BY <2>1, <2>3, <3>1, NobodyAssumption DEF OneCaller
  <2> QED BY <2>2, <2>3
<1> QED BY <1>1, <1>2 DEF TypeOK, OneCaller, CallType, Builds

LEMMA InitTypes == Init => TypeOK
BY IdleType, NobodyAssumption, SourceIndexAssumption
   DEF Init, TypeOK, Empty, Nothing, Content, Idle, SourceIndexAssumption

(* The types, and mutual exclusion of the builders, for any instance.      *)
THEOREM TypeCorrect == Spec => []TypeOK
<1>1. Init => TypeOK BY InitTypes
<1>2. TypeOK /\ [Next]_vars => TypeOK'
  <2> SUFFICES ASSUME TypeOK, [Next]_vars PROVE TypeOK' OBVIOUS
  <2>a. kind' = kind BY DEF Next, vars
  <2>0. /\ call \in [Callers -> CallType]
        /\ cache \in [built : Content, label : Content]
        /\ \A e \in Callers : Builds(call[e].step) <=> lock = e
    BY DEF TypeOK, CallType, Builds
  <2>1. CASE UNCHANGED vars BY <2>1 DEF vars, TypeOK
  <2>2. ASSUME NEW f \in 1..Files, NEW v \in 1..Versions, Edit(f, v) PROVE TypeOK'
    <3>1. disk' \in [1..Files -> 1..Versions] BY <2>2 DEF TypeOK, Edit
    <3>2. call' \in [Callers -> CallType]
          /\ \A d \in Callers : call'[d].step = call[d].step
      BY <2>0, <2>2 DEF Edit, CallType
    <3>3. cache' = cache /\ lock' = lock BY <2>2 DEF Edit
    <3> QED BY <2>a, <3>1, <3>2, <3>3 DEF TypeOK, CallType
  <2>3. ASSUME NEW c \in Callers, Begin(c) PROVE TypeOK'
    <3>1. call' = [call EXCEPT ![c] = [Idle EXCEPT !.step = "digest", !.quiet = TRUE]]
          /\ disk' = disk /\ cache' = cache /\ lock' = lock
          /\ ~Builds(call[c].step)
      BY <2>3 DEF Begin, Builds
    <3>2. [Idle EXCEPT !.step = "digest", !.quiet = TRUE] \in CallType
          /\ [Idle EXCEPT !.step = "digest", !.quiet = TRUE].step = "digest"
      BY IdleType DEF CallType, Where
    <3>3. OneCaller(c) BY <2>0, <3>1, <3>2 DEF OneCaller, Builds
    <3> QED BY <3>3, <2>a, OneCallerKeepsTypes
  <2>4. ASSUME NEW c \in Callers, Digest(c) PROVE TypeOK'
    <3> DEFINE record == [call[c] EXCEPT !.digest[call[c].next] = disk[call[c].next]]
    <3>1. record \in CallType /\ record.next = call[c].next /\ record.step = "digest"
      <4>1. call[c] \in CallType /\ call[c].step = "digest"
        BY <2>0, <2>4 DEF Digest
      <4>2. call[c].next \in 1..Files /\ call[c].digest \in Content
        BY <4>1 DEF CallType
      <4>3. [call[c].digest EXCEPT ![call[c].next] = disk[call[c].next]] \in Content
        BY <4>2, FileRead
      <4> QED BY <4>1, <4>3 DEF CallType
    <3>2. ReadInto(c, record, "wait") /\ disk' = disk /\ cache' = cache /\ lock' = lock
      BY <2>4 DEF Digest
    <3>3. /\ call' \in [Callers -> CallType]
          /\ \A d \in Callers : d # c => call'[d] = call[d]
          /\ call'[c].step \in {"digest", "wait"}
      BY <3>1, <3>2, ReadOneFile DEF Where
    <3>4. OneCaller(c) BY <2>0, <2>4, <3>2, <3>3 DEF OneCaller, Builds, Digest
    <3> QED BY <3>4, <2>a, OneCallerKeepsTypes
  <2>5. ASSUME NEW c \in Callers, UseCached(c) PROVE TypeOK'
    <3>1. call' = [call EXCEPT ![c].built = cache.built, ![c].step = "done"]
          /\ disk' = disk /\ cache' = cache /\ lock' = lock
          /\ ~Builds(call[c].step)
      BY <2>5 DEF UseCached, Builds
    <3>2. /\ call' \in [Callers -> CallType]
          /\ \A d \in Callers : d # c => call'[d] = call[d]
          /\ call'[c].step = "done"
      BY <2>0, <3>1 DEF CallType, Where
    <3>3. OneCaller(c) BY <2>0, <3>1, <3>2 DEF OneCaller, Builds
    <3> QED BY <3>3, <2>a, OneCallerKeepsTypes
  <2>6. ASSUME NEW c \in Callers, Rebuild(c) PROVE TypeOK'
    <3>1. call' = [call EXCEPT ![c].step = "build"]
          /\ disk' = disk /\ cache' = cache /\ lock' = c /\ lock = Nobody
      BY <2>6 DEF Rebuild
    <3>2. /\ call' \in [Callers -> CallType]
          /\ \A d \in Callers : d # c => call'[d] = call[d]
          /\ call'[c].step = "build"
      BY <2>0, <3>1 DEF CallType, Where
    <3>3. OneCaller(c) BY <2>0, <3>1, <3>2 DEF OneCaller, Builds
    <3> QED BY <3>3, <2>a, OneCallerKeepsTypes
  <2>7. ASSUME NEW c \in Callers, Build(c) PROVE TypeOK'
    <3> DEFINE record == [call[c] EXCEPT !.built[call[c].next] = disk[call[c].next]]
    <3>1. record \in CallType /\ record.next = call[c].next /\ record.step = "build"
      <4>1. call[c] \in CallType /\ call[c].step = "build"
        BY <2>0, <2>7 DEF Build
      <4>2. call[c].next \in 1..Files /\ call[c].built \in Content
        BY <4>1 DEF CallType
      <4>3. [call[c].built EXCEPT ![call[c].next] = disk[call[c].next]] \in Content
        BY <4>2, FileRead
      <4> QED BY <4>1, <4>3 DEF CallType
    <3>2. ReadInto(c, record, "label") /\ disk' = disk /\ cache' = cache /\ lock' = lock
      BY <2>7 DEF Build
    <3>3. /\ call' \in [Callers -> CallType]
          /\ \A d \in Callers : d # c => call'[d] = call[d]
          /\ call'[c].step \in {"build", "label"}
      BY <3>1, <3>2, ReadOneFile DEF Where
    <3>4. OneCaller(c) BY <2>0, <2>7, <3>2, <3>3 DEF OneCaller, Builds, Build
    <3> QED BY <3>4, <2>a, OneCallerKeepsTypes
  <2>8. ASSUME NEW c \in Callers, PublishKnowledge(c) PROVE TypeOK'
    <3>1. call' = [call EXCEPT ![c].step = "done"]
          /\ disk' = disk /\ lock' = Nobody /\ lock = c
          /\ cache' = [built |-> call[c].built, label |-> call[c].digest]
      BY <2>0, <2>8 DEF PublishKnowledge, Publish, Builds
    <3>2. /\ call' \in [Callers -> CallType]
          /\ \A d \in Callers : d # c => call'[d] = call[d]
          /\ call'[c].step = "done"
      BY <2>0, <3>1 DEF CallType, Where
    <3>3. cache' \in [built : Content, label : Content] BY <2>0, <3>1 DEF CallType
    <3>4. OneCaller(c) BY <3>1, <3>2, <3>3 DEF OneCaller, Builds
    <3> QED BY <3>4, <2>a, OneCallerKeepsTypes
  <2>9. ASSUME NEW c \in Callers, LabelGraph(c) PROVE TypeOK'
    <3> DEFINE read == [call[c] EXCEPT !.label[call[c].next] = disk[call[c].next]]
    <3>1. read \in CallType /\ read.next = call[c].next /\ read.step = "label"
      <4>1. call[c] \in CallType /\ call[c].step = "label"
        BY <2>0, <2>9 DEF LabelGraph
      <4>2. call[c].next \in 1..Files /\ call[c].label \in Content
        BY <4>1 DEF CallType
      <4>3. [call[c].label EXCEPT ![call[c].next] = disk[call[c].next]] \in Content
        BY <4>2, FileRead
      <4> QED BY <4>1, <4>3 DEF CallType
    <3>2. ReadInto(c, read, "done") /\ lock = c
      BY <2>0, <2>9 DEF LabelGraph, Builds
    <3>3. /\ call' \in [Callers -> CallType]
          /\ \A d \in Callers : d # c => call'[d] = call[d]
          /\ call[c].next = Files => call'[c].step = "done"
          /\ call[c].next # Files => call'[c].step = "label"
      BY <3>1, <3>2, ReadOneFile DEF Where
    <3>4. CASE call[c].next = Files
      <4>1. cache' = [built |-> call[c].built, label |-> read.label]
            /\ lock' = Nobody /\ disk' = disk
        BY <2>9, <3>4 DEF LabelGraph, Publish
      <4>2. cache' \in [built : Content, label : Content]
        BY <2>0, <3>1, <4>1 DEF CallType
      <4>3. call'[c].step = "done" BY <3>3, <3>4
      <4>4. lock' = Nobody /\ ~Builds(call'[c].step) /\ lock \in {c, Nobody}
        BY <3>2, <4>1, <4>3 DEF Builds
      <4>5. OneCaller(c) BY <3>3, <4>1, <4>2, <4>4 DEF OneCaller
      <4> QED BY <4>5, <2>a, OneCallerKeepsTypes
    <3>5. CASE call[c].next # Files
      <4>1. disk' = disk /\ cache' = cache /\ lock' = lock /\ call[c].step = "label"
        BY <2>9, <3>5 DEF LabelGraph
      <4>2. call'[c].step = "label" BY <3>3, <3>5
      <4>3. OneCaller(c) BY <2>0, <3>3, <4>1, <4>2 DEF OneCaller, Builds
      <4> QED BY <4>3, <2>a, OneCallerKeepsTypes
    <3> QED BY <3>4, <3>5
  <2>10. ASSUME NEW c \in Callers, Raise(c) PROVE TypeOK'
    <3>1. call' = [call EXCEPT ![c] = Idle] /\ disk' = disk /\ cache' = cache
          /\ lock' = (IF lock = c THEN Nobody ELSE lock)
      BY <2>10 DEF Raise
    <3>2. /\ call' \in [Callers -> CallType]
          /\ \A d \in Callers : d # c => call'[d] = call[d]
          /\ call'[c].step = "idle"
      BY <2>0, <3>1, IdleType DEF CallType, Idle
    <3>3. OneCaller(c) BY <2>0, <3>1, <3>2, NobodyAssumption DEF OneCaller, Builds
    <3> QED BY <3>3, <2>a, OneCallerKeepsTypes
  <2> QED BY <2>1, <2>2, <2>3, <2>4, <2>5, <2>6, <2>7, <2>8, <2>9, <2>10 DEF Next
<1> QED BY <1>1, <1>2, PTL DEF Spec

-----------------------------------------------------------------------------
(* The invariant behind CurrentWhenQuiet for a knowledge base whose files  *)
(* only get newer.  A label is never newer than what the index was built   *)
(* from, and neither is newer than the files: so an index whose label is   *)
(* what the files are now was built from the files as they are now.        *)
NotAhead(v, w) == \A f \in 1..Files : v[f] <= w[f]

CallInv(k, d) ==
    /\ NotAhead(k.digest, d) /\ NotAhead(k.built, d)
    /\ k.step = "wait" => k.next = 1
    /\ k.step = "build" => \A f \in 1..Files : f < k.next => k.digest[f] <= k.built[f]
    /\ k.step = "label" => NotAhead(k.digest, k.built)
    /\ k.quiet =>
          /\ k.step = "digest" => \A f \in 1..Files : f < k.next => k.digest[f] = d[f]
          /\ k.step \in {"wait", "build", "label"} => k.digest = d
          /\ k.step = "done" => k.built = d

KnowledgeInv ==
    /\ NotAhead(cache.label, cache.built) /\ NotAhead(cache.built, disk)
    /\ \A c \in Callers : CallInv(call[c], disk)

LEMMA SameFunction ==
    ASSUME NEW S, NEW T, NEW v \in [S -> T], NEW w \in [S -> T],
           \A x \in S : v[x] = w[x]
    PROVE  v = w
OBVIOUS

(* Between what is not ahead of it and what it is not ahead of, nothing.   *)
LEMMA Squeezed ==
    ASSUME TypeOK, NEW v \in Content, NotAhead(disk, v), NotAhead(v, disk)
    PROVE  v = disk
<1>1. disk \in [1..Files -> 1..Versions] BY DEF TypeOK
<1>2. \A f \in 1..Files : v[f] = disk[f]
  BY <1>1, SourceIndexAssumption DEF NotAhead, Content, SourceIndexAssumption
<1>3. disk \in [1..Files -> 0..Versions]
  BY <1>1, SourceIndexAssumption DEF SourceIndexAssumption
<1>4. v \in [1..Files -> 0..Versions] BY DEF Content
<1> DEFINE S == 1..Files
           T == 0..Versions
<1>5. v \in [S -> T] /\ disk \in [S -> T] /\ \A x \in S : v[x] = disk[x]
  BY <1>2, <1>3, <1>4
<1> HIDE DEF S, T
<1> QED BY <1>5, SameFunction

LEMMA IdleInv == ASSUME TypeOK PROVE CallInv(Idle, disk)
BY SourceIndexAssumption DEF CallInv, Idle, Nothing, NotAhead, TypeOK, SourceIndexAssumption

(* The other callers do not notice a step that leaves the files alone.     *)
LEMMA OthersKeepInv ==
    ASSUME KnowledgeInv, NEW c \in Callers, disk' = disk,
           \A d \in Callers : d # c => call'[d] = call[d],
           CallInv(call'[c], disk),
           NotAhead(cache'.label, cache'.built), NotAhead(cache'.built, disk)
    PROVE  KnowledgeInv'
<1>1. \A d \in Callers : CallInv(call'[d], disk')
  <2> TAKE d \in Callers
  <2>1. CASE d = c BY <2>1
  <2>2. CASE d # c BY <2>2 DEF KnowledgeInv
  <2> QED BY <2>1, <2>2
<1>2. NotAhead(cache'.label, cache'.built) /\ NotAhead(cache'.built, disk') OBVIOUS
<1> QED BY <1>1, <1>2 DEF KnowledgeInv

(* An edit takes everybody's quiet, and what was not ahead is not now.     *)
LEMMA EditKeepsInv ==
    ASSUME TypeOK, KnowledgeInv, Reverts = FALSE,
           NEW f \in 1..Files, NEW v \in 1..Versions, Edit(f, v)
    PROVE  KnowledgeInv'
<1>1. disk' = [disk EXCEPT ![f] = v] /\ v > disk[f] /\ cache' = cache
      /\ call' = [c \in Callers |-> [call[c] EXCEPT !.quiet = FALSE]]
  BY DEF Edit
<1>2. \A g \in 1..Files : disk[g] \in Nat /\ disk'[g] \in Nat /\ disk[g] <= disk'[g]
  BY <1>1, SourceIndexAssumption DEF TypeOK, SourceIndexAssumption
<1>3. ASSUME NEW w \in Content, NotAhead(w, disk) PROVE NotAhead(w, disk')
  <2>1. \A g \in 1..Files : w[g] \in Nat
    BY SourceIndexAssumption DEF Content, SourceIndexAssumption
  <2> QED BY <1>2, <1>3, <2>1 DEF NotAhead
<1>4. NotAhead(cache'.label, cache'.built) /\ NotAhead(cache'.built, disk')
  <2>1. cache.built \in Content BY DEF TypeOK
  <2> QED BY <1>1, <1>3, <2>1 DEF KnowledgeInv
<1>5. ASSUME NEW c \in Callers PROVE CallInv(call'[c], disk')
  <2>1. call[c] \in CallType /\ CallInv(call[c], disk)
    BY DEF TypeOK, CallType, KnowledgeInv
  <2>2. /\ call'[c].step = call[c].step /\ call'[c].next = call[c].next
        /\ call'[c].digest = call[c].digest /\ call'[c].built = call[c].built
        /\ call'[c].quiet = FALSE
    BY <1>1, <2>1 DEF CallType
  <2>3. NotAhead(call[c].digest, disk') /\ NotAhead(call[c].built, disk')
    BY <1>3, <2>1 DEF CallType, CallInv
  <2> QED BY <2>1, <2>2, <2>3 DEF CallInv
<1> QED BY <1>4, <1>5 DEF KnowledgeInv

(* "Reuse the in-memory knowledge index until a governed file changes": if *)
(* the files only get newer, a call that saw no edit is answered from the  *)
(* files as they are, for any number of files, versions and callers.       *)
THEOREM KnowledgeIsCurrent ==
    ASSUME Reverts = FALSE
    PROVE  Spec => []CurrentWhenQuiet
<1>0. Reverts = FALSE OBVIOUS
<1>1. Init => KnowledgeInv
  <2> SUFFICES ASSUME Init PROVE KnowledgeInv OBVIOUS
  <2>1. NotAhead(cache.label, cache.built) /\ NotAhead(cache.built, disk)
    BY DEF Init, Empty, Nothing, NotAhead
  <2>2. \A c \in Callers : CallInv(call[c], disk)
    BY InitTypes, IdleInv DEF Init
  <2> QED BY <2>1, <2>2 DEF KnowledgeInv
<1>2. kind = "knowledge" /\ TypeOK /\ KnowledgeInv /\ [Next]_vars => KnowledgeInv'
  <2> SUFFICES ASSUME kind = "knowledge", TypeOK, KnowledgeInv, [Next]_vars
               PROVE  KnowledgeInv'
    OBVIOUS
  <2>0. /\ call \in [Callers -> CallType]
        /\ disk \in [1..Files -> Nat]
        /\ \A c \in Callers : CallInv(call[c], disk)
        /\ NotAhead(cache.label, cache.built) /\ NotAhead(cache.built, disk)
        /\ cache.built \in Content /\ cache.label \in Content
    BY DEF TypeOK, CallType, KnowledgeInv
  <2>1. CASE UNCHANGED vars BY <2>1 DEF vars, KnowledgeInv
  <2>2. ASSUME NEW f \in 1..Files, NEW v \in 1..Versions, Edit(f, v) PROVE KnowledgeInv'
    BY <2>2, <1>0, EditKeepsInv
  <2>3. ASSUME NEW c \in Callers, Begin(c) PROVE KnowledgeInv'
    <3>1. call'[c] = [Idle EXCEPT !.step = "digest", !.quiet = TRUE]
          /\ (\A d \in Callers : d # c => call'[d] = call[d])
          /\ disk' = disk /\ cache' = cache
      BY <2>0, <2>3 DEF Begin
    <3>2. CallInv([Idle EXCEPT !.step = "digest", !.quiet = TRUE], disk)
      BY <2>0 DEF CallInv, Idle, Nothing, NotAhead
    <3> QED BY <2>0, <3>1, <3>2, OthersKeepInv
  <2>4. ASSUME NEW c \in Callers, Digest(c) PROVE KnowledgeInv'
    <3> DEFINE k == call[c]
               read == [k.digest EXCEPT ![k.next] = disk[k.next]]
               record == [k EXCEPT !.digest = read]
    <3>1. k \in CallType /\ k.step = "digest" /\ CallInv(k, disk)
          /\ k.next \in 1..Files /\ k.digest \in Content
      BY <2>0, <2>4 DEF Digest, CallType
    <3>2. /\ read \in Content /\ read[k.next] = disk[k.next]
          /\ \A g \in 1..Files : g # k.next => read[g] = k.digest[g]
      BY <3>1, FileRead
    <3>3. record \in CallType /\ record.next = k.next
          /\ record.digest = read /\ record.built = k.built /\ record.quiet = k.quiet
          /\ record.step = "digest"
      BY <3>1, <3>2 DEF CallType
    <3>4. ReadInto(c, record, "wait") /\ disk' = disk /\ cache' = cache
      BY <2>4 DEF Digest
    <3>5. NotAhead(read, disk) BY <2>0, <3>1, <3>2 DEF NotAhead, CallInv
    <3>6. ASSUME k.quiet, NEW g \in 1..Files, g <= k.next PROVE read[g] = disk[g]
      <4>1. g = k.next \/ g < k.next BY <3>1, <3>6
      <4> QED BY <3>1, <3>2, <3>6, <4>1 DEF CallInv
    <3>7. /\ \A d \in Callers : d # c => call'[d] = call[d]
          /\ call'[c].digest = read /\ call'[c].built = k.built
          /\ call'[c].quiet = k.quiet
          /\ k.next = Files => call'[c].step = "wait" /\ call'[c].next = 1
          /\ k.next # Files => call'[c].step = "digest" /\ call'[c].next = k.next + 1
      BY <3>3, <3>4, ReadOneFile DEF Where
    <3>8. CallInv(call'[c], disk)
      <4>1. CASE k.next = Files
        <5>1. k.quiet => read = disk
          <6> SUFFICES ASSUME k.quiet PROVE read = disk OBVIOUS
          <6>1. \A g \in 1..Files : read[g] = disk[g] BY <3>6, <4>1
          <6>2. NotAhead(disk, read) BY <2>0, <6>1 DEF NotAhead
          <6> QED BY <3>2, <3>5, <6>2, Squeezed
        <5> QED BY <3>1, <3>5, <3>7, <4>1, <5>1 DEF CallInv
      <4>2. CASE k.next # Files
        <5>1. \A g \in 1..Files : k.quiet /\ g < k.next + 1 => read[g] = disk[g]
          BY <3>1, <3>6
        <5> QED BY <3>1, <3>5, <3>7, <4>2, <5>1 DEF CallInv
      <4> QED BY <4>1, <4>2
    <3> QED BY <2>0, <3>4, <3>7, <3>8, OthersKeepInv
  <2>5. ASSUME NEW c \in Callers, UseCached(c) PROVE KnowledgeInv'
    <3>1. call'[c] = [call[c] EXCEPT !.built = cache.built, !.step = "done"]
          /\ (\A d \in Callers : d # c => call'[d] = call[d])
          /\ disk' = disk /\ cache' = cache
          /\ call[c].step = "wait" /\ cache.label = call[c].digest
      BY <2>0, <2>5 DEF UseCached
    <3>2. /\ call'[c].step = "done" /\ call'[c].built = cache.built
          /\ call'[c].digest = call[c].digest /\ call'[c].quiet = call[c].quiet
      BY <2>0, <3>1 DEF CallType
    <3>3. call[c].quiet => cache.built = disk
      <4> SUFFICES ASSUME call[c].quiet PROVE cache.built = disk OBVIOUS
      <4>1. cache.label = disk BY <2>0, <3>1 DEF CallInv
      <4> QED BY <2>0, <4>1, Squeezed
    <3>4. CallInv(call'[c], disk) BY <2>0, <3>2, <3>3 DEF CallInv
    <3> QED BY <2>0, <3>1, <3>4, OthersKeepInv
  <2>6. ASSUME NEW c \in Callers, Rebuild(c) PROVE KnowledgeInv'
    <3>1. call'[c] = [call[c] EXCEPT !.step = "build"]
          /\ (\A d \in Callers : d # c => call'[d] = call[d])
          /\ disk' = disk /\ cache' = cache /\ call[c].step = "wait"
      BY <2>0, <2>6 DEF Rebuild
    <3>2. /\ call'[c].step = "build" /\ call'[c].next = call[c].next
          /\ call'[c].built = call[c].built
          /\ call'[c].digest = call[c].digest /\ call'[c].quiet = call[c].quiet
      BY <2>0, <3>1 DEF CallType
    <3>3. CallInv(call'[c], disk) BY <2>0, <3>1, <3>2 DEF CallInv
    <3> QED BY <2>0, <3>1, <3>3, OthersKeepInv
  <2>7. ASSUME NEW c \in Callers, Build(c) PROVE KnowledgeInv'
    <3> DEFINE k == call[c]
               read == [k.built EXCEPT ![k.next] = disk[k.next]]
               record == [k EXCEPT !.built = read]
    <3>1. k \in CallType /\ k.step = "build" /\ CallInv(k, disk)
          /\ k.next \in 1..Files /\ k.built \in Content
      BY <2>0, <2>7 DEF Build, CallType
    <3>2. /\ read \in Content /\ read[k.next] = disk[k.next]
          /\ \A g \in 1..Files : g # k.next => read[g] = k.built[g]
      BY <3>1, FileRead
    <3>3. record \in CallType /\ record.next = k.next
          /\ record.digest = k.digest /\ record.built = read /\ record.quiet = k.quiet
          /\ record.step = "build"
      BY <3>1, <3>2 DEF CallType
    <3>4. ReadInto(c, record, "label") /\ disk' = disk /\ cache' = cache
      BY <2>7 DEF Build
    <3>5. NotAhead(read, disk) BY <2>0, <3>1, <3>2 DEF NotAhead, CallInv
    <3>6. ASSUME NEW g \in 1..Files, g <= k.next PROVE k.digest[g] <= read[g]
      <4>1. CASE g = k.next BY <3>1, <3>2, <4>1 DEF CallInv, NotAhead
      <4>2. CASE g < k.next BY <3>1, <3>2, <4>2 DEF CallInv
      <4> QED BY <3>1, <3>6, <4>1, <4>2
    <3>7. /\ \A d \in Callers : d # c => call'[d] = call[d]
          /\ call'[c].digest = k.digest /\ call'[c].built = read
          /\ call'[c].quiet = k.quiet
          /\ k.next = Files => call'[c].step = "label" /\ call'[c].next = 1
          /\ k.next # Files => call'[c].step = "build" /\ call'[c].next = k.next + 1
      BY <3>3, <3>4, ReadOneFile DEF Where
    <3>8. CallInv(call'[c], disk)
      <4>1. CASE k.next = Files
        <5>1. NotAhead(k.digest, read) BY <3>6, <4>1 DEF NotAhead
        <5> QED BY <3>1, <3>5, <3>7, <4>1, <5>1 DEF CallInv
      <4>2. CASE k.next # Files
        <5>1. \A g \in 1..Files : g < k.next + 1 => k.digest[g] <= read[g]
          BY <3>1, <3>6
        <5> QED BY <3>1, <3>5, <3>7, <4>2, <5>1 DEF CallInv
      <4> QED BY <4>1, <4>2
    <3> QED BY <2>0, <3>4, <3>7, <3>8, OthersKeepInv
  <2>8. ASSUME NEW c \in Callers, PublishKnowledge(c) PROVE KnowledgeInv'
    <3>1. call'[c] = [call[c] EXCEPT !.step = "done"]
          /\ (\A d \in Callers : d # c => call'[d] = call[d])
          /\ disk' = disk /\ call[c].step = "label"
          /\ cache' = [built |-> call[c].built, label |-> call[c].digest]
      BY <2>0, <2>8 DEF PublishKnowledge, Publish
    <3>2. /\ call'[c].step = "done" /\ call'[c].built = call[c].built
          /\ call'[c].digest = call[c].digest /\ call'[c].quiet = call[c].quiet
          /\ call[c].built \in Content
      BY <2>0, <3>1 DEF CallType
    <3>3. NotAhead(call[c].digest, call[c].built) /\ NotAhead(call[c].built, disk)
      BY <2>0, <3>1 DEF CallInv
    <3>4. call[c].quiet => call[c].built = disk
      <4> SUFFICES ASSUME call[c].quiet PROVE call[c].built = disk OBVIOUS
      <4>1. call[c].digest = disk BY <2>0, <3>1 DEF CallInv
      <4> QED BY <3>2, <3>3, <4>1, Squeezed
    <3>5. CallInv(call'[c], disk) BY <2>0, <3>2, <3>4 DEF CallInv
    <3> QED BY <3>1, <3>3, <3>5, OthersKeepInv
  <2>9. ASSUME NEW c \in Callers, LabelGraph(c) PROVE KnowledgeInv'
    BY <2>9 DEF LabelGraph
  <2>10. ASSUME NEW c \in Callers, Raise(c) PROVE KnowledgeInv'
    <3>1. call'[c] = Idle /\ (\A d \in Callers : d # c => call'[d] = call[d])
          /\ disk' = disk /\ cache' = cache
      BY <2>0, <2>10 DEF Raise
    <3> QED BY <2>0, <3>1, IdleInv, OthersKeepInv
  <2> QED BY <2>1, <2>2, <2>3, <2>4, <2>5, <2>6, <2>7, <2>8, <2>9, <2>10 DEF Next
<1> DEFINE Inv == kind = "knowledge" => KnowledgeInv
<1>3. Inv => CurrentWhenQuiet
  BY DEF KnowledgeInv, CallInv, CurrentWhenQuiet, Current
<1>4. TypeOK /\ Inv /\ [Next]_vars => Inv'
  <2>1. [Next]_vars => kind' = kind BY DEF Next, vars
  <2> QED BY <1>2, <2>1
<1>5. Init => Inv BY <1>1
<1> HIDE DEF Inv
<1> QED BY <1>3, <1>4, <1>5, TypeCorrect, PTL DEF Spec
=============================================================================
