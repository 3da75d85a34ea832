------------------------ MODULE AtomicRegisterProofs ------------------------
(***************************************************************************)
(* Theorems about AtomicRegister, for every number of processes, every set *)
(* of values and every bound.                                              *)
(***************************************************************************)
EXTENDS AtomicRegisterSteps, FiniteSetTheorems

\* The inductive invariant holds in every state: it holds initially, and every
\* handler, crash and restart of the registers preserves it.
THEOREM Invariance == Spec => []IInv
<1>1. Init => IInv
  BY InitIInv, TypeInit, Zenon
<1>2. IInv /\ [Next]_vars => IInv'
  <2>1. IInv => TypeOK /\ OperationInv
    BY Zenon DEF IInv, OpsInv
  <2>2. TypeOK' /\ OpsInv' => IInv'
    BY Zenon DEF IInv
  <2>3. QED
    BY <2>1, <2>2, NextKeepsOps, TypeNext, Zenon
<1>3. QED
  BY <1>1, <1>2, PTL DEF Spec

\* Type correctness of the registers, whatever is delivered, late, again or never,
\* and wherever a process crashes.
THEOREM TypeCorrect == Spec => []TypeOK
<1>1. IInv => TypeOK
  BY Zenon DEF IInv
<1>2. QED
  BY <1>1, Invariance, PTL

\* The Value branch of atomic_register.rs chooses a copy at most once per operation.
THEOREM ProposesOnce == Spec => []OneProposalPerOperation
<1>1. IInv => OneProposalPerOperation
  BY Zenon DEF IInv, OpsInv, ProposalInv
<1>2. QED
  BY <1>1, Invariance, PTL

-----------------------------------------------------------------------------
(***************************************************************************)
(* Provenance                                                              *)
(***************************************************************************)
\* A copy that a message or a read list carries is of its type.
LEMMA CopiesTyped == TypeOK => CopiesIn(Copy)
<1> SUFFICES ASSUME TypeOK PROVE CopiesIn(Copy)
  BY Zenon
<1>1. \A p \in Proc : sec[p] \in Copy /\ files[p] \subseteq Copy
  BY Zenon DEF TypeOK
<1>2. ASSUME NEW p \in Proc, NEW q \in DOMAIN readlist[p] PROVE readlist[p][q] \in Copy
  BY <1>2 DEF TypeOK
<1>3. \A m \in msgs : m.type \in {"Value", "WriteProc"} => m.copy \in Copy
  BY Zenon DEF TypeOK, Message
<1>4. \A w \in proposed : w.copy \in Copy
  BY Zenon DEF TypeOK
<1>5. QED
  BY <1>1, <1>2, <1>3, <1>4, Zenon DEF CopiesIn

LEMMA OriginKept ==
  ASSUME IInv, KindInv, [Next]_vars, NEW c, HasOrigin(c)
  PROVE  HasOrigin(c)'
<1>1. CASE c = InitialCopy \/ \E p \in Proc : c \in InitialFiles[p]
  BY <1>1, Zenon DEF HasOrigin
<1>2. ASSUME NEW i \in DOMAIN hist, hist[i].kind = "Write", hist[i].proc = c.wr, hist[i].data = c.val
      PROVE  HasOrigin(c)'
  <2>1. i \in DOMAIN hist' /\ hist'[i].kind = "Write" /\ hist'[i].proc = c.wr /\ hist'[i].data = c.val
    BY <1>2, HistoryKept, Zenon
  <2>2. QED
    BY <2>1, Zenon DEF HasOrigin
<1>3. QED
  BY <1>1, <1>2, Zenon DEF HasOrigin

LEMMA ProvenanceNext ==
  ASSUME IInv, KindInv, Provenance, [Next]_vars
  PROVE  Provenance'
<1>1. PICK G : G = {c \in Copy : HasOrigin(c)}
  BY Zenon
<1>2. CopiesIn(G)
  BY <1>1, CopiesTyped, Zenon DEF IInv, CopiesIn, Provenance
<1>3. InitialCopy \in G
  BY <1>1, InitialCopyType, Zenon DEF HasOrigin
<1>4. ASSUME NEW q \in Proc, NEW v \in msgs, NEW c \in G, ValueQuorumWriting(q, v)
      PROVE  NextCopy(q, c) \in G
  <2>1. NextCopy(q, c) \in Copy
    <3>1. c.ts + 1 \in Nat /\ writeval[q] \in Data
      BY <1>1 DEF IInv, TypeOK, Copy
    <3>2. q \in 0 .. N
      BY NAssumption DEF Proc
    <3>3. QED
      BY <3>1, <3>2, Zenon DEF NextCopy, Copy
  <2>2. /\ op_id[q] \in DOMAIN hist /\ hist[op_id[q]].kind = "Write" /\ hist[op_id[q]].proc = q
        /\ hist[op_id[q]].data = writeval[q]
    <3>1. writing[q]
      BY <1>4, Zenon DEF ValueQuorumWriting, ReadQuorum
    <3>2. QED
      BY <3>1, Zenon DEF IInv, OpsInv, OperationInv, KindInv
  <2>3. HasOrigin(NextCopy(q, c))
    BY <2>2, Zenon DEF HasOrigin, NextCopy
  <2>4. QED
    BY <1>1, <2>1, <2>3, Zenon
<1>5. CopiesIn(G)'
  BY <1>2, <1>3, <1>4, CopiesStay, Zenon DEF IInv
<1>6. \A c \in G : HasOrigin(c)'
  BY <1>1, OriginKept, Zenon
<1>7. QED
  BY <1>5, <1>6, Zenon DEF CopiesIn, Provenance

LEMMA OriginsInit ==
  ASSUME Init
  PROVE  KindInv /\ Provenance
<1>1. KindInv
  BY Zenon DEF Init, KindInv
<1>2. \A p \in Proc : HasOrigin(sec[p])
  BY RecoveredIsAFile, Zenon DEF Init, HasOrigin
<1>3. \A p \in Proc : \A f \in files[p] : HasOrigin(f)
  BY Zenon DEF Init, HasOrigin
<1>4. \A p \in Proc : DOMAIN readlist[p] = {}
  BY Zenon DEF Init, EmptyMap
<1>5. QED
  BY <1>1, <1>2, <1>3, <1>4, Zenon DEF Init, Provenance

\* No register of atomic_register.rs ever holds, stores or sends a copy out of thin
\* air: its data came with a write command to the process its write rank names, or
\* was there at the start, for every number of processes, operations and crashes.
THEOREM CopiesHaveOrigin == Spec => []Provenance
<1>1. Init => KindInv /\ Provenance
  BY OriginsInit, Zenon
<1>2. IInv /\ KindInv /\ Provenance /\ [Next]_vars => KindInv' /\ Provenance'
  BY HistoryKept, ProvenanceNext, Zenon
<1>3. QED
  BY <1>1, <1>2, Invariance, PTL DEF Spec

-----------------------------------------------------------------------------
(***************************************************************************)
(* What a restart finds                                                    *)
(***************************************************************************)
\* The directories are right in every state.
THEOREM DiskInvariance == Spec => [](CopiesIn(Genuine) /\ DiskInv)
<1>1. Init => CopiesIn(Genuine) /\ DiskInv
  BY DiskInit, Zenon
<1>2. IInv => TypeOK
  BY DEF IInv
<1>3. TypeOK /\ TypeOK' /\ CopiesIn(Genuine) /\ DiskInv /\ [Next]_vars
        => CopiesIn(Genuine)' /\ DiskInv'
  BY GenuineNext, DiskNext, Zenon
<1>4. QED
  BY <1>1, <1>2, <1>3, Invariance, PTL DEF Spec

\* As long as every choice was the highest by (ts, wr), SectorsManager::write
\* leaves exactly the file of the copy the register holds, and no restart on any
\* directory brings another: for every number of processes and crashes.
THEOREM RestartFindsRegister == Spec => []RestartKeepsCopyIfHighest
<1>1. DiskInv => RestartKeepsCopyIfHighest
  BY Zenon DEF DiskInv, RestartKeepsCopyIfHighest, Only
<1>2. QED
  BY <1>1, DiskInvariance, PTL

\* As long as every choice was the highest by (ts, wr), no handler, no crash inside
\* SectorsManager::write and no recovery takes the copy that a restart would find
\* back to an older version.
THEOREM NoStepRegresses == Spec => NeverRegresses
<1>1. IInv => TypeOK
  BY DEF IInv
<1>2. TypeOK /\ TypeOK' /\ CopiesIn(Genuine) /\ DiskInv /\ [Next]_vars
        => [lexical' => \A p \in Proc : ~Newer(Recovered(files[p]), Recovered(files'[p]))]_vars
  BY DiskNext, Zenon
<1>3. QED
  BY <1>1, <1>2, Invariance, DiskInvariance, PTL DEF Spec, NeverRegresses

-----------------------------------------------------------------------------
(***************************************************************************)
(* Commands                                                                *)
(***************************************************************************)
\* A command returns when its operation completes, never again, and its data stays.
ReturnStep ==
    /\ Returned \subseteq Returned'
    /\ \A i \in Returned : hist'[i].data = hist[i].data
    /\ \A i \in Returned' : \/ i \in Returned
                            \/ \E p \in Proc : \E m \in msgs : AckCompletes(p, m) /\ i = op_id[p]

LEMMA CommandNext ==
  ASSUME IInv, IInv', KindInv, CommandInv, [Next]_vars
  PROVE  CommandInv' /\ ReturnStep
<1> DEFINE Rest == /\ \A p \in Proc : callback'[p] # NoOp => op_id'[p] \in Pending'
                   /\ \A i \in DOMAIN hist' : hist'[i].before \subseteq Returned'
<1>1. ASSUME NoCommand PROVE Rest /\ ReturnStep
  <2>1. hist' = hist /\ Pending' = Pending /\ Returned' = Returned
    BY <1>1, Zenon DEF NoCommand, Pending, Returned
  <2>2. ASSUME NEW p \in Proc, callback'[p] # NoOp PROVE op_id'[p] \in Pending'
    <3>1. reading'[p] \/ writing'[p]
      BY <2>2, Zenon DEF IInv, OpsInv, OperationInv
    <3>2. (reading[p] \/ writing[p]) /\ op_id'[p] = op_id[p]
      BY <1>1, <3>1, Zenon DEF NoCommand
    <3>3. callback[p] # NoOp
      BY <3>2, Zenon DEF IInv, OpsInv, OperationInv
    <3>4. QED
      BY <2>1, <3>2, <3>3, Zenon DEF CommandInv
  <2>3. Rest /\ ReturnStep
    BY <2>1, <2>2, Zenon DEF CommandInv, ReturnStep
  <2>4. QED
    BY <2>3, Zenon
<1>2. ASSUME NEW p \in Proc, NEW kind \in {"Read", "Write"}, NEW data \in Data,
             ClientCommand(p, kind, data)
      PROVE  Rest /\ ReturnStep
  <2> DEFINE id == Len(hist) + 1
             op == [proc |-> p, kind |-> kind, data |-> data, done |-> FALSE, before |-> Returned]
  <2>1. /\ hist' = Append(hist, op) /\ op_id' = [op_id EXCEPT ![p] = id]
        /\ callback' = [callback EXCEPT ![p] = id]
    BY <1>2, Zenon DEF ClientCommand
  <2>2. hist \in Seq(ClientOp) /\ DOMAIN op_id = Proc /\ DOMAIN callback = Proc
    BY Zenon DEF IInv, TypeOK
  <2>3. op.done = FALSE /\ op.before = Returned
    BY Zenon
  <2> HIDE DEF op
  <2>4. /\ DOMAIN hist' = DOMAIN hist \union {id} /\ id \notin DOMAIN hist
        /\ hist'[id] = op /\ \A i \in DOMAIN hist : hist'[i] = hist[i]
    BY <2>1, <2>2
  <2>5. Pending' = Pending \union {id} /\ Returned' = Returned
    BY <2>3, <2>4, Zenon DEF Pending, Returned
  <2>6. ASSUME NEW q \in Proc, callback'[q] # NoOp PROVE op_id'[q] \in Pending'
    BY <2>1, <2>2, <2>5, <2>6, Zenon DEF CommandInv
  <2>7. \A i \in DOMAIN hist' : hist'[i].before \subseteq Returned'
    BY <2>3, <2>4, <2>5, Zenon DEF CommandInv
  <2>8. QED
    BY <2>4, <2>5, <2>6, <2>7, Zenon DEF ReturnStep, Returned
<1>3. ASSUME NEW p \in Proc, NEW m \in msgs, AckCompletes(p, m)
      PROVE  Rest /\ ReturnStep
  <2> DEFINE id == op_id[p]
  <2>1. reading[p] \/ writing[p]
    BY <1>3, Zenon DEF AckCompletes, AckQuorum
  <2>2. callback[p] = id /\ id # NoOp /\ id \in DOMAIN hist /\ hist[id].proc = p
    BY <2>1, Zenon DEF IInv, OpsInv, OperationInv
  <2>3. /\ hist' = [hist EXCEPT ![id] = Answered(p, hist[id])] /\ op_id' = op_id
        /\ callback' = [callback EXCEPT ![p] = NoOp]
    BY <1>3, <2>2, Zenon DEF AckCompletes, Respond
  <2>4. hist \in Seq(ClientOp) /\ hist[id] \in ClientOp /\ DOMAIN callback = Proc
    BY <2>2 DEF IInv, TypeOK
  <2>5. /\ DOMAIN hist' = DOMAIN hist /\ hist'[id] = Answered(p, hist[id])
        /\ \A i \in DOMAIN hist : i # id => hist'[i] = hist[i]
    BY <2>2, <2>3, <2>4, Zenon
  <2>6. Answered(p, hist[id]).before = hist[id].before /\ Answered(p, hist[id]).done = TRUE
    BY <2>4, Zenon DEF Answered, ClientOp
  <2>7. Pending' = Pending \ {id} /\ Returned' = Returned \union {id}
    BY <2>2, <2>5, <2>6, Zenon DEF Pending, Returned
  <2>8. ASSUME NEW q \in Proc, callback'[q] # NoOp PROVE op_id'[q] \in Pending'
    <3>1. q # p /\ callback[q] # NoOp
      BY <2>3, <2>4, <2>8, Zenon
    <3>2. op_id[q] \in Pending /\ hist[op_id[q]].proc = q
      BY <3>1, Zenon DEF CommandInv, IInv, OpsInv, OperationInv
    <3>3. QED
      BY <2>2, <2>3, <2>7, <3>1, <3>2, Zenon
  <2>9. \A i \in DOMAIN hist' : hist'[i].before \subseteq Returned'
    BY <2>5, <2>6, <2>7, Zenon DEF CommandInv
  <2>10. ReturnStep
    <3>1. id \notin Returned
      BY <2>2, Zenon DEF CommandInv, Returned
    <3>2. \A i \in Returned : hist'[i].data = hist[i].data
      BY <2>5, <3>1, Zenon DEF Returned
    <3>3. QED
      BY <1>3, <2>7, <3>2, Zenon DEF ReturnStep
  <2>11. QED
    BY <2>8, <2>9, <2>10, Zenon
<1>4. Rest /\ ReturnStep
  BY <1>1, <1>2, <1>3, HistorySteps, Zenon DEF IInv
<1>5. \A v \in msgs' : v.id \in DOMAIN hist'
  BY MessageSteps, HistoryKept, Zenon DEF CommandInv, NewMessage
<1>6. QED
  BY <1>4, <1>5, Zenon DEF CommandInv

-----------------------------------------------------------------------------
(***************************************************************************)
(* Durability                                                              *)
(***************************************************************************)
LEMMA HoldersFinite ==
  ASSUME NEW c
  PROVE  IsFiniteSet(Holders(c)) /\ IsFiniteSet(Holders(c)')
<1>1. IsFiniteSet(Proc)
  BY NAssumption, FS_Interval DEF Proc
<1>2. Holders(c) \subseteq Proc /\ Holders(c)' \subseteq Proc
  BY Zenon DEF Holders
<1>3. QED
  BY <1>1, <1>2, FS_Subset, Zenon

\* The Acks that complete an operation came from a majority that holds its copy.
LEMMA CompletedIsHeld ==
  ASSUME IInv, NEW p \in Proc, NEW m \in msgs, AckCompletes(p, m)
  PROVE  \E w \in proposed : /\ w.id = op_id[p]
                             /\ w.copy.val = DataOf(p)
                             /\ 2 * Cardinality(Holders(w.copy)) > N
<1> DEFINE Q == acklist[p] \union {m.from}
<1>1. /\ worker[p] = "running" /\ write_phase[p] /\ m.type = "Ack" /\ m.id = op_id[p]
      /\ Cardinality(Q) > N \div 2
  BY Zenon DEF AckCompletes, AckCounts, AckQuorum, Delivered, Majority
<1>2. PICK w \in proposed : w.id = op_id[p] /\ w.copy.val = DataOf(p)
  BY <1>1, Zenon DEF IInv, OpsInv, ProposalInv
<1>3. Q \subseteq Holders(w.copy)
  <2>1. \A q \in Q : HoldsFor(q, op_id[p])
    BY <1>1, Zenon DEF IInv, OpsInv, AckInv
  <2>2. \A v \in proposed : v.id = op_id[p] => v = w
    BY <1>2, Zenon DEF IInv, OpsInv, ProposalInv, OneProposalPerOperation
  <2>3. QED
    BY <2>1, <2>2, Zenon DEF HoldsFor
<1>4. /\ Cardinality(Q) \in Nat /\ Cardinality(Holders(w.copy)) \in Nat
      /\ Cardinality(Q) <= Cardinality(Holders(w.copy))
  <2>1. IsFiniteSet(Q) /\ Cardinality(Q) <= Cardinality(Holders(w.copy))
    BY <1>3, HoldersFinite, FS_Subset, Zenon
  <2>2. QED
    BY <2>1, HoldersFinite, FS_CardinalityType, Zenon
<1>5. 2 * Cardinality(Holders(w.copy)) > N
  BY <1>1, <1>4, NAssumption
<1>6. QED
  BY <1>2, <1>5, Zenon

LEMMA DurableNext ==
  ASSUME IInv, IInv', KindInv, CommandInv, DurableQuorum, [Next]_vars
  PROVE  DurableQuorum'
<1> SUFFICES ASSUME NEW i \in Returned'
             PROVE  \E w \in proposed' : /\ w.id = i
                                         /\ w.copy.val = hist'[i].data
                                         /\ 2 * Cardinality(Holders(w.copy)') > N
  BY Zenon DEF DurableQuorum
<1>1. ReturnStep /\ proposed \subseteq proposed' /\ stored \subseteq stored'
  BY CommandNext, ProposalSteps, Zenon DEF ProposeStep
<1>2. PICK w \in proposed : /\ w.id = i /\ w.copy.val = hist'[i].data
                            /\ 2 * Cardinality(Holders(w.copy)) > N
  <2>1. CASE i \in Returned
    BY <1>1, <2>1, Zenon DEF DurableQuorum, ReturnStep
  <2>2. ASSUME NEW p \in Proc, NEW m \in msgs, AckCompletes(p, m), i = op_id[p]
        PROVE  hist'[i].data = DataOf(p)
    <3>1. callback[p] = i /\ i # NoOp /\ i \in DOMAIN hist
      BY <2>2, Zenon DEF AckCompletes, AckQuorum, IInv, OpsInv, OperationInv
    <3>2. hist' = [hist EXCEPT ![i] = Answered(p, hist[i])]
      BY <2>2, <3>1, Zenon DEF AckCompletes, Respond
    <3>3. hist \in Seq(ClientOp) /\ hist[i] \in ClientOp
      BY <3>1 DEF IInv, TypeOK
    <3>4. hist'[i] = Answered(p, hist[i])
      BY <3>1, <3>2, <3>3, Zenon
    <3>5. QED
      BY <2>2, <3>3, <3>4, Zenon DEF Answered, DataOf, ClientOp
  <2>3. QED
    BY <1>1, <2>1, <2>2, CompletedIsHeld, Zenon DEF ReturnStep
<1>3. /\ Cardinality(Holders(w.copy)) <= Cardinality(Holders(w.copy)')
      /\ Cardinality(Holders(w.copy)) \in Nat /\ Cardinality(Holders(w.copy)') \in Nat
  BY <1>1, HoldersGrow, HoldersFinite, FS_Subset, FS_CardinalityType, Zenon
<1>4. 2 * Cardinality(Holders(w.copy)') > N
  BY <1>2, <1>3, NAssumption
<1>5. QED
  BY <1>1, <1>2, <1>4, Zenon

LEMMA CommandInit == Init => KindInv /\ CommandInv /\ DurableQuorum
<1> SUFFICES ASSUME Init PROVE KindInv /\ CommandInv /\ DurableQuorum
  BY Zenon
<1>1. DOMAIN hist = {} /\ msgs = {} /\ \A p \in Proc : callback[p] = NoOp
  BY DEF Init
<1>2. KindInv
  BY OriginsInit, Zenon
<1>3. QED
  BY <1>1, <1>2, Zenon DEF CommandInv, DurableQuorum, Returned

\* Commands and the registers that work on them agree in every state.
THEOREM CommandInvariance == Spec => [](KindInv /\ CommandInv)
<1>1. IInv /\ IInv' /\ KindInv /\ CommandInv /\ [Next]_vars => KindInv' /\ CommandInv'
  BY HistoryKept, CommandNext, Zenon
<1>2. QED
  BY <1>1, CommandInit, Invariance, PTL DEF Spec

\* The response of atomic_register.rs's Ack branch comes after a majority of the
\* processes has put the operation's copy, or a newer one, in a file: for every
\* number of processes, operations and crashes.
THEOREM ReturnsAreDurable == Spec => []DurableQuorum
<1>1. IInv /\ IInv' /\ KindInv /\ CommandInv /\ DurableQuorum /\ [Next]_vars => DurableQuorum'
  BY DurableNext, Zenon
<1>2. QED
  BY <1>1, CommandInit, CommandInvariance, Invariance, PTL DEF Spec

-----------------------------------------------------------------------------
(***************************************************************************)
(* Writes                                                                  *)
(***************************************************************************)
LEMMA WriteNext ==
  ASSUME IInv, KindInv, WriteInv, [Next]_vars
  PROVE  WriteInv'
<1>1. ProposeStep
  BY ProposalSteps, Zenon
<1>2. SUFFICES ASSUME NEW w \in proposed', hist'[w.id].kind = "Write"
               PROVE  w.copy.wr = hist'[w.id].proc /\ Held(hist'[w.id].proc, w.copy) \in stored'
  BY Zenon DEF WriteInv
<1>3. CASE w \in proposed
  <2>1. w.id \in DOMAIN hist
    BY <1>3, Zenon DEF IInv, OpsInv, ProposalInv
  <2>2. hist'[w.id].kind = hist[w.id].kind /\ hist'[w.id].proc = hist[w.id].proc
    BY <2>1, HistoryKept, Zenon
  <2>3. QED
    BY <1>1, <1>2, <1>3, <2>2, Zenon DEF WriteInv, ProposeStep
<1>4. ASSUME NEW p \in Proc, NEW m \in msgs, NEW c, Proposes(p, m, c, w)
      PROVE  w.copy.wr = hist'[w.id].proc /\ Held(hist'[w.id].proc, w.copy) \in stored'
  <2>1. w.id = op_id[p] /\ op_id[p] # NoOp /\ hist' = hist
    BY <1>4, Zenon DEF Proposes
  <2>2. ~reading[p] /\ hist'[w.id].proc = p
    BY <1>2, <2>1 DEF KindInv, IInv, OpsInv, OperationInv
  <2>3. w.copy = NextCopy(p, c) /\ Held(p, w.copy) \in stored'
    BY <1>4, <2>2, Zenon DEF Proposes
  <2>4. QED
    BY <2>2, <2>3 DEF NextCopy
<1>5. QED
  BY <1>1, <1>3, <1>4, Zenon DEF ProposeStep

-----------------------------------------------------------------------------
(***************************************************************************)
(* Majorities                                                              *)
(***************************************************************************)
LEMMA NoOlder ==
  ASSUME NEW a \in Copy, NEW b \in Copy, NEW c \in Copy, ~Newer(a, b), ~Newer(b, c)
  PROVE  ~Newer(a, c)
BY NotNewerTransitive, Zenon DEF Copy

\* A running process holds the copy that a restart would find.
LEMMA HoldsRecovered ==
  ASSUME TypeOK, DiskInv, lexical, NEW q \in Proc, worker[q] = "running"
  PROVE  sec[q] \in Copy /\ Recovered(files[q]) = sec[q]
<1>1. sec[q] \in Copy /\ files[q] = Only(sec[q])
  BY Zenon DEF DiskInv, TypeOK
<1>2. QED
  BY <1>1, OnlyRecovers, Zenon

\* What a process that goes on shows to later operations never gets older.
LEMMA SeesKept ==
  ASSUME IInv, IInv', KindInv, CommandInv, CopiesIn(Genuine), DiskInv, [Next]_vars, lexical',
         NEW q \in Proc, NEW c \in Copy, NEW i, Sees(q, c, i)
  PROVE  Sees(q, c, i)'
<1>1. TypeOK /\ TypeOK' /\ lexical
  BY FileSteps, Zenon DEF IInv
<1>2. ~Newer(c, Recovered(files'[q]))
  <2>1. ~Newer(c, Recovered(files[q])) /\ ~Newer(Recovered(files[q]), Recovered(files'[q]))
    BY <1>1, DiskNext, Zenon DEF Sees
  <2>2. Recovered(files[q]) \in Copy /\ Recovered(files'[q]) \in Copy
    BY <1>1, RecoveredType, Zenon DEF TypeOK
  <2>3. QED
    BY <2>1, <2>2, NoOlder, Zenon
<1>3. \A j \in DOMAIN hist : hist'[j].before = hist[j].before
  BY HistoryKept, Zenon
<1>4. ASSUME NEW v \in msgs', v.type = "Value", v.from = q, i \in hist'[v.id].before
      PROVE  ~Newer(c, v.copy)
  <2>1. CASE v \in msgs
    BY <1>3, <1>4, <2>1, Zenon DEF CommandInv, Sees
  <2>2. CASE NewMessage(v)
    BY <1>1, <1>4, <2>2, HoldsRecovered, Zenon DEF NewMessage, Sees
  <2>3. QED
    BY <2>1, <2>2, MessageSteps, Zenon DEF CommandInv
<1>5. ASSUME NEW p \in Proc, op_id'[p] # NoOp, q \in DOMAIN readlist'[p], i \in hist'[op_id'[p]].before
      PROVE  ~Newer(c, readlist'[p][q])
  <2>1. /\ op_id'[p] = op_id[p]
        /\ (q \in DOMAIN readlist[p] /\ readlist'[p][q] = readlist[p][q]) \/ FromValue(p, q)
    BY <1>1, <1>5, ReadlistSteps, Zenon DEF Counted
  <2>2. op_id[p] # NoOp /\ i \in hist[op_id[p]].before
    BY <1>3, <1>5, <2>1 DEF IInv, OpsInv, OperationInv
  <2>3. CASE q \in DOMAIN readlist[p] /\ readlist'[p][q] = readlist[p][q]
    BY <2>2, <2>3, Zenon DEF Sees
  <2>4. CASE FromValue(p, q)
    BY <2>2, <2>4, Zenon DEF FromValue, Sees
  <2>5. QED
    BY <2>1, <2>3, <2>4, Zenon
<1>6. QED
  BY <1>2, <1>4, <1>5, Zenon DEF Sees

\* The processes whose Acks complete an operation show its copy, or a newer one, to
\* every operation from then on.
LEMMA AckedSees ==
  ASSUME IInv, CommandInv, DiskInv, lexical, NEW p \in Proc, NEW m \in msgs, AckCompletes(p, m),
         NEW w \in proposed, w.id = op_id[p]
  PROVE  \E Q \in SUBSET Proc : 2 * Cardinality(Q) > N /\ \A q \in Q : Sees(q, w.copy, w.id)
<1> DEFINE Q == acklist[p] \union {m.from}
<1>1. m.type = "Ack" /\ m.id = op_id[p] /\ Cardinality(Q) > N \div 2 /\ (reading[p] \/ writing[p])
  BY Zenon DEF AckCompletes, AckCounts, AckQuorum, Delivered, Majority
<1>2. Q \in SUBSET Proc
  BY DEF IInv, TypeOK, Message
<1>3. 2 * Cardinality(Q) > N
  <2>1. Cardinality(Q) \in Nat
    <3>1. IsFiniteSet(Proc)
      BY NAssumption, FS_Interval DEF Proc
    <3>2. QED
      BY <1>2, <3>1, FS_Subset, FS_CardinalityType, Zenon
  <2>2. QED
    BY <1>1, <2>1, NAssumption
<1>4. op_id[p] \in Pending
  BY <1>1, Zenon DEF CommandInv, IInv, OpsInv, OperationInv
<1>5. \A j \in DOMAIN hist : w.id \notin hist[j].before
  BY <1>4, Zenon DEF CommandInv, Returned
<1>6. ASSUME NEW q \in Q PROVE Sees(q, w.copy, w.id)
  <2>1. HoldsFor(q, w.id)
    BY <1>1, Zenon DEF IInv, OpsInv, AckInv
  <2>2. PICK v \in proposed : v.id = w.id /\ q \in Holders(v.copy)
    BY <2>1, Zenon DEF HoldsFor
  <2>3. v = w
    BY <2>2, Zenon DEF IInv, OpsInv, ProposalInv, OneProposalPerOperation
  <2>4. PICK s \in stored : s.proc = q /\ ~Newer(w.copy, s)
    BY <2>2, <2>3, Zenon DEF Holders
  <2>5. ~Newer(s, Recovered(files[q]))
    BY <1>2, <2>4, Zenon DEF DiskInv
  <2>6. w.copy \in Copy /\ Recovered(files[q]) \in Copy /\ s.ts \in Nat /\ s.wr \in 0 .. N
    BY <1>2, RecoveredType, Zenon DEF IInv, TypeOK
  <2>7. ~Newer(w.copy, Recovered(files[q]))
    BY <2>4, <2>5, <2>6, NotNewerTransitive, Zenon DEF Copy
  <2>8. \A v2 \in msgs : w.id \notin hist[v2.id].before
    BY <1>5, Zenon DEF CommandInv
  <2>9. \A r \in Proc : op_id[r] # NoOp => w.id \notin hist[op_id[r]].before
    BY <1>5, Zenon DEF IInv, OpsInv, OperationInv
  <2>10. QED
    BY <2>7, <2>8, <2>9, Zenon DEF Sees
<1>7. QED
  BY <1>2, <1>3, <1>6, Zenon

LEMMA QuorumNext ==
  ASSUME IInv, IInv', KindInv, CommandInv, CopiesIn(Genuine), DiskInv, QuorumInv, [Next]_vars
  PROVE  QuorumInv'
<1> SUFFICES ASSUME lexical', NEW w \in proposed', w.id \in Returned'
             PROVE  \E Q \in SUBSET Proc : 2 * Cardinality(Q) > N /\ \A q \in Q : Sees(q, w.copy, w.id)'
  BY Zenon DEF QuorumInv
<1>1. lexical /\ ProposeStep /\ ReturnStep
  BY FileSteps, ProposalSteps, CommandNext, Zenon DEF IInv
<1>2. CASE w \in proposed
  <2>1. \E Q \in SUBSET Proc : 2 * Cardinality(Q) > N /\ \A q \in Q : Sees(q, w.copy, w.id)
    <3>1. CASE w.id \in Returned
      BY <1>1, <1>2, <3>1, Zenon DEF QuorumInv
    <3>2. CASE w.id \notin Returned
      BY <1>1, <1>2, <3>2, AckedSees, Zenon DEF ReturnStep
    <3>3. QED
      BY <3>1, <3>2, Zenon
  <2>2. PICK Q \in SUBSET Proc : 2 * Cardinality(Q) > N /\ \A q \in Q : Sees(q, w.copy, w.id)
    BY <2>1, Zenon
  <2>3. w.copy \in Copy
    BY <1>2, Zenon DEF IInv, TypeOK
  <2>4. \A q \in Q : Sees(q, w.copy, w.id)'
    BY <2>2, <2>3, SeesKept, Zenon
  <2>5. QED
    BY <2>2, <2>4, Zenon
<1>3. ASSUME NEW p \in Proc, NEW m \in msgs, NEW c, Proposes(p, m, c, w) PROVE FALSE
  <2>1. w.id = op_id[p] /\ callback[p] # NoOp /\ hist' = hist
    BY <1>3, Zenon DEF Proposes
  <2>2. Returned' = Returned
    BY <2>1, Zenon DEF Returned, Pending
  <2>3. QED
    BY <2>1, <2>2, Zenon DEF CommandInv, Returned
<1>4. QED
  BY <1>1, <1>2, <1>3, Zenon DEF ProposeStep

\* Two majorities of the processes have one in common.
LEMMA MajoritiesMeet ==
  ASSUME NEW Q \in SUBSET Proc, NEW R \in SUBSET Proc, 2 * Cardinality(Q) > N, Majority(R)
  PROVE  Q \intersect R # {}
<1>1. IsFiniteSet(Proc) /\ Cardinality(Proc) = N
  BY NAssumption, FS_Interval DEF Proc
<1>2. IsFiniteSet(Q) /\ IsFiniteSet(R) /\ Q \union R \subseteq Proc
  BY <1>1, FS_Subset, Zenon
<1>3. Cardinality(Q) \in Nat /\ Cardinality(R) \in Nat
  BY <1>2, FS_CardinalityType, Zenon
<1>4. Cardinality(Q \union R) <= N
  BY <1>1, <1>2, FS_Subset, Zenon
<1>5. Cardinality(Q \union R) = Cardinality(Q) + Cardinality(R) - Cardinality(Q \intersect R)
  BY <1>2, FS_Union, Zenon
<1>6. Q \intersect R = {} => Cardinality(Q \intersect R) = 0
  BY FS_EmptySet, Zenon
<1>7. Cardinality(R) > N \div 2
  BY Zenon DEF Majority
<1>8. QED
  BY <1>3, <1>4, <1>5, <1>6, <1>7, NAssumption

\* The highest copy of a majority is not older than d, if some majority has no older
\* copy to give.
LEMMA HighestNotOlder ==
  ASSUME TypeOK, NEW p \in Proc, NEW m \in msgs, m.type = "Value",
         Majority(DOMAIN ReadlistWith(p, m)), NEW c \in Newest(Candidates(p, m)), c \in Copy,
         NEW d \in Copy, NEW Q \in SUBSET Proc, 2 * Cardinality(Q) > N,
         p \in Q => ~Newer(d, sec[p]), m.from \in Q => ~Newer(d, m.copy),
         \A q \in Q : q \in DOMAIN readlist[p] => ~Newer(d, readlist[p][q])
  PROVE  ~Newer(d, c)
<1>1. DOMAIN ReadlistWith(p, m) = DOMAIN readlist[p] \union {m.from}
  BY Zenon DEF ReadlistWith, Insert
<1>2. DOMAIN ReadlistWith(p, m) \in SUBSET Proc
  <2>1. m.from \in Proc
    BY Zenon DEF TypeOK, Message
  <2>2. DOMAIN readlist[p] \in SUBSET Proc
    BY DEF TypeOK
  <2>3. QED
    BY <1>1, <2>1, <2>2, Zenon
<1>3. PICK r \in Q : r \in DOMAIN ReadlistWith(p, m)
  BY <1>2, MajoritiesMeet, Zenon
<1>4. PICK e : e = FullReadlist(p, m)[r]
  BY Zenon
<1>5. e \in Candidates(p, m)
  BY <1>3, <1>4, Zenon DEF Candidates, FullReadlist, Insert
<1>6. ~Newer(d, e)
  <2>1. CASE r = p
    BY <1>3, <1>4, <2>1, Zenon DEF FullReadlist, Insert
  <2>2. CASE r # p /\ r = m.from
    BY <1>3, <1>4, <2>2, Zenon DEF FullReadlist, ReadlistWith, Insert
  <2>3. CASE r # p /\ r # m.from
    BY <1>1, <1>3, <1>4, <2>3, Zenon DEF FullReadlist, ReadlistWith, Insert
  <2>4. QED
    BY <2>1, <2>2, <2>3, Zenon
<1>7. ~Newer(e, c)
  BY <1>5, Zenon DEF Newest
<1>8. e \in Copy
  <2>1. DOMAIN FullReadlist(p, m) = DOMAIN ReadlistWith(p, m) \union {p}
    BY Zenon DEF FullReadlist, Insert
  <2>2. QED
    BY <1>3, <1>4, <2>1, FullReadlistType, Zenon
<1>9. QED
  BY <1>6, <1>7, <1>8, NoOlder, Zenon

\* Nor is it older than the copy of an operation that returned before the command came.
LEMMA ChosenNotOlder ==
  ASSUME IInv, CommandInv, DiskInv, lexical, QuorumInv,
         NEW p \in Proc, NEW m \in msgs, m.type = "Value", m.id = op_id[p], op_id[p] # NoOp,
         worker[p] = "running", Majority(DOMAIN ReadlistWith(p, m)),
         NEW c \in Newest(Candidates(p, m)), c \in Copy,
         NEW v \in proposed, v.id \in hist[op_id[p]].before
  PROVE  ~Newer(v.copy, c)
<1>1. v.id \in Returned
  BY Zenon DEF CommandInv, IInv, OpsInv, OperationInv
<1>2. PICK Q \in SUBSET Proc : 2 * Cardinality(Q) > N /\ \A q \in Q : Sees(q, v.copy, v.id)
  BY <1>1, Zenon DEF QuorumInv
<1>3. p \in Q => ~Newer(v.copy, sec[p])
  BY <1>2, HoldsRecovered, Zenon DEF IInv, Sees
<1>4. m.from \in Q => ~Newer(v.copy, m.copy)
  BY <1>2, Zenon DEF Sees
<1>5. \A q \in Q : q \in DOMAIN readlist[p] => ~Newer(v.copy, readlist[p][q])
  BY <1>2, Zenon DEF Sees
<1>6. v.copy \in Copy
  BY Zenon DEF IInv, TypeOK
<1>7. QED
  BY <1>2, <1>3, <1>4, <1>5, <1>6, HighestNotOlder, Zenon DEF IInv

\* What an operation sends out follows what was sent out before its command came;
\* and a write sends out a version that no write has.
LEMMA ProposedFollows ==
  ASSUME IInv, KindInv, OrderInv, DiskInv, lexical, lexical', NEW p \in Proc, NEW m \in msgs, NEW c,
         NEW w, Proposes(p, m, c, w), NEW v \in proposed
  PROVE  /\ v.id \in hist[w.id].before => ~Newer(v.copy, w.copy)
         /\ hist[w.id].kind = "Write" =>
               /\ v.id \in hist[w.id].before => Newer(w.copy, v.copy)
               /\ hist[v.id].kind = "Write" => ~SameVersion(v.copy, w.copy)
<1>1. /\ worker[p] = "running" /\ m.type = "Value" /\ m.id = op_id[p] /\ op_id[p] # NoOp
      /\ Majority(DOMAIN ReadlistWith(p, m)) /\ c \in Chosen(p, m) /\ c \in Newest(Candidates(p, m))
      /\ w.id = op_id[p]
  BY Zenon DEF Proposes
<1>2. c \in Copy /\ NextCopy(p, c) \in Copy /\ v.copy \in Copy
  BY <1>1, ChosenType, Zenon DEF IInv, TypeOK
<1>3. v.id \in hist[w.id].before => ~Newer(v.copy, c)
  BY <1>1, <1>2, ChosenNotOlder, Zenon DEF OrderInv
<1>4. NextCopy(p, c).ts = c.ts + 1 /\ NextCopy(p, c).wr = p
  BY Zenon DEF NextCopy
<1>5. v.id \in hist[w.id].before => Newer(NextCopy(p, c), v.copy) /\ ~Newer(v.copy, NextCopy(p, c))
  BY <1>2, <1>3, <1>4 DEF Newer, Copy
<1>6. hist[w.id].kind = "Write" => w.copy = NextCopy(p, c)
  BY <1>1, Zenon DEF Proposes, KindInv
<1>7. ASSUME hist[w.id].kind = "Write", hist[v.id].kind = "Write" PROVE ~SameVersion(v.copy, w.copy)
  <2>1. v.copy.wr = hist[v.id].proc /\ Held(hist[v.id].proc, v.copy) \in stored
    BY <1>7, Zenon DEF OrderInv, WriteInv
  <2>2. CASE hist[v.id].proc # p
    BY <1>4, <1>6, <1>7, <2>1, <2>2, Zenon DEF SameVersion
  <2>3. CASE hist[v.id].proc = p
    <3>1. ~Newer(Held(p, v.copy), Recovered(files[p]))
      BY <2>1, <2>3, Zenon DEF DiskInv, Held
    <3>2. Recovered(files[p]) = sec[p] /\ sec[p] \in Copy
      BY <1>1, HoldsRecovered, Zenon DEF IInv
    <3>3. ~Newer(v.copy, sec[p])
      BY <3>1, <3>2, Zenon DEF Held, Newer
    <3>4. Newer(NextCopy(p, c), sec[p])
      BY <1>1, NextIsNewer, Zenon DEF IInv
    <3>5. QED
      BY <1>2, <1>6, <1>7, <3>2, <3>3, <3>4, Zenon DEF SameVersion, Newer, Copy
  <2>4. QED
    BY <2>2, <2>3, Zenon
<1>8. w.copy = c \/ w.copy = NextCopy(p, c)
  BY Zenon DEF Proposes
<1>9. QED
  BY <1>3, <1>5, <1>6, <1>7, <1>8, Zenon

LEMMA VersionsNext ==
  ASSUME IInv, IInv', KindInv, CopiesIn(Genuine), DiskInv, OrderInv, [Next]_vars
  PROVE  VersionsFollowRealTime'
<1> DEFINE Follows(v, w) ==
             /\ v.id \in hist'[w.id].before => ~Newer(v.copy, w.copy)
             /\ hist'[w.id].kind = "Write" =>
                   /\ v.id \in hist'[w.id].before => Newer(w.copy, v.copy)
                   /\ v.id # w.id /\ hist'[v.id].kind = "Write" => ~SameVersion(v.copy, w.copy)
<1> SUFFICES ASSUME lexical', NEW v \in proposed', NEW w \in proposed' PROVE Follows(v, w)
  BY Zenon DEF VersionsFollowRealTime
<1>1. lexical /\ ProposeStep
  BY FileSteps, ProposalSteps, Zenon DEF IInv
<1>2. \A u \in proposed : u.id \in DOMAIN hist
  BY Zenon DEF IInv, OpsInv, ProposalInv
<1>3. \A i \in DOMAIN hist : hist'[i].before = hist[i].before /\ hist'[i].kind = hist[i].kind
  BY HistoryKept, Zenon
<1>4. CASE v \in proposed /\ w \in proposed
  BY <1>1, <1>2, <1>3, <1>4, Zenon DEF OrderInv, VersionsFollowRealTime
<1>5. ASSUME NEW u \in proposed', u \notin proposed
      PROVE  /\ hist' = hist /\ u.id \in DOMAIN hist
             /\ \A i \in DOMAIN hist : u.id \notin hist[i].before
  <2>1. PICK p \in Proc : \E m \in msgs : \E c : Proposes(p, m, c, u)
    BY <1>1, <1>5, Zenon DEF ProposeStep
  <2>2. u.id = op_id[p] /\ callback[p] # NoOp /\ hist' = hist
    BY <2>1, Zenon DEF Proposes
  <2>3. u.id \in Pending
    BY <2>2, Zenon DEF OrderInv, CommandInv
  <2>4. QED
    BY <2>2, <2>3, Zenon DEF OrderInv, CommandInv, Returned, Pending
<1>6. ASSUME NEW u \in proposed', u \notin proposed, NEW t \in proposed
      PROVE  /\ t.id \in hist[u.id].before => ~Newer(t.copy, u.copy)
             /\ hist[u.id].kind = "Write" =>
                   /\ t.id \in hist[u.id].before => Newer(u.copy, t.copy)
                   /\ hist[t.id].kind = "Write" => ~SameVersion(t.copy, u.copy)
  <2>1. PICK p \in Proc : \E m \in msgs : \E c : Proposes(p, m, c, u)
    BY <1>1, <1>6, Zenon DEF ProposeStep
  <2>2. QED
    BY <1>1, <1>6, <2>1, ProposedFollows, Zenon
<1>7. CASE v \in proposed /\ w \notin proposed
  BY <1>5, <1>6, <1>7, Zenon
<1>8. CASE v \notin proposed /\ w \in proposed
  <2>1. hist' = hist /\ v.id \notin hist[w.id].before
    BY <1>2, <1>5, <1>8, Zenon
  <2>2. SameVersion(v.copy, w.copy) => SameVersion(w.copy, v.copy)
    BY Zenon DEF SameVersion
  <2>3. QED
    BY <1>6, <1>8, <2>1, <2>2, Zenon
<1>9. CASE v \notin proposed /\ w \notin proposed
  <2>1. v = w
    BY <1>1, <1>9, Zenon DEF ProposeStep
  <2>2. QED
    BY <1>5, <1>9, <2>1, Zenon
<1>10. QED
  BY <1>4, <1>7, <1>8, <1>9, Zenon

LEMMA OrderInit ==
  ASSUME Init
  PROVE  OrderInv
<1>1. DOMAIN hist = {} /\ msgs = {} /\ proposed = {} /\ \A p \in Proc : callback[p] = NoOp
  BY DEF Init
<1>2. QED
  BY <1>1, Zenon DEF OrderInv, CommandInv, WriteInv, QuorumInv, VersionsFollowRealTime

\* The order of the operations that have sent out a copy holds in every state.
LEMMA OrderInvariance == Spec => []OrderInv
<1> DEFINE All == KindInv /\ CopiesIn(Genuine) /\ DiskInv
<1>1. Spec => []All
  BY CommandInvariance, DiskInvariance, PTL
<1>2. Init => OrderInv
  BY OrderInit, Zenon
<1>3. IInv /\ IInv' /\ All /\ OrderInv /\ [Next]_vars => OrderInv'
  BY CommandNext, WriteNext, QuorumNext, VersionsNext, Zenon DEF OrderInv
<1>4. QED
  BY <1>1, <1>2, <1>3, Invariance, PTL DEF Spec

\* As long as every choice of the Value branch of atomic_register.rs was the highest
\* by (ts, wr), the versions that operations send out follow real time and no two
\* writes share one: for every number of processes, of operations at once and of
\* crashes, over links that lose, repeat and reorder.
THEOREM OperationsInOrder == Spec => []VersionsFollowRealTime
<1>1. OrderInv => VersionsFollowRealTime
  BY Zenon DEF OrderInv
<1>2. QED
  BY <1>1, OrderInvariance, PTL
=============================================================================
