------------------------ MODULE AtomicRegisterSteps -------------------------
(***************************************************************************)
(* What a step of AtomicRegister does: it keeps every variable in its type *)
(* and adds no copy but that of a write; it preserves the invariant of the *)
(* operations; and what it does to the history of the commands, to the     *)
(* files, to the messages and to the operations under way.                 *)
(***************************************************************************)
EXTENDS AtomicRegisterInv, TLAPS

LEMMA InitialCopyType == InitialCopy \in Copy
  BY NAssumption DEF InitialCopy, Copy, Data

\* What a restart finds is one of the files, or the initial copy.
LEMMA RecoveredIsAFile ==
  ASSUME NEW dir
  PROVE  Recovered(dir) \in dir \union {InitialCopy}
<1>1. CASE Newest(dir) = {}
  BY <1>1, Zenon DEF Recovered
<1>2. CASE Newest(dir) # {}
  <2>1. (CHOOSE f \in Newest(dir) : TRUE) \in Newest(dir)
    BY <1>2, Zenon
  <2>2. QED
    BY <1>2, <2>1, Zenon DEF Recovered, Newest
<1>3. QED
  BY <1>1, <1>2, Zenon

LEMMA RecoveredType ==
  ASSUME NEW dir, dir \subseteq Copy
  PROVE  Recovered(dir) \in Copy
BY RecoveredIsAFile, InitialCopyType, Zenon

LEMMA VersionType ==
  ASSUME NEW c \in Copy
  PROVE  VersionOf(c) \in [ts : Nat, wr : 0 .. N]
BY Zenon DEF VersionOf, Copy

LEMMA HeldType ==
  ASSUME NEW p \in Proc, NEW c \in Copy
  PROVE  Held(p, c) \in [proc : Proc, ts : Nat, wr : 0 .. N]
BY Zenon DEF Held, Copy

\* HashMap::insert keeps a map from processes to copies.
LEMMA InsertType ==
  ASSUME NEW map, \E S \in SUBSET Proc : map \in [S -> Copy],
         NEW k \in Proc, NEW v \in Copy
  PROVE  /\ \E S \in SUBSET Proc : Insert(map, k, v) \in [S -> Copy]
         /\ DOMAIN Insert(map, k, v) = DOMAIN map \union {k}
<1>1. PICK S \in SUBSET Proc : map \in [S -> Copy]
  BY Zenon
<1>2. Insert(map, k, v) \in [S \union {k} -> Copy]
  BY <1>1, Zenon DEF Insert
<1>3. S \union {k} \in SUBSET Proc
  BY Zenon
<1>4. QED
  BY <1>1, <1>2, <1>3, Zenon DEF Insert

\* Whatever the comparison, the highest is one of the copies in the list.
LEMMA HighestIsInList ==
  ASSUME NEW rl, NEW c \in Highest(rl)
  PROVE  \E q \in DOMAIN rl : c = rl[q]
BY Zenon DEF Highest

LEMMA HighestType ==
  ASSUME NEW rl, \E S \in SUBSET Proc : rl \in [S -> Copy], NEW c \in Highest(rl)
  PROVE  c \in Copy
<1>1. PICK S \in SUBSET Proc : rl \in [S -> Copy]
  BY Zenon
<1>2. PICK q \in DOMAIN rl : c = rl[q]
  BY HighestIsInList, Zenon
<1>3. QED
  BY <1>1, <1>2, Zenon

LEMMA TypeInit == Init => TypeOK
<1> SUFFICES ASSUME Init PROVE TypeOK
  BY Zenon
<1> USE DEF Init
<1>1. \A p \in Proc : InitialFiles[p] \subseteq Copy
  BY FilesAssumption, Zenon
<1>2. sec \in [Proc -> Copy]
  BY <1>1, RecoveredType, Zenon
<1>3. data_access \in [Proc -> [ts : Nat, wr : 0 .. N]]
  BY <1>1, RecoveredType, VersionType, Zenon
<1>4. stored \subseteq [proc : Proc, ts : Nat, wr : 0 .. N]
  BY <1>1, InitialCopyType, HeldType
<1>5. \A p \in Proc : \E S \in SUBSET Proc : readlist[p] \in [S -> Copy]
  <2>1. EmptyMap \in [{} -> Copy]
    BY Zenon DEF EmptyMap
  <2>2. QED
    BY <2>1, Zenon
<1>6. hist \in Seq(ClientOp) /\ Len(hist) <= MaxOps
  BY BoundsAssumption
<1>7. files \in [Proc -> SUBSET Copy]
  BY <1>1, FilesAssumption, Zenon
<1>8. crashes \in 0 .. MaxCrashes
  BY BoundsAssumption
<1>9. QED
  BY <1>2, <1>3, <1>4, <1>5, <1>6, <1>7, <1>8, Zenon DEF TypeOK, Data, NoOp

\* The variables of an operation, and those of the sector file, as TypeOK has them.
OpTypeOK ==
    /\ op_id \in [Proc -> OpId \union {NoOp}]
    /\ callback \in [Proc -> OpId \union {NoOp}]
    /\ reading \in [Proc -> BOOLEAN]
    /\ writing \in [Proc -> BOOLEAN]
    /\ write_phase \in [Proc -> BOOLEAN]
    /\ DOMAIN readlist = Proc
    /\ \A p \in Proc : \E S \in SUBSET Proc : readlist[p] \in [S -> Copy]
    /\ acklist \in [Proc -> SUBSET Proc]
    /\ writeval \in [Proc -> Data]
    /\ readval \in [Proc -> Data]

StoreTypeOK ==
    /\ files \in [Proc -> SUBSET Copy]
    /\ data_access \in [Proc -> [ts : Nat, wr : 0 .. N]]
    /\ stored \subseteq [proc : Proc, ts : Nat, wr : 0 .. N]

RestTypeOK ==
    /\ worker \in [Proc -> {"running", "panicked", "down"}]
    /\ sec \in [Proc -> Copy]
    /\ msgs \subseteq Message
    /\ hist \in Seq(ClientOp)
    /\ Len(hist) <= MaxOps
    /\ proposed \subseteq [id : OpId, copy : Copy]
    /\ lexical \in BOOLEAN
    /\ crashes \in 0 .. MaxCrashes

LEMMA TypeParts == TypeOK <=> OpTypeOK /\ StoreTypeOK /\ RestTypeOK
  BY Zenon DEF TypeOK, OpTypeOK, StoreTypeOK, RestTypeOK

LEMMA TypePartsNext == TypeOK' <=> OpTypeOK' /\ StoreTypeOK' /\ RestTypeOK'
  BY Zenon DEF TypeOK, OpTypeOK, StoreTypeOK, RestTypeOK

LEMMA EmptyMapType == \E S \in SUBSET Proc : EmptyMap \in [S -> Copy]
<1>1. EmptyMap \in [{} -> Copy]
  BY Zenon DEF EmptyMap
<1>2. QED
  BY <1>1, Zenon

LEMMA ForgetType ==
  ASSUME OpTypeOK, NEW p \in Proc, ForgetOperation(p)
  PROVE  OpTypeOK'
  BY EmptyMapType, Zenon DEF OpTypeOK, ForgetOperation, Data

LEMMA StoreType ==
  ASSUME StoreTypeOK, NEW p \in Proc, NEW c \in Copy,
         StoreReturns(p, c) \/ StorePanics(p, c) \/ StoreIsCutShort(p, c)
  PROVE  StoreTypeOK'
<1>1. Renamed(files[p], c) \subseteq Copy
  BY Zenon DEF StoreTypeOK, Renamed
<1>2. AfterWrite(files[p], data_access[p], c) \subseteq Copy
  BY <1>1, Zenon DEF AfterWrite
<1>3. VersionOf(c) \in [ts : Nat, wr : 0 .. N] /\ NoVersion \in [ts : Nat, wr : 0 .. N]
  BY VersionType, NAssumption DEF NoVersion
<1>4. Held(p, c) \in [proc : Proc, ts : Nat, wr : 0 .. N]
  BY HeldType, Zenon
<1>5. QED
  BY <1>1, <1>2, <1>3, <1>4 DEF StoreTypeOK, StoreReturns, StorePanics, StoreIsCutShort

LEMMA GoDownType ==
  ASSUME OpTypeOK, RestTypeOK, NEW p \in Proc, GoDown(p), lexical' \in BOOLEAN
  PROVE  OpTypeOK' /\ RestTypeOK'
<1>1. OpTypeOK'
  BY ForgetType, Zenon DEF GoDown
<1>2. RestTypeOK'
  BY InitialCopyType, BoundsAssumption DEF RestTypeOK, GoDown
<1>3. QED
  BY <1>1, <1>2, Zenon

\* The copies in the list a register chooses from have their type.
LEMMA FullReadlistType ==
  ASSUME TypeOK, NEW p \in Proc, NEW m \in msgs, m.type = "Value"
  PROVE  /\ \E S \in SUBSET Proc : ReadlistWith(p, m) \in [S -> Copy]
         /\ \E S \in SUBSET Proc : FullReadlist(p, m) \in [S -> Copy]
<1>1. m.from \in Proc /\ m.copy \in Copy
  BY Zenon DEF TypeOK, Message
<1>2. \E S \in SUBSET Proc : readlist[p] \in [S -> Copy]
  BY Zenon DEF TypeOK
<1>3. \E S \in SUBSET Proc : ReadlistWith(p, m) \in [S -> Copy]
  BY <1>1, <1>2, InsertType, Zenon DEF ReadlistWith
<1>4. sec[p] \in Copy
  BY Zenon DEF TypeOK
<1>5. \E S \in SUBSET Proc : FullReadlist(p, m) \in [S -> Copy]
  BY <1>3, <1>4, InsertType, Zenon DEF FullReadlist
<1>6. QED
  BY <1>3, <1>5, Zenon

LEMMA ChosenType ==
  ASSUME TypeOK, NEW p \in Proc, NEW m \in msgs, m.type = "Value", NEW c \in Chosen(p, m)
  PROVE  c \in Copy /\ NextCopy(p, c) \in Copy
<1>1. c \in Copy
  BY FullReadlistType, HighestType, Zenon DEF Chosen
<1>2. NextCopy(p, c) \in Copy
  BY <1>1 DEF NextCopy, Copy, Proc, TypeOK
<1>3. QED
  BY <1>1, <1>2, Zenon

LEMMA EnterWritePhaseType ==
  ASSUME OpTypeOK, NEW p \in Proc, NEW c \in Copy, EnterWritePhase(p, c)
  PROVE  OpTypeOK'
  BY EmptyMapType, Zenon DEF OpTypeOK, EnterWritePhase, Copy

LEMMA BroadcastType ==
  ASSUME RestTypeOK, NEW p \in Proc, NEW c \in Copy, op_id[p] \in OpId,
         BroadcastWriteProc(p, c)
  PROVE  msgs' \subseteq Message /\ proposed' \subseteq [id : OpId, copy : Copy]
  BY DEF RestTypeOK, BroadcastWriteProc, WriteProcMsg, Message

LEMMA ClientCommandType ==
  ASSUME TypeOK, NEW p \in Proc, NEW kind \in {"Read", "Write"}, NEW data \in Data,
         ClientCommand(p, kind, data)
  PROVE  TypeOK'
<1> DEFINE id == Len(hist) + 1
           op == [proc |-> p, kind |-> kind, data |-> data, done |-> FALSE, before |-> Returned]
<1>1. hist \in Seq(ClientOp) /\ Len(hist) \in Nat /\ DOMAIN hist = 1 .. Len(hist)
  BY DEF TypeOK
<1>2. id \in OpId
  BY <1>1, BoundsAssumption DEF ClientCommand, OpId
<1>3. op \in ClientOp
  <2>1. Returned \subseteq OpId
    BY <1>1, BoundsAssumption DEF TypeOK, Returned, OpId
  <2>2. QED
    BY <2>1, Zenon DEF ClientOp
<1>4. OpTypeOK'
  BY <1>2, EmptyMapType, TypeParts, Zenon DEF OpTypeOK, ClientCommand
<1>5. StoreTypeOK'
  BY TypeParts, Zenon DEF StoreTypeOK, ClientCommand, storeVars
<1>6. RestTypeOK'
  <2>1. hist' \in Seq(ClientOp) /\ Len(hist') <= MaxOps
    BY <1>1, <1>3, BoundsAssumption DEF ClientCommand
  <2>2. msgs' \subseteq Message
    BY <1>2 DEF TypeOK, ClientCommand, ReadProcMsg, Message
  <2>3. QED
    BY <2>1, <2>2, TypeParts, Zenon DEF RestTypeOK, ClientCommand
<1>7. QED
  BY <1>4, <1>5, <1>6, TypePartsNext, Zenon

LEMMA CrashType ==
  ASSUME TypeOK, NEW p \in Proc, Crash(p)
  PROVE  TypeOK'
<1>1. OpTypeOK' /\ RestTypeOK'
  <2>1. lexical' \in BOOLEAN
    BY Zenon DEF Crash, TypeOK
  <2>2. QED
    BY <2>1, GoDownType, TypeParts, Zenon DEF Crash
<1>2. StoreTypeOK'
  BY TypeParts, NAssumption DEF StoreTypeOK, Crash, NoVersion
<1>3. QED
  BY <1>1, <1>2, TypePartsNext, Zenon

LEMMA RecoverType ==
  ASSUME TypeOK, NEW p \in Proc, Recover(p)
  PROVE  TypeOK'
<1>1. Recovered(files[p]) \in Copy /\ Newest(files[p]) \subseteq Copy
  BY RecoveredType, Zenon DEF TypeOK, Newest
<1>2. VersionOf(Recovered(files[p])) \in [ts : Nat, wr : 0 .. N]
  BY <1>1, VersionType, Zenon
<1>3. OpTypeOK'
  BY ForgetType, TypeParts, Zenon DEF Recover
<1>4. StoreTypeOK'
  BY <1>1, <1>2, TypeParts, Zenon DEF StoreTypeOK, Recover
<1>5. RestTypeOK'
  BY <1>1, TypeParts, Zenon DEF RestTypeOK, Recover, sendVars
<1>6. QED
  BY <1>3, <1>4, <1>5, TypePartsNext, Zenon

LEMMA ValueQuorumWritingType ==
  ASSUME TypeOK, NEW p \in Proc, NEW m \in msgs, ValueQuorumWriting(p, m)
  PROVE  TypeOK'
<1>1. m.type = "Value" /\ op_id[p] \in OpId
  BY Zenon DEF ValueQuorumWriting, ValueCounts, Delivered, TypeOK
<1>2. PICK c \in Chosen(p, m) :
         /\ lexical' = (lexical /\ c \in Newest(Candidates(p, m)))
         /\ \/ /\ StoreReturns(p, NextCopy(p, c))
               /\ EnterWritePhase(p, c)
               /\ sec' = [sec EXCEPT ![p] = NextCopy(p, c)]
               /\ BroadcastWriteProc(p, NextCopy(p, c))
               /\ UNCHANGED <<worker, hist, crashes>>
            \/ /\ StorePanics(p, NextCopy(p, c))
               /\ EnterWritePhase(p, c)
               /\ sec' = [sec EXCEPT ![p] = NextCopy(p, c)]
               /\ Panic(p)
               /\ UNCHANGED <<sendVars, hist, crashes>>
            \/ /\ StoreIsCutShort(p, NextCopy(p, c))
               /\ GoDown(p)
  BY Zenon DEF ValueQuorumWriting
<1>3. c \in Copy /\ NextCopy(p, c) \in Copy /\ lexical' \in BOOLEAN
  BY <1>1, <1>2, ChosenType, Zenon
<1>4. StoreTypeOK'
  BY <1>2, <1>3, StoreType, TypeParts, Zenon
<1>5. OpTypeOK' /\ RestTypeOK'
  <2>1. CASE StoreIsCutShort(p, NextCopy(p, c)) /\ GoDown(p)
    BY <1>3, <2>1, GoDownType, TypeParts, Zenon
  <2>2. CASE /\ EnterWritePhase(p, c)
             /\ sec' = [sec EXCEPT ![p] = NextCopy(p, c)]
             /\ BroadcastWriteProc(p, NextCopy(p, c))
             /\ UNCHANGED <<worker, hist, crashes>>
    BY <1>1, <1>3, <2>2, EnterWritePhaseType, BroadcastType, TypeParts, Zenon DEF RestTypeOK
  <2>3. CASE /\ EnterWritePhase(p, c)
             /\ sec' = [sec EXCEPT ![p] = NextCopy(p, c)]
             /\ Panic(p)
             /\ UNCHANGED <<sendVars, hist, crashes>>
    BY <1>3, <2>3, EnterWritePhaseType, TypeParts, Zenon DEF RestTypeOK, Panic, sendVars
  <2>4. QED
    BY <1>2, <2>1, <2>2, <2>3, Zenon
<1>6. QED
  BY <1>4, <1>5, TypePartsNext, Zenon

LEMMA WriteProcStoredType ==
  ASSUME TypeOK, NEW p \in Proc, NEW m \in msgs, WriteProcStored(p, m)
  PROVE  TypeOK'
<1>1. m.copy \in Copy /\ m.from \in Proc /\ m.id \in OpId
  BY Zenon DEF WriteProcStored, Delivered, TypeOK, Message
<1>2. StoreTypeOK'
  BY <1>1, StoreType, TypeParts, Zenon DEF WriteProcStored
<1>3. OpTypeOK' /\ RestTypeOK'
  <2>1. CASE GoDown(p) /\ UNCHANGED lexical
    <3>1. lexical' \in BOOLEAN
      BY <2>1, Zenon DEF TypeOK
    <3>2. QED
      BY <2>1, <3>1, GoDownType, TypeParts, Zenon
  <2>2. CASE /\ sec' = [sec EXCEPT ![p] = m.copy]
             /\ msgs' = msgs \union {AckMsg(p, m.from, m.id)}
             /\ UNCHANGED <<worker, opVars, proposed, hist, lexical, crashes>>
    BY <1>1, <2>2, TypeParts DEF OpTypeOK, RestTypeOK, AckMsg, Message, opVars
  <2>3. CASE /\ sec' = [sec EXCEPT ![p] = m.copy]
             /\ Panic(p)
             /\ UNCHANGED <<opVars, sendVars, hist, lexical, crashes>>
    BY <1>1, <2>3, TypeParts, Zenon DEF OpTypeOK, RestTypeOK, Panic, opVars, sendVars
  <2>4. QED
    BY <2>1, <2>2, <2>3, Zenon DEF WriteProcStored
<1>4. QED
  BY <1>2, <1>3, TypePartsNext, Zenon

LEMMA RespondType ==
  ASSUME TypeOK, NEW p \in Proc, Respond(p), callback[p] # NoOp => callback[p] \in DOMAIN hist
  PROVE  /\ hist' \in Seq(ClientOp)
         /\ Len(hist') = Len(hist)
         /\ callback' \in [Proc -> OpId \union {NoOp}]
<1>1. callback' \in [Proc -> OpId \union {NoOp}]
  BY Zenon DEF Respond, TypeOK
<1>2. CASE callback[p] = NoOp
  BY <1>1, <1>2, Zenon DEF Respond, TypeOK
<1>3. CASE callback[p] # NoOp
  <2> DEFINE id == callback[p]
             op == Answered(p, hist[id])
  <2>1. hist \in Seq(ClientOp) /\ id \in 1 .. Len(hist)
    BY <1>3 DEF TypeOK
  <2>2. hist[id] \in ClientOp
    BY <2>1
  <2>3. op \in ClientOp
    BY <2>2, Zenon DEF Answered, ClientOp, TypeOK
  <2>4. hist' = [hist EXCEPT ![id] = op]
    BY <1>3, Zenon DEF Respond
  <2>5. hist' \in Seq(ClientOp) /\ Len(hist') = Len(hist)
    BY <2>1, <2>3, <2>4
  <2>6. QED
    BY <1>1, <2>5, Zenon
<1>4. QED
  BY <1>2, <1>3, Zenon

\* A step that only sends messages is type correct when they are messages.
LEMMA SendsType ==
  ASSUME TypeOK, msgs' \subseteq Message,
         UNCHANGED <<worker, sec, opVars, storeVars, proposed, hist, lexical, crashes>>
  PROVE  TypeOK'
<1>1. OpTypeOK'
  BY TypeParts, Zenon DEF OpTypeOK, opVars
<1>2. StoreTypeOK'
  BY TypeParts, Zenon DEF StoreTypeOK, storeVars
<1>3. RestTypeOK'
  BY TypeParts, Zenon DEF RestTypeOK
<1>4. QED
  BY <1>1, <1>2, <1>3, TypePartsNext, Zenon

\* The handler of ReadProc is type correct.
LEMMA ReadProcType ==
  ASSUME TypeOK, NEW p \in Proc, NEW m \in Message, ReadProc(p, m)
  PROVE  TypeOK'
<1>1. RestTypeOK
  BY TypeParts, Zenon
<1>2. sec[p] \in Copy /\ msgs \subseteq Message
  BY <1>1, Zenon DEF RestTypeOK
<1>3. m.type = "ReadProc"
  BY Zenon DEF ReadProc, Delivered
<1>4. ValueMsg(p, m.from, m.id, sec[p]) \in Message
  BY <1>2, <1>3, Zenon DEF Message, ValueMsg
<1>5. msgs' \subseteq Message
  BY <1>2, <1>4, Zenon DEF ReadProc
<1>6. QED
  BY <1>5, SendsType, Zenon DEF ReadProc

\* The handler of a WriteProc that is not newer is type correct.
LEMMA WriteProcOldType ==
  ASSUME TypeOK, NEW p \in Proc, NEW m \in Message, WriteProcOld(p, m)
  PROVE  TypeOK'
<1>1. RestTypeOK
  BY TypeParts
<1>2. AckMsg(p, m.from, m.id) \in Message
  BY Zenon DEF Message, AckMsg
<1>3. msgs' \subseteq Message
  BY <1>1, <1>2, Zenon DEF RestTypeOK, WriteProcOld
<1>4. QED
  BY <1>3, SendsType, Zenon DEF WriteProcOld

\* The handler of an Ack before the last one is type correct.
LEMMA AckRecordedType ==
  ASSUME TypeOK, NEW p \in Proc, NEW m \in Message, AckRecorded(p, m)
  PROVE  TypeOK'
<1>1. m.from \in Proc
  BY Zenon DEF Message
<1>2. OpTypeOK /\ StoreTypeOK /\ RestTypeOK
  BY TypeParts, Zenon
<1>3. acklist' \in [Proc -> SUBSET Proc]
  BY <1>1, <1>2, Zenon DEF OpTypeOK, AckRecorded
<1>4. OpTypeOK'
  BY <1>2, <1>3, Zenon DEF OpTypeOK, AckRecorded
<1>5. StoreTypeOK'
  BY <1>2, Zenon DEF StoreTypeOK, AckRecorded, storeVars
<1>6. RestTypeOK'
  BY <1>2, Zenon DEF RestTypeOK, AckRecorded, sendVars
<1>7. QED
  BY <1>4, <1>5, <1>6, TypePartsNext, Zenon

\* Type correctness of a step; AckCompletes needs the callback to be a command of hist.
LEMMA TypeNext == TypeOK /\ OperationInv /\ [Next]_vars => TypeOK'
<1> SUFFICES ASSUME TypeOK, OperationInv, [Next]_vars PROVE TypeOK'
  BY Zenon
<1>1. CASE UNCHANGED vars
  BY <1>1, Zenon DEF TypeOK, vars, opVars, storeVars, sendVars
<1>2. ASSUME NEW p \in Proc, ReadCommand(p) PROVE TypeOK'
  BY <1>2, ClientCommandType, Zenon DEF ReadCommand, Data
<1>3. ASSUME NEW p \in Proc, WriteCommand(p) PROVE TypeOK'
  BY <1>3, ClientCommandType, Zenon DEF WriteCommand, Data
<1>4. ASSUME NEW p \in Proc, Crash(p) PROVE TypeOK'
  BY <1>4, CrashType, Zenon
<1>5. ASSUME NEW p \in Proc, Recover(p) PROVE TypeOK'
  BY <1>5, RecoverType
<1>6. ASSUME NEW p \in Proc, NEW m \in msgs, SystemCommand(p, m) PROVE TypeOK'
  <2>0. m \in Message
    BY Zenon DEF TypeOK
  <2>1. CASE ReadProc(p, m)
    BY <2>0, <2>1, ReadProcType, Zenon
  <2>2. CASE ReplyWithoutOperation(p, m)
    BY <2>2, Zenon DEF TypeOK, ReplyWithoutOperation, Panic, opVars, storeVars, sendVars
  <2>3. CASE ValueRecorded(p, m)
    <3>1. \E S \in SUBSET Proc : ReadlistWith(p, m) \in [S -> Copy]
      BY <2>3, FullReadlistType, Zenon DEF ValueRecorded, ValueCounts, Delivered
    <3>2. QED
      BY <2>3, <3>1, Zenon DEF TypeOK, ValueRecorded, storeVars, sendVars
  <2>4. CASE ValueQuorumReading(p, m)
    <3>1. m.type = "Value" /\ op_id[p] \in OpId
      BY <2>4, Zenon DEF ValueQuorumReading, ValueCounts, Delivered, TypeOK
    <3>2. PICK c \in Chosen(p, m) :
             /\ EnterWritePhase(p, c)
             /\ BroadcastWriteProc(p, c)
             /\ lexical' = (lexical /\ c \in Newest(Candidates(p, m)))
      BY <2>4, Zenon DEF ValueQuorumReading
    <3>3. c \in Copy
      BY <3>1, ChosenType, Zenon
    <3>4. OpTypeOK'
      BY <3>2, <3>3, EnterWritePhaseType, TypeParts, Zenon
    <3>5. StoreTypeOK'
      BY <2>4, TypeParts, Zenon DEF StoreTypeOK, ValueQuorumReading, storeVars
    <3>6. msgs' \subseteq Message /\ proposed' \subseteq [id : OpId, copy : Copy]
      BY <3>1, <3>2, <3>3, BroadcastType, TypeParts, Zenon
    <3>7. RestTypeOK'
      BY <2>4, <3>2, <3>6, TypeParts, Zenon DEF RestTypeOK, ValueQuorumReading
    <3>8. QED
      BY <3>4, <3>5, <3>7, TypePartsNext, Zenon
  <2>5. CASE ValueQuorumWriting(p, m)
    BY <2>5, ValueQuorumWritingType, Zenon
  <2>6. CASE WriteProcStored(p, m)
    BY <2>6, WriteProcStoredType, Zenon
  <2>7. CASE WriteProcOld(p, m)
    BY <2>0, <2>7, WriteProcOldType
  <2>8. CASE AckRecorded(p, m)
    BY <2>0, <2>8, AckRecordedType
  <2>9. CASE AckCompletes(p, m)
    <3>1. callback[p] # NoOp => callback[p] \in DOMAIN hist
      BY Zenon DEF OperationInv
    <3>2. /\ hist' \in Seq(ClientOp)
          /\ Len(hist') = Len(hist)
          /\ callback' \in [Proc -> OpId \union {NoOp}]
      BY <2>9, <3>1, RespondType, Zenon DEF AckCompletes
    <3>3. QED
      BY <2>9, <3>2, Zenon DEF TypeOK, AckCompletes, storeVars, sendVars
  <2>10. QED
    BY <1>6, <2>1, <2>2, <2>3, <2>4, <2>5, <2>6, <2>7, <2>8, <2>9, Zenon
       DEF SystemCommand
<1>7. QED
  BY <1>1, <1>2, <1>3, <1>4, <1>5, <1>6, Zenon DEF Next

-----------------------------------------------------------------------------
(***************************************************************************)
(* Where copies come from                                                  *)
(***************************************************************************)
\* A write to the directory, whole or cut short, adds one copy to the files of p.
LEMMA StoreAdds ==
  ASSUME TypeOK, NEW p \in Proc, NEW c,
         StoreReturns(p, c) \/ StorePanics(p, c) \/ StoreIsCutShort(p, c)
  PROVE  \A q \in Proc : files'[q] \subseteq files[q] \union {c}
<1>1. DOMAIN files = Proc
  BY Zenon DEF TypeOK
<1>2. AfterWrite(files[p], data_access[p], c) \subseteq files[p] \union {c}
  BY Zenon DEF AfterWrite, Renamed
<1>3. Renamed(files[p], c) \subseteq files[p] \union {c}
  BY Zenon DEF Renamed
<1>4. QED
  BY <1>1, <1>2, <1>3, Zenon DEF StoreReturns, StorePanics, StoreIsCutShort

\* The copy that the Value branch chooses is one that was there.
LEMMA ChosenIsIn ==
  ASSUME NEW G, CopiesIn(G), NEW p \in Proc, NEW m \in msgs, m.type = "Value", NEW c \in Chosen(p, m)
  PROVE  c \in G
<1>1. PICK q \in DOMAIN FullReadlist(p, m) : c = FullReadlist(p, m)[q]
  BY HighestIsInList, Zenon DEF Chosen
<1>2. m.copy \in G /\ sec[p] \in G /\ \A r \in DOMAIN readlist[p] : readlist[p][r] \in G
  BY Zenon DEF CopiesIn
<1>3. \A r \in DOMAIN ReadlistWith(p, m) : ReadlistWith(p, m)[r] \in G
  BY <1>2, Zenon DEF ReadlistWith, Insert
<1>4. QED
  BY <1>1, <1>2, <1>3, Zenon DEF FullReadlist, Insert

\* A process that goes down takes copies away and adds none.
LEMMA GoDownCopies ==
  ASSUME NEW G, TypeOK, CopiesIn(G), InitialCopy \in G, NEW p \in Proc, GoDown(p),
         \A q \in Proc : files'[q] \subseteq G
  PROVE  CopiesIn(G)'
<1>1. \A q \in Proc : sec'[q] \in G
  BY Zenon DEF GoDown, CopiesIn, TypeOK
<1>2. \A q \in Proc : \A r \in DOMAIN readlist'[q] : readlist'[q][r] \in G
  BY Zenon DEF GoDown, ForgetOperation, EmptyMap, CopiesIn, TypeOK
<1>3. QED
  BY <1>1, <1>2, Zenon DEF GoDown, CopiesIn

\* A step that sends out copy c and leaves registers and files.
LEMMA BroadcastCopies ==
  ASSUME NEW G, NEW p \in Proc, NEW c \in G, BroadcastWriteProc(p, c), CopiesIn(G)
  PROVE  /\ \A m \in msgs' : m.type \in {"Value", "WriteProc"} => m.copy \in G
         /\ \A w \in proposed' : w.copy \in G
BY DEF BroadcastWriteProc, WriteProcMsg, CopiesIn

\* What the Value branch does with the copy of a write that has chosen c.
WriteOutcome(p, c) ==
    \/ /\ StoreReturns(p, NextCopy(p, c)) /\ EnterWritePhase(p, c)
       /\ sec' = [sec EXCEPT ![p] = NextCopy(p, c)] /\ BroadcastWriteProc(p, NextCopy(p, c))
       /\ UNCHANGED <<worker, hist>>
    \/ /\ StorePanics(p, NextCopy(p, c)) /\ EnterWritePhase(p, c)
       /\ sec' = [sec EXCEPT ![p] = NextCopy(p, c)] /\ Panic(p)
       /\ UNCHANGED <<sendVars, hist>>
    \/ StoreIsCutShort(p, NextCopy(p, c)) /\ GoDown(p)

\* A write keeps all copies in G when its own is.
LEMMA WriteCopies ==
  ASSUME NEW G, TypeOK, CopiesIn(G), InitialCopy \in G, NEW p \in Proc, NEW c,
         NextCopy(p, c) \in G, WriteOutcome(p, c)
  PROVE  CopiesIn(G)'
<1> DEFINE new == NextCopy(p, c)
<1>1. new \in G
  BY Zenon
<1>2. \A q \in Proc : \A r \in DOMAIN readlist'[q] : readlist'[q][r] \in G
  <2>1. readlist' = [readlist EXCEPT ![p] = EmptyMap]
    BY Zenon DEF WriteOutcome, EnterWritePhase, GoDown, ForgetOperation
  <2>2. QED
    BY <2>1, Zenon DEF EmptyMap, CopiesIn, TypeOK
<1>3. \/ StoreReturns(p, new) /\ sec' = [sec EXCEPT ![p] = new] /\ BroadcastWriteProc(p, new)
      \/ StorePanics(p, new) /\ sec' = [sec EXCEPT ![p] = new] /\ UNCHANGED sendVars
      \/ StoreIsCutShort(p, new) /\ GoDown(p)
  BY Zenon DEF WriteOutcome
<1> HIDE DEF new
<1>4. \A q \in Proc : files'[q] \subseteq G
  BY <1>1, <1>3, StoreAdds DEF CopiesIn
<1>5. CASE sec' = [sec EXCEPT ![p] = new] /\ BroadcastWriteProc(p, new)
  <2>1. \A q \in Proc : sec'[q] \in G
    BY <1>1, <1>5, Zenon DEF CopiesIn, TypeOK
  <2>2. QED
    BY <1>1, <1>2, <1>4, <1>5, <2>1, BroadcastCopies, Zenon DEF CopiesIn
<1>6. CASE sec' = [sec EXCEPT ![p] = new] /\ UNCHANGED sendVars
  <2>1. \A q \in Proc : sec'[q] \in G
    BY <1>1, <1>6, Zenon DEF CopiesIn, TypeOK
  <2>2. QED
    BY <1>2, <1>4, <1>6, <2>1, Zenon DEF CopiesIn, sendVars
<1>7. CASE GoDown(p)
  BY <1>4, <1>7, GoDownCopies, Zenon
<1>8. QED
  BY <1>3, <1>5, <1>6, <1>7, Zenon

\* A handler keeps all copies in G when its write does.
LEMMA HandlerCopies ==
  ASSUME NEW G, TypeOK, CopiesIn(G), InitialCopy \in G,
         \A q \in Proc : \A v \in msgs : \A c \in G : ValueQuorumWriting(q, v) => NextCopy(q, c) \in G,
         NEW p \in Proc, NEW m \in msgs, SystemCommand(p, m)
  PROVE  CopiesIn(G)'
<1>1. CASE ReadProc(p, m)
  <2>1. UNCHANGED <<sec, readlist, files, proposed>> /\ msgs' = msgs \union {ValueMsg(p, m.from, m.id, sec[p])}
    BY <1>1, Zenon DEF ReadProc, opVars, storeVars
  <2>2. QED
    BY <2>1 DEF CopiesIn, ValueMsg
<1>2. CASE ReplyWithoutOperation(p, m)
  BY <1>2, Zenon DEF ReplyWithoutOperation, opVars, storeVars, sendVars, CopiesIn
<1>3. CASE ValueRecorded(p, m)
  <2>1. m.copy \in G /\ readlist' = [readlist EXCEPT ![p] = ReadlistWith(p, m)]
    BY <1>3, Zenon DEF ValueRecorded, ValueCounts, Delivered, CopiesIn
  <2>2. \A r \in DOMAIN ReadlistWith(p, m) : ReadlistWith(p, m)[r] \in G
    BY <2>1, Zenon DEF ReadlistWith, Insert, CopiesIn
  <2>3. \A q \in Proc : \A r \in DOMAIN readlist'[q] : readlist'[q][r] \in G
    BY <2>1, <2>2, Zenon DEF CopiesIn, TypeOK
  <2>4. UNCHANGED <<sec, files, msgs, proposed>>
    BY <1>3, Zenon DEF ValueRecorded, storeVars, sendVars
  <2>5. QED
    BY <2>3, <2>4, Zenon DEF CopiesIn
<1>4. ASSUME NEW c \in Chosen(p, m), EnterWritePhase(p, c)
      PROVE  \A q \in Proc : \A r \in DOMAIN readlist'[q] : readlist'[q][r] \in G
  BY <1>4, Zenon DEF EnterWritePhase, EmptyMap, CopiesIn, TypeOK
<1>5. CASE ValueQuorumReading(p, m)
  <2>1. m.type = "Value"
    BY <1>5, Zenon DEF ValueQuorumReading, ValueCounts, Delivered
  <2>2. PICK c \in Chosen(p, m) : EnterWritePhase(p, c) /\ BroadcastWriteProc(p, c)
    BY <1>5, Zenon DEF ValueQuorumReading
  <2>3. c \in G
    BY <2>1, ChosenIsIn, Zenon
  <2>4. UNCHANGED <<sec, files>>
    BY <1>5, Zenon DEF ValueQuorumReading, storeVars
  <2>5. QED
    BY <1>4, <2>2, <2>3, <2>4, BroadcastCopies, Zenon DEF CopiesIn
<1>6. CASE ValueQuorumWriting(p, m)
  <2>1. m.type = "Value"
    BY <1>6, Zenon DEF ValueQuorumWriting, ValueCounts, Delivered
  <2>2. PICK c \in Chosen(p, m) : WriteOutcome(p, c)
    BY <1>6, Zenon DEF ValueQuorumWriting, WriteOutcome
  <2>3. NextCopy(p, c) \in G
    BY <1>6, <2>1, ChosenIsIn, Zenon
  <2>4. QED
    BY <2>2, <2>3, WriteCopies, Zenon
<1>7. CASE WriteProcStored(p, m)
  <2>1. m.copy \in G
    BY <1>7, Zenon DEF WriteProcStored, Delivered, CopiesIn
  <2>2. \A q \in Proc : files'[q] \subseteq G
    BY <1>7, <2>1, StoreAdds DEF WriteProcStored, CopiesIn
  <2>3. CASE GoDown(p)
    BY <2>2, <2>3, GoDownCopies, Zenon
  <2>4. CASE /\ sec' = [sec EXCEPT ![p] = m.copy] /\ UNCHANGED <<readlist, proposed>>
             /\ msgs' = msgs \union {AckMsg(p, m.from, m.id)} \/ msgs' = msgs
    <3>1. \A q \in Proc : sec'[q] \in G
      BY <2>1, <2>4, Zenon DEF CopiesIn, TypeOK
    <3>2. QED
      BY <2>2, <2>4, <3>1 DEF CopiesIn, AckMsg
  <2>5. QED
    BY <1>7, <2>3, <2>4, Zenon DEF WriteProcStored, opVars, sendVars
<1>8. CASE WriteProcOld(p, m)
  <2>1. UNCHANGED <<sec, readlist, files, proposed>> /\ msgs' = msgs \union {AckMsg(p, m.from, m.id)}
    BY <1>8, Zenon DEF WriteProcOld, opVars, storeVars
  <2>2. QED
    BY <2>1 DEF CopiesIn, AckMsg
<1>9. CASE AckRecorded(p, m) \/ AckCompletes(p, m)
  BY <1>9, Zenon DEF AckRecorded, AckCompletes, storeVars, sendVars, CopiesIn
<1>10. QED
  BY <1>1, <1>2, <1>3, <1>5, <1>6, <1>7, <1>8, <1>9, Zenon DEF SystemCommand

\* Every step does: only a write makes a copy that was not there.
LEMMA CopiesStay ==
  ASSUME NEW G, TypeOK, CopiesIn(G), InitialCopy \in G,
         \A q \in Proc : \A v \in msgs : \A c \in G : ValueQuorumWriting(q, v) => NextCopy(q, c) \in G,
         [Next]_vars
  PROVE  CopiesIn(G)'
<1>1. CASE UNCHANGED vars
  BY <1>1, Zenon DEF vars, opVars, storeVars, sendVars, CopiesIn
<1>2. ASSUME NEW p \in Proc, NEW kind, NEW data, ClientCommand(p, kind, data) PROVE CopiesIn(G)'
  <2>1. /\ UNCHANGED <<sec, files, proposed>> /\ readlist' = [readlist EXCEPT ![p] = EmptyMap]
        /\ msgs' = msgs \union {ReadProcMsg(p, q, Len(hist) + 1) : q \in Proc}
    BY <1>2, Zenon DEF ClientCommand, storeVars
  <2>2. \A q \in Proc : \A r \in DOMAIN readlist'[q] : readlist'[q][r] \in G
    BY <2>1, Zenon DEF EmptyMap, CopiesIn, TypeOK
  <2>3. QED
    BY <2>1, <2>2 DEF CopiesIn, ReadProcMsg
<1>3. ASSUME NEW p \in Proc, Crash(p) PROVE CopiesIn(G)'
  BY <1>3, GoDownCopies, Zenon DEF Crash, CopiesIn
<1>4. ASSUME NEW p \in Proc, Recover(p) PROVE CopiesIn(G)'
  <2>1. Recovered(files[p]) \in G /\ Newest(files[p]) \subseteq G
    BY RecoveredIsAFile, Zenon DEF CopiesIn, Newest
  <2>2. \A q \in Proc : sec'[q] \in G /\ files'[q] \subseteq G
    BY <1>4, <2>1, Zenon DEF Recover, CopiesIn, TypeOK
  <2>3. \A q \in Proc : \A r \in DOMAIN readlist'[q] : readlist'[q][r] \in G
    BY <1>4, Zenon DEF Recover, ForgetOperation, EmptyMap, CopiesIn, TypeOK
  <2>4. QED
    BY <1>4, <2>2, <2>3, Zenon DEF Recover, sendVars, CopiesIn
<1>5. ASSUME NEW p \in Proc, NEW m \in msgs, SystemCommand(p, m) PROVE CopiesIn(G)'
  BY <1>5, HandlerCopies, Zenon
<1>6. QED
  BY <1>1, <1>2, <1>3, <1>4, <1>5, Zenon DEF Next, ReadCommand, WriteCommand

-----------------------------------------------------------------------------
(***************************************************************************)
(* The invariant of the operations                                         *)
(***************************************************************************)
\* What holds of a process in stored, holds forever.
LEMMA HoldersGrow ==
  ASSUME stored \subseteq stored', NEW c
  PROVE  Holders(c) \subseteq Holders(c)'
  BY Zenon DEF Holders

LEMMA HoldsForGrows ==
  ASSUME stored \subseteq stored', proposed \subseteq proposed', NEW q, NEW id, HoldsFor(q, id)
  PROVE  HoldsFor(q, id)'
  BY HoldersGrow, Zenon DEF HoldsFor

LEMMA SectorSet ==
  ASSUME IInv, NEW p \in Proc, NEW c, sec' = [sec EXCEPT ![p] = c]
  PROVE  \A q \in Proc : sec'[q] = IF q = p THEN c ELSE sec[q]
BY Zenon DEF IInv, TypeOK

LEMMA InitIInv ==
  ASSUME Init, TypeOK
  PROVE  IInv
<1>1. TypeOK
  BY Zenon
<1>2. OperationInv
  BY Zenon DEF Init, OperationInv
<1>3. ProposalInv
  BY Zenon DEF Init, ProposalInv, OneProposalPerOperation
<1>4. AckInv
  BY Zenon DEF Init, AckInv
<1>5. HeldInv
  <2> SUFFICES ASSUME NEW p \in Proc
               PROVE  /\ Held(p, sec[p]) \in stored
                      /\ \A f \in files[p] : Held(p, f) \in stored
                      /\ Held(p, InitialCopy) \in stored
    BY Zenon DEF HeldInv
  <2>1. \A c \in InitialFiles[p] \union {InitialCopy} : Held(p, c) \in stored
    BY DEF Init
  <2>2. sec[p] \in InitialFiles[p] \union {InitialCopy}
    BY RecoveredIsAFile, Zenon DEF Init
  <2>3. QED
    BY <2>1, <2>2, Zenon DEF Init
<1>6. QED
  BY <1>1, <1>2, <1>3, <1>4, <1>5, Zenon DEF IInv, OpsInv

\* A step that only sends a Value, or an Ack for a copy that its sender holds.
LEMMA SendKeepsOps ==
  ASSUME IInv, NEW reply,
         \/ reply.type = "Value"
         \/ reply.type = "Ack" /\ HoldsFor(reply.from, reply.id),
         msgs' = msgs \union {reply},
         UNCHANGED <<worker, sec, opVars, storeVars, proposed, hist>>
  PROVE  OpsInv'
<1>0. TypeOK /\ OperationInv /\ ProposalInv /\ AckInv /\ HeldInv
  BY Zenon DEF IInv, OpsInv
<1> USE <1>0
<1>1. OperationInv'
  BY Zenon DEF OperationInv, opVars
<1>2. ProposalInv'
  BY Zenon DEF ProposalInv, OneProposalPerOperation, DataOf, opVars
<1>3. \A q, id : HoldsFor(q, id) => HoldsFor(q, id)'
  BY HoldsForGrows, Zenon DEF storeVars
<1>4. AckInv'
  BY <1>3, Zenon DEF AckInv, opVars
<1>5. HeldInv'
  BY Zenon DEF HeldInv, storeVars
<1>6. QED
  BY <1>1, <1>2, <1>4, <1>5, Zenon DEF OpsInv

LEMMA ReadProcKeepsOps ==
  ASSUME IInv, NEW p \in Proc, NEW m \in msgs, ReadProc(p, m)
  PROVE  OpsInv'
<1>0. TypeOK /\ OperationInv /\ ProposalInv /\ AckInv /\ HeldInv
  BY Zenon DEF IInv, OpsInv
<1> USE <1>0
<1>1. ValueMsg(p, m.from, m.id, sec[p]).type = "Value"
  BY Zenon DEF ValueMsg
<1>2. QED
  BY <1>1, SendKeepsOps, Zenon DEF ReadProc

\* A process that holds a copy no older than the one of a WriteProc may acknowledge it.
LEMMA MayAcknowledge ==
  ASSUME NEW p \in Proc, NEW id, NEW c, NEW d,
         [id |-> id, copy |-> c] \in proposed, Held(p, d) \in stored, ~Newer(c, d)
  PROVE  HoldsFor(p, id)
<1>1. Held(p, d).proc = p /\ ~Newer(c, Held(p, d))
  BY Zenon DEF Held, Newer
<1>2. p \in Holders(c)
  BY <1>1, Zenon DEF Holders
<1>3. QED
  BY <1>2, Zenon DEF HoldsFor

LEMMA WriteProcOldKeepsOps ==
  ASSUME IInv, NEW p \in Proc, NEW m \in msgs, WriteProcOld(p, m)
  PROVE  OpsInv'
<1>0. TypeOK /\ OperationInv /\ ProposalInv /\ AckInv /\ HeldInv
  BY DEF IInv, OpsInv
<1> USE <1>0
<1> DEFINE reply == AckMsg(p, m.from, m.id)
<1>1. [id |-> m.id, copy |-> m.copy] \in proposed
  BY Zenon DEF WriteProcOld, Delivered, AckInv
<1>2. Held(p, sec[p]) \in stored
  BY Zenon DEF WriteProcOld, Delivered, HeldInv
<1>3. HoldsFor(p, m.id)
  BY <1>1, <1>2, MayAcknowledge, Zenon DEF WriteProcOld
<1>4. reply.type = "Ack" /\ reply.from = p /\ reply.id = m.id
  BY Zenon DEF AckMsg
<1>5. QED
  BY <1>3, <1>4, SendKeepsOps, Zenon DEF WriteProcOld

\* A step that leaves messages, commands, files and the operation alone but for
\* readlist, an Ack it may count, or the end of the worker task.
LEMMA CountKeepsOps ==
  ASSUME IInv,
         \A p \in Proc : worker'[p] = worker[p] \/ (worker[p] = "running" /\ worker'[p] = "panicked"),
         \A p \in Proc : \A q \in acklist'[p] : HoldsFor(q, op_id[p]),
         UNCHANGED <<sec, op_id, callback, reading, writing, write_phase, writeval, readval,
                     storeVars, sendVars, hist>>
  PROVE  OpsInv'
<1>0. TypeOK /\ OperationInv /\ ProposalInv /\ AckInv /\ HeldInv
  BY Zenon DEF IInv, OpsInv
<1> USE <1>0
<1>1. OperationInv'
  BY Zenon DEF OperationInv
<1>2. ProposalInv'
  BY Zenon DEF ProposalInv, OneProposalPerOperation, DataOf, sendVars
<1>3. \A q, id : HoldsFor(q, id) => HoldsFor(q, id)'
  BY HoldsForGrows, Zenon DEF storeVars, sendVars
<1>4. AckInv'
  BY <1>3, Zenon DEF AckInv, sendVars
<1>5. HeldInv'
  BY Zenon DEF HeldInv, storeVars
<1>6. QED
  BY <1>1, <1>2, <1>4, <1>5, Zenon DEF OpsInv

LEMMA ClientCommandKeepsOps ==
  ASSUME IInv, NEW p \in Proc, NEW kind \in {"Read", "Write"}, NEW data \in Data,
         ClientCommand(p, kind, data)
  PROVE  OpsInv'
<1>0. TypeOK /\ OperationInv /\ ProposalInv /\ AckInv /\ HeldInv
  BY Zenon DEF IInv, OpsInv
<1> USE <1>0
<1> DEFINE id == Len(hist) + 1
<1>1. /\ hist \in Seq(ClientOp) /\ Len(hist) \in Nat /\ DOMAIN hist = 1 .. Len(hist)
      /\ id \notin DOMAIN hist /\ id # NoOp
  BY DEF TypeOK, NoOp
<1>2. /\ DOMAIN hist' = DOMAIN hist \union {id}
      /\ \A i \in DOMAIN hist : hist'[i] = hist[i]
      /\ hist'[id].proc = p /\ hist'[id].data = data /\ ~hist'[id].done
  BY <1>1 DEF ClientCommand
<1>3. /\ op_id' = [op_id EXCEPT ![p] = id] /\ callback' = [callback EXCEPT ![p] = id]
      /\ op_id \in [Proc -> OpId \union {NoOp}] /\ callback \in [Proc -> OpId \union {NoOp}]
  BY Zenon DEF ClientCommand, TypeOK
<1>4. worker[p] = "running" /\ callback[p] = NoOp /\ ~reading[p] /\ ~writing[p] /\ ~write_phase[p]
  BY Zenon DEF ClientCommand, OperationInv, ProposalInv
<1>5. OperationInv'
  <2> SUFFICES ASSUME NEW q \in Proc
               PROVE  /\ op_id'[q] # NoOp => op_id'[q] \in DOMAIN hist' /\ hist'[op_id'[q]].proc = q
                      /\ callback'[q] # NoOp => callback'[q] = op_id'[q]
                      /\ (reading'[q] \/ writing'[q]) <=> callback'[q] # NoOp
                      /\ ~(reading'[q] /\ writing'[q])
                      /\ writing'[q] => writeval'[q] = hist'[op_id'[q]].data
    BY Zenon DEF OperationInv
  <2>1. CASE q = p
    BY <1>1, <1>2, <1>3, <1>4, <2>1, Zenon DEF ClientCommand, TypeOK
  <2>2. CASE q # p
    <3>1. /\ op_id'[q] = op_id[q] /\ callback'[q] = callback[q]
          /\ reading'[q] = reading[q] /\ writing'[q] = writing[q] /\ writeval'[q] = writeval[q]
      BY <1>3, <2>2, Zenon DEF ClientCommand, TypeOK
    <3>2. QED
      BY <1>2, <3>1, SMTT(60) DEF OperationInv
  <2>3. QED
    BY <2>1, <2>2, Zenon
<1>6. ProposalInv'
  <2>1. proposed' = proposed /\ \A w \in proposed : w.id \in DOMAIN hist
    BY Zenon DEF ClientCommand, ProposalInv
  <2>2. ASSUME NEW q \in Proc, callback'[q] # NoOp, ~write_phase'[q]
        PROVE  \A w \in proposed : w.id # op_id'[q]
    <3>1. CASE q = p
      BY <1>1, <1>3, <2>1, <3>1, Zenon
    <3>2. CASE q # p
      BY <1>3, <2>2, <3>2 DEF ProposalInv, ClientCommand
    <3>3. QED
      BY <3>1, <3>2, Zenon
  <2>3. ASSUME NEW q \in Proc, worker'[q] = "running", write_phase'[q]
        PROVE  /\ callback'[q] # NoOp
               /\ \E w \in proposed : w.id = op_id'[q] /\ w.copy.val = DataOf(q)'
    <3>1. q # p /\ worker[q] = "running" /\ write_phase[q]
      BY <1>4, <2>3, Zenon DEF ClientCommand
    <3>2. callback'[q] = callback[q] /\ op_id'[q] = op_id[q]
      BY <1>3, <3>1, Zenon
    <3>3. callback[q] # NoOp /\ op_id[q] \in DOMAIN hist
      BY <3>1, Zenon DEF ProposalInv, OperationInv
    <3>4. DataOf(q)' = DataOf(q)
      BY <1>2, <3>1, <3>2, <3>3, Zenon DEF DataOf, ClientCommand, TypeOK
    <3>5. QED
      BY <3>1, <3>2, <3>3, <3>4, Zenon DEF ProposalInv
  <2>4. QED
    BY <1>2, <2>1, <2>2, <2>3, Zenon DEF ProposalInv, OneProposalPerOperation
<1>7. AckInv'
  <2>1. \A q, i : HoldsFor(q, i) => HoldsFor(q, i)'
    BY HoldsForGrows, Zenon DEF ClientCommand, storeVars
  <2>2. \A m \in msgs' : m \in msgs \/ m.type = "ReadProc"
    BY DEF ClientCommand, ReadProcMsg
  <2>3. \A q \in Proc : \A r \in acklist'[q] : q # p /\ r \in acklist[q]
    BY Zenon DEF ClientCommand, TypeOK
  <2>4. \A q \in Proc : q # p => op_id'[q] = op_id[q]
    BY <1>3, Zenon
  <2>5. QED
    BY <2>1, <2>2, <2>3, <2>4, Zenon DEF AckInv, ClientCommand
<1>8. HeldInv'
  BY Zenon DEF HeldInv, ClientCommand, storeVars
<1>9. QED
  BY <1>5, <1>6, <1>7, <1>8, Zenon DEF OpsInv

\* A crash, with or without a copy that it leaves renamed in the directory.
LEMMA GoDownKeepsOps ==
  ASSUME IInv, NEW p \in Proc, GoDown(p), stored \subseteq stored',
         \A q \in Proc : \A f \in files'[q] : Held(q, f) \in stored'
  PROVE  OpsInv'
<1>0. TypeOK /\ OperationInv /\ ProposalInv /\ AckInv /\ HeldInv
  BY Zenon DEF IInv, OpsInv
<1> USE <1>0
<1>1. /\ op_id'[p] = NoOp /\ callback'[p] = NoOp /\ ~reading'[p] /\ ~writing'[p]
      /\ ~write_phase'[p] /\ acklist'[p] = {} /\ worker'[p] = "down"
  BY Zenon DEF GoDown, ForgetOperation, TypeOK
<1>2. ASSUME NEW q \in Proc, q # p
      PROVE  /\ op_id'[q] = op_id[q] /\ callback'[q] = callback[q] /\ reading'[q] = reading[q]
             /\ writing'[q] = writing[q] /\ write_phase'[q] = write_phase[q]
             /\ acklist'[q] = acklist[q] /\ writeval'[q] = writeval[q]
             /\ readval'[q] = readval[q] /\ worker'[q] = worker[q] /\ sec'[q] = sec[q]
  BY <1>2, Zenon DEF GoDown, ForgetOperation, TypeOK
<1>3. hist' = hist /\ proposed' = proposed /\ msgs' \subseteq msgs
  BY Zenon DEF GoDown
<1>4. OperationInv'
  BY <1>1, <1>2, <1>3 DEF OperationInv
<1>5. ProposalInv'
  BY <1>1, <1>2, <1>3, SMTT(60) DEF ProposalInv, OneProposalPerOperation, DataOf
<1>6. AckInv'
  <2>1. \A q, i : HoldsFor(q, i) => HoldsFor(q, i)'
    BY <1>3, HoldsForGrows, Zenon
  <2>2. QED
    BY <1>1, <1>2, <1>3, <2>1, Zenon DEF AckInv
<1>7. HeldInv'
  BY <1>1, <1>2, Zenon DEF HeldInv
<1>8. QED
  BY <1>4, <1>5, <1>6, <1>7, Zenon DEF OpsInv

LEMMA CrashKeepsOps ==
  ASSUME IInv, NEW p \in Proc, Crash(p)
  PROVE  OpsInv'
BY GoDownKeepsOps, Zenon DEF Crash, IInv, OpsInv, HeldInv

LEMMA RecoverKeepsOps ==
  ASSUME IInv, NEW p \in Proc, Recover(p)
  PROVE  OpsInv'
<1>0. TypeOK /\ OperationInv /\ ProposalInv /\ AckInv /\ HeldInv
  BY Zenon DEF IInv, OpsInv
<1> USE <1>0
<1>1. /\ op_id'[p] = NoOp /\ callback'[p] = NoOp /\ ~reading'[p] /\ ~writing'[p]
      /\ ~write_phase'[p] /\ acklist'[p] = {}
  BY Zenon DEF Recover, ForgetOperation, TypeOK
<1>2. ASSUME NEW q \in Proc, q # p
      PROVE  /\ op_id'[q] = op_id[q] /\ callback'[q] = callback[q] /\ reading'[q] = reading[q]
             /\ writing'[q] = writing[q] /\ write_phase'[q] = write_phase[q]
             /\ acklist'[q] = acklist[q] /\ writeval'[q] = writeval[q]
             /\ readval'[q] = readval[q] /\ worker'[q] = worker[q] /\ sec'[q] = sec[q]
             /\ files'[q] = files[q]
  BY <1>2, Zenon DEF Recover, ForgetOperation, TypeOK
<1>3. hist' = hist /\ proposed' = proposed /\ msgs' = msgs /\ stored' = stored
  BY Zenon DEF Recover, sendVars
<1>4. OperationInv'
  BY <1>1, <1>2, <1>3 DEF OperationInv
<1>5. ProposalInv'
  BY <1>1, <1>2, <1>3, SMTT(60) DEF ProposalInv, OneProposalPerOperation, DataOf
<1>6. AckInv'
  <2>1. \A q, i : HoldsFor(q, i) => HoldsFor(q, i)'
    BY <1>3, HoldsForGrows, Zenon
  <2>2. QED
    BY <1>1, <1>2, <1>3, <2>1, Zenon DEF AckInv
<1>7. HeldInv'
  <2>1. sec'[p] \in files[p] \union {InitialCopy}
    BY RecoveredIsAFile, Zenon DEF Recover, TypeOK
  <2>2. files'[p] \subseteq files[p]
    BY Zenon DEF Recover, Newest, TypeOK
  <2>3. QED
    BY <1>2, <1>3, <2>1, <2>2, Zenon DEF HeldInv
<1>8. QED
  BY <1>4, <1>5, <1>6, <1>7, Zenon DEF OpsInv

-----------------------------------------------------------------------------
(***************************************************************************)
(* Steps that send out or store a copy                                     *)
(***************************************************************************)
\* However a store ends, the copy has been in a file.
LEMMA StoreHolds ==
  ASSUME IInv, NEW p \in Proc, NEW c,
         StoreReturns(p, c) \/ StorePanics(p, c) \/ StoreIsCutShort(p, c)
  PROVE  /\ stored \subseteq stored'
         /\ Held(p, c) \in stored'
         /\ \A q \in Proc : \A f \in files'[q] : Held(q, f) \in stored'
<1>0. TypeOK /\ OperationInv /\ ProposalInv /\ AckInv /\ HeldInv
  BY Zenon DEF IInv, OpsInv
<1> USE <1>0
<1>1. stored' = stored \union {Held(p, c)}
  BY Zenon DEF StoreReturns, StorePanics, StoreIsCutShort
<1>2. Renamed(files[p], c) \subseteq files[p] \union {c}
  BY Zenon DEF Renamed
<1>3. AfterWrite(files[p], data_access[p], c) \subseteq files[p] \union {c}
  BY <1>2, Zenon DEF AfterWrite
<1>4. files \in [Proc -> SUBSET Copy]
  BY Zenon DEF TypeOK
<1>5. \A q \in Proc : \A f \in files'[q] : f \in files[q] \/ (q = p /\ f = c)
  BY <1>2, <1>3, <1>4 DEF StoreReturns, StorePanics, StoreIsCutShort
<1>6. QED
  BY <1>1, <1>5, Zenon DEF HeldInv

\* The step by which an operation sends out the copy new.
LEMMA ProposeKeepsOps ==
  ASSUME IInv, NEW p \in Proc, NEW c, NEW new,
         op_id[p] # NoOp, ~write_phase[p], reading[p] \/ writing[p],
         EnterWritePhase(p, c), BroadcastWriteProc(p, new),
         new.val = (IF reading[p] THEN c.val ELSE writeval[p]),
         stored \subseteq stored',
         \A q \in Proc : worker[q] # "down" => Held(q, sec'[q]) \in stored',
         \A q \in Proc : \A f \in files'[q] : Held(q, f) \in stored',
         UNCHANGED <<worker, hist>>
  PROVE  OpsInv'
<1>0. TypeOK /\ OperationInv /\ ProposalInv /\ AckInv /\ HeldInv
  BY Zenon DEF IInv, OpsInv
<1> USE <1>0
<1> DEFINE w == [id |-> op_id[p], copy |-> new]
<1>1. /\ UNCHANGED <<op_id, callback, reading, writing, writeval>>
      /\ write_phase' = [write_phase EXCEPT ![p] = TRUE] /\ readval' = [readval EXCEPT ![p] = c.val]
      /\ acklist' = [acklist EXCEPT ![p] = {}] /\ proposed' = proposed \union {w}
      /\ msgs' = msgs \union {WriteProcMsg(p, q, op_id[p], new) : q \in Proc}
  BY Zenon DEF EnterWritePhase, BroadcastWriteProc
<1>2. /\ op_id[p] \in DOMAIN hist /\ hist[op_id[p]].proc = p /\ callback[p] # NoOp
      /\ \A v \in proposed : v.id # op_id[p]
      /\ \A q \in Proc : op_id[q] = op_id[p] => q = p
  BY DEF OperationInv, ProposalInv
<1>3. OperationInv'
  BY <1>1, Zenon DEF OperationInv
<1>4. ProposalInv'
  <2>1. \A v \in proposed' : v.id \in DOMAIN hist'
    BY <1>1, <1>2 DEF ProposalInv
  <2>2. OneProposalPerOperation'
    BY <1>1, <1>2 DEF ProposalInv, OneProposalPerOperation
  <2>3. ASSUME NEW q \in Proc, callback'[q] # NoOp, ~write_phase'[q]
        PROVE  \A v \in proposed' : v.id # op_id'[q]
    <3>1. q # p /\ ~write_phase[q]
      BY <1>1, <2>3, Zenon DEF TypeOK
    <3>2. QED
      BY <1>1, <1>2, <2>3, <3>1 DEF ProposalInv
  <2>4. ASSUME NEW q \in Proc, worker'[q] = "running", write_phase'[q]
        PROVE  /\ callback'[q] # NoOp
               /\ \E v \in proposed' : v.id = op_id'[q] /\ v.copy.val = DataOf(q)'
    <3>1. CASE q = p
      <4>1. readval'[p] = c.val
        BY <1>1, Zenon DEF TypeOK
      <4>2. writing[p] => writeval[p] = hist[op_id[p]].data
        BY Zenon DEF OperationInv
      <4>3. new.val = DataOf(p)'
        BY <1>1, <4>1, <4>2, Zenon DEF DataOf
      <4>4. w \in proposed' /\ w.id = op_id'[p] /\ w.copy.val = DataOf(p)'
        BY <1>1, <4>3, Zenon
      <4>5. callback'[p] # NoOp
        BY <1>1, <1>2, Zenon
      <4>6. QED
        BY <3>1, <4>4, <4>5, Zenon
    <3>2. CASE q # p
      <4>1. write_phase[q] /\ DataOf(q)' = DataOf(q)
        BY <1>1, <2>4, <3>2, Zenon DEF DataOf, TypeOK
      <4>2. QED
        BY <1>1, <2>4, <4>1, Zenon DEF ProposalInv
    <3>3. QED
      BY <3>1, <3>2, Zenon
  <2>5. QED
    BY <2>1, <2>2, <2>3, <2>4, Zenon DEF ProposalInv
<1>5. AckInv'
  <2>1. \A q, i : HoldsFor(q, i) => HoldsFor(q, i)'
    BY <1>1, HoldsForGrows, Zenon
  <2>2. \A m \in msgs' : m \in msgs \/ (m.type = "WriteProc" /\ m.id = op_id[p] /\ m.copy = new)
    BY <1>1 DEF WriteProcMsg
  <2>3. \A q \in Proc : acklist'[q] \subseteq acklist[q]
    BY <1>1, Zenon DEF TypeOK
  <2>4. QED
    BY <1>1, <2>1, <2>2, <2>3, Zenon DEF AckInv
<1>6. HeldInv'
  BY Zenon DEF HeldInv
<1>7. QED
  BY <1>3, <1>4, <1>5, <1>6, Zenon DEF OpsInv

LEMMA ValueQuorumReadingKeepsOps ==
  ASSUME IInv, NEW p \in Proc, NEW m \in msgs, ValueQuorumReading(p, m)
  PROVE  OpsInv'
<1>0. TypeOK /\ OperationInv /\ ProposalInv /\ AckInv /\ HeldInv
  BY DEF IInv, OpsInv
<1> USE <1>0
<1>1. PICK c \in Chosen(p, m) : EnterWritePhase(p, c) /\ BroadcastWriteProc(p, c)
  BY Zenon DEF ValueQuorumReading
<1>2. op_id[p] # NoOp /\ ~write_phase[p] /\ reading[p]
  BY Zenon DEF ValueQuorumReading, ValueCounts
<1>3. UNCHANGED <<worker, sec, files, stored, hist>>
  BY Zenon DEF ValueQuorumReading, storeVars
<1>4. QED
  BY <1>1, <1>2, <1>3, ProposeKeepsOps, Zenon DEF HeldInv

\* A step that stores c at p: the worker goes on and acknowledges WriteProc m, or
\* it panics, inside a WriteProc or at the start of a write phase.
LEMMA StoreStepKeepsOps ==
  ASSUME IInv, NEW p \in Proc, NEW c,
         StoreReturns(p, c) \/ StorePanics(p, c),
         \A q \in Proc : sec'[q] = IF q = p THEN c ELSE sec[q],
         \A q \in Proc : worker'[q] = worker[q] \/ (q = p /\ worker'[q] = "panicked"),
         \A q \in Proc : write_phase'[q] = write_phase[q] \/
                            (q = p /\ worker'[p] = "panicked" /\ write_phase'[q]),
         \A q \in Proc : readval'[q] = readval[q] \/ (q = p /\ worker'[p] = "panicked"),
         \A q \in Proc : acklist'[q] \subseteq acklist[q],
         \A m \in msgs' : m \in msgs \/ (m.type = "Ack" /\ HoldsFor(m.from, m.id)'),
         worker[p] = "running",
         UNCHANGED <<op_id, callback, reading, writing, writeval, proposed, hist>>
  PROVE  OpsInv'
<1>0. TypeOK /\ OperationInv /\ ProposalInv /\ AckInv /\ HeldInv
  BY Zenon DEF IInv, OpsInv
<1> USE <1>0
<1>1. /\ stored \subseteq stored'
      /\ Held(p, c) \in stored'
      /\ \A q \in Proc : \A f \in files'[q] : Held(q, f) \in stored'
  BY StoreHolds, Zenon
<1>2. OperationInv'
  BY Zenon DEF OperationInv
<1>3. ProposalInv'
  BY DEF ProposalInv, OneProposalPerOperation, DataOf
<1>4. AckInv'
  <2>1. \A q, i : HoldsFor(q, i) => HoldsFor(q, i)'
    BY <1>1, HoldsForGrows, Zenon
  <2>2. QED
    BY <2>1, Zenon DEF AckInv
<1>5. HeldInv'
  BY <1>1, Zenon DEF HeldInv
<1>6. QED
  BY <1>2, <1>3, <1>4, <1>5, Zenon DEF OpsInv

LEMMA ValueQuorumWritingKeepsOps ==
  ASSUME IInv, NEW p \in Proc, NEW m \in msgs, ValueQuorumWriting(p, m)
  PROVE  OpsInv'
<1>0. TypeOK /\ OperationInv /\ ProposalInv /\ AckInv /\ HeldInv
  BY DEF IInv, OpsInv
<1> USE <1>0
<1>1. PICK c \in Chosen(p, m) :
         \/ /\ StoreReturns(p, NextCopy(p, c))
            /\ EnterWritePhase(p, c)
            /\ sec' = [sec EXCEPT ![p] = NextCopy(p, c)]
            /\ BroadcastWriteProc(p, NextCopy(p, c))
            /\ UNCHANGED <<worker, hist, crashes>>
         \/ /\ StorePanics(p, NextCopy(p, c))
            /\ EnterWritePhase(p, c)
            /\ sec' = [sec EXCEPT ![p] = NextCopy(p, c)]
            /\ Panic(p)
            /\ UNCHANGED <<sendVars, hist, crashes>>
         \/ /\ StoreIsCutShort(p, NextCopy(p, c))
            /\ GoDown(p)
  BY Zenon DEF ValueQuorumWriting
<1> DEFINE new == NextCopy(p, c)
<1>2. /\ op_id[p] # NoOp /\ ~write_phase[p] /\ ~reading[p] /\ writing[p] /\ worker[p] = "running"
  BY Zenon DEF ValueQuorumWriting, ValueCounts, ReadQuorum, Delivered
<1>3. /\ stored \subseteq stored'
      /\ Held(p, new) \in stored'
      /\ \A q \in Proc : \A f \in files'[q] : Held(q, f) \in stored'
  BY <1>1, StoreHolds, Zenon
<1>4. CASE /\ EnterWritePhase(p, c)
           /\ sec' = [sec EXCEPT ![p] = new]
           /\ BroadcastWriteProc(p, new)
           /\ UNCHANGED <<worker, hist>>
  <2>1. new.val = writeval[p]
    BY Zenon DEF NextCopy
  <2>2. \A q \in Proc : worker[q] # "down" => Held(q, sec'[q]) \in stored'
    <3>1. \A q \in Proc : sec'[q] = IF q = p THEN new ELSE sec[q]
      BY <1>4, SectorSet, Zenon
    <3>2. \A q \in Proc : worker[q] # "down" => Held(q, sec[q]) \in stored
      BY Zenon DEF HeldInv
    <3>3. QED
      BY <1>3, <3>1, <3>2, Zenon
  <2> HIDE DEF new
  <2>3. QED
    BY <1>2, <1>3, <1>4, <2>1, <2>2, ProposeKeepsOps, Zenon
<1>5. CASE /\ StorePanics(p, new)
           /\ EnterWritePhase(p, c)
           /\ sec' = [sec EXCEPT ![p] = new]
           /\ Panic(p)
           /\ UNCHANGED <<sendVars, hist>>
  <2>1. \A q \in Proc : worker'[q] = worker[q] \/ (q = p /\ worker'[q] = "panicked")
    BY <1>5, Zenon DEF Panic, TypeOK
  <2>2. worker'[p] = "panicked"
    BY <1>5, Zenon DEF Panic, TypeOK
  <2>3. \A q \in Proc : /\ write_phase'[q] = write_phase[q] \/ (q = p /\ write_phase'[q])
                        /\ readval'[q] = readval[q] \/ q = p
                        /\ acklist'[q] \subseteq acklist[q]
    BY <1>5, Zenon DEF EnterWritePhase, TypeOK
  <2>4. UNCHANGED <<op_id, callback, reading, writing, writeval, msgs, proposed, hist>>
    BY <1>5, Zenon DEF EnterWritePhase, sendVars
  <2>5. \A q \in Proc : sec'[q] = IF q = p THEN new ELSE sec[q]
    BY <1>5, SectorSet, Zenon
  <2> HIDE DEF new
  <2>6. QED
    BY <1>2, <1>5, <2>1, <2>2, <2>3, <2>4, <2>5, StoreStepKeepsOps
<1>6. CASE GoDown(p)
  BY <1>3, <1>6, GoDownKeepsOps, Zenon
<1>7. QED
  BY <1>1, <1>4, <1>5, <1>6, Zenon

LEMMA WriteProcStoredKeepsOps ==
  ASSUME IInv, NEW p \in Proc, NEW m \in msgs, WriteProcStored(p, m)
  PROVE  OpsInv'
<1>0. TypeOK /\ OperationInv /\ ProposalInv /\ AckInv /\ HeldInv
  BY DEF IInv, OpsInv
<1> USE <1>0
<1>1. worker[p] = "running" /\ m.type = "WriteProc" /\ m.copy \in Copy
  BY Zenon DEF WriteProcStored, Delivered, TypeOK, Message
<1>2. /\ stored \subseteq stored'
      /\ Held(p, m.copy) \in stored'
      /\ \A q \in Proc : \A f \in files'[q] : Held(q, f) \in stored'
  BY StoreHolds, Zenon DEF WriteProcStored
<1>3. CASE /\ StoreReturns(p, m.copy)
           /\ sec' = [sec EXCEPT ![p] = m.copy]
           /\ msgs' = msgs \union {AckMsg(p, m.from, m.id)}
           /\ UNCHANGED <<worker, opVars, proposed, hist>>
  <2>1. [id |-> m.id, copy |-> m.copy] \in proposed
    BY <1>1, Zenon DEF AckInv
  <2>2. ~Newer(m.copy, Held(p, m.copy)) /\ Held(p, m.copy).proc = p
    BY <1>1 DEF Newer, Held, Copy
  <2>3. p \in Holders(m.copy)'
    BY <1>2, <2>2, Zenon DEF Holders
  <2>4. HoldsFor(p, m.id)'
    BY <1>3, <2>1, <2>3, Zenon DEF HoldsFor
  <2>5. \A r \in msgs' : r \in msgs \/ (r.type = "Ack" /\ HoldsFor(r.from, r.id)')
    <3>1. /\ AckMsg(p, m.from, m.id).type = "Ack" /\ AckMsg(p, m.from, m.id).from = p
          /\ AckMsg(p, m.from, m.id).id = m.id
      BY Zenon DEF AckMsg
    <3>2. QED
      BY <1>3, <2>4, <3>1, Zenon
  <2>6. \A q \in Proc : sec'[q] = IF q = p THEN m.copy ELSE sec[q]
    BY <1>3, SectorSet, Zenon
  <2>7. QED
    BY <1>1, <1>3, <2>5, <2>6, StoreStepKeepsOps, Zenon DEF opVars
<1>4. CASE /\ StorePanics(p, m.copy)
           /\ sec' = [sec EXCEPT ![p] = m.copy]
           /\ Panic(p)
           /\ UNCHANGED <<opVars, sendVars, hist>>
  <2>1. \A q \in Proc : worker'[q] = worker[q] \/ (q = p /\ worker'[q] = "panicked")
    BY <1>4, Zenon DEF Panic, TypeOK
  <2>2. \A q \in Proc : sec'[q] = IF q = p THEN m.copy ELSE sec[q]
    BY <1>4, SectorSet, Zenon
  <2>3. QED
    BY <1>1, <1>4, <2>1, <2>2, StoreStepKeepsOps, Zenon DEF opVars, sendVars
<1>5. CASE GoDown(p)
  BY <1>2, <1>5, GoDownKeepsOps, Zenon
<1>6. QED
  BY <1>3, <1>4, <1>5, Zenon DEF WriteProcStored

-----------------------------------------------------------------------------
(***************************************************************************)
(* The response, and every step                                            *)
(***************************************************************************)
\* The response: the Acks that were counted all come from holders of the one copy
\* the operation has sent out, and they are a majority.
LEMMA AckCompletesKeepsOps ==
  ASSUME IInv, NEW p \in Proc, NEW m \in msgs, AckCompletes(p, m)
  PROVE  OpsInv'
<1>0. TypeOK /\ OperationInv /\ ProposalInv /\ AckInv /\ HeldInv
  BY DEF IInv, OpsInv
<1> USE <1>0
<1> DEFINE id == op_id[p]
<1>1. /\ m.type = "Ack" /\ m.id = id /\ id # NoOp /\ write_phase[p] /\ worker[p] = "running"
      /\ (reading[p] \/ writing[p])
  BY Zenon DEF AckCompletes, AckCounts, AckQuorum, Delivered
<1>2. callback[p] = id /\ id \in DOMAIN hist /\ hist[id].proc = p
  BY <1>1, Zenon DEF OperationInv
<1>3. hist' = [hist EXCEPT ![id] = Answered(p, hist[id])] /\ callback' = [callback EXCEPT ![p] = NoOp]
  BY <1>1, <1>2, Zenon DEF AckCompletes, Respond
<1>4. /\ DOMAIN hist' = DOMAIN hist /\ \A i \in DOMAIN hist : i # id => hist'[i] = hist[i]
      /\ hist'[id].proc = p /\ hist'[id].data = DataOf(p)
  <2>1. hist[id] \in ClientOp /\ hist \in Seq(ClientOp)
    BY <1>2 DEF TypeOK
  <2>2. hist'[id] = Answered(p, hist[id])
    BY <1>2, <1>3, <2>1, Zenon
  <2>3. QED
    BY <1>2, <1>3, <2>1, <2>2, Zenon DEF Answered, DataOf, ClientOp
<1>5. /\ ~reading'[p] /\ ~writing'[p] /\ ~write_phase'[p] /\ callback'[p] = NoOp /\ acklist'[p] = {}
      /\ UNCHANGED <<worker, sec, op_id, writeval, readval, files, stored, msgs, proposed>>
  BY <1>3, Zenon DEF AckCompletes, OperationInv, TypeOK, storeVars, sendVars
<1>6. ASSUME NEW q \in Proc, q # p
      PROVE  /\ reading'[q] = reading[q] /\ writing'[q] = writing[q] /\ callback'[q] = callback[q]
             /\ write_phase'[q] = write_phase[q] /\ acklist'[q] = acklist[q]
             /\ op_id[q] # NoOp => op_id[q] # id /\ op_id[q] \in DOMAIN hist
  BY <1>2, <1>3, <1>6, Zenon DEF AckCompletes, OperationInv, TypeOK
<1>7. OperationInv'
  <2> SUFFICES ASSUME NEW q \in Proc
               PROVE  /\ op_id'[q] # NoOp => op_id'[q] \in DOMAIN hist' /\ hist'[op_id'[q]].proc = q
                      /\ callback'[q] # NoOp => callback'[q] = op_id'[q]
                      /\ (reading'[q] \/ writing'[q]) <=> callback'[q] # NoOp
                      /\ ~(reading'[q] /\ writing'[q])
                      /\ writing'[q] => writeval'[q] = hist'[op_id'[q]].data
    BY Zenon DEF OperationInv
  <2>1. CASE q = p
    BY <1>2, <1>4, <1>5, <2>1, Zenon
  <2>2. CASE q # p
    BY <1>4, <1>5, <1>6, <2>2 DEF OperationInv
  <2>3. QED
    BY <2>1, <2>2, Zenon
<1>8. ProposalInv'
  <2>1. ASSUME NEW q \in Proc, worker'[q] = "running", write_phase'[q]
        PROVE  /\ callback'[q] # NoOp
               /\ \E w \in proposed' : w.id = op_id'[q] /\ w.copy.val = DataOf(q)'
    <3>1. q # p /\ worker[q] = "running" /\ write_phase[q]
      BY <1>5, <1>6, <2>1, Zenon
    <3>2. callback[q] # NoOp /\ op_id[q] # NoOp
      BY <3>1, Zenon DEF ProposalInv, OperationInv
    <3>3. DataOf(q)' = DataOf(q)
      BY <1>4, <1>5, <1>6, <3>1, <3>2, Zenon DEF DataOf
    <3>4. QED
      BY <1>5, <1>6, <3>1, <3>2, <3>3 DEF ProposalInv
  <2>2. ASSUME NEW q \in Proc, callback'[q] # NoOp, ~write_phase'[q]
        PROVE  \A w \in proposed' : w.id # op_id'[q]
    BY <1>5, <1>6, <2>2, Zenon DEF ProposalInv
  <2>3. QED
    BY <1>4, <1>5, <2>1, <2>2, Zenon DEF ProposalInv, OneProposalPerOperation
<1>9. AckInv'
  <2>1. \A q, i : HoldsFor(q, i) => HoldsFor(q, i)'
    BY <1>5, HoldsForGrows, Zenon
  <2>2. QED
    BY <1>5, <1>6, <2>1, Zenon DEF AckInv
<1>10. HeldInv'
  BY <1>5, Zenon DEF HeldInv
<1>11. QED
  BY <1>7, <1>8, <1>9, <1>10, Zenon DEF OpsInv

LEMMA NextKeepsOps ==
  ASSUME IInv, [Next]_vars
  PROVE  OpsInv'
<1>0. TypeOK /\ OperationInv /\ ProposalInv /\ AckInv /\ HeldInv
  BY Zenon DEF IInv, OpsInv
<1> USE <1>0
<1>1. CASE UNCHANGED vars
  <2>1. \A p \in Proc : \A q \in acklist'[p] : HoldsFor(q, op_id[p])
    BY <1>1, Zenon DEF vars, opVars, AckInv
  <2>2. UNCHANGED <<worker, sec, op_id, callback, reading, writing, write_phase, writeval,
                    readval, storeVars, sendVars, hist>>
    BY <1>1, Zenon DEF vars, opVars
  <2>3. QED
    BY <2>1, <2>2, CountKeepsOps, Zenon
<1>2. ASSUME NEW p \in Proc, ReadCommand(p) PROVE OpsInv'
  BY <1>2, ClientCommandKeepsOps, Zenon DEF ReadCommand, Data
<1>3. ASSUME NEW p \in Proc, WriteCommand(p) PROVE OpsInv'
  BY <1>3, ClientCommandKeepsOps, Zenon DEF WriteCommand, Data
<1>4. ASSUME NEW p \in Proc, Crash(p) PROVE OpsInv'
  BY <1>4, CrashKeepsOps, Zenon
<1>5. ASSUME NEW p \in Proc, Recover(p) PROVE OpsInv'
  BY <1>5, RecoverKeepsOps
<1>6. ASSUME NEW p \in Proc, NEW m \in msgs, SystemCommand(p, m) PROVE OpsInv'
  <2>1. CASE ReadProc(p, m)
    BY <2>1, ReadProcKeepsOps, Zenon
  <2>2. CASE ReplyWithoutOperation(p, m)
    <3>1. \A q \in Proc : worker'[q] = worker[q] \/ (worker[q] = "running" /\ worker'[q] = "panicked")
      BY <2>2, Zenon DEF ReplyWithoutOperation, Delivered, Panic, TypeOK
    <3>2. QED
      BY <2>2, <3>1, CountKeepsOps, Zenon DEF ReplyWithoutOperation, opVars, AckInv
  <2>3. CASE ValueRecorded(p, m)
    <3>1. UNCHANGED <<worker, sec, op_id, callback, reading, writing, write_phase, acklist,
                      writeval, readval, storeVars, sendVars, hist>>
      BY <2>3, Zenon DEF ValueRecorded
    <3>2. \A q \in Proc : \A r \in acklist'[q] : HoldsFor(r, op_id[q])
      BY <3>1, Zenon DEF AckInv
    <3>3. QED
      BY <3>1, <3>2, CountKeepsOps, Zenon
  <2>4. CASE ValueQuorumReading(p, m)
    BY <2>4, ValueQuorumReadingKeepsOps
  <2>5. CASE ValueQuorumWriting(p, m)
    BY <2>5, ValueQuorumWritingKeepsOps
  <2>6. CASE WriteProcStored(p, m)
    BY <2>6, WriteProcStoredKeepsOps
  <2>7. CASE WriteProcOld(p, m)
    BY <2>7, WriteProcOldKeepsOps
  <2>8. CASE AckRecorded(p, m)
    <3>1. HoldsFor(m.from, op_id[p])
      BY <2>8, Zenon DEF AckRecorded, AckCounts, Delivered, AckInv
    <3>2. \A q \in Proc : \A r \in acklist'[q] : HoldsFor(r, op_id[q])
      BY <2>8, <3>1, Zenon DEF AckRecorded, AckInv, TypeOK
    <3>3. QED
      <4>1. UNCHANGED <<worker, sec, op_id, callback, reading, writing, write_phase,
                        writeval, readval, storeVars, sendVars, hist>>
        BY <2>8, Zenon DEF AckRecorded
      <4>2. QED
        BY <3>2, <4>1, CountKeepsOps, Zenon
  <2>9. CASE AckCompletes(p, m)
    BY <2>9, AckCompletesKeepsOps
  <2>10. QED
    BY <1>6, <2>1, <2>2, <2>3, <2>4, <2>5, <2>6, <2>7, <2>8, <2>9, Zenon DEF SystemCommand
<1>7. QED
  BY <1>1, <1>2, <1>3, <1>4, <1>5, <1>6, Zenon DEF Next

-----------------------------------------------------------------------------
(***************************************************************************)
(* The history                                                             *)
(***************************************************************************)
\* A step that leaves the history of commands starts no operation.
NoCommand ==
    /\ hist' = hist
    /\ \A p \in Proc : /\ reading'[p] => reading[p] /\ op_id'[p] = op_id[p]
                       /\ writing'[p] => writing[p] /\ op_id'[p] = op_id[p]

\* A step starts an operation, completes one, or does neither.
LEMMA HistorySteps ==
  ASSUME TypeOK, [Next]_vars
  PROVE  \/ NoCommand
         \/ \E p \in Proc, kind \in {"Read", "Write"}, data \in Data : ClientCommand(p, kind, data)
         \/ \E p \in Proc : \E m \in msgs : AckCompletes(p, m)
<1> USE DEF NoCommand
<1>1. ASSUME NEW p \in Proc, ForgetOperation(p), hist' = hist PROVE NoCommand
  BY <1>1, Zenon DEF ForgetOperation, TypeOK
<1>2. ASSUME UNCHANGED <<op_id, reading, writing, hist>> PROVE NoCommand
  BY <1>2, Zenon
<1>3. CASE UNCHANGED vars
  BY <1>2, <1>3, Zenon DEF vars, opVars
<1>4. ASSUME NEW p \in Proc, ReadCommand(p) \/ WriteCommand(p)
      PROVE  \E kind \in {"Read", "Write"}, data \in Data : ClientCommand(p, kind, data)
  BY <1>4, Zenon DEF ReadCommand, WriteCommand, Data
<1>5. ASSUME NEW p \in Proc, Crash(p) \/ Recover(p) PROVE NoCommand
  BY <1>1, <1>5, Zenon DEF Crash, GoDown, Recover
<1>6. ASSUME NEW p \in Proc, NEW m \in msgs, SystemCommand(p, m), ~AckCompletes(p, m)
      PROVE  NoCommand
  <2>1. CASE ReadProc(p, m) \/ ReplyWithoutOperation(p, m) \/ WriteProcOld(p, m)
    BY <1>2, <2>1, Zenon DEF ReadProc, ReplyWithoutOperation, WriteProcOld, opVars
  <2>2. CASE ValueRecorded(p, m) \/ AckRecorded(p, m)
    BY <1>2, <2>2, Zenon DEF ValueRecorded, AckRecorded
  <2>3. CASE ValueQuorumReading(p, m)
    BY <1>2, <2>3, Zenon DEF ValueQuorumReading, EnterWritePhase
  <2>4. CASE ValueQuorumWriting(p, m)
    <3>1. ASSUME NEW c, EnterWritePhase(p, c), hist' = hist PROVE NoCommand
      BY <1>2, <3>1, Zenon DEF EnterWritePhase
    <3>2. ASSUME GoDown(p) PROVE NoCommand
      BY <1>1, <3>2, Zenon DEF GoDown
    <3>3. QED
      BY <2>4, <3>1, <3>2, Zenon DEF ValueQuorumWriting
  <2>5. CASE WriteProcStored(p, m)
    <3>1. ASSUME GoDown(p) PROVE NoCommand
      BY <1>1, <3>1 DEF GoDown
    <3>2. QED
      BY <1>2, <2>5, <3>1, Zenon DEF WriteProcStored, opVars
  <2>6. QED
    BY <1>6, <2>1, <2>2, <2>3, <2>4, <2>5, Zenon DEF SystemCommand
<1>7. QED
  BY <1>3, <1>4, <1>5, <1>6, Zenon DEF Next

\* What the history says of a command stays, but for the data that a read returns.
LEMMA HistoryKept ==
  ASSUME IInv, KindInv, [Next]_vars
  PROVE  /\ KindInv'
         /\ \A i \in DOMAIN hist :
               /\ i \in DOMAIN hist'
               /\ hist'[i].proc = hist[i].proc
               /\ hist'[i].kind = hist[i].kind
               /\ hist'[i].before = hist[i].before
               /\ hist[i].kind = "Write" => hist'[i].data = hist[i].data
<1>1. CASE NoCommand
  BY <1>1, Zenon DEF NoCommand, KindInv
<1>2. ASSUME NEW p \in Proc, NEW kind \in {"Read", "Write"}, NEW data \in Data,
             ClientCommand(p, kind, data)
      PROVE  /\ KindInv' /\ \A i \in DOMAIN hist : i \in DOMAIN hist' /\ hist'[i] = hist[i]
  <2> DEFINE id == Len(hist) + 1
             op == [proc |-> p, kind |-> kind, data |-> data, done |-> FALSE, before |-> Returned]
  <2>1. /\ hist' = Append(hist, op) /\ op_id' = [op_id EXCEPT ![p] = id] /\ callback[p] = NoOp
        /\ reading' = IF kind = "Read" THEN [reading EXCEPT ![p] = TRUE] ELSE reading
        /\ writing' = IF kind = "Write" THEN [writing EXCEPT ![p] = TRUE] ELSE writing
    BY <1>2, Zenon DEF ClientCommand
  <2>2. /\ hist \in Seq(ClientOp) /\ op_id \in [Proc -> OpId \union {NoOp}]
        /\ DOMAIN reading = Proc /\ DOMAIN writing = Proc
    BY Zenon DEF IInv, TypeOK
  <2>3. op.kind = kind
    BY Zenon
  <2> HIDE DEF op
  <2>4. hist'[id] = op /\ \A i \in DOMAIN hist : i \in DOMAIN hist' /\ hist'[i] = hist[i]
    BY <2>1, <2>2
  <2>5. ASSUME NEW q \in Proc, reading'[q] \/ writing'[q], q # p
        PROVE  /\ op_id'[q] = op_id[q] /\ op_id[q] \in DOMAIN hist
               /\ (reading'[q] => reading[q]) /\ (writing'[q] => writing[q])
    <3>1. op_id'[q] = op_id[q] /\ reading'[q] = reading[q] /\ writing'[q] = writing[q]
      BY <2>1, <2>2, <2>5, Zenon
    <3>2. callback[q] # NoOp
      BY <2>5, <3>1 DEF IInv, OpsInv, OperationInv
    <3>3. QED
      BY <3>1, <3>2 DEF IInv, OpsInv, OperationInv
  <2>6. ~reading[p] /\ ~writing[p]
    BY <2>1 DEF IInv, OpsInv, OperationInv
  <2>7. op_id'[p] = id /\ (reading'[p] => kind = "Read") /\ (writing'[p] => kind = "Write")
    BY <2>1, <2>2, <2>6, Zenon
  <2>8. KindInv'
    BY <2>3, <2>4, <2>5, <2>7 DEF KindInv
  <2>9. QED
    BY <2>4, <2>8, Zenon
<1>3. ASSUME NEW p \in Proc, NEW m \in msgs, AckCompletes(p, m)
      PROVE  /\ KindInv'
             /\ \A i \in DOMAIN hist :
               /\ i \in DOMAIN hist'
               /\ hist'[i].proc = hist[i].proc
               /\ hist'[i].kind = hist[i].kind
               /\ hist'[i].before = hist[i].before
               /\ hist[i].kind = "Write" => hist'[i].data = hist[i].data
  <2> DEFINE id == op_id[p]
  <2>1. reading[p] \/ writing[p]
    BY <1>3, Zenon DEF AckCompletes, AckQuorum
  <2>2. callback[p] = id /\ id # NoOp /\ id \in DOMAIN hist
    BY <2>1 DEF IInv, OpsInv, OperationInv
  <2>3. hist' = [hist EXCEPT ![id] = Answered(p, hist[id])]
    BY <1>3, <2>2, Zenon DEF AckCompletes, Respond
  <2>4. hist \in Seq(ClientOp) /\ hist[id] \in ClientOp
    BY <2>2 DEF IInv, TypeOK
  <2>5. /\ DOMAIN hist' = DOMAIN hist /\ hist'[id] = Answered(p, hist[id])
        /\ \A i \in DOMAIN hist : i # id => hist'[i] = hist[i]
    BY <2>2, <2>3, <2>4, Zenon
  <2>6. /\ Answered(p, hist[id]).proc = hist[id].proc /\ Answered(p, hist[id]).kind = hist[id].kind
        /\ Answered(p, hist[id]).before = hist[id].before
        /\ ~reading[p] => Answered(p, hist[id]).data = hist[id].data
    BY <2>4, Zenon DEF Answered, ClientOp
  <2>7. hist[id].kind = "Write" => ~reading[p]
    BY Zenon DEF KindInv
  <2>8. \A q \in Proc : op_id'[q] = op_id[q] /\ (reading'[q] => reading[q]) /\ (writing'[q] => writing[q])
    BY <1>3, Zenon DEF AckCompletes, IInv, TypeOK
  <2>9. \A q \in Proc : reading[q] \/ writing[q] => op_id[q] \in DOMAIN hist
    BY DEF IInv, OpsInv, OperationInv
  <2>10. \A i \in DOMAIN hist : hist'[i].kind = hist[i].kind
    BY <2>5, <2>6, Zenon
  <2>11. KindInv'
    BY <2>8, <2>9, <2>10 DEF KindInv
  <2>12. QED
    BY <2>5, <2>6, <2>7, <2>10, <2>11, Zenon
<1>4. QED
  BY <1>1, <1>2, <1>3, HistorySteps, Zenon DEF IInv

-----------------------------------------------------------------------------
(***************************************************************************)
(* What a restart finds                                                    *)
(***************************************************************************)
LEMMA NewerIrreflexive ==
  ASSUME NEW a \in Copy, NEW b \in Copy, Newer(a, b)
  PROVE  a # b /\ ~Newer(b, a) /\ ~SameVersion(a, b)
BY DEF Copy, Newer, SameVersion

\* sectors_crash_recovery leaves the newest file, and only that one.
LEMMA NewestIs ==
  ASSUME NEW dir \in SUBSET Copy, NEW f \in dir, \A g \in dir : g = f \/ Newer(f, g)
  PROVE  Newest(dir) = {f} /\ Recovered(dir) = f
<1>1. ~Newer(f, f)
  BY DEF Newer, Copy
<1>2. \A g \in dir : ~Newer(g, f)
  BY <1>1, NewerIrreflexive, Zenon
<1>3. Newest(dir) = {f}
  BY <1>2, Zenon DEF Newest
<1>4. QED
  BY <1>3, Zenon DEF Recovered

LEMMA RecoveredFromNone ==
  Newest({}) = {} /\ Recovered({}) = InitialCopy
BY Zenon DEF Newest, Recovered

LEMMA OnlyRecovers ==
  ASSUME NEW c \in Copy
  PROVE  Recovered(Only(c)) = c /\ HasNewest(Only(c)) /\ Newest(Only(c)) = Only(c)
<1>1. CASE c = InitialCopy
  BY <1>1, RecoveredFromNone, Zenon DEF Only, HasNewest
<1>2. CASE c # InitialCopy
  BY <1>2, NewestIs DEF Only, HasNewest
<1>3. QED
  BY <1>1, <1>2, Zenon

\* A restart of a process that was cut short finds one copy, and keeps finding it.
LEMMA RestartFinds ==
  ASSUME NEW dir \in SUBSET Copy, HasNewest(dir), InitialCopy \notin dir
  PROVE  /\ Recovered(dir) \in Copy
         /\ Newest(dir) = Only(Recovered(dir))
         /\ \A f \in dir : ~Newer(f, Recovered(dir))
<1>1. CASE dir = {}
  BY <1>1, RecoveredFromNone, InitialCopyType, Zenon DEF Only
<1>2. CASE dir # {}
  <2>1. PICK f \in dir : \A g \in dir : g = f \/ Newer(f, g)
    BY <1>2, Zenon DEF HasNewest
  <2>2. Newest(dir) = {f} /\ Recovered(dir) = f
    BY <2>1, NewestIs, Zenon
  <2>3. \A g \in dir : ~Newer(g, f)
    BY <2>2, Zenon DEF Newest
  <2>4. QED
    BY <2>2, <2>3, Zenon DEF Only
<1>3. QED
  BY <1>1, <1>2, Zenon

\* SectorsManager::write of a newer copy d in the directory of a register that
\* holds c: the old file is found, and after it, or after a crash inside it, a
\* restart finds d.
LEMMA WriteOfNewer ==
  ASSUME NEW c \in Genuine, NEW d \in Genuine, Newer(d, c)
  PROVE  /\ OldFileExists(Only(c), VersionOf(c), d)
         /\ AfterWrite(Only(c), VersionOf(c), d) = Only(d)
         /\ HasNewest(Renamed(Only(c), d))
         /\ Recovered(Renamed(Only(c), d)) = d
         /\ d # InitialCopy
<1>1. c \in Copy /\ d \in Copy /\ d # InitialCopy
  BY DEF Genuine, Copy, Newer, InitialCopy
<1>2. ~SameVersion(d, c) /\ ~SameVersion(c, d) /\ c # d
  BY <1>1, NewerIrreflexive, Zenon DEF SameVersion
<1>3. SameVersion(c, VersionOf(c)) /\ (SameVersion(d, VersionOf(c)) <=> SameVersion(d, c))
  BY Zenon DEF SameVersion, VersionOf
<1>4. CASE c = InitialCopy
  <2>1. VersionOf(c) = NoVersion /\ Only(c) = {}
    BY <1>4, Zenon DEF VersionOf, InitialCopy, NoVersion, Only
  <2>2. Renamed({}, d) = {d}
    BY Zenon DEF Renamed
  <2>3. QED
    BY <1>1, <2>1, <2>2, NewestIs, Zenon DEF OldFileExists, AfterWrite, HasNewest, Only
<1>5. CASE c # InitialCopy
  <2>1. Only(c) = {c} /\ VersionOf(c) # NoVersion
    BY <1>5 DEF Only, Genuine, VersionOf, NoVersion
  <2>2. Renamed({c}, d) = {c, d}
    BY <1>2, Zenon DEF Renamed
  <2>3. OldFileExists({c}, VersionOf(c), d)
    BY <1>3, <2>2, Zenon DEF OldFileExists
  <2>4. AfterWrite({c}, VersionOf(c), d) = {d}
    BY <1>2, <1>3, <2>1, <2>2, Zenon DEF AfterWrite
  <2>5. HasNewest({c, d}) /\ Recovered({c, d}) = d
    BY <1>1, NewestIs DEF HasNewest
  <2>6. QED
    BY <1>1, <2>1, <2>2, <2>3, <2>4, <2>5, Zenon DEF Only
<1>6. QED
  BY <1>4, <1>5, Zenon

\* What a step does to the files and the register of q: nothing, but that q may stop;
Kept(q) ==
    /\ files'[q] = files[q]
    /\ worker'[q] = "running" => /\ worker[q] = "running"
                                 /\ sec'[q] = sec[q] /\ data_access'[q] = data_access[q]
    /\ \A s \in stored' : s.proc = q => s \in stored

\* a restart;
Restarted(q) ==
    /\ files'[q] = Newest(files[q])
    /\ sec'[q] = Recovered(files[q])
    /\ data_access'[q] = VersionOf(sec'[q])
    /\ \A s \in stored' : s.proc = q => s \in stored

\* or a call of SectorsManager::write with d that returns, panics or is cut short.
Wrote(q, d) ==
    /\ worker[q] = "running"
    /\ \/ /\ files'[q] = AfterWrite(files[q], data_access[q], d)
          /\ sec'[q] = d
          /\ data_access'[q] = VersionOf(d)
       \/ /\ files'[q] = Renamed(files[q], d)
          /\ worker'[q] = "panicked"
          /\ ~OldFileExists(files[q], data_access[q], d)
       \/ /\ files'[q] = Renamed(files[q], d)
          /\ worker'[q] = "down"
    /\ \A s \in stored' : s.proc = q => s \in stored \/ s = Held(q, d)

FileStep(q) ==
    \/ Kept(q)
    \/ Restarted(q)
    \/ \E d \in Genuine \ {InitialCopy} : Wrote(q, d) /\ (lexical' => Newer(d, sec[q]))

\* A step that leaves the files.
LEMMA FilesKept ==
  ASSUME UNCHANGED <<sec, files, data_access, stored>>,
         \A q \in Proc : worker'[q] = "running" => worker[q] = "running"
  PROVE  \A q \in Proc : FileStep(q)
BY Zenon DEF FileStep, Kept

\* A store of p is one of its three outcomes, and leaves the other processes.
LEMMA StoreWrites ==
  ASSUME TypeOK, NEW p \in Proc, NEW d, worker[p] = "running",
         \/ /\ StoreReturns(p, d) /\ sec' = [sec EXCEPT ![p] = d] /\ worker' = worker
         \/ /\ StorePanics(p, d) /\ sec' = [sec EXCEPT ![p] = d] /\ Panic(p)
         \/ StoreIsCutShort(p, d) /\ GoDown(p)
  PROVE  Wrote(p, d) /\ \A q \in Proc \ {p} : Kept(q)
<1>1. /\ DOMAIN files = Proc /\ DOMAIN data_access = Proc /\ DOMAIN sec = Proc /\ DOMAIN worker = Proc
  BY Zenon DEF TypeOK
<1>2. /\ \A s \in stored' : s \in stored \/ s = Held(p, d)
      /\ \A q \in Proc \ {p} : files'[q] = files[q] /\ data_access'[q] = data_access[q]
  BY <1>1, Zenon DEF StoreReturns, StorePanics, StoreIsCutShort
<1>3. \A q \in Proc \ {p} : sec'[q] = sec[q] /\ worker'[q] = worker[q]
  BY <1>1, Zenon DEF GoDown, Panic
<1>4. Held(p, d).proc = p
  BY Zenon DEF Held
<1>5. \A q \in Proc \ {p} : Kept(q)
  BY <1>2, <1>3, <1>4, Zenon DEF Kept
<1>6. \/ /\ files'[p] = AfterWrite(files[p], data_access[p], d)
         /\ sec'[p] = d /\ data_access'[p] = VersionOf(d)
      \/ /\ files'[p] = Renamed(files[p], d)
         /\ worker'[p] = "panicked" /\ ~OldFileExists(files[p], data_access[p], d)
      \/ files'[p] = Renamed(files[p], d) /\ worker'[p] = "down"
  BY <1>1, Zenon DEF StoreReturns, StorePanics, StoreIsCutShort, GoDown, Panic
<1>7. QED
  BY <1>2, <1>5, <1>6, Zenon DEF Wrote

\* The copy of a write is newer than the one its process holds, if its choice was
\* the highest: the process puts its own copy in the list.
LEMMA NextIsNewer ==
  ASSUME TypeOK, NEW p \in Proc, NEW m \in msgs, m.type = "Value", NEW c \in Chosen(p, m)
  PROVE  /\ NextCopy(p, c) \in Genuine \ {InitialCopy}
         /\ c \in Newest(Candidates(p, m)) => Newer(NextCopy(p, c), sec[p])
<1>1. c \in Copy /\ sec[p] \in Copy /\ writeval[p] \in Data
  BY ChosenType, Zenon DEF TypeOK
<1>2. c.ts \in Nat /\ c.ts + 1 \in Nat /\ c.ts + 1 > 0 /\ p \in 0 .. N /\ p > 0
  BY <1>1, NAssumption DEF Copy, Proc
<1>3. NextCopy(p, c) \in Copy
  BY <1>1, <1>2, Zenon DEF NextCopy, Copy
<1>4. NextCopy(p, c).ts > 0 /\ NextCopy(p, c).wr > 0 /\ NextCopy(p, c).ts = c.ts + 1
  BY <1>2, Zenon DEF NextCopy
<1>5. NextCopy(p, c) \in Genuine \ {InitialCopy}
  BY <1>3, <1>4 DEF Genuine, InitialCopy
<1>6. sec[p] \in Candidates(p, m)
  BY Zenon DEF Candidates, FullReadlist, Insert
<1>7. ASSUME c \in Newest(Candidates(p, m)) PROVE Newer(NextCopy(p, c), sec[p])
  <2>1. ~Newer(sec[p], c)
    BY <1>6, <1>7, Zenon DEF Newest
  <2>2. QED
    BY <1>1, <1>4, <2>1 DEF Newer, Copy
<1>8. QED
  BY <1>5, <1>7, Zenon

\* Every step is one of these for every process, and lexical never comes back.
LEMMA FileSteps ==
  ASSUME TypeOK, CopiesIn(Genuine), [Next]_vars
  PROVE  (\A q \in Proc : FileStep(q)) /\ (lexical' => lexical)
<1>1. CASE UNCHANGED vars
  BY <1>1, FilesKept, Zenon DEF vars, storeVars
<1>2. ASSUME NEW p \in Proc, ReadCommand(p) \/ WriteCommand(p)
      PROVE  (\A q \in Proc : FileStep(q)) /\ (lexical' => lexical)
  <2>1. PICK kind, data : ClientCommand(p, kind, data)
    BY <1>2, Zenon DEF ReadCommand, WriteCommand
  <2>2. UNCHANGED <<worker, sec, storeVars, lexical>>
    BY <2>1, Zenon DEF ClientCommand
  <2>3. QED
    BY <2>2, FilesKept, Zenon DEF storeVars
<1>3. ASSUME NEW p \in Proc, Crash(p)
      PROVE  (\A q \in Proc : FileStep(q)) /\ (lexical' => lexical)
  <2>1. UNCHANGED <<files, stored, lexical>>
    BY <1>3, Zenon DEF Crash
  <2>2. worker'[p] = "down"
    BY <1>3, Zenon DEF Crash, GoDown, TypeOK
  <2>3. ASSUME NEW q \in Proc \ {p}
        PROVE  worker'[q] = worker[q] /\ sec'[q] = sec[q] /\ data_access'[q] = data_access[q]
    BY <1>3, Zenon DEF Crash, GoDown, TypeOK
  <2>4. QED
    BY <2>1, <2>2, <2>3, Zenon DEF FileStep, Kept
<1>4. ASSUME NEW p \in Proc, Recover(p)
      PROVE  (\A q \in Proc : FileStep(q)) /\ (lexical' => lexical)
  <2>1. UNCHANGED <<stored, lexical>>
    BY <1>4, Zenon DEF Recover
  <2>2. Restarted(p)
    BY <1>4, Zenon DEF Recover, Restarted, TypeOK
  <2>3. ASSUME NEW q \in Proc \ {p} PROVE Kept(q)
    BY <1>4, <2>1, Zenon DEF Recover, Kept, TypeOK
  <2>4. QED
    BY <2>1, <2>2, <2>3, Zenon DEF FileStep
<1>5. ASSUME NEW p \in Proc, NEW m \in msgs, SystemCommand(p, m)
      PROVE  (\A q \in Proc : FileStep(q)) /\ (lexical' => lexical)
  <2>1. CASE ReadProc(p, m) \/ WriteProcOld(p, m)
    BY <2>1, FilesKept DEF ReadProc, WriteProcOld, storeVars
  <2>2. CASE ReplyWithoutOperation(p, m)
    <3>1. \A q \in Proc : worker'[q] = "running" => worker[q] = "running"
      BY <2>2, Zenon DEF ReplyWithoutOperation, Panic, TypeOK
    <3>2. QED
      BY <2>2, <3>1, FilesKept, Zenon DEF ReplyWithoutOperation, storeVars
  <2>3. CASE ValueRecorded(p, m) \/ AckRecorded(p, m) \/ AckCompletes(p, m)
    BY <2>3, FilesKept DEF ValueRecorded, AckRecorded, AckCompletes, storeVars
  <2>4. CASE ValueQuorumReading(p, m)
    BY <2>4, FilesKept, Zenon DEF ValueQuorumReading, storeVars
  <2>5. CASE ValueQuorumWriting(p, m)
    <3>1. m.type = "Value" /\ worker[p] = "running"
      BY <2>5, Zenon DEF ValueQuorumWriting, ValueCounts, Delivered
    <3>2. PICK c \in Chosen(p, m) :
             /\ lexical' = (lexical /\ c \in Newest(Candidates(p, m)))
             /\ \/ /\ StoreReturns(p, NextCopy(p, c)) /\ sec' = [sec EXCEPT ![p] = NextCopy(p, c)]
                   /\ worker' = worker
                \/ /\ StorePanics(p, NextCopy(p, c)) /\ sec' = [sec EXCEPT ![p] = NextCopy(p, c)]
                   /\ Panic(p)
                \/ StoreIsCutShort(p, NextCopy(p, c)) /\ GoDown(p)
      BY <2>5, Zenon DEF ValueQuorumWriting
    <3>3. Wrote(p, NextCopy(p, c)) /\ \A q \in Proc \ {p} : Kept(q)
      BY <3>1, <3>2, StoreWrites, Zenon
    <3>4. /\ NextCopy(p, c) \in Genuine \ {InitialCopy}
          /\ lexical' => lexical /\ Newer(NextCopy(p, c), sec[p])
      BY <3>1, <3>2, NextIsNewer, Zenon
    <3>5. QED
      BY <3>3, <3>4, Zenon DEF FileStep
  <2>6. CASE WriteProcStored(p, m)
    <3>1. m.type = "WriteProc" /\ worker[p] = "running" /\ Newer(m.copy, sec[p])
      BY <2>6, Zenon DEF WriteProcStored, Delivered
    <3>2. /\ lexical' = lexical
          /\ \/ /\ StoreReturns(p, m.copy) /\ sec' = [sec EXCEPT ![p] = m.copy] /\ worker' = worker
             \/ /\ StorePanics(p, m.copy) /\ sec' = [sec EXCEPT ![p] = m.copy] /\ Panic(p)
             \/ StoreIsCutShort(p, m.copy) /\ GoDown(p)
      BY <2>6, Zenon DEF WriteProcStored
    <3>3. Wrote(p, m.copy) /\ \A q \in Proc \ {p} : Kept(q)
      BY <3>1, <3>2, StoreWrites, Zenon
    <3>4. m.copy \in Genuine /\ sec[p] \in Genuine
      BY <3>1, Zenon DEF CopiesIn
    <3>5. m.copy # InitialCopy
      BY <3>1, <3>4, WriteOfNewer, Zenon
    <3>6. QED
      BY <3>1, <3>2, <3>3, <3>4, <3>5, Zenon DEF FileStep
  <2>7. QED
    BY <1>5, <2>1, <2>2, <2>3, <2>4, <2>5, <2>6, Zenon DEF SystemCommand
<1>6. QED
  BY <1>1, <1>2, <1>3, <1>4, <1>5, Zenon DEF Next

LEMMA NotNewerTransitive ==
  ASSUME NEW a, NEW b, NEW c, a.ts \in Nat, b.ts \in Nat, c.ts \in Nat,
         a.wr \in 0 .. N, b.wr \in 0 .. N, c.wr \in 0 .. N, ~Newer(a, b), ~Newer(b, c)
  PROVE  ~Newer(a, c)
BY NAssumption DEF Newer

\* One process: the directory stays right, and the copy a restart would find is
\* never an older one.
LEMMA DiskStep ==
  ASSUME TypeOK, CopiesIn(Genuine), DiskInv, NEW q \in Proc, FileStep(q), lexical' => lexical
  PROVE  /\ InitialCopy \notin files'[q]
         /\ worker'[q] = "running" => data_access'[q] = VersionOf(sec'[q])
         /\ lexical' => /\ HasNewest(files'[q])
                        /\ worker'[q] = "running" => files'[q] = Only(sec'[q])
                        /\ ~Newer(Recovered(files[q]), Recovered(files'[q]))
                        /\ \A s \in stored' : s.proc = q =>
                              s \in stored \/ ~Newer(s, Recovered(files'[q]))
<1>1. /\ files[q] \in SUBSET Copy /\ InitialCopy \notin files[q] /\ sec[q] \in Genuine /\ sec[q] \in Copy
      /\ worker[q] = "running" => data_access[q] = VersionOf(sec[q])
      /\ lexical => HasNewest(files[q])
      /\ lexical => (worker[q] = "running" => files[q] = Only(sec[q]))
  BY Zenon DEF TypeOK, CopiesIn, DiskInv
<1>2. \A c \in Copy : ~Newer(c, c)
  BY DEF Newer, Copy
<1>3. Recovered(files[q]) \in Copy
  BY <1>1, RecoveredType, Zenon
<1>4. CASE Kept(q)
  BY <1>1, <1>2, <1>3, <1>4, Zenon DEF Kept
<1>5. CASE Restarted(q)
  <2>1. files'[q] = Newest(files[q]) /\ sec'[q] = Recovered(files[q])
    BY <1>5, Zenon DEF Restarted
  <2>2. InitialCopy \notin files'[q]
    BY <1>1, <2>1, Zenon DEF Newest
  <2>3. ASSUME lexical'
        PROVE  files'[q] = Only(sec'[q]) /\ HasNewest(files'[q]) /\ Recovered(files'[q]) = sec'[q]
    BY <1>1, <1>3, <2>1, <2>3, RestartFinds, OnlyRecovers, Zenon
  <2>4. QED
    BY <1>2, <1>3, <1>5, <2>1, <2>2, <2>3, Zenon DEF Restarted
<1>6. ASSUME NEW d \in Genuine \ {InitialCopy}, Wrote(q, d), lexical' => Newer(d, sec[q])
      PROVE  /\ InitialCopy \notin files'[q]
             /\ worker'[q] = "running" => data_access'[q] = VersionOf(sec'[q])
             /\ lexical' => /\ HasNewest(files'[q])
                            /\ worker'[q] = "running" => files'[q] = Only(sec'[q])
                            /\ ~Newer(Recovered(files[q]), Recovered(files'[q]))
                            /\ \A s \in stored' : s.proc = q =>
                                  s \in stored \/ ~Newer(s, Recovered(files'[q]))
  <2>1. InitialCopy \notin files'[q]
    BY <1>1, <1>6 DEF Wrote, AfterWrite, Renamed
  <2>2. worker'[q] = "running" => data_access'[q] = VersionOf(sec'[q])
    BY <1>6, Zenon DEF Wrote
  <2>3. ASSUME lexical'
        PROVE  /\ HasNewest(files'[q]) /\ Recovered(files'[q]) = d
               /\ worker'[q] = "running" => files'[q] = Only(sec'[q])
               /\ Recovered(files[q]) = sec[q]
    <3>1. worker[q] = "running" /\ files[q] = Only(sec[q]) /\ data_access[q] = VersionOf(sec[q]) /\ d \in Copy
      BY <1>1, <1>6, <2>3, Zenon DEF Wrote, Genuine
    <3>2. /\ OldFileExists(files[q], data_access[q], d)
          /\ AfterWrite(files[q], data_access[q], d) = Only(d)
          /\ HasNewest(Renamed(files[q], d)) /\ Recovered(Renamed(files[q], d)) = d
      BY <1>1, <1>6, <2>3, <3>1, WriteOfNewer
    <3>3. Recovered(Only(d)) = d /\ HasNewest(Only(d)) /\ Recovered(files[q]) = sec[q]
      BY <1>1, <3>1, OnlyRecovers, Zenon
    <3>4. QED
      BY <1>6, <3>2, <3>3, Zenon DEF Wrote
  <2>4. ASSUME lexical'
        PROVE  /\ ~Newer(sec[q], d)
               /\ \A s \in stored' : s.proc = q => s \in stored \/ ~Newer(s, d)
    <3>1. d \in Copy
      BY <1>6, Zenon DEF Genuine
    <3>2. ~Newer(Held(q, d), d)
      BY <3>1 DEF Held, Newer, Copy
    <3>3. QED
      BY <1>1, <1>6, <2>4, <3>1, <3>2, NewerIrreflexive, Zenon DEF Wrote
  <2>5. QED
    BY <2>1, <2>2, <2>3, <2>4, Zenon
<1>7. QED
  BY <1>4, <1>5, <1>6, Zenon DEF FileStep

LEMMA DiskNext ==
  ASSUME TypeOK, TypeOK', CopiesIn(Genuine), DiskInv, [Next]_vars
  PROVE  /\ DiskInv'
         /\ lexical' => \A p \in Proc : ~Newer(Recovered(files[p]), Recovered(files'[p]))
<1>1. (\A q \in Proc : FileStep(q)) /\ (lexical' => lexical)
  BY FileSteps, Zenon
<1>2. ASSUME NEW q \in Proc, lexical', NEW s \in stored', s.proc = q
      PROVE  ~Newer(s, Recovered(files'[q]))
  <2>1. CASE s \in stored
    <3>1. ~Newer(s, Recovered(files[q])) /\ ~Newer(Recovered(files[q]), Recovered(files'[q]))
      BY <1>1, <1>2, <2>1, DiskStep, Zenon DEF DiskInv
    <3>2. Recovered(files[q]) \in Copy /\ Recovered(files'[q]) \in Copy
      BY RecoveredType, Zenon DEF TypeOK
    <3>3. s.ts \in Nat /\ s.wr \in 0 .. N
      BY <2>1, Zenon DEF TypeOK
    <3>4. QED
      BY <3>1, <3>2, <3>3, NotNewerTransitive, Zenon DEF Copy
  <2>2. CASE s \notin stored
    BY <1>1, <1>2, <2>2, DiskStep, Zenon
  <2>3. QED
    BY <2>1, <2>2, Zenon
<1>3. ASSUME NEW q \in Proc
      PROVE  /\ InitialCopy \notin files'[q]
             /\ worker'[q] = "running" => data_access'[q] = VersionOf(sec'[q])
             /\ lexical' => /\ HasNewest(files'[q])
                            /\ worker'[q] = "running" => files'[q] = Only(sec'[q])
                            /\ ~Newer(Recovered(files[q]), Recovered(files'[q]))
  BY <1>1, DiskStep, Zenon
<1>4. QED
  BY <1>2, <1>3, Zenon DEF DiskInv

LEMMA DiskInit ==
  ASSUME Init
  PROVE  CopiesIn(Genuine) /\ DiskInv
<1>1. ASSUME NEW p \in Proc
      PROVE  /\ files[p] \subseteq Genuine \ {InitialCopy} /\ sec[p] \in Genuine /\ readlist[p] = EmptyMap
             /\ data_access[p] = VersionOf(sec[p])
             /\ HasNewest(files[p]) /\ files[p] = Only(sec[p])
             /\ \A s \in stored : s.proc = p => ~Newer(s, Recovered(files[p]))
  <2>1. files[p] = InitialFiles[p] /\ sec[p] = Recovered(files[p]) /\ data_access[p] = VersionOf(sec[p])
    BY Zenon DEF Init
  <2>2. files[p] \subseteq Genuine \ {InitialCopy} /\ \A f, g \in files[p] : f = g
    BY <2>1, FilesAssumption DEF Genuine, InitialCopy
  <2>3. HasNewest(files[p]) /\ files[p] \in SUBSET Copy
    BY <2>2 DEF HasNewest, Genuine
  <2>4. Recovered(files[p]) \in Copy /\ Newest(files[p]) = Only(Recovered(files[p]))
        /\ \A f \in files[p] : ~Newer(f, Recovered(files[p]))
    BY <2>2, <2>3, RestartFinds, Zenon
  <2>5. Newest(files[p]) = files[p]
    <3>1. \A f \in files[p] : ~Newer(f, f)
      BY <2>3 DEF Newer, Copy
    <3>2. QED
      BY <2>2, <3>1, Zenon DEF Newest
  <2>6. sec[p] \in Genuine
    BY <2>1, <2>2, RecoveredIsAFile, InitialCopyType, Zenon DEF Genuine
  <2>7. ASSUME NEW s \in stored, s.proc = p PROVE ~Newer(s, Recovered(files[p]))
    <3>1. PICK r \in Proc : s \in {Held(r, c) : c \in InitialFiles[r] \union {InitialCopy}}
      BY <2>7, Zenon DEF Init
    <3>2. PICK c \in InitialFiles[r] \union {InitialCopy} : s = Held(r, c)
      BY <3>1, Zenon
    <3>3. r = p /\ s.ts = c.ts /\ s.wr = c.wr
      BY <2>7, <3>2, Zenon DEF Held
    <3>4. ~Newer(c, Recovered(files[p]))
      <4>1. CASE c = InitialCopy
        BY <2>4, <4>1, NAssumption DEF InitialCopy, Newer, Copy
      <4>2. CASE c \in files[p]
        BY <2>4, <4>2, Zenon
      <4>3. QED
        BY <2>1, <3>2, <3>3, <4>1, <4>2, Zenon
    <3>5. QED
      BY <3>3, <3>4, Zenon DEF Newer
  <2>8. QED
    BY <2>1, <2>2, <2>3, <2>4, <2>5, <2>6, <2>7, Zenon DEF Init
<1>2. CopiesIn(Genuine)
  BY <1>1, Zenon DEF CopiesIn, EmptyMap, Init
<1>3. DiskInv
  BY <1>1, Zenon DEF DiskInv
<1>4. QED
  BY <1>2, <1>3, Zenon

LEMMA GenuineNext ==
  ASSUME TypeOK, CopiesIn(Genuine), [Next]_vars
  PROVE  CopiesIn(Genuine)'
<1>1. InitialCopy \in Genuine
  BY InitialCopyType, Zenon DEF Genuine
<1>2. ASSUME NEW q \in Proc, NEW c \in Genuine PROVE NextCopy(q, c) \in Genuine
  <2>1. c \in Copy /\ writeval[q] \in Data
    BY <1>2, Zenon DEF Genuine, TypeOK
  <2>2. c.ts + 1 \in Nat /\ c.ts + 1 > 0 /\ q \in 0 .. N /\ q > 0
    BY <2>1, NAssumption DEF Copy, Proc
  <2>3. NextCopy(q, c) \in Copy /\ NextCopy(q, c).ts > 0 /\ NextCopy(q, c).wr > 0
    BY <2>1, <2>2, Zenon DEF NextCopy, Copy
  <2>4. QED
    BY <2>3, Zenon DEF Genuine
<1>3. QED
  BY <1>1, <1>2, CopiesStay, Zenon

-----------------------------------------------------------------------------
(***************************************************************************)
(* What a step adds                                                        *)
(***************************************************************************)
\* A message that a step adds: a Value carries the copy its sender holds.
NewMessage(v) ==
    /\ v.id \in DOMAIN hist'
    /\ v.type = "Value" => v.from \in Proc /\ worker[v.from] = "running" /\ v.copy = sec[v.from]

LEMMA MessageSteps ==
  ASSUME IInv, KindInv, \A m \in msgs : m.id \in DOMAIN hist, [Next]_vars
  PROVE  \A v \in msgs' : v \in msgs \/ NewMessage(v)
<1> USE DEF NewMessage
<1>1. \A i \in DOMAIN hist : i \in DOMAIN hist'
  BY HistoryKept, Zenon
<1>2. CASE UNCHANGED vars
  BY <1>2, Zenon DEF vars, sendVars
<1>3. ASSUME NEW p \in Proc, ReadCommand(p) \/ WriteCommand(p)
      PROVE  \A v \in msgs' : v \in msgs \/ NewMessage(v)
  <2>1. PICK kind, data : ClientCommand(p, kind, data)
    BY <1>3, Zenon DEF ReadCommand, WriteCommand
  <2>2. /\ msgs' = msgs \union {ReadProcMsg(p, q, Len(hist) + 1) : q \in Proc}
        /\ \E op : hist' = Append(hist, op)
    BY <2>1, Zenon DEF ClientCommand
  <2>3. Len(hist) + 1 \in DOMAIN hist'
    <3>1. hist \in Seq(ClientOp)
      BY Zenon DEF IInv, TypeOK
    <3>2. QED
      BY <2>2, <3>1
  <2>4. QED
    BY <2>2, <2>3 DEF ReadProcMsg
<1>4. ASSUME NEW p \in Proc, GoDown(p) PROVE \A v \in msgs' : v \in msgs
  BY <1>4, Zenon DEF GoDown
<1>5. ASSUME NEW p \in Proc, Crash(p) \/ Recover(p) PROVE \A v \in msgs' : v \in msgs
  BY <1>4, <1>5, Zenon DEF Crash, Recover, sendVars
<1>6. ASSUME NEW p \in Proc, NEW m \in msgs, SystemCommand(p, m)
      PROVE  \A v \in msgs' : v \in msgs \/ NewMessage(v)
  <2>1. CASE ReadProc(p, m)
    <3>1. msgs' = msgs \union {ValueMsg(p, m.from, m.id, sec[p])} /\ worker[p] = "running"
      BY <2>1, Zenon DEF ReadProc, Delivered
    <3>2. QED
      BY <1>1, <3>1 DEF ValueMsg
  <2>2. CASE ReplyWithoutOperation(p, m) \/ ValueRecorded(p, m) \/ AckRecorded(p, m) \/ AckCompletes(p, m)
    BY <2>2, Zenon DEF ReplyWithoutOperation, ValueRecorded, AckRecorded, AckCompletes, sendVars
  <2>3. ASSUME NEW c, BroadcastWriteProc(p, c), op_id[p] # NoOp
        PROVE  \A v \in msgs' : v \in msgs \/ NewMessage(v)
    <3>1. op_id[p] \in DOMAIN hist
      BY <2>3 DEF IInv, OpsInv, OperationInv
    <3>2. QED
      BY <1>1, <2>3, <3>1 DEF BroadcastWriteProc, WriteProcMsg
  <2>4. CASE ValueQuorumReading(p, m) \/ ValueQuorumWriting(p, m)
    <3>1. op_id[p] # NoOp
      BY <2>4, Zenon DEF ValueQuorumReading, ValueQuorumWriting, ValueCounts
    <3>2. (\E c : BroadcastWriteProc(p, c)) \/ UNCHANGED sendVars \/ GoDown(p)
      BY <2>4, Zenon DEF ValueQuorumReading, ValueQuorumWriting
    <3>3. QED
      BY <1>4, <2>3, <3>1, <3>2, Zenon DEF sendVars
  <2>5. CASE WriteProcStored(p, m) \/ WriteProcOld(p, m)
    <3>1. msgs' = msgs \union {AckMsg(p, m.from, m.id)} \/ UNCHANGED sendVars \/ GoDown(p)
      BY <2>5, Zenon DEF WriteProcStored, WriteProcOld
    <3>2. QED
      BY <1>1, <1>4, <3>1 DEF AckMsg, sendVars
  <2>6. QED
    BY <1>6, <2>1, <2>2, <2>4, <2>5, Zenon DEF SystemCommand
<1>7. QED
  BY <1>2, <1>3, <1>5, <1>6, Zenon DEF Next

\* A copy that operation op_id[p] has counted for q is one it had counted, or that of
\* a Value of q for it.
FromValue(p, q) ==
    \E m \in msgs : /\ m.type = "Value" /\ m.from = q /\ m.id = op_id[p] /\ op_id[p] # NoOp
                    /\ readlist'[p][q] = m.copy

Counted(p) ==
    \A q \in DOMAIN readlist'[p] :
        /\ op_id'[p] = op_id[p]
        /\ \/ q \in DOMAIN readlist[p] /\ readlist'[p][q] = readlist[p][q]
           \/ FromValue(p, q)

LEMMA ReadlistSteps ==
  ASSUME TypeOK, [Next]_vars
  PROVE  \A r \in Proc : Counted(r)
<1>1. ASSUME NEW p \in Proc, readlist' = [readlist EXCEPT ![p] = EmptyMap],
             \A r \in Proc \ {p} : op_id'[r] = op_id[r]
      PROVE  \A r \in Proc : Counted(r)
  <2>1. DOMAIN readlist = Proc /\ DOMAIN EmptyMap = {}
    BY Zenon DEF TypeOK, EmptyMap
  <2>2. QED
    BY <1>1, <2>1, Zenon DEF Counted
<1>2. ASSUME UNCHANGED <<op_id, readlist>> PROVE \A r \in Proc : Counted(r)
  BY <1>2, Zenon DEF Counted
<1>3. CASE UNCHANGED vars
  BY <1>2, <1>3, Zenon DEF vars, opVars
<1>4. ASSUME NEW p \in Proc, ReadCommand(p) \/ WriteCommand(p) PROVE \A r \in Proc : Counted(r)
  <2>1. PICK kind, data : ClientCommand(p, kind, data)
    BY <1>4, Zenon DEF ReadCommand, WriteCommand
  <2>2. readlist' = [readlist EXCEPT ![p] = EmptyMap] /\ op_id' = [op_id EXCEPT ![p] = Len(hist) + 1]
    BY <2>1, Zenon DEF ClientCommand
  <2>3. QED
    BY <1>1, <2>2, Zenon DEF TypeOK
<1>5. ASSUME NEW p \in Proc, ForgetOperation(p) PROVE \A r \in Proc : Counted(r)
  BY <1>1, <1>5, Zenon DEF ForgetOperation, TypeOK
<1>6. ASSUME NEW p \in Proc, Crash(p) \/ Recover(p) PROVE \A r \in Proc : Counted(r)
  BY <1>5, <1>6, Zenon DEF Crash, GoDown, Recover
<1>7. ASSUME NEW p \in Proc, NEW m \in msgs, SystemCommand(p, m) PROVE \A r \in Proc : Counted(r)
  <2>1. CASE ReadProc(p, m) \/ ReplyWithoutOperation(p, m) \/ WriteProcOld(p, m)
    BY <1>2, <2>1, Zenon DEF ReadProc, ReplyWithoutOperation, WriteProcOld, opVars
  <2>2. CASE AckRecorded(p, m) \/ AckCompletes(p, m)
    BY <1>2, <2>2, Zenon DEF AckRecorded, AckCompletes
  <2>3. CASE ValueRecorded(p, m)
    <3>1. /\ m.type = "Value" /\ m.id = op_id[p] /\ op_id[p] # NoOp /\ op_id' = op_id
          /\ readlist' = [readlist EXCEPT ![p] = ReadlistWith(p, m)]
      BY <2>3, Zenon DEF ValueRecorded, ValueCounts, Delivered
    <3>2. readlist'[p] = ReadlistWith(p, m) /\ \A r \in Proc \ {p} : readlist'[r] = readlist[r]
      BY <3>1, Zenon DEF TypeOK
    <3>3. /\ DOMAIN readlist'[p] = DOMAIN readlist[p] \union {m.from} /\ readlist'[p][m.from] = m.copy
          /\ \A q \in DOMAIN readlist[p] : q # m.from => readlist'[p][q] = readlist[p][q]
      BY <3>2, Zenon DEF ReadlistWith, Insert
    <3>4. Counted(p)
      BY <3>1, <3>3, Zenon DEF Counted, FromValue
    <3>5. QED
      BY <3>1, <3>2, <3>4, Zenon DEF Counted
  <2>4. ASSUME NEW c, EnterWritePhase(p, c) PROVE \A r \in Proc : Counted(r)
    BY <1>1, <2>4, Zenon DEF EnterWritePhase
  <2>5. CASE ValueQuorumReading(p, m) \/ ValueQuorumWriting(p, m)
    <3>1. (\E c : EnterWritePhase(p, c)) \/ ForgetOperation(p)
      BY <2>5, Zenon DEF ValueQuorumReading, ValueQuorumWriting, GoDown
    <3>2. QED
      BY <1>5, <2>4, <3>1, Zenon
  <2>6. CASE WriteProcStored(p, m)
    <3>1. UNCHANGED opVars \/ ForgetOperation(p)
      BY <2>6, Zenon DEF WriteProcStored, GoDown
    <3>2. QED
      BY <1>2, <1>5, <3>1, Zenon DEF opVars
  <2>7. QED
    BY <1>7, <2>1, <2>2, <2>3, <2>5, <2>6, Zenon DEF SystemCommand
<1>8. QED
  BY <1>3, <1>4, <1>6, <1>7, Zenon DEF Next

\* Operation op_id[p] sends out w: it has a majority of Values, m the last of them,
\* and has chosen c.
Proposes(p, m, c, w) ==
    /\ worker[p] = "running" /\ callback[p] # NoOp /\ hist' = hist
    /\ m.type = "Value" /\ m.id = op_id[p] /\ op_id[p] # NoOp
    /\ Majority(DOMAIN ReadlistWith(p, m))
    /\ c \in Chosen(p, m)
    /\ lexical' => lexical /\ c \in Newest(Candidates(p, m))
    /\ w.id = op_id[p]
    /\ \/ reading[p] /\ w.copy = c
       \/ /\ ValueQuorumWriting(p, m) /\ writing[p]
          /\ w.copy = NextCopy(p, c) /\ Held(p, w.copy) \in stored'

ProposeStep ==
    /\ proposed \subseteq proposed' /\ stored \subseteq stored'
    /\ \A w \in proposed' : \/ w \in proposed
                            \/ \E p \in Proc : \E m \in msgs : \E c : Proposes(p, m, c, w)
    /\ \A v, w \in proposed' : v \in proposed \/ w \in proposed \/ v = w

LEMMA ProposalSteps ==
  ASSUME IInv, [Next]_vars
  PROVE  ProposeStep
<1>1. ASSUME UNCHANGED <<proposed, stored>> PROVE ProposeStep
  BY <1>1, Zenon DEF ProposeStep
<1>2. ASSUME NEW p \in Proc, NEW d, StoreReturns(p, d) \/ StorePanics(p, d) \/ StoreIsCutShort(p, d)
      PROVE  stored' = stored \union {Held(p, d)}
  BY <1>2, Zenon DEF StoreReturns, StorePanics, StoreIsCutShort
<1>3. CASE UNCHANGED vars
  BY <1>1, <1>3, Zenon DEF vars, storeVars, sendVars
<1>4. ASSUME NEW p \in Proc, ReadCommand(p) \/ WriteCommand(p) PROVE ProposeStep
  <2>1. PICK kind, data : ClientCommand(p, kind, data)
    BY <1>4 DEF ReadCommand, WriteCommand
  <2>2. UNCHANGED <<storeVars, proposed>>
    BY <2>1, Zenon DEF ClientCommand
  <2>3. QED
    BY <1>1, <2>2, Zenon DEF storeVars
<1>5. ASSUME NEW p \in Proc, Crash(p) \/ Recover(p) PROVE ProposeStep
  BY <1>1, <1>5, Zenon DEF Crash, GoDown, Recover, sendVars
<1>6. ASSUME NEW p \in Proc, NEW m \in msgs, SystemCommand(p, m) PROVE ProposeStep
  <2>1. CASE ReadProc(p, m) \/ ReplyWithoutOperation(p, m) \/ WriteProcOld(p, m)
    BY <1>1, <2>1, Zenon DEF ReadProc, ReplyWithoutOperation, WriteProcOld, storeVars, sendVars
  <2>2. CASE ValueRecorded(p, m) \/ AckRecorded(p, m) \/ AckCompletes(p, m)
    BY <1>1, <2>2, Zenon DEF ValueRecorded, AckRecorded, AckCompletes, storeVars, sendVars
  <2>3. CASE WriteProcStored(p, m)
    <3>1. proposed' = proposed
      BY <2>3, Zenon DEF WriteProcStored, GoDown, sendVars
    <3>2. stored' = stored \union {Held(p, m.copy)}
      BY <1>2, <2>3, Zenon DEF WriteProcStored
    <3>3. QED
      BY <3>1, <3>2, Zenon DEF ProposeStep
  <2>4. ASSUME ValueCounts(p, m), ReadQuorum(p, m)
        PROVE  /\ worker[p] = "running" /\ callback[p] # NoOp
               /\ m.type = "Value" /\ m.id = op_id[p] /\ op_id[p] # NoOp
               /\ Majority(DOMAIN ReadlistWith(p, m)) /\ (reading[p] \/ writing[p])
    BY <2>4 DEF ValueCounts, Delivered, ReadQuorum, IInv, OpsInv, OperationInv
  <2>5. CASE ValueQuorumReading(p, m)
    <3>1. PICK c \in Chosen(p, m) :
             /\ BroadcastWriteProc(p, c)
             /\ lexical' = (lexical /\ c \in Newest(Candidates(p, m)))
      BY <2>5, Zenon DEF ValueQuorumReading
    <3>2. reading[p] /\ hist' = hist /\ stored' = stored
      BY <2>5, Zenon DEF ValueQuorumReading, storeVars
    <3>3. proposed' = proposed \union {[id |-> op_id[p], copy |-> c]}
      BY <3>1, Zenon DEF BroadcastWriteProc
    <3>4. ValueCounts(p, m) /\ ReadQuorum(p, m)
      BY <2>5, Zenon DEF ValueQuorumReading
    <3>5. Proposes(p, m, c, [id |-> op_id[p], copy |-> c])
      BY <2>4, <3>1, <3>2, <3>4, Zenon DEF Proposes
    <3>6. QED
      BY <3>2, <3>3, <3>5, Zenon DEF ProposeStep
  <2>6. CASE ValueQuorumWriting(p, m)
    <3>1. PICK c \in Chosen(p, m) :
             /\ lexical' = (lexical /\ c \in Newest(Candidates(p, m)))
             /\ \/ /\ StoreReturns(p, NextCopy(p, c)) /\ BroadcastWriteProc(p, NextCopy(p, c))
                   /\ hist' = hist
                \/ StorePanics(p, NextCopy(p, c)) /\ UNCHANGED sendVars
                \/ StoreIsCutShort(p, NextCopy(p, c)) /\ GoDown(p)
      BY <2>6, Zenon DEF ValueQuorumWriting
    <3> DEFINE new == NextCopy(p, c)
               w == [id |-> op_id[p], copy |-> new]
    <3>2. ValueCounts(p, m) /\ ReadQuorum(p, m) /\ ~reading[p]
      BY <2>6, Zenon DEF ValueQuorumWriting
    <3>3. stored' = stored \union {Held(p, new)}
      BY <1>2, <3>1, Zenon
    <3>4. \/ proposed' = proposed
          \/ proposed' = proposed \union {w} /\ hist' = hist
      BY <3>1, Zenon DEF BroadcastWriteProc, sendVars, GoDown
    <3>5. hist' = hist => Proposes(p, m, c, w)
      BY <2>4, <2>6, <3>1, <3>2, <3>3, Zenon DEF Proposes
    <3> HIDE DEF w
    <3>6. QED
      BY <3>3, <3>4, <3>5, Zenon DEF ProposeStep
  <2>7. QED
    BY <1>6, <2>1, <2>2, <2>3, <2>5, <2>6, Zenon DEF SystemCommand
<1>7. QED
  BY <1>3, <1>4, <1>5, <1>6, Zenon DEF Next
=============================================================================
