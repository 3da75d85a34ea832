------------------------- MODULE AtomicRegisterInv --------------------------
(***************************************************************************)
(* The invariants that the proofs about AtomicRegister rest on.            *)
(***************************************************************************)
EXTENDS AtomicRegister

-----------------------------------------------------------------------------
(***************************************************************************)
(* The inductive invariant. DurableQuorum and OneProposalPerOperation say  *)
(* nothing of the operations under way: it is about them, and says what    *)
(* the flags of a register, its acklist, the messages and the files mean.  *)
(***************************************************************************)
\* A register in an operation works for the client whose callback it keeps.
OperationInv ==
    \A p \in Proc :
        /\ op_id[p] # NoOp => op_id[p] \in DOMAIN hist /\ hist[op_id[p]].proc = p
        /\ callback[p] # NoOp => callback[p] = op_id[p]
        /\ (reading[p] \/ writing[p]) <=> callback[p] # NoOp
        /\ ~(reading[p] /\ writing[p])
        /\ writing[p] => writeval[p] = hist[op_id[p]].data

\* The data that the operation of p writes or returns.
DataOf(p) == IF reading[p] THEN readval[p] ELSE hist[op_id[p]].data

\* An operation has sent out a copy exactly when it is in, or past, its write phase.
ProposalInv ==
    /\ \A w \in proposed : w.id \in DOMAIN hist
    /\ OneProposalPerOperation
    /\ \A p \in Proc : (callback[p] # NoOp /\ ~write_phase[p]) =>
          \A w \in proposed : w.id # op_id[p]
    /\ \A p \in Proc : (worker[p] = "running" /\ write_phase[p]) =>
          /\ callback[p] # NoOp
          /\ \E w \in proposed : w.id = op_id[p] /\ w.copy.val = DataOf(p)

\* q has held the copy of operation id, or a newer one.
HoldsFor(q, id) == \E w \in proposed : w.id = id /\ q \in Holders(w.copy)

\* Acks, in the links or counted, come from processes that have stored.
AckInv ==
    /\ \A m \in msgs : m.type = "WriteProc" => [id |-> m.id, copy |-> m.copy] \in proposed
    /\ \A m \in msgs : m.type = "Ack" => HoldsFor(m.from, m.id)
    /\ \A p \in Proc : \A q \in acklist[p] : HoldsFor(q, op_id[p])

\* What a register that is up holds, it has held in a file.
HeldInv ==
    \A p \in Proc :
        /\ worker[p] # "down" => Held(p, sec[p]) \in stored
        /\ \A f \in files[p] : Held(p, f) \in stored
        /\ Held(p, InitialCopy) \in stored

OpsInv == OperationInv /\ ProposalInv /\ AckInv /\ HeldInv

IInv == TypeOK /\ OpsInv

-----------------------------------------------------------------------------
(***************************************************************************)
(* What copies there are, and where                                        *)
(***************************************************************************)
\* Every copy in a register, a file, a read list, a message or a proposal is in G.
CopiesIn(G) ==
    /\ \A p \in Proc : sec[p] \in G
    /\ \A p \in Proc : files[p] \subseteq G
    /\ \A p \in Proc : \A q \in DOMAIN readlist[p] : readlist[p][q] \in G
    /\ \A m \in msgs : m.type \in {"Value", "WriteProc"} => m.copy \in G
    /\ \A w \in proposed : w.copy \in G

\* The flags of a register agree with the client command that it works on.
KindInv ==
    \A p \in Proc :
        /\ reading[p] => hist[op_id[p]].kind = "Read"
        /\ writing[p] => hist[op_id[p]].kind = "Write"

-----------------------------------------------------------------------------
(***************************************************************************)
(* The files of a process                                                  *)
(***************************************************************************)
\* The file of a register that holds c: none before the first write.
Only(c) == IF c = InitialCopy THEN {} ELSE {c}

\* One file of the directory is newer than every other.
HasNewest(dir) == dir # {} => \E f \in dir : \A g \in dir : g = f \/ Newer(f, g)

\* The copies that a write can make, and the one of a sector never written.
Genuine == {c \in Copy : c = InitialCopy \/ (c.ts > 0 /\ c.wr > 0)}

\* The directory of a process and what its SectorsManager and its register know of
\* it. Under lexical, whatever the process has ever stored is no newer than the copy
\* a restart would find.
DiskInv ==
    \A p \in Proc :
        /\ InitialCopy \notin files[p]
        /\ worker[p] = "running" => data_access[p] = VersionOf(sec[p])
        /\ lexical => HasNewest(files[p])
        /\ lexical => (worker[p] = "running" => files[p] = Only(sec[p]))
        /\ lexical => \A s \in stored : s.proc = p => ~Newer(s, Recovered(files[p]))

-----------------------------------------------------------------------------
(***************************************************************************)
(* The order of the operations                                             *)
(***************************************************************************)
\* Messages belong to commands, the commands in progress are pending, and a command
\* comes after commands that had returned.
CommandInv ==
    /\ \A m \in msgs : m.id \in DOMAIN hist
    /\ \A p \in Proc : callback[p] # NoOp => op_id[p] \in Pending
    /\ \A i \in DOMAIN hist : hist[i].before \subseteq Returned

\* A write puts its rank in the copy and has stored it when it sends it out.
WriteInv ==
    \A w \in proposed : hist[w.id].kind = "Write" =>
        w.copy.wr = hist[w.id].proc /\ Held(hist[w.id].proc, w.copy) \in stored

\* Every operation that started after operation i returned gets from process q a copy
\* that is not older than c: one under way, one it has counted, or the one q holds.
Sees(q, c, i) ==
    /\ ~Newer(c, Recovered(files[q]))
    /\ \A v \in msgs : (v.type = "Value" /\ v.from = q /\ i \in hist[v.id].before) => ~Newer(c, v.copy)
    /\ \A p \in Proc : (op_id[p] # NoOp /\ q \in DOMAIN readlist[p] /\ i \in hist[op_id[p]].before) =>
          ~Newer(c, readlist[p][q])

\* A majority of the processes does so for the copy of every operation that returned.
QuorumInv ==
    lexical => \A w \in proposed : w.id \in Returned =>
        \E Q \in SUBSET Proc : 2 * Cardinality(Q) > N /\ \A q \in Q : Sees(q, w.copy, w.id)

OrderInv == CommandInv /\ WriteInv /\ QuorumInv /\ VersionsFollowRealTime

-----------------------------------------------------------------------------
(***************************************************************************)
(* The writes that took effect                                             *)
(***************************************************************************)
\* A command comes after commands with a smaller number.
EarlierInv == \A i \in DOMAIN hist : \A j \in hist[i].before : j < i

\* Every operation gets from process q a copy that is not older than the one the
\* system started with: one under way, one it has counted, or the one q holds.
SeesStart(q) ==
    /\ ~Newer(StartCopy, Recovered(files[q]))
    /\ \A v \in msgs : (v.type = "Value" /\ v.from = q) => ~Newer(StartCopy, v.copy)
    /\ \A p \in Proc : q \in DOMAIN readlist[p] => ~Newer(StartCopy, readlist[p][q])

\* The processes whose directory had that copy do so, and they are a majority.
StartInv ==
    lexical => /\ \A q \in Proc : Recovered(InitialFiles[q]) = StartCopy => SeesStart(q)
               /\ \A w \in proposed : ~Newer(StartCopy, w.copy)

\* The copies of the directories at the start.
StartCopies == {c \in Copy : c = StartCopy \/ Newer(StartCopy, c)}

\* M has the copy of every write command that has made one, be it that a crash in
\* SectorsManager::write kept it from being sent out.
MadeBy(M) ==
    /\ M \subseteq [id : OpId, copy : Copy]
    /\ \A u \in M : /\ u.id \in Writes
                    /\ u.copy.wr = hist[u.id].proc /\ u.copy.val = hist[u.id].data
                    /\ Held(hist[u.id].proc, u.copy) \in stored
                    /\ Newer(u.copy, StartCopy)
    /\ \A u, v \in M : u = v \/ (u.id # v.id /\ ~SameVersion(u.copy, v.copy))
    /\ CopiesIn(StartCopies \union {u.copy : u \in M})
    /\ \A w \in proposed : hist[w.id].kind = "Write" => w \in M
    /\ \A u \in M : \A w \in proposed : w.id \in hist[u.id].before => Newer(u.copy, w.copy)
    /\ \A p \in Proc : (callback[p] # NoOp /\ ~write_phase[p]) => \A u \in M : u.id # op_id[p]

MadeInv == lexical => \E M : MadeBy(M)
=============================================================================
