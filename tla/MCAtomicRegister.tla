--------------------------- MODULE MCAtomicRegister ---------------------------
(***************************************************************************)
(* Instances of AtomicRegister for TLC, and the properties that only TLC   *)
(* checks: what a restart finds, and liveness.                             *)
(***************************************************************************)
EXTENDS AtomicRegister, TLC

CONSTANTS a, b

\* Directories for InitialFiles. A first start:
FreshDirectories == [p \in 1 .. N |-> {}]

\* a restart after a write of process 3 that every process stored:
AgreeingDirectories == [p \in 1 .. N |-> {[ts |-> 1, wr |-> 3, val |-> a]}]

\* and a restart after two writes of process 1, the last of which process 3 missed.
LaggingDirectories ==
    [p \in 1 .. 3 |-> IF p = 3 THEN {[ts |-> 1, wr |-> 1, val |-> a]}
                               ELSE {[ts |-> 2, wr |-> 1, val |-> a]}]

\* Every instance starts on directories that no write under way has left.
ASSUME SettledAssumption == Settled

ValueSymmetry == Permutations(Value)

\* A link that delivers in order, as those of RegisterClient: a process answers a
\* question only after it has stored the earlier proposals of the one who asks.
LinksInOrder ==
    \A m, v \in msgs :
        (m.type = "WriteProc" /\ v.type = "Value" /\ v.from = m.to /\ v.to = m.from /\ v.id > m.id) =>
            ~Newer(m.copy, sec[m.to])

-----------------------------------------------------------------------------
\* sectors_manager.rs, in write: "Knowing we have new data and metadata saved for
\* given SectorIdx, we can remove the old data safely." After any write, a restart
\* on the directory would find the copy the register holds.
RestartKeepsCopy ==
    \A p \in Proc : worker[p] = "running" => Recovered(files[p]) = sec[p]

IsPending(i) == i \in DOMAIN hist /\ ~hist[i].done
HasReturned(i) == i \in DOMAIN hist /\ hist[i].done
CoordinatorLost(i) == i \in DOMAIN hist /\ worker[hist[i].proc] # "running"
Running == {p \in Proc : worker[p] = "running"}
MajorityLost(i) == i \in DOMAIN hist /\ 2 * Cardinality(Running) <= N

\* Progress: a command that reached a register returns, unless its process stops or
\* a majority of the workers is not running. (README.md: "the system is able
\* to progress on operations as long as at least a majority of the instances are
\* working correctly".)
OperationsReturn ==
    \A i \in 1 .. MaxOps :
        IsPending(i) ~> (HasReturned(i) \/ CoordinatorLost(i) \/ MajorityLost(i))
=============================================================================
