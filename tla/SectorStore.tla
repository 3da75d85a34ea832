------------------------------ MODULE SectorStore ------------------------------
(***************************************************************************)
(* What the SectorsManager trait promises its caller, the atomic register: *)
(* one durable cell per sector. A write takes effect at one instant        *)
(* between its call and its return, or not at all when a crash cuts it     *)
(* short; a crash of the process loses no cell; a power failure takes all  *)
(* cells back to what they held at one moment, the last flush; what is     *)
(* loaded after a restart is what the cell holds.                          *)
(***************************************************************************)
CONSTANTS
    Sector,       \* sector indices
    Copy,         \* what a cell can hold
    InitialCopy,  \* what it holds before the first write
    None          \* no copy

VARIABLES
    content,  \* content[i]: what the cell of sector i holds
    kept,     \* kept[i]: what it held at the last flush
    pending,  \* pending[i]: the write of sector i in progress, or None
    known,    \* known[i]: what the register of i last loaded or wrote, or None
    up        \* the process is up

vars == <<content, kept, pending, known, up>>

Init ==
    /\ content = [i \in Sector |-> InitialCopy]
    /\ kept = content
    /\ pending = [i \in Sector |-> None]
    /\ known = [i \in Sector |-> None]
    /\ up = TRUE

Load(i) ==
    /\ up /\ known[i] = None
    /\ known' = [known EXCEPT ![i] = content[i]]
    /\ UNCHANGED <<content, kept, pending, up>>

Call(i) ==
    /\ up /\ known[i] # None /\ pending[i] = None
    /\ \E c \in Copy : pending' = [pending EXCEPT ![i] = c]
    /\ UNCHANGED <<content, kept, known, up>>

TakeEffect(i) ==
    /\ up /\ pending[i] # None
    /\ content' = [content EXCEPT ![i] = pending[i]]
    /\ UNCHANGED <<kept, pending, known, up>>

Return(i) ==
    /\ up /\ pending[i] # None /\ content[i] = pending[i]
    /\ pending' = [pending EXCEPT ![i] = None]
    /\ known' = [known EXCEPT ![i] = content[i]]
    /\ UNCHANGED <<content, kept, up>>

GoDown ==
    /\ up' = FALSE
    /\ pending' = [i \in Sector |-> None]
    /\ known' = [i \in Sector |-> None]

Crash == up /\ GoDown /\ UNCHANGED <<content, kept>>

Flush ==
    /\ kept' = content
    /\ UNCHANGED <<content, pending, known, up>>

PowerFailure == GoDown /\ content' = kept /\ UNCHANGED kept

Restart ==
    /\ ~up
    /\ up' = TRUE
    /\ UNCHANGED <<content, kept, pending, known>>

Next ==
    \/ \E i \in Sector : Load(i) \/ Call(i) \/ TakeEffect(i) \/ Return(i)
    \/ Crash
    \/ Flush
    \/ PowerFailure
    \/ Restart

Spec == Init /\ [][Next]_vars
=============================================================================
