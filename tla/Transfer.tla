------------------------------- MODULE Transfer -------------------------------
(***************************************************************************)
(* The wire format of commands (solution/src/transfer_operations.rs): what *)
(* serialize_rc writes to a connection, and deserialize_rc, called in a    *)
(* loop by the task of the connection, one read_exact at a time.           *)
(*                                                                         *)
(* The stream is a sequence of bytes with the long fields shortened: a u64 *)
(* is two bytes in base Base, a UUID one, the tag one, a sector the length *)
(* that Command gives it. The bytes of the magic number can occur in       *)
(* sectors and between messages.                                           *)
(***************************************************************************)
EXTENDS Integers, Sequences

CONSTANTS
    A, T, D,      \* the bytes 0x61, 0x74 and 0x64 of the magic number
    Base,         \* number of values of a byte, as far as numbers are concerned
    SectorSize,   \* length of a sector
    ClientKey,    \* hmac_client_key
    SystemKey,    \* hmac_system_key
    Uuid,         \* message identifiers
    Command,      \* commands that are sent
    MaxMessages,  \* bound: commands sent on the connection
    MaxStray      \* bound: bytes sent outside of messages

\* The commands that a RegisterCommand can hold, with the width of each field.
Byte == (0 .. Base - 1) \union {A, T, D}
U64 == 0 .. Base * Base - 1
SectorVec == [1 .. SectorSize -> Byte]
RegisterCommand ==
    [type : {"Read"}, rid : U64, sidx : U64]
        \union [type : {"Write"}, rid : U64, sidx : U64, data : SectorVec]
        \union [type : {"ReadProc", "Ack"}, rank : Byte, uid : Uuid, sidx : U64]
        \union [type : {"Value", "WriteProc"}, rank : Byte, uid : Uuid, sidx : U64,
                ts : U64, wr : Byte, data : SectorVec]

ASSUME SizesAssumption == Base \in Nat \ {0} /\ SectorSize \in Nat
ASSUME KeysAssumption == ClientKey # SystemKey
ASSUME CommandAssumption == Command \subseteq RegisterCommand

VARIABLES
    wire,     \* bytes written to the connection and not yet read
    closed,   \* the peer has gone: reads may fail
    stage,    \* the read that deserialize_rc is at, or how the task ended
    todo,     \* sizes of the fields still to be read
    got,      \* bytes read of the message at hand, what mac is updated with
    results,  \* what deserialize_rc has returned, in order
    sent,     \* history: commands serialized, with the key of each, in order
    stray     \* number of bytes sent outside of messages

vars == <<wire, closed, stage, todo, got, results, sent, stray>>

MAGIC_NUMBER == <<A, T, D, D>>

MessageType == [Read |-> 1, Write |-> 2, ReadProc |-> 3, Value |-> 4, WriteProc |-> 5, Ack |-> 6]

\* The first byte of the magic number does not come again in it, and none of its bytes
\* is a message type.
ASSUME MagicAssumption ==
    /\ A \notin {T, D}
    /\ \A t \in DOMAIN MessageType : MessageType[t] \notin {A, T, D}

\* MessageType::try_from succeeds, and what it returns.
ValidType(byte) == \E t \in DOMAIN MessageType : MessageType[t] = byte
TypeOf(byte) == CHOOSE t \in DOMAIN MessageType : MessageType[t] = byte

IsClient(type) == type \in {"Read", "Write"}
IsAdvanced(type) == type \in {"Value", "WriteProc"}

to_be_bytes(n) == <<n \div Base, n % Base>>

\* Mutated from_be_bytes: the least significant byte first.
from_le_bytes(b) == b[1] + Base * b[2]

from_be_bytes(b) == Base * b[1] + b[2]

\* The hmac of bytes under a key: equal only for the same key and bytes.
Tag(key, bytes) == [key |-> key, over |-> bytes]

-----------------------------------------------------------------------------
(***************************************************************************)
(* Serialization                                                           *)
(***************************************************************************)
serialize_client_rc(cmd) ==
    MAGIC_NUMBER \o <<0, 0, 0, MessageType[cmd.type]>>
        \o to_be_bytes(cmd.rid) \o to_be_bytes(cmd.sidx)
        \o IF cmd.type = "Write" THEN cmd.data ELSE <<>>

serialize_system_rc(cmd) ==
    MAGIC_NUMBER \o <<0, 0, cmd.rank, MessageType[cmd.type]>>
        \o <<cmd.uid>> \o to_be_bytes(cmd.sidx)
        \o IF IsAdvanced(cmd.type) THEN to_be_bytes(cmd.ts) \o <<0, cmd.wr>> \o cmd.data ELSE <<>>

serialize_rc(cmd, key) ==
    LET bytes == IF IsClient(cmd.type) THEN serialize_client_rc(cmd) ELSE serialize_system_rc(cmd)
    IN  Append(bytes, Tag(key, bytes))

-----------------------------------------------------------------------------
(***************************************************************************)
(* Deserialization: the fields of a message after its header, and the      *)
(* command that its bytes b stand for.                                     *)
(***************************************************************************)
Fields(type) ==
    CASE type = "Read"        -> <<2, 2>>
      [] type = "Write"       -> <<2, 2, SectorSize>>
      [] IsAdvanced(type)     -> <<1, 2, 2, 2, SectorSize>>
      [] OTHER                -> <<1, 2>>

construct_client_command(type, b) ==
    LET rid == from_be_bytes(SubSeq(b, 9, 10))
        sidx == from_be_bytes(SubSeq(b, 11, 12))
    IN  IF type = "Read"
        THEN [type |-> type, rid |-> rid, sidx |-> sidx]
        ELSE [type |-> type, rid |-> rid, sidx |-> sidx, data |-> SubSeq(b, 13, 12 + SectorSize)]

construct_system_command(type, b) ==
    [type |-> type, rank |-> b[7], uid |-> b[9], sidx |-> from_be_bytes(SubSeq(b, 10, 11))]

construct_advanced_system_command(type, b) ==
    [type |-> type, rank |-> b[7], uid |-> b[9], sidx |-> from_be_bytes(SubSeq(b, 10, 11)),
     ts |-> from_be_bytes(SubSeq(b, 12, 13)), wr |-> b[15], data |-> SubSeq(b, 16, 15 + SectorSize)]

Construct(type, b) ==
    IF IsClient(type) THEN construct_client_command(type, b)
    ELSE IF IsAdvanced(type) THEN construct_advanced_system_command(type, b)
    ELSE construct_system_command(type, b)

KeyOf(type) == IF IsClient(type) THEN ClientKey ELSE SystemKey

-----------------------------------------------------------------------------
Init ==
    /\ wire = <<>>
    /\ closed = FALSE
    /\ stage = "start"
    /\ todo = <<>>
    /\ got = <<>>
    /\ results = <<>>
    /\ sent = <<>>
    /\ stray = 0

\* The peer: serialize_rc writes a whole message; bytes that are no message may come
\* between messages; the peer closes the connection or crashes.
Send(cmd, key) ==
    /\ ~closed /\ Len(sent) < MaxMessages
    /\ wire' = wire \o serialize_rc(cmd, key)
    /\ sent' = Append(sent, [cmd |-> cmd, key |-> key])
    /\ UNCHANGED <<closed, stage, todo, got, results, stray>>

SendStray(byte) ==
    /\ ~closed /\ stray < MaxStray
    /\ wire' = Append(wire, byte)
    /\ stray' = stray + 1
    /\ UNCHANGED <<closed, stage, todo, got, results, sent>>

Close ==
    /\ ~closed
    /\ closed' = TRUE
    /\ UNCHANGED <<wire, stage, todo, got, results, sent, stray>>

\* read_exact of n bytes, which become the last ones of b.
Read(n, b) ==
    /\ Len(wire) >= n
    /\ got' = b \o SubSeq(wire, 1, n)
    /\ wire' = SubSeq(wire, n + 1, Len(wire))
    /\ UNCHANGED <<closed, sent, stray>>

\* Mutated AfterMagic: three bytes are compared.
AfterMagicOfThree(b) == IF SubSeq(b, 1, 3) = SubSeq(MAGIC_NUMBER, 1, 3) THEN "header" ELSE "slide"

AfterMagic(b) == IF b = MAGIC_NUMBER THEN "header" ELSE "slide"

ReadMagic ==
    /\ stage = "start"
    /\ Read(4, <<>>)
    /\ stage' = AfterMagic(got')
    /\ UNCHANGED <<todo, results>>

\* Mutated Slide: four new bytes are read.
SlideByFour ==
    /\ stage = "slide"
    /\ Read(4, <<>>)
    /\ stage' = AfterMagic(got')
    /\ UNCHANGED <<todo, results>>

Slide ==
    /\ stage = "slide"
    /\ Read(1, Tail(got))
    /\ stage' = AfterMagic(got')
    /\ UNCHANGED <<todo, results>>

\* try_from(buff[3]).unwrap() panics for a type that is none.
ReadHeader ==
    /\ stage = "header"
    /\ Read(4, got)
    /\ \/ /\ ValidType(got'[8])
          /\ stage' = "fields"
          /\ todo' = Fields(TypeOf(got'[8]))
       \/ /\ ~ValidType(got'[8])
          /\ stage' = "panicked"
          /\ UNCHANGED todo
    /\ UNCHANGED results

ReadField ==
    /\ stage = "fields" /\ todo # <<>>
    /\ Read(Head(todo), got)
    /\ todo' = Tail(todo)
    /\ UNCHANGED <<stage, results>>

\* Read the tag, verify it and return; the caller calls again.
ReadTag ==
    LET type == TypeOf(got[8]) IN
    /\ stage = "fields" /\ todo = <<>>
    /\ wire # <<>>
    /\ results' = Append(results, [cmd |-> Construct(type, got),
                                   valid |-> Head(wire) = Tag(KeyOf(type), got)])
    /\ wire' = Tail(wire)
    /\ got' = <<>>
    /\ stage' = "start"
    /\ UNCHANGED <<closed, todo, sent, stray>>

\* read_exact fails, deserialize_rc returns the error, expect ends the task.
ReadFails ==
    /\ closed
    /\ stage \notin {"panicked", "ended"}
    /\ stage' = "ended"
    /\ UNCHANGED <<wire, closed, todo, got, results, sent, stray>>

Next ==
    \/ \E cmd \in Command, key \in {ClientKey, SystemKey} : Send(cmd, key)
    \/ \E byte \in {A, T, D} : SendStray(byte)
    \/ Close
    \/ ReadMagic
    \/ Slide
    \/ ReadHeader
    \/ ReadField
    \/ ReadTag
    \/ ReadFails

Spec == Init /\ [][Next]_vars

-----------------------------------------------------------------------------
(***************************************************************************)
(* Properties                                                              *)
(***************************************************************************)
\* What the receiver should make of a message: the same command, valid when it was
\* signed with the key of its kind.
Expected(m) == [cmd |-> m.cmd, valid |-> (m.key = ClientKey) = IsClient(m.cmd.type)]

\* deserialize_rc returns the commands that serialize_rc was given, each field as it
\* was, in order and none twice, whatever bytes lie between them, whichever key signed
\* them and wherever the connection breaks: no torn, shifted or forged command is ever
\* returned as valid.
ReturnsWhatWasSent ==
    Len(results) <= Len(sent) /\ \A i \in DOMAIN results : results[i] = Expected(sent[i])

\* No message is skipped: once all bytes are read, everything that was sent has been
\* returned. A message with a bad tag takes its own bytes and no more, and stray bytes,
\* even those that begin like a magic number, hide no message. (README.md:318-320.)
NothingSkipped ==
    (wire = <<>> /\ stage \notin {"panicked", "ended"}) => Len(results) = Len(sent)

\* The unwrap of an invalid message type, which ends the task of the connection, takes
\* a whole magic number outside of a message: four stray bytes. Messages with the magic
\* number in their data, refused messages and shorter runs of its bytes leave the
\* reader in step. (README.md:319 asks to discard such a header and go on.)
StopsOnlyAtStrayMagic == stage = "panicked" => stray >= Len(MAGIC_NUMBER)
=============================================================================
