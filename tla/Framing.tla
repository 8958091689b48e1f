------------------------------ MODULE Framing ------------------------------
(***************************************************************************)
(* The bytes of one connection: DataPackage writes a package to the stream,*)
(* TCP cuts the stream anywhere, Package collects the pieces, and the read *)
(* loop of Network::process takes packages out of it.                      *)
(*                                                                         *)
(* Bytes are numbers, and a length is decoded from whatever bytes are at   *)
(* the front of the buffer.  The fields are narrower than in the code      *)
(* (sizes below), and the fields sequenceSize and sequence, which the      *)
(* server does not read, are left out.  The code from the end of one wait  *)
(* for the socket to the next wait is one action.                          *)
(*                                                                         *)
(* Left out: the peer going away, the connection maps (Connections), what  *)
(* a command does.  The test client reads its answers with the same loop.  *)
(***************************************************************************)
EXTENDS Integers, Sequences, FiniteSetsExt

CONSTANTS
    RequestIDs,    \* the request ids the peer uses
    DataSizes,     \* how many bytes of data a request may carry
    MalformedLengths, \* lengths too short for the header that the peer may send
    buffer_lenth,  \* the most one read returns
    max_heart_beat_num,
    MaxHeartBeats, \* bound: heartbeats counted before the interval must have passed
    MaxBytes       \* bound: bytes sent and not yet taken out of the buffer

LengthSize == 2               \* sizeof(LengthType), 4 in the code
HeaderSize == LengthSize + 2  \* sizeof(DataPackage): length, type, requestID
Bytes == 0 .. 255
MaxLength == 65535            \* the largest value of LengthType

ASSUME RequestIDsAssumption == RequestIDs \subseteq 1 .. 255
ASSUME DataSizesAssumption == DataSizes \subseteq 0 .. (MaxLength - HeaderSize)
ASSUME MalformedLengthsAssumption == MalformedLengths \subseteq {0, LengthSize}
ASSUME BoundsAssumption ==
    /\ buffer_lenth \in Nat \ {0}
    /\ max_heart_beat_num \in Nat
    /\ MaxHeartBeats \in Nat
    /\ MaxBytes \in Nat

VARIABLES
    wire,              \* bytes sent and not yet read from the socket
    m_buffer,          \* Package: bytes read
    pack,              \* the package read last
    heart_beat_times,  \* heartbeats since the last check
    pc,                \* "read", "process" or "closed"
    outstanding,       \* requests sent and not yet answered
    sent               \* history: what the peer sent and the loop has not yet taken

vars == <<wire, m_buffer, pack, heart_beat_times, pc, outstanding, sent>>

-----------------------------------------------------------------------------
(* Packages and their bytes.                                               *)

Text == 1
HeartBeat == 4

heartbeat == [type |-> HeartBeat, requestID |-> 0, size |-> 0]
Packages ==
    {heartbeat} \cup [type : {Text}, requestID : RequestIDs, size : DataSizes]

\* The length field, in network byte order.
swapNetworkEndianness(n) == <<n \div 256, n % 256>>

\* makePackage: the length field counts the header too.
PackageLength(p) == HeaderSize + p.size

\* The bytes of the data say nothing.
packageToString(p) ==
    swapNetworkEndianness(PackageLength(p))
        \o <<p.type, p.requestID>> \o [i \in 1 .. p.size |-> 0]

\* What is no package: a length too short for the header, or zero, alone.
Malformed == [type |-> 0, requestID |-> 0, size |-> LengthSize - HeaderSize]
MalformedBytes == {swapNetworkEndianness(n) : n \in MalformedLengths}

firstMsgLength(b) ==
    IF Len(b) < LengthSize THEN 0 ELSE 256 * b[1] + b[2]

canRead(b) == Len(b) >= LengthSize /\ firstMsgLength(b) <= Len(b)

\* Package::read: what it returns and what it leaves.
First(b) == SubSeq(b, 1, firstMsgLength(b))

\* Mutant of Rest: the whole buffer is cleared after a package.
Rest_Clears(b) == <<>>

Rest(b) == SubSeq(b, firstMsgLength(b) + 1, Len(b))

\* The checks of stringToPackage, and its result when they pass.
IsPackage(data) ==
    /\ Len(data) >= HeaderSize
    /\ firstMsgLength(data) = Len(data)

\* Mutant of stringToPackage: the size of the data counts the header.
stringToPackage_HeaderCounted(data) ==
    [type |-> data[LengthSize + 1],
     requestID |-> data[LengthSize + 2],
     size |-> Len(data)]

stringToPackage(data) ==
    [type |-> data[LengthSize + 1],
     requestID |-> data[LengthSize + 2],
     size |-> Len(data) - HeaderSize]

-----------------------------------------------------------------------------
\* Types; what the loop takes out of the buffer is a package that can be sent.
TypeOK ==
    /\ wire \in Seq(Bytes)
    /\ m_buffer \in Seq(Bytes)
    /\ pack \in Packages
    /\ heart_beat_times \in Nat
    /\ pc \in {"read", "process", "closed"}
    /\ outstanding \subseteq RequestIDs
    /\ sent \in Seq(Packages \cup {Malformed})

Init ==
    /\ wire = <<>>
    /\ m_buffer = <<>>
    /\ pack = heartbeat
    /\ heart_beat_times = 0
    /\ pc = "read"
    /\ outstanding = {}
    /\ sent = <<>>

-----------------------------------------------------------------------------
(* The peer.                                                               *)

Send(bytes, p) ==
    /\ pc # "closed"
    /\ Len(wire) + Len(m_buffer) + Len(bytes) <= MaxBytes
    /\ wire' = wire \o bytes
    /\ sent' = Append(sent, p)
    /\ UNCHANGED <<m_buffer, pack, heart_beat_times, pc>>

\* A peer may have several requests under way, one per id.
SendRequest(p) ==
    /\ p.type = Text /\ p.requestID \notin outstanding
    /\ Send(packageToString(p), p)
    /\ outstanding' = outstanding \cup {p.requestID}

SendHeartBeat == Send(packageToString(heartbeat), heartbeat) /\ UNCHANGED outstanding

SendMalformed(bytes) == Send(bytes, Malformed) /\ UNCHANGED outstanding

-----------------------------------------------------------------------------
(* The read loop.                                                          *)

\* Mutant of write: setBuffer in its place.
write_Replaces(b, data) == data

write(b, data) == b \o data

\* The do-while goes on: another read from the socket.
Incomplete(b) ==
    /\ ~canRead(b)
    /\ m_buffer' = b
    /\ UNCHANGED <<pack, heart_beat_times, pc, sent>>

\* read throws empty_length and leaves the buffer, stringToPackage throws
\* data_too_small or invalid_data: the loop ends.
Bad(b) ==
    /\ canRead(b)
    /\ \/ firstMsgLength(b) = 0 /\ m_buffer' = b
       \/ firstMsgLength(b) > 0 /\ ~IsPackage(First(b)) /\ m_buffer' = Rest(b)
    /\ pc' = "closed"
    /\ UNCHANGED <<pack, heart_beat_times, sent>>

\* Every heartbeat counts.  When the interval has passed since the last check,
\* which MaxHeartBeats makes it do at last, this one is a check, and it closes the
\* connection or starts the count again.
CountHeartBeat ==
    LET times == heart_beat_times + 1 IN
    \/ times <= MaxHeartBeats /\ heart_beat_times' = times /\ UNCHANGED pc
    \/ times > max_heart_beat_num /\ heart_beat_times' = times /\ pc' = "closed"
    \/ times <= max_heart_beat_num /\ heart_beat_times' = 0 /\ UNCHANGED pc

Complete(b) ==
    /\ canRead(b)
    /\ IsPackage(First(b))
    /\ m_buffer' = Rest(b)
    /\ sent' = Tail(sent)
    /\ pack' = stringToPackage(First(b))
    /\ \/ pack'.type = HeartBeat /\ CountHeartBeat
       \/ pack'.type # HeartBeat /\ pc' = "process" /\ UNCHANGED heart_beat_times

\* async_read_some returns, with as many bytes as TCP happens to have.
ReadSome ==
    /\ pc = "read"
    /\ \E size \in 1 .. Min({buffer_lenth, Len(wire)}) :
          LET b == write(m_buffer, SubSeq(wire, 1, size))
          IN /\ wire' = SubSeq(wire, size + 1, Len(wire))
             /\ Incomplete(b) \/ Bad(b) \/ Complete(b)
    /\ UNCHANGED outstanding

\* Mutant of Process: the answer goes out with the default request id.
Process_NoRequestID ==
    /\ pc = "process"
    /\ pc' = "read"
    /\ outstanding' = outstanding \ {0}
    /\ UNCHANGED <<wire, m_buffer, pack, heart_beat_times, sent>>

\* SocketService::process: one answer, with the request id of the package.
Process ==
    /\ pc = "process"
    /\ pc' = "read"
    /\ outstanding' = outstanding \ {pack.requestID}
    /\ UNCHANGED <<wire, m_buffer, pack, heart_beat_times, sent>>

\* The text is not JSON, or the write fails.
ProcessFails ==
    /\ pc = "process"
    /\ pc' = "closed"
    /\ UNCHANGED <<wire, m_buffer, pack, heart_beat_times, outstanding, sent>>

-----------------------------------------------------------------------------
Next ==
    \/ \E p \in Packages : SendRequest(p)
    \/ SendHeartBeat
    \/ \E bytes \in MalformedBytes : SendMalformed(bytes)
    \/ ReadSome
    \/ Process
    \/ ProcessFails

\* The io_context delivers bytes that have arrived and runs the handlers.
\* Nothing is assumed of the peer.
Fairness == WF_vars(ReadSome) /\ WF_vars(Process \/ ProcessFails)

Spec == Init /\ [][Next]_vars
FairSpec == Spec /\ Fairness

-----------------------------------------------------------------------------
(* What framing guarantees.                                                *)

queue == IF pc = "closed" THEN <<>> ELSE sent

C == INSTANCE Channel WITH delivered <- pack, open <- pc # "closed"

\* However TCP cuts the stream, the loop of Network::process hands on the
\* packages that were sent: all of them, once, in order, and none after a
\* malformed one (the framing implements Channel).
ChannelSpec == C!Spec

\* No request is lost, answered twice or answered under another id between the
\* stream and SocketService::process: the unanswered requests of an open
\* connection are those still in the stream and the one being processed.
RequestsAccountedFor ==
    pc # "closed" =>
        outstanding =
            {sent[i].requestID : i \in {j \in DOMAIN sent : sent[j].type = Text}}
                \cup (IF pc = "process" THEN {pack.requestID} ELSE {})

\* As long as bytes keep arriving every request is answered: no package in the
\* buffer is passed over for ever.
AnsweredWhileBytesArrive ==
    []<><<ReadSome>>_vars =>
        \A r \in RequestIDs : r \in outstanding ~> r \notin outstanding

-----------------------------------------------------------------------------
(* What the documentation says and the code does not do.                   *)

\* Every command has a "return format", for success and for failure: a request
\* is answered, or the connection closed.  The loop reads from the socket
\* before it looks at the buffer, so the second of two packages that arrive
\* together waits until the peer sends more.
EveryRequestAnswered ==
    \A r \in RequestIDs :
        r \in outstanding ~> (r \notin outstanding \/ pc = "closed")
=============================================================================
