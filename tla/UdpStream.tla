------------------------------ MODULE UdpStream -----------------------------
(***************************************************************************)
(* The pillar-udp stream transport (pillar-net/src/pillar_udp_transport.rs)*)
(* A dialer and a listener exchange byte streams over UDP.  Each side runs *)
(* a pump: it sends one DATA frame at a time, retransmits it until the ACK *)
(* with its number arrives, acknowledges every DATA frame it sees and      *)
(* hands the payload on only when the number is the next expected one.     *)
(*                                                                         *)
(* The listener keeps no connection state besides a table from the peer's  *)
(* address to its pump.  When the application drops the stream the pump    *)
(* ends, and the next datagram of that peer starts a new pump that counts  *)
(* from zero.  A pump also ends, with frames still queued, when it has     *)
(* nowhere left to receive from.                                           *)
(*                                                                         *)
(* The network loses, duplicates and reorders datagrams: one that is sent  *)
(* may vanish, and one that does not may arrive at any time, any number of *)
(* times.  The k-th byte a stream is given is the number k, so bytes are   *)
(* told apart.                                                             *)
(***************************************************************************)
EXTENDS Naturals, Sequences, SequencesExt, FiniteSets

CONSTANTS
    MaxPayload,     \* bytes of the largest frame (MAX_PAYLOAD)
    MaxBytes,       \* bound: bytes a dialer's stream is given
    MaxReplyBytes,  \* bound: bytes a listener's stream is given
    MaxAccepts      \* bound: streams the listener accepts from this peer

StreamAssumption ==
    /\ MaxPayload \in Nat \ {0} /\ MaxAccepts \in Nat \ {0}
    /\ MaxBytes \in Nat /\ MaxReplyBytes \in 0..MaxBytes

Side == {"dialer", "listener"}
Other(s) == IF s = "dialer" THEN "listener" ELSE "dialer"

VARIABLES
    write_buf,  \* [Side -> Seq(byte)]: written, not yet given to the pump
    queue,      \* [Side -> Seq(chunk)]: given to the pump, not yet taken
    pending,    \* [Side -> Seq(chunk)]: the frame in flight, at most one
    sent,       \* [Side -> Seq(byte)]: every byte given to the pump (history)
    send_seq, recv_seq,     \* [Side -> Nat]
    inbound,    \* [Side -> Seq(byte)]: what the application can read
    open,       \* [Side -> BOOLEAN]: the application holds the stream
    running,    \* [Side -> BOOLEAN]: the pump runs
    listening,  \* the listener's accept loop runs
    accepts,    \* the streams the listener accepted
    net         \* the datagrams the network carries

vars == <<write_buf, queue, pending, sent, send_seq, recv_seq, inbound, open, running,
          listening, accepts, net>>

Data(to, seq, chunk) == [to |-> to, tag |-> "data", seq |-> seq, chunk |-> chunk]
Ack(to, seq) == [to |-> to, tag |-> "ack", seq |-> seq, chunk |-> << >>]
Syn == [to |-> "listener", tag |-> "syn", seq |-> 0, chunk |-> << >>]

\* Sending promises nothing.
Send(m) == net' = net \/ net' = net \cup {m}

Limit(s) == IF s = "dialer" THEN MaxBytes ELSE MaxReplyBytes

\* `dial`: the dialer's stream exists and its pump sent a SYN; the listener
\* waits.
Init ==
    /\ write_buf = [s \in Side |-> << >>] /\ queue = write_buf /\ pending = write_buf
    /\ sent = write_buf /\ inbound = write_buf
    /\ send_seq = [s \in Side |-> 0] /\ recv_seq = send_seq
    /\ open = [s \in Side |-> s = "dialer"] /\ running = open
    /\ listening = TRUE /\ accepts = 0
    /\ net \in {{}, {Syn}}

\* What a buffer hands over: full frames only, or everything when flushed.
FullFrames(buf) == (Len(buf) \div MaxPayload) * MaxPayload
Frames(bytes) ==
    [i \in 1..((Len(bytes) + MaxPayload - 1) \div MaxPayload) |->
        SubSeq(bytes, (i - 1) * MaxPayload + 1,
               IF i * MaxPayload > Len(bytes) THEN Len(bytes) ELSE i * MaxPayload)]

HandOver(s, buf, n) ==
    /\ queue' = [queue EXCEPT ![s] = @ \o Frames(SubSeq(buf, 1, n))]
    /\ sent' = [sent EXCEPT ![s] = @ \o SubSeq(buf, 1, n)]
    /\ write_buf' = [write_buf EXCEPT ![s] = SubSeq(buf, n + 1, Len(buf))]

\* Once the pump has ended a write fails or stays in a buffer nobody empties.
PollWrite(s, n) ==
    LET given == Len(sent[s]) + Len(write_buf[s])
        buf == write_buf[s] \o [i \in 1..n |-> given + i]
    IN  /\ open[s] /\ running[s] /\ given + n <= Limit(s)
        /\ HandOver(s, buf, FullFrames(buf))
        /\ UNCHANGED <<pending, send_seq, recv_seq, inbound, open, running, listening,
                       accepts, net>>

PollFlush(s) ==
    /\ open[s] /\ running[s] /\ write_buf[s] # << >>
    /\ HandOver(s, write_buf[s], Len(write_buf[s]))
    /\ UNCHANGED <<pending, send_seq, recv_seq, inbound, open, running, listening, accepts,
                   net>>

\* The pump takes a chunk only when none is in flight.
TakeChunk(s) ==
    /\ running[s] /\ pending[s] = << >> /\ queue[s] # << >>
    /\ pending' = [pending EXCEPT ![s] = <<Head(queue[s])>>]
    /\ queue' = [queue EXCEPT ![s] = Tail(@)]
    /\ Send(Data(Other(s), send_seq[s], Head(queue[s])))
    /\ UNCHANGED <<write_buf, sent, send_seq, recv_seq, inbound, open, running, listening,
                   accepts>>

Retransmit(s) ==
    /\ running[s] /\ pending[s] # << >>
    /\ Send(Data(Other(s), send_seq[s], pending[s][1]))
    /\ UNCHANGED <<write_buf, queue, pending, sent, send_seq, recv_seq, inbound, open,
                   running, listening, accepts>>

\* Mutant of HandleData: a frame that was delivered before is delivered again.
HandleDataAgain(s, m) ==
    LET fits == m.seq <= recv_seq[s]
    IN  /\ m.tag = "data"
        /\ Send(Ack(Other(s), m.seq))
        /\ recv_seq' = [recv_seq EXCEPT ![s] = IF fits THEN m.seq + 1 ELSE @]
        /\ inbound' = [inbound EXCEPT ![s] = IF fits /\ open[s] THEN @ \o m.chunk ELSE @]
        /\ running' = [running EXCEPT ![s] = ~(fits /\ ~open[s])]
        /\ UNCHANGED <<write_buf, queue, pending, sent, send_seq, open, listening, accepts>>

\* Mutant of HandleData: a frame that was delivered before is not acknowledged.
HandleDataQuietly(s, m) ==
    LET fits == m.seq = recv_seq[s]
    IN  /\ m.tag = "data"
        /\ IF fits THEN Send(Ack(Other(s), m.seq)) ELSE UNCHANGED net
        /\ recv_seq' = [recv_seq EXCEPT ![s] = IF fits THEN @ + 1 ELSE @]
        /\ inbound' = [inbound EXCEPT ![s] = IF fits /\ open[s] THEN @ \o m.chunk ELSE @]
        /\ running' = [running EXCEPT ![s] = ~(fits /\ ~open[s])]
        /\ UNCHANGED <<write_buf, queue, pending, sent, send_seq, open, listening, accepts>>

\* `handle_datagram` of a running pump.  A DATA frame is acknowledged before
\* its number is looked at; when nobody reads any more the pump ends.
HandleData(s, m) ==
    LET fits == m.seq = recv_seq[s]
    IN  /\ m.tag = "data"
        /\ Send(Ack(Other(s), m.seq))
        /\ recv_seq' = [recv_seq EXCEPT ![s] = IF fits THEN @ + 1 ELSE @]
        /\ inbound' = [inbound EXCEPT ![s] = IF fits /\ open[s] THEN @ \o m.chunk ELSE @]
        /\ running' = [running EXCEPT ![s] = ~(fits /\ ~open[s])]
        /\ UNCHANGED <<write_buf, queue, pending, sent, send_seq, open, listening, accepts>>

HandleAck(s, m) ==
    LET fits == pending[s] # << >> /\ m.seq = send_seq[s]
    IN  /\ m.tag = "ack"
        /\ pending' = [pending EXCEPT ![s] = IF fits THEN << >> ELSE @]
        /\ send_seq' = [send_seq EXCEPT ![s] = IF fits THEN @ + 1 ELSE @]
        /\ UNCHANGED <<write_buf, queue, sent, recv_seq, inbound, open, running, listening,
                       accepts, net>>

\* The accept loop of `listen_on`: a datagram whose peer has no running pump
\* starts one, whatever the datagram is, and is then handled by it.
Accept(m) ==
    LET first == m.tag = "data" /\ m.seq = 0
        Fresh(f, v) == [f EXCEPT !["listener"] = v]
    IN  /\ m.to = "listener" /\ listening /\ ~running["listener"] /\ accepts < MaxAccepts
        /\ accepts' = accepts + 1
        /\ write_buf' = Fresh(write_buf, << >>) /\ queue' = Fresh(queue, << >>)
        /\ pending' = Fresh(pending, << >>) /\ sent' = Fresh(sent, << >>)
        /\ send_seq' = Fresh(send_seq, 0)
        /\ recv_seq' = Fresh(recv_seq, IF first THEN 1 ELSE 0)
        /\ inbound' = Fresh(inbound, IF first THEN m.chunk ELSE << >>)
        /\ open' = Fresh(open, TRUE) /\ running' = Fresh(running, TRUE)
        /\ IF m.tag = "data" THEN Send(Ack("dialer", m.seq)) ELSE UNCHANGED net
        /\ UNCHANGED listening

\* A SYN tells a running pump nothing.
Handle(m) ==
    \/ Accept(m)
    \/ running[m.to] /\ (HandleData(m.to, m) \/ HandleAck(m.to, m))

\* The application drops its stream; what it wrote and never flushed is gone.
Drop(s) ==
    /\ open[s]
    /\ open' = [open EXCEPT ![s] = FALSE]
    /\ write_buf' = [write_buf EXCEPT ![s] = << >>]
    /\ UNCHANGED <<queue, pending, sent, send_seq, recv_seq, inbound, running, listening,
                   accepts, net>>

\* A pump with nothing in flight and nothing queued notices the drop.
PumpEnds(s) ==
    /\ running[s] /\ ~open[s] /\ pending[s] = << >> /\ queue[s] = << >>
    /\ running' = [running EXCEPT ![s] = FALSE]
    /\ UNCHANGED <<write_buf, queue, pending, sent, send_seq, recv_seq, inbound, open,
                   listening, accepts, net>>

\* The accept loop ends: its socket fails, or the transport has removed the
\* listener and nobody takes the next stream.  Its table of pumps goes with it.
ListenerEnds ==
    /\ listening
    /\ listening' = FALSE
    /\ UNCHANGED <<write_buf, queue, pending, sent, send_seq, recv_seq, inbound, open,
                   running, accepts, net>>

\* `RecvOne::Closed`: the dialer's own socket fails, or the listener's pump has
\* handled what the accept loop left to it.  What is queued or in flight is lost.
PumpClosed(s) ==
    /\ running[s] /\ (s = "dialer" \/ ~listening)
    /\ running' = [running EXCEPT ![s] = FALSE]
    /\ UNCHANGED <<write_buf, queue, pending, sent, send_seq, recv_seq, inbound, open,
                   listening, accepts, net>>

Next ==
    \/ \E s \in Side : \/ PollFlush(s) \/ TakeChunk(s) \/ Retransmit(s) \/ Drop(s)
                       \/ PumpEnds(s) \/ PumpClosed(s)
                       \/ \E n \in 1..MaxBytes : PollWrite(s, n)
    \/ ListenerEnds
    \/ \E m \in net : Handle(m)

Spec == Init /\ [][Next]_vars

\* What fairness is asked of: a retransmission that gets through, a frame
\* that arrives and whose acknowledgement gets through.
RetransmitGetsThrough(s) ==
    Retransmit(s) /\ Data(Other(s), send_seq[s], pending[s][1]) \in net'
ArrivesAndIsAcked(seq) ==
    \E m \in net : /\ m.to = "listener" /\ m.tag = "data" /\ m.seq = seq
                   /\ Handle(m) /\ Ack("dialer", seq) \in net'
AckArrives(seq) == Ack("dialer", seq) \in net /\ Handle(Ack("dialer", seq))

-----------------------------------------------------------------------------
(* Properties *)

Datagram == [to : Side, tag : {"data", "ack", "syn"}, seq : 0..MaxBytes,
             chunk : Seq(1..MaxBytes)]

TypeOK ==
    /\ \A s \in Side :
        /\ Range(write_buf[s]) \cup Range(sent[s]) \cup Range(inbound[s]) \subseteq 1..MaxBytes
        /\ Len(pending[s]) <= 1
        /\ \A c \in Range(queue[s] \o pending[s]) : Len(c) \in 1..MaxPayload
    /\ net \subseteq Datagram
    /\ listening \in BOOLEAN /\ accepts \in 0..MaxAccepts

\* One of the applications has given up a stream of the connection, or one end
\* has lost its socket.
Dropped ==
    \/ ~open["dialer"] \/ accepts > 1 \/ (accepts = 1 /\ ~open["listener"])
    \/ ~running["dialer"] \/ ~listening

\* The numbers mean what the pump believes as long as the listener has not
\* started over: a frame counted as acknowledged was handed on by the other
\* pump, and the other pump is never more than one frame ahead.
AckedMeansReceived ==
    (accepts = 1) => \A s \in Side :
        send_seq[s] <= recv_seq[Other(s)] /\ recv_seq[Other(s)] <= send_seq[s] + Len(pending[s])

\* Whatever the network does, each stream the listener hands out carries the
\* dialer's bytes from the first on, in order and without a gap; the dialer
\* reads the listener's bytes likewise until the listener starts over.
ReadsAPrefix ==
    /\ IsPrefix(inbound["listener"], sent["dialer"])
    /\ accepts <= 1 => IsPrefix(inbound["dialer"], sent["listener"])

StreamInv == TypeOK /\ AckedMeansReceived /\ ReadsAPrefix

Pipe == INSTANCE BytePipe WITH
            written <- sent["dialer"], read <- inbound["listener"], streams <- accepts

\* The pumps, the accept loop and the network together implement the pipe from
\* the dialer to the listener, re-accepted streams included.
ImplementsPipe == Pipe!Spec

\* The 60 ms interval keeps retransmitting, and a datagram sent again and
\* again is not lost every time: the reader catches up with what the dialer
\* handed over unless an application drops its stream or an end loses its
\* socket.
FlushedIsRead ==
    sent["dialer"] # inbound["listener"] ~> sent["dialer"] = inbound["listener"] \/ Dropped
=============================================================================
