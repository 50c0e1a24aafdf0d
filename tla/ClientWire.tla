----------------------------- MODULE ClientWire -----------------------------
(***************************************************************************)
(* A `pillar` command and the node's operation server.  The command seals  *)
(* and signs one message per operation (`pillar apply` one per document of *)
(* the manifest) and sends it over the transport tiers in turn: a tier     *)
(* that goes silent for two seconds or gives no usable answer counts as    *)
(* unreachable and the same message goes to the next one                   *)
(* (pillar-client/src/transport.rs, pillar-cli/src/                        *)
(* apply_over_pillar_message.rs).  A tier that keeps a connection may also *)
(* be held by the other end: the timeout is that of each read, and QUIC    *)
(* writes without one.  The node evaluates every message that arrives      *)
(* intact and keeps no record of the ones it has seen                      *)
(* (pillar-cli/src/resource_op_udp_server.rs).                             *)
(*                                                                         *)
(* Operations are told apart by their place in the command; what the node  *)
(* makes of one (the workload plane and the portal's own modules) is an    *)
(* arbitrary verdict here.                                                 *)
(***************************************************************************)
EXTENDS Naturals, Sequences, SequencesExt, FiniteSets

CONSTANTS
    MaxWork,        \* bound: operations of a command and commands before it
    Tiers,          \* the transport kinds in the order they are tried
    MaxCopies,      \* bound: copies of one UDP datagram that arrive
    None

WireAssumption ==
    /\ Tiers \in Seq({"udp", "quic", "https"}) /\ Tiers # << >>
    /\ MaxWork \in Nat /\ MaxCopies \in Nat \ {0}

VARIABLES
    cli,        \* the running command: its operations' number, acks, outcome
    dial,       \* the open dial of the command, or None
    dials,      \* dials of this command; each has a socket of its own
    held,       \* the other end keeps the open dial waiting
    requests,   \* requests under way: [cmd, dial, pos, copies]
    replies,    \* replies on their way to the open dial's socket
    evaluated   \* history: [cmd, pos, verdict] of what the node evaluated

wireVars == <<cli, dial, dials, held, requests, replies, evaluated>>

WireInit ==
    /\ cli = [n |-> 0, ops |-> 0, acks |-> << >>, exit |-> "success"]
    /\ dial = None /\ dials = 0 /\ held = FALSE
    /\ requests = {} /\ replies = {}
    /\ evaluated = {}

\* The user runs a command.  Bad arguments, an unreadable file or an unusable
\* configuration end it before anything is sent.
Usage ==
    /\ cli.exit # "running" /\ cli.n < MaxWork
    /\ cli' = [n |-> cli.n + 1, ops |-> 0, acks |-> << >>, exit |-> "usage"]
    /\ UNCHANGED <<dial, dials, held, requests, replies, evaluated>>

Run(n) ==
    /\ cli.exit # "running" /\ cli.n + n <= MaxWork
    /\ cli' = [n |-> cli.n + 1, ops |-> n, acks |-> << >>, exit |-> "running"]
    /\ dials' = 0
    /\ UNCHANGED <<dial, held, requests, replies, evaluated>>

\* How many copies of a datagram reach the other end.
Copies(tier) == IF tier = "udp" THEN 0..MaxCopies ELSE 0..1

\* `send_with_fallback`: dial tier t with the message of the next operation.
Dial(t) ==
    \E copies \in Copies(Tiers[t]) :
        /\ dial' = [id |-> dials + 1, tier |-> t]
        /\ dials' = dials + 1 /\ held' = FALSE
        /\ replies' = {}
        /\ requests' =
             IF copies = 0 THEN requests
             ELSE requests \cup {[cmd |-> cli.n, dial |-> dials + 1, pos |-> Len(cli.acks) + 1,
                                  copies |-> copies]}

SendNext ==
    /\ cli.exit = "running" /\ dial = None /\ Len(cli.acks) < cli.ops
    /\ Dial(1)
    /\ UNCHANGED <<cli, evaluated>>

\* The dial is over; its socket is closed with what is still on its way.
Hangup ==
    /\ dial' = None /\ held' = FALSE
    /\ replies' = {}
    /\ UNCHANGED <<dials, requests>>

\* The tier is unreachable: the next one is tried, after the last the command
\* fails and leaves the operations that follow unsent.
NextTier ==
    \/ /\ dial.tier < Len(Tiers)
       /\ Dial(dial.tier + 1)
       /\ UNCHANGED cli
    \/ /\ dial.tier = Len(Tiers)
       /\ cli' = [cli EXCEPT !.exit = "failure"]
       /\ Hangup

\* The other end of a connection sends a part of an answer before the read
\* times out, or takes no more of the request and keeps the connection alive;
\* it may stop doing so.
Hold ==
    /\ dial # None /\ Tiers[dial.tier] # "udp" /\ ~held
    /\ held' = TRUE
    /\ UNCHANGED <<cli, dial, dials, requests, replies, evaluated>>

LetGo ==
    /\ held
    /\ held' = FALSE
    /\ UNCHANGED <<cli, dial, dials, requests, replies, evaluated>>

\* Mutant of Timeout: the last tier is waited for without a timeout.
TimeoutBetweenTiers ==
    /\ dial # None /\ ~held /\ dial.tier < Len(Tiers)
    /\ NextTier
    /\ UNCHANGED evaluated

\* Nothing comes for as long as a read, or the system's connect, waits.
Timeout ==
    /\ dial # None /\ ~held
    /\ NextTier
    /\ UNCHANGED evaluated

\* The socket of the open dial yields its reply.  One that does not decode
\* counts as unreachable, one that does not open under the cell's key fails
\* the command, and an ERR is an answer like any other.
Receive(kind) ==
    /\ kind \in replies
    /\ \/ kind = "garbled" /\ NextTier
       \/ /\ kind = "unsealable"
          /\ cli' = [cli EXCEPT !.exit = "failure"]
          /\ Hangup
       \/ /\ kind \in {"OK", "ERR"}
          /\ cli' = [cli EXCEPT !.acks = Append(@, kind)]
          /\ Hangup
    /\ UNCHANGED evaluated

Finish ==
    /\ cli.exit = "running" /\ dial = None /\ Len(cli.acks) = cli.ops
    /\ cli' = [cli EXCEPT !.exit = IF "ERR" \in Range(cli.acks) THEN "failure" ELSE "success"]
    /\ UNCHANGED <<dial, dials, held, requests, replies, evaluated>>

\* Mutant of Reply: one socket serves every dial.
ReplyToAnyDial(q, answer) ==
    replies' = IF dial # None THEN replies \cup answer ELSE replies

\* The node answers to the address the request came from.
Reply(q, answer) ==
    replies' = IF dial # None /\ q.cmd = cli.n /\ q.dial = dial.id THEN replies \cup answer
               ELSE replies

\* `serve` and `handle_datagram`: one copy of a request is evaluated under
\* the context's lock and answered; the answer may get lost or spoilt.
Evaluate(q) ==
    \E verdict \in {"OK", "ERR"} : \E answer \in {{}, {verdict}, {"garbled"}, {"unsealable"}} :
        /\ requests' = (requests \ {q}) \cup
                       (IF q.copies = 1 THEN {} ELSE {[q EXCEPT !.copies = @ - 1]})
        /\ evaluated' = evaluated \cup {[cmd |-> q.cmd, pos |-> q.pos, verdict |-> verdict]}
        /\ Reply(q, answer)
        /\ UNCHANGED <<cli, dial, dials, held>>

\* A message that does not decode, verify, open or parse is answered with an
\* error and changes nothing.
Refuse(q) ==
    \E answer \in {{}, {"ERR"}} :
        /\ requests' = requests \ {q}
        /\ Reply(q, answer)
        /\ UNCHANGED <<cli, dial, dials, held, evaluated>>

WireNext ==
    \/ Usage \/ (\E n \in 1..MaxWork : Run(n))
    \/ SendNext \/ Timeout \/ Finish \/ Hold \/ LetGo
    \/ \E kind \in replies : Receive(kind)
    \/ \E q \in requests : Evaluate(q) \/ Refuse(q)

WireSpec == WireInit /\ [][WireNext]_wireVars

WireFair == WF_wireVars(SendNext \/ Timeout \/ Finish)

-----------------------------------------------------------------------------
(* Properties *)

WireTypeOK ==
    /\ cli.n \in 0..MaxWork
    /\ cli.exit \in {"running", "success", "failure", "usage"}
    /\ Len(cli.acks) <= cli.ops
    /\ dial = None \/ dial.tier \in DOMAIN Tiers
    /\ held \in BOOLEAN
    /\ \A q \in requests : q.copies \in 1..MaxCopies /\ q.cmd \in 1..cli.n
    /\ replies \subseteq {"OK", "ERR", "garbled", "unsealable"}

Verdicts(i) == {e.verdict : e \in {f \in evaluated : f.cmd = cli.n /\ f.pos = i}}

\* A late reply to an earlier dial, an earlier operation or an earlier command
\* is never taken for the answer to this one: every OK recorded for an
\* operation is backed by an evaluation of that operation that succeeded, so
\* a command that ends in success was carried out in full.
OkIsMine ==
    /\ \A i \in DOMAIN cli.acks : cli.acks[i] = "OK" => "OK" \in Verdicts(i)
    /\ cli.exit = "success" => \A i \in 1..cli.ops : "OK" \in Verdicts(i)

\* The documents of a manifest reach the node in their order: none is
\* evaluated before the one ahead of it was answered, and one that got no
\* answer stops the rest for good, however late its message arrives.
DocumentsInOrder ==
    \A i \in 1..cli.ops : Verdicts(i) # {} => i <= Len(cli.acks) + 1

WireInv == WireTypeOK /\ OkIsMine /\ DocumentsInOrder

\* Whatever the network loses and the node answers, a command ends, unless
\* the other end of a connection holds it again and again: a silent tier is
\* given up on, whichever it is and however often messages were sent before.
CommandEnds == []<>held \/ (cli.exit = "running" ~> cli.exit # "running")
=============================================================================
