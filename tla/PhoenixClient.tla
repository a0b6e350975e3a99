---------------------------- MODULE PhoenixClient ----------------------------
(***************************************************************************)
(* The Rust client of the game relay (client/rust): GameClient over          *)
(* PhoenixClient over one WebSocket.  The embedding calls one method at a    *)
(* time; a method that waits reads frames until its answer, its deadline or  *)
(* the end of the socket.  Payloads are left out: a broadcast is who sent    *)
(* it, in which epoch, and its number.                                       *)
(***************************************************************************)
EXTENDS Integers, Sequences, FiniteSets

CONSTANTS
    Clients,        \* clients, each with a socket of its own
    Roles,          \* the seats a client may ask for
    Numbers,        \* numbers a command may carry
    MaxRefs         \* bound: frames each client sends

ASSUME ClientAssumption == Numbers \subseteq Nat \ {0} /\ MaxRefs \in [Clients -> Nat]

VARIABLES
    phx,            \* the clients
    wire,           \* frames on the way to each client
    mailbox         \* what waits for each client's channel process

Refs == {0} \cup UNION {1..MaxRefs[c] : c \in Clients}     \* 0: none
Events == {"peer_joined", "peer_left", "command", "event"}
Broadcast == [from : Clients, role : Roles, ref : Refs, epoch : Nat, event : Events,
              seq : Numbers \cup {0}]
RelayOutcome == {"relayed", "dropped"}
Frame == [kind : {"reply"}, ref : Refs, result : RelayOutcome \cup {"ok", "rejected"}]
         \cup [kind : {"phx_error", "phx_close"}] \cup [kind : {"broadcast"}, body : Broadcast]

\* got and outcomes are what the embedding has been given so far.
PhoenixState ==
    [phase : {"new", "joining", "idle", "pushing", "done"},
     next_ref : Refs, wanted : Refs, heartbeat_ref : Refs, pending : Seq(Broadcast),
     got : Seq(Broadcast), outcomes : SUBSET (Refs \X RelayOutcome)]

ClientInit ==
    /\ phx = [c \in Clients |-> [phase |-> "new", next_ref |-> 0, wanted |-> 0,
                                 heartbeat_ref |-> 0, pending |-> <<>>, got |-> <<>>,
                                 outcomes |-> {}]]
    /\ wire = [c \in Clients |-> <<>>]
    /\ mailbox = [c \in Clients |-> <<>>]
-----------------------------------------------------------------------------
(* Sending.  What reaches a client that has closed its socket is lost.       *)
ToClient(c, frame) ==
    wire' = IF phx[c].phase = "done" THEN wire ELSE [wire EXCEPT ![c] = Append(@, frame)]
TakeRef(c) == phx[c].next_ref + 1
Send(c, message) ==
    /\ phx[c].next_ref < MaxRefs[c]
    /\ mailbox' = [mailbox EXCEPT ![c] = Append(@, message)]

Join(c, role, epoch) ==
    /\ phx[c].phase = "new"
    /\ Send(c, [kind |-> "join", ref |-> TakeRef(c), role |-> role, epoch |-> epoch])
    /\ phx' = [phx EXCEPT ![c].phase = "joining", ![c].next_ref = @ + 1, ![c].wanted = TakeRef(c)]
    /\ UNCHANGED wire

\* send_command and send_event; an event carries no number.
Push(c, event, seq) ==
    /\ phx[c].phase = "idle"
    /\ event = "command" <=> seq # 0
    /\ Send(c, [kind |-> event, ref |-> TakeRef(c), seq |-> seq])
    /\ phx' = [phx EXCEPT ![c].phase = "pushing", ![c].next_ref = @ + 1, ![c].wanted = TakeRef(c)]
    /\ UNCHANGED wire

\* Sent by a long next_broadcast; the socket answers without asking the channel.
Heartbeat(c) ==
    /\ phx[c].phase = "idle" /\ phx[c].pending = <<>> /\ phx[c].heartbeat_ref = 0
    /\ phx[c].next_ref < MaxRefs[c]
    /\ phx' = [phx EXCEPT ![c].next_ref = @ + 1, ![c].heartbeat_ref = TakeRef(c)]
    /\ ToClient(c, [kind |-> "reply", ref |-> TakeRef(c), result |-> "ok"])
    /\ UNCHANGED mailbox

Leave(c) ==
    /\ phx[c].phase = "idle"
    /\ phx' = [phx EXCEPT ![c].phase = "done"]
    /\ mailbox' = [mailbox EXCEPT ![c] = Append(@, [kind |-> "leave"])]
    /\ wire' = [wire EXCEPT ![c] = <<>>]
-----------------------------------------------------------------------------
(* Receiving.  classify takes the heartbeat's reply out of the stream.        *)
HeartbeatReply(c, f) == f.kind = "reply" /\ f.ref # 0 /\ f.ref = phx[c].heartbeat_ref
IsReply(c, f) == f.kind = "reply" /\ ~HeartbeatReply(c, f)
Ends(f) == f.kind \in {"phx_error", "phx_close"}

\* One frame is read and next is what becomes of the client.
Read(c, next) ==
    /\ wire' = [wire EXCEPT ![c] = IF next.phase = "done" THEN <<>> ELSE Tail(@)]
    /\ phx' = [phx EXCEPT ![c] = IF HeartbeatReply(c, Head(wire[c]))
                                THEN [next EXCEPT !.heartbeat_ref = 0] ELSE next]
    /\ UNCHANGED mailbox

AnsweredAny(c, f) == IsReply(c, f)                  \* mutant: the first reply is the answer
Answered(c, f) == IsReply(c, f) /\ f.ref = phx[c].wanted

AnswerEvery(client, result) ==                      \* mutant: a join's reply is an outcome too
    [client EXCEPT !.phase = "idle", !.wanted = 0,
                   !.outcomes = @ \cup {<<client.wanted, result>>}]
Answer(client, result) ==
    [client EXCEPT
        !.phase = IF client.phase = "joining" /\ result = "rejected" THEN "done" ELSE "idle",
        !.wanted = 0,
        !.outcomes = IF result \in RelayOutcome THEN @ \cup {<<client.wanted, result>>} ELSE @]

\* await_reply: broadcasts that come before the answer are kept for later.
AwaitReply(c) ==
    /\ phx[c].phase \in {"joining", "pushing"} /\ wire[c] # <<>>
    /\ LET f == Head(wire[c])
       IN  \/ Answered(c, f) /\ Read(c, Answer(phx[c], f.result))
           \/ f.kind = "reply" /\ ~Answered(c, f) /\ Read(c, phx[c])
           \/ f.kind = "broadcast" /\ Read(c, [phx[c] EXCEPT !.pending = Append(@, f.body)])
           \/ Ends(f) /\ Read(c, [phx[c] EXCEPT !.phase = "done"])

\* Ten seconds pass: a push may be tried again; a client whose join failed is
\* dropped, and its socket with it.
ReplyTimeout(c) ==
    \/ /\ phx[c].phase = "joining" /\ phx' = [phx EXCEPT ![c].phase = "done", ![c].wanted = 0]
       /\ mailbox' = [mailbox EXCEPT ![c] = Append(@, [kind |-> "leave"])]
       /\ wire' = [wire EXCEPT ![c] = <<>>]
    \/ /\ phx[c].phase = "pushing" /\ phx' = [phx EXCEPT ![c].phase = "idle", ![c].wanted = 0]
       /\ UNCHANGED <<wire, mailbox>>

\* next_broadcast: what was kept comes first.  A wait that ends without a
\* broadcast changes nothing.
PopPending(c) ==
    /\ phx' = [phx EXCEPT ![c].got = Append(@, Head(phx[c].pending)), ![c].pending = Tail(@)]
    /\ UNCHANGED <<wire, mailbox>>
Poll(c) ==
    LET f == Head(wire[c])
    IN  \/ f.kind = "reply" /\ Read(c, phx[c])
        \/ f.kind = "broadcast" /\ Read(c, [phx[c] EXCEPT !.got = Append(@, f.body)])
        \/ Ends(f) /\ Read(c, [phx[c] EXCEPT !.phase = "done"])
NextBroadcast(c) ==
    /\ phx[c].phase = "idle"
    /\ \/ phx[c].pending # <<>> /\ PopPending(c)
       \/ phx[c].pending = <<>> /\ wire[c] # <<>> /\ Poll(c)
=============================================================================
