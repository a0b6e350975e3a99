------------------------------ MODULE GameRelay ------------------------------
(***************************************************************************)
(* One scoped game session: the channel process of each client               *)
(* (BurbleWeb.GameChannel), the admission authority it asks before every      *)
(* effect, and PubSub between the channels, with the clients at the ends.    *)
(* The authority keeps what Admission shows in full: the epoch, who holds    *)
(* each seat, and the last number of each seat.  A channel process handles   *)
(* its mailbox in order; a broadcast travels for a while and then reaches    *)
(* the channels subscribed by then.  A client reads no more than its socket  *)
(* has; the loopback-only development mode is left out.                      *)
(***************************************************************************)
EXTENDS PhoenixClient

CONSTANTS
    MaxFaults,      \* bound: rotations, channels killed and answers given up
    MaxLog,         \* bound: broadcasts
    Nobody
ASSUME RelayAssumption ==
    Nobody \notin Clients \cup Roles /\ MaxFaults \in Nat /\ MaxLog \in Nat

VARIABLES
    epoch,          \* the session's epoch
    holder,         \* who holds each seat
    last,           \* the last number of each seat, 0 before the first
    channel,        \* the channel processes
    air,            \* broadcasts on the way to their subscribers, in order
    log,            \* history: every broadcast
    faults          \* rotations, channels killed and answers given up so far

client == <<phx, wire, mailbox>>
authority == <<epoch, holder, last>>
vars == <<client, authority, channel, air, log, faults>>

\* claimed: joined but not subscribed yet; stopping and leaving: in terminate/2
Channel == [status : {"none", "claimed", "live", "stopping", "leaving", "dead", "gone"},
            role : Roles \cup {Nobody}, epoch : 0..MaxFaults + 1, ref : Refs]
Message == [kind : {"join"}, ref : Refs, role : Roles, epoch : 1..MaxFaults + 1]
           \cup [kind : {"command", "event"}, ref : Refs, seq : Numbers \cup {0}]
           \cup [kind : {"leave", "after_join", "session_fenced"}]
           \cup [kind : {"out"}, body : Broadcast]

Init ==
    /\ ClientInit
    /\ epoch = 1 /\ holder = [r \in Roles |-> Nobody] /\ last = [r \in Roles |-> 0]
    /\ channel = [c \in Clients |-> [status |-> "none", role |-> Nobody, epoch |-> 0, ref |-> 0]]
    /\ air = <<>> /\ log = <<>> /\ faults = 0
-----------------------------------------------------------------------------
(* The authority, as the channels use it.                                    *)
Fault == faults < MaxFaults /\ faults' = faults + 1
Current(c) ==
    /\ channel[c].role # Nobody /\ channel[c].epoch = epoch /\ holder[channel[c].role] = c

\* Messages to the processes of S, and the message c has handled.
Fence(S, done) ==
    mailbox' = [c \in Clients |->
        LET rest == IF c \in done THEN Tail(mailbox[c]) ELSE mailbox[c]
        IN  IF c \in S THEN Append(rest, [kind |-> "session_fenced"]) ELSE rest]

\* The host rotates the session: new epoch, every seat vacated and fenced.
Rotate ==
    /\ Fault /\ epoch' = epoch + 1
    /\ holder' = [r \in Roles |-> Nobody] /\ last' = [r \in Roles |-> 0]
    /\ Fence({holder[r] : r \in Roles} \ {Nobody}, {})
    /\ UNCHANGED <<phx, wire, channel, air, log>>

\* The authority learns that the process holding a seat has died.
Down(c) ==
    /\ channel[c].status = "dead" /\ channel' = [channel EXCEPT ![c].status = "gone"]
    /\ holder' = [r \in Roles |-> IF holder[r] = c THEN Nobody ELSE holder[r]]
    /\ UNCHANGED <<client, epoch, last, air, log, faults>>
-----------------------------------------------------------------------------
(* Joining.  A claim in the session's epoch takes the seat from whoever holds *)
(* it; tickets are Admission's.                                              *)
Message_(c, kind) == mailbox[c] # <<>> /\ Head(mailbox[c]).kind = kind
Reply(c, ref, result) ==
    ToClient(c, [kind |-> "reply", ref |-> ref, result |-> result])

JoinRefused(c) ==
    /\ channel[c].status = "none" /\ Message_(c, "join") /\ Head(mailbox[c]).epoch # epoch
    /\ Reply(c, Head(mailbox[c]).ref, "rejected")
    /\ Fence({}, {c}) /\ channel' = [channel EXCEPT ![c].status = "gone"]
    /\ UNCHANGED <<phx, authority, air, log, faults>>

Claim(c) ==
    LET m == Head(mailbox[c])
    IN  /\ channel[c].status = "none" /\ Message_(c, "join") /\ m.epoch = epoch
        /\ channel' = [channel EXCEPT ![c] = [status |-> "claimed", role |-> m.role,
                                              epoch |-> epoch, ref |-> m.ref]]
        /\ holder' = [holder EXCEPT ![m.role] = c]
        /\ Fence({holder[m.role]} \ {Nobody}, {c})
        /\ UNCHANGED <<phx, wire, epoch, last, air, log, faults>>

\* The channel subscribes and answers; :after_join comes before what has reached
\* its mailbox since (a fence that came first would stop it just the same).
Subscribe(c) ==
    /\ channel[c].status = "claimed" /\ channel' = [channel EXCEPT ![c].status = "live"]
    /\ Reply(c, channel[c].ref, "ok")
    /\ mailbox' = [mailbox EXCEPT ![c] = <<[kind |-> "after_join"]>> \o @]
    /\ UNCHANGED <<phx, authority, air, log, faults>>
-----------------------------------------------------------------------------
(* The channel's callbacks.                                                  *)
Handles(c, kind) == channel[c].status = "live" /\ Message_(c, kind)
Handled(c) == mailbox' = [mailbox EXCEPT ![c] = Tail(@)]
Stop(c) == channel' = [channel EXCEPT ![c].status = "stopping"]

\* relay_broadcast; broadcast_from spares the sender
RelayBroadcast(c, event, ref, seq) ==
    LET b == [from |-> c, role |-> channel[c].role, ref |-> ref, epoch |-> channel[c].epoch,
              event |-> event, seq |-> seq]
    IN  Len(log) < MaxLog /\ air' = Append(air, b) /\ log' = Append(log, b)

\* PubSub hands the oldest broadcast to every subscriber but its sender.
Dispatch ==
    /\ air # <<>> /\ air' = Tail(air)
    /\ mailbox' = [c \in Clients |->
            IF channel[c].status = "live" /\ c # Head(air).from
            THEN Append(mailbox[c], [kind |-> "out", body |-> Head(air)]) ELSE mailbox[c]]
    /\ UNCHANGED <<phx, wire, authority, channel, log, faults>>

AfterJoin(c) ==
    /\ Handles(c, "after_join") /\ Handled(c)
    /\ \/ Current(c) /\ RelayBroadcast(c, "peer_joined", 0, 0) /\ UNCHANGED channel
       \/ ~Current(c) /\ Stop(c) /\ UNCHANGED <<air, log>>
    /\ UNCHANGED <<phx, wire, authority, faults>>

Fenced(c) ==
    /\ Handles(c, "session_fenced") /\ Handled(c) /\ Stop(c)
    /\ UNCHANGED <<phx, wire, authority, air, log, faults>>

PushFrame(c, b) == ToClient(c, [kind |-> "broadcast", body |-> b])
HandleOutAny(c) ==                                  \* mutant: the epoch is not compared
    /\ Handles(c, "out") /\ Handled(c)
    /\ LET b == Head(mailbox[c]).body
       IN  \/ Current(c) /\ PushFrame(c, b) /\ UNCHANGED channel
           \/ ~Current(c) /\ Stop(c) /\ UNCHANGED wire
    /\ UNCHANGED <<phx, authority, air, log, faults>>
HandleOut(c) ==
    /\ Handles(c, "out") /\ Handled(c)
    /\ LET b == Head(mailbox[c]).body
       IN  \/ b.epoch # channel[c].epoch /\ UNCHANGED <<wire, channel>>
           \/ b.epoch = channel[c].epoch /\ Current(c) /\ PushFrame(c, b) /\ UNCHANGED channel
           \/ b.epoch = channel[c].epoch /\ ~Current(c) /\ Stop(c) /\ UNCHANGED wire
    /\ UNCHANGED <<phx, authority, air, log, faults>>

\* A command is relayed under a number higher than the seat's last one.
FreshLoose(c, seq) == last[channel[c].role] <= seq        \* mutant: a repeat passes
Fresh(c, seq) == last[channel[c].role] < seq
HandleCommand(c) ==
    /\ Handles(c, "command") /\ Handled(c)
    /\ LET m == Head(mailbox[c])
           fresh == Current(c) /\ Fresh(c, m.seq)
       IN  \/ /\ fresh /\ RelayBroadcast(c, "command", m.ref, m.seq)
              /\ last' = [last EXCEPT ![channel[c].role] = m.seq] /\ Reply(c, m.ref, "relayed")
           \/ /\ Current(c) /\ ~Fresh(c, m.seq) /\ UNCHANGED <<last, air, log>>
              /\ Reply(c, m.ref, "dropped")
           \/ ~Current(c) /\ UNCHANGED <<last, air, log>> /\ Reply(c, m.ref, "rejected")
    /\ UNCHANGED <<phx, epoch, holder, channel, faults>>

HandleEvent(c) ==
    /\ Handles(c, "event") /\ Handled(c)
    /\ LET m == Head(mailbox[c])
       IN  \/ Current(c) /\ RelayBroadcast(c, "event", m.ref, 0) /\ Reply(c, m.ref, "relayed")
           \/ ~Current(c) /\ UNCHANGED <<air, log>> /\ Reply(c, m.ref, "rejected")
    /\ UNCHANGED <<phx, authority, channel, faults>>

\* phx_leave, or the socket has closed
HandleLeave(c) ==
    /\ Handles(c, "leave") /\ Handled(c) /\ Stop(c)
    /\ UNCHANGED <<phx, wire, authority, air, log, faults>>
-----------------------------------------------------------------------------
(* terminate/2: peer_left under the lease, then the seat is given up; the     *)
(* socket tells the client.                                                  *)
AnnounceAlways(c) ==                                \* mutant: not under the lease
    /\ channel[c].status = "stopping" /\ channel' = [channel EXCEPT ![c].status = "leaving"]
    /\ RelayBroadcast(c, "peer_left", 0, 0)
    /\ UNCHANGED <<client, authority, faults>>
Announce(c) ==
    /\ channel[c].status = "stopping" /\ channel' = [channel EXCEPT ![c].status = "leaving"]
    /\ \/ Current(c) /\ RelayBroadcast(c, "peer_left", 0, 0)
       \/ ~Current(c) /\ UNCHANGED <<air, log>>
    /\ UNCHANGED <<client, authority, faults>>

Release(c) ==
    /\ channel[c].status = "leaving" /\ channel' = [channel EXCEPT ![c].status = "gone"]
    /\ holder' = IF Current(c) THEN [holder EXCEPT ![channel[c].role] = Nobody] ELSE holder
    /\ ToClient(c, [kind |-> "phx_close"]) /\ mailbox' = [mailbox EXCEPT ![c] = <<>>]
    /\ UNCHANGED <<phx, epoch, last, air, log, faults>>

\* A channel process is killed: terminate/2 does not run.
Kill(c) ==
    /\ channel[c].status \in {"claimed", "live", "stopping", "leaving"}
    /\ Fault
    /\ channel' = [channel EXCEPT ![c].status = "dead"]
    /\ ToClient(c, [kind |-> "phx_error"]) /\ mailbox' = [mailbox EXCEPT ![c] = <<>>]
    /\ UNCHANGED <<phx, authority, air, log>>
-----------------------------------------------------------------------------
ClientStep(c) ==
    /\ \/ \E r \in Roles, e \in 1..epoch : Join(c, r, e)
       \/ \E event \in {"command", "event"}, seq \in Numbers \cup {0} : Push(c, event, seq)
       \/ Heartbeat(c) \/ Leave(c) \/ AwaitReply(c) \/ NextBroadcast(c)
    /\ UNCHANGED <<authority, channel, air, log, faults>>
GiveUp(c) == ReplyTimeout(c) /\ Fault /\ UNCHANGED <<authority, channel, air, log>>
ChannelStep(c) ==
    \/ JoinRefused(c) \/ Claim(c) \/ Subscribe(c) \/ AfterJoin(c) \/ Fenced(c) \/ HandleOut(c)
    \/ HandleCommand(c) \/ HandleEvent(c) \/ HandleLeave(c) \/ Announce(c) \/ Release(c)
    \/ Kill(c) \/ Down(c)

Next == Rotate \/ Dispatch \/ \E c \in Clients : ClientStep(c) \/ GiveUp(c) \/ ChannelStep(c)
Spec == Init /\ [][Next]_vars
-----------------------------------------------------------------------------
TypeOK ==
    /\ phx \in [Clients -> PhoenixState] /\ wire \in [Clients -> Seq(Frame)]
    /\ mailbox \in [Clients -> Seq(Message)]
    /\ epoch \in 1..MaxFaults + 1 /\ holder \in [Roles -> Clients \cup {Nobody}]
    /\ last \in [Roles -> Numbers \cup {0}] /\ channel \in [Clients -> Channel]
    /\ air \in Seq(Broadcast) /\ log \in Seq(Broadcast) /\ faults \in 0..MaxFaults

\* A client is never given a broadcast of another epoch than its own, however
\* long PubSub or its channel's mailbox held it.
EpochClean ==
    \A c \in Clients : \A i \in DOMAIN phx[c].got : phx[c].got[i].epoch = channel[c].epoch

\* A seat's commands are relayed in the order of their numbers and none twice,
\* whoever holds the seat and however often a push is retried, and a client is
\* given broadcasts in the order they were made, also through its own buffer.
InOrder ==
    \A i, j \in DOMAIN log :
        /\ i < j /\ log[i].event = "command" /\ log[j].event = "command"
        /\ log[i].role = log[j].role /\ log[i].epoch = log[j].epoch
        => log[i].seq < log[j].seq
Position(b) == CHOOSE i \in DOMAIN log : log[i] = b
OnceInOrder ==
    /\ InOrder
    /\ \A c \in Clients : \A i, j \in DOMAIN phx[c].got :
           i < j => Position(phx[c].got[i]) < Position(phx[c].got[j])

\* What a push reports is what happened to that push, also when answers to
\* earlier pushes arrive late.
OutcomeHonest ==
    \A c \in Clients : \A o \in phx[c].outcomes :
        o[2] = "relayed" <=> \E i \in DOMAIN log : log[i].from = c /\ log[i].ref = o[1]

\* What a channel has announced stands for as long as it is live and holds its
\* seat: no late peer_left of its predecessor, and no other peer_joined.
News(b, role) ==
    /\ b.event \in {"peer_joined", "peer_left"} /\ b.role = role /\ b.epoch = epoch
NoFalseLeave ==
    \A c \in Clients : \A i \in DOMAIN log :
        /\ Current(c) /\ channel[c].status = "live"
        /\ log[i].from = c /\ log[i].event = "peer_joined"
        => \A j \in DOMAIN log : News(log[j], channel[c].role) => j <= i
=============================================================================
