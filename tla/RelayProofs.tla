----------------------------- MODULE RelayProofs -----------------------------
(***************************************************************************)
(* Proofs about GameRelay, for any clients, seats and numbers, any number of *)
(* rotations, killed channels and answers given up, and logs of any length.  *)
(***************************************************************************)
EXTENDS GameRelay, TLAPS

-----------------------------------------------------------------------------
(* Sequences, by their elements.                                            *)
LEMMA AppendLast ==
    ASSUME NEW S, NEW s \in Seq(S), NEW x \in S
    PROVE  /\ Append(s, x) \in Seq(S) /\ DOMAIN Append(s, x) = 1..(Len(s) + 1)
           /\ Len(Append(s, x)) = Len(s) + 1 /\ Append(s, x)[Len(s) + 1] = x
           /\ \A i \in 1..Len(s) : Append(s, x)[i] = s[i]
OBVIOUS

LEMMA TailRest ==
    ASSUME NEW S, NEW s \in Seq(S), s # <<>>
    PROVE  /\ Tail(s) \in Seq(S) /\ Len(Tail(s)) = Len(s) - 1 /\ Len(s) \in Nat \ {0}
           /\ DOMAIN Tail(s) = 1..(Len(s) - 1) /\ Head(s) = s[1] /\ Head(s) \in S
           /\ \A i \in 1..(Len(s) - 1) : Tail(s)[i] = s[i + 1]
OBVIOUS

LEMMA EmptySeq == ASSUME NEW S PROVE <<>> \in Seq(S) /\ DOMAIN <<>> = {} /\ Len(<<>>) = 0
OBVIOUS

LEMMA PushFront ==
    ASSUME NEW S, NEW s \in Seq(S), NEW x \in S
    PROVE  /\ <<x>> \o s \in Seq(S) /\ DOMAIN (<<x>> \o s) = 1..(Len(s) + 1)
           /\ (<<x>> \o s)[1] = x
           /\ \A i \in 1..Len(s) : (<<x>> \o s)[i + 1] = s[i]
OBVIOUS
-----------------------------------------------------------------------------
(* Types.  The epoch is behind by no more than there were faults.            *)
TypeInv == TypeOK /\ epoch <= faults + 1

LEMMA RefsAreNumbers ==
    /\ Refs \subseteq Nat /\ 0 \in Refs
    /\ \A c \in Clients : MaxRefs[c] \in Nat /\ 1..MaxRefs[c] \subseteq Refs
BY ClientAssumption DEF Refs

LEMMA FrameShape ==
    ASSUME NEW f \in Frame
    PROVE  /\ f.kind \in {"reply", "phx_error", "phx_close", "broadcast"}
           /\ f.kind = "reply" =>
                 f.ref \in Refs /\ f.result \in RelayOutcome \cup {"ok", "rejected"}
           /\ f.kind = "broadcast" => f.body \in Broadcast
BY DEF Frame

LEMMA MessageShape ==
    ASSUME NEW m \in Message
    PROVE  /\ m.kind = "join" => /\ m.ref \in Refs /\ m.role \in Roles
                                 /\ m.epoch \in 1..MaxFaults + 1
           /\ m.kind \in {"command", "event"} => m.ref \in Refs /\ m.seq \in Numbers \cup {0}
           /\ m.kind = "out" => m.body \in Broadcast
BY DEF Message

LEMMA ClientShape ==
    ASSUME TypeOK, NEW c \in Clients
    PROVE  /\ phx[c] \in PhoenixState /\ wire[c] \in Seq(Frame) /\ mailbox[c] \in Seq(Message)
           /\ channel[c] \in Channel
           /\ phx[c].next_ref \in Refs /\ phx[c].wanted \in Refs /\ phx[c].heartbeat_ref \in Refs
           /\ phx[c].pending \in Seq(Broadcast) /\ phx[c].got \in Seq(Broadcast)
           /\ phx[c].outcomes \subseteq Refs \X RelayOutcome
           /\ channel[c].role \in Roles \cup {Nobody}
           /\ channel[c].epoch \in 0..MaxFaults + 1 /\ channel[c].ref \in Refs
BY DEF TypeOK, PhoenixState, Channel

\* What a step does to one client, one socket, one mailbox or one channel.
LEMMA ToClientTypes ==
    ASSUME TypeOK, NEW c \in Clients, NEW f \in Frame, ToClient(c, f)
    PROVE  wire' \in [Clients -> Seq(Frame)]
BY ClientShape, AppendLast DEF ToClient, TypeOK

LEMMA ReplyTypes ==
    ASSUME TypeOK, NEW c \in Clients, NEW ref \in Refs,
           NEW result \in RelayOutcome \cup {"ok", "rejected"}, Reply(c, ref, result)
    PROVE  wire' \in [Clients -> Seq(Frame)]
<1>1. [kind |-> "reply", ref |-> ref, result |-> result] \in Frame
  BY DEF Frame
<1>. QED BY <1>1, ToClientTypes DEF Reply

LEMMA MailboxTypes ==
    ASSUME TypeOK, NEW c \in Clients, NEW m \in Seq(Message),
           mailbox' = [mailbox EXCEPT ![c] = m]
    PROVE  mailbox' \in [Clients -> Seq(Message)]
BY DEF TypeOK

LEMMA FenceTypes ==
    ASSUME TypeOK, NEW S, NEW done, Fence(S, done), \A c \in done : mailbox[c] # <<>>
    PROVE  mailbox' \in [Clients -> Seq(Message)]
<1>1. [kind |-> "session_fenced"] \in Message BY DEF Message
<1>. SUFFICES ASSUME NEW c \in Clients PROVE mailbox'[c] \in Seq(Message)
  BY DEF Fence
<1>2. (IF c \in done THEN Tail(mailbox[c]) ELSE mailbox[c]) \in Seq(Message)
  BY ClientShape, TailRest
<1>. QED BY <1>1, <1>2, AppendLast DEF Fence

LEMMA StatusTypes ==
    ASSUME TypeOK, NEW c \in Clients,
           NEW s \in {"none", "claimed", "live", "stopping", "leaving", "dead", "gone"},
           channel' = [channel EXCEPT ![c].status = s]
    PROVE  channel' \in [Clients -> Channel]
<1>1. [channel[c] EXCEPT !.status = s] \in Channel BY ClientShape DEF Channel
<1>2. channel \in [Clients -> Channel] BY DEF TypeOK
<1>. QED BY <1>1, <1>2

LEMMA RelayTypes ==
    ASSUME TypeOK, NEW c \in Clients, Current(c), NEW ref \in Refs, NEW seq \in Numbers \cup {0},
           NEW event \in Events, RelayBroadcast(c, event, ref, seq)
    PROVE  air' \in Seq(Broadcast) /\ log' \in Seq(Broadcast)
<1>1. channel[c].role \in Roles /\ channel[c].epoch \in Nat
  BY ClientShape, RelayAssumption DEF Current
<1>2. [from |-> c, role |-> channel[c].role, ref |-> ref, epoch |-> channel[c].epoch,
       event |-> event, seq |-> seq] \in Broadcast
  BY <1>1 DEF Broadcast
<1>. QED BY <1>2, AppendLast DEF RelayBroadcast, TypeOK

(* The client's steps.                                                      *)
LEMMA SendTypes ==
    ASSUME TypeOK, NEW c \in Clients, NEW m \in Message, Send(c, m)
    PROVE  mailbox' \in [Clients -> Seq(Message)] /\ TakeRef(c) \in Refs
<1>. phx[c].next_ref \in Nat /\ MaxRefs[c] \in Nat /\ phx[c].next_ref < MaxRefs[c]
  BY ClientShape, RefsAreNumbers DEF Send
<1>1. phx[c].next_ref + 1 \in 1..MaxRefs[c]
  OBVIOUS
<1>2. Append(mailbox[c], m) \in Seq(Message)
  BY ClientShape, AppendLast
<1>. QED BY <1>1, <1>2, RefsAreNumbers, MailboxTypes DEF Send, TakeRef

LEMMA PhxTypes ==
    ASSUME TypeOK, NEW c \in Clients, NEW client_ \in PhoenixState,
           phx' = [phx EXCEPT ![c] = client_]
    PROVE  phx' \in [Clients -> PhoenixState]
BY DEF TypeOK

LEMMA ReadTypes ==
    ASSUME TypeOK, NEW c \in Clients, NEW next \in PhoenixState, wire[c] # <<>>, Read(c, next)
    PROVE  /\ phx' \in [Clients -> PhoenixState] /\ wire' \in [Clients -> Seq(Frame)]
           /\ mailbox' \in [Clients -> Seq(Message)]
<1>1. [next EXCEPT !.heartbeat_ref = 0] \in PhoenixState
  BY RefsAreNumbers DEF PhoenixState
<1>2. phx' \in [Clients -> PhoenixState]
  BY <1>1, PhxTypes DEF Read
<1>3. Tail(wire[c]) \in Seq(Frame) /\ <<>> \in Seq(Frame)
  BY ClientShape, TailRest, EmptySeq
<1>4. wire' \in [Clients -> Seq(Frame)]
  BY <1>3 DEF Read, TypeOK
<1>. QED BY <1>2, <1>4 DEF Read, TypeOK

LEMMA JoinTypes ==
    ASSUME TypeOK, NEW c \in Clients, NEW r \in Roles, NEW e \in 1..epoch, Join(c, r, e)
    PROVE  /\ phx' \in [Clients -> PhoenixState] /\ mailbox' \in [Clients -> Seq(Message)]
           /\ wire' = wire
<1>1. phx[c].next_ref + 1 \in 1..MaxRefs[c]
  BY ClientShape, RefsAreNumbers DEF Join, Send
<1>2. TakeRef(c) \in Refs BY <1>1, RefsAreNumbers DEF TakeRef
<1>3. [kind |-> "join", ref |-> TakeRef(c), role |-> r, epoch |-> e] \in Message
  BY <1>2, RelayAssumption DEF Message, TypeOK
<1>4. mailbox' \in [Clients -> Seq(Message)] BY <1>3, SendTypes DEF Join
<1>5. [phx[c] EXCEPT !.phase = "joining", !.next_ref = TakeRef(c), !.wanted = TakeRef(c)]
        \in PhoenixState
  BY <1>2, ClientShape DEF PhoenixState
<1>6. phx' \in [Clients -> PhoenixState]
  BY <1>5 DEF Join, TypeOK, TakeRef
<1>. QED BY <1>4, <1>6 DEF Join

LEMMA PushTypes ==
    ASSUME TypeOK, NEW c \in Clients, NEW event \in {"command", "event"},
           NEW seq \in Numbers \cup {0}, Push(c, event, seq)
    PROVE  /\ phx' \in [Clients -> PhoenixState] /\ mailbox' \in [Clients -> Seq(Message)]
           /\ wire' = wire
<1>1. phx[c].next_ref + 1 \in 1..MaxRefs[c]
  BY ClientShape, RefsAreNumbers DEF Push, Send
<1>2. TakeRef(c) \in Refs BY <1>1, RefsAreNumbers DEF TakeRef
<1>3. [kind |-> event, ref |-> TakeRef(c), seq |-> seq] \in Message
  BY <1>2 DEF Message
<1>4. mailbox' \in [Clients -> Seq(Message)] BY <1>3, SendTypes DEF Push
<1>5. [phx[c] EXCEPT !.phase = "pushing", !.next_ref = TakeRef(c), !.wanted = TakeRef(c)]
        \in PhoenixState
  BY <1>2, ClientShape DEF PhoenixState
<1>6. phx' \in [Clients -> PhoenixState]
  BY <1>5 DEF Push, TypeOK, TakeRef
<1>. QED BY <1>4, <1>6 DEF Push

LEMMA HeartbeatTypes ==
    ASSUME TypeOK, NEW c \in Clients, Heartbeat(c)
    PROVE  /\ phx' \in [Clients -> PhoenixState] /\ wire' \in [Clients -> Seq(Frame)]
           /\ mailbox' = mailbox
<1>1. phx[c].next_ref + 1 \in 1..MaxRefs[c]
  BY ClientShape, RefsAreNumbers DEF Heartbeat
<1>2. TakeRef(c) \in Refs BY <1>1, RefsAreNumbers DEF TakeRef
<1>3. [kind |-> "reply", ref |-> TakeRef(c), result |-> "ok"] \in Frame
  BY <1>2 DEF Frame
<1>4. [phx[c] EXCEPT !.next_ref = TakeRef(c), !.heartbeat_ref = TakeRef(c)] \in PhoenixState
  BY <1>2, ClientShape DEF PhoenixState
<1>5. phx' \in [Clients -> PhoenixState]
  BY <1>4 DEF Heartbeat, TypeOK, TakeRef
<1>. QED BY <1>3, <1>5, ToClientTypes DEF Heartbeat

LEMMA LeaveMessage ==
    ASSUME TypeOK, NEW c \in Clients
    PROVE  Append(mailbox[c], [kind |-> "leave"]) \in Seq(Message)
<1>1. [kind |-> "leave"] \in Message BY DEF Message
<1>. QED BY <1>1, ClientShape, AppendLast

LEMMA LeaveTypes ==
    ASSUME TypeOK, NEW c \in Clients, Leave(c) \/ ReplyTimeout(c)
    PROVE  /\ phx' \in [Clients -> PhoenixState] /\ wire' \in [Clients -> Seq(Frame)]
           /\ mailbox' \in [Clients -> Seq(Message)]
<1>0. \A p \in {"done", "idle"} : /\ [phx[c] EXCEPT !.phase = p] \in PhoenixState
                                   /\ [phx[c] EXCEPT !.phase = p, !.wanted = 0] \in PhoenixState
  BY ClientShape, RefsAreNumbers DEF PhoenixState
<1>1. phx' \in [Clients -> PhoenixState]
  BY <1>0 DEF Leave, ReplyTimeout, TypeOK
<1>2. wire' \in [Clients -> Seq(Frame)]
  <2>1. wire \in [Clients -> Seq(Frame)] /\ <<>> \in Seq(Frame) BY EmptySeq DEF TypeOK
  <2>2. wire' = wire \/ wire' = [wire EXCEPT ![c] = <<>>] BY DEF Leave, ReplyTimeout
  <2>. QED BY <2>1, <2>2
<1>3. mailbox' \in [Clients -> Seq(Message)]
  BY LeaveMessage, MailboxTypes DEF Leave, ReplyTimeout, TypeOK
<1>. QED BY <1>1, <1>2, <1>3

LEMMA AnswerShape ==
    ASSUME TypeOK, NEW c \in Clients, NEW result \in RelayOutcome \cup {"ok", "rejected"}
    PROVE  Answer(phx[c], result) \in PhoenixState
<1>. DEFINE new == IF result \in RelayOutcome
                   THEN phx[c].outcomes \cup {<<phx[c].wanted, result>>} ELSE phx[c].outcomes
<1>1. new \in SUBSET (Refs \X RelayOutcome) BY ClientShape
<1>2. (IF phx[c].phase = "joining" /\ result = "rejected" THEN "done" ELSE "idle")
        \in {"idle", "done"}
  OBVIOUS
<1>3. \A p \in {"idle", "done"}, o \in SUBSET (Refs \X RelayOutcome) :
        [phx[c] EXCEPT !.phase = p, !.wanted = 0, !.outcomes = o] \in PhoenixState
  BY ClientShape, RefsAreNumbers DEF PhoenixState
<1>. QED BY <1>1, <1>2, <1>3 DEF Answer

LEMMA AwaitTypes ==
    ASSUME TypeOK, NEW c \in Clients, AwaitReply(c)
    PROVE  /\ phx' \in [Clients -> PhoenixState] /\ wire' \in [Clients -> Seq(Frame)]
           /\ mailbox' \in [Clients -> Seq(Message)]
<1>. DEFINE f == Head(wire[c])
<1>1. wire[c] # <<>> /\ f \in Frame BY ClientShape, TailRest DEF AwaitReply
<1>2. CASE Answered(c, f) /\ Read(c, Answer(phx[c], f.result))
  <2>1. f.result \in RelayOutcome \cup {"ok", "rejected"}
    BY <1>1, <1>2, FrameShape DEF Answered, IsReply
  <2>2. Answer(phx[c], f.result) \in PhoenixState BY <2>1, AnswerShape
  <2>. QED BY <1>1, <1>2, <2>2, ReadTypes
<1>3. CASE Read(c, phx[c])
  BY <1>1, <1>3, ClientShape, ReadTypes
<1>4. CASE f.kind = "broadcast" /\ Read(c, [phx[c] EXCEPT !.pending = Append(@, f.body)])
  <2>1. Append(phx[c].pending, f.body) \in Seq(Broadcast)
    BY <1>1, <1>4, FrameShape, ClientShape, AppendLast
  <2>2. [phx[c] EXCEPT !.pending = Append(@, f.body)] \in PhoenixState
    BY <2>1, ClientShape DEF PhoenixState
  <2>. QED BY <1>1, <1>4, <2>2, ReadTypes
<1>5. CASE Read(c, [phx[c] EXCEPT !.phase = "done"])
  <2>1. [phx[c] EXCEPT !.phase = "done"] \in PhoenixState BY ClientShape DEF PhoenixState
  <2>. QED BY <1>1, <1>5, <2>1, ReadTypes
<1>. QED BY <1>2, <1>3, <1>4, <1>5 DEF AwaitReply

LEMMA NextBroadcastTypes ==
    ASSUME TypeOK, NEW c \in Clients, NextBroadcast(c)
    PROVE  /\ phx' \in [Clients -> PhoenixState] /\ wire' \in [Clients -> Seq(Frame)]
           /\ mailbox' \in [Clients -> Seq(Message)]
<1>1. CASE phx[c].pending # <<>> /\ PopPending(c)
  <2>1. /\ Append(phx[c].got, Head(phx[c].pending)) \in Seq(Broadcast)
        /\ Tail(phx[c].pending) \in Seq(Broadcast)
    BY <1>1, ClientShape, TailRest, AppendLast
  <2>2. \A g, p \in Seq(Broadcast) :
            [phx[c] EXCEPT !.got = g, !.pending = p] \in PhoenixState
    BY ClientShape DEF PhoenixState
  <2>3. phx' \in [Clients -> PhoenixState]
    BY <1>1, <2>1, <2>2 DEF PopPending, TypeOK
  <2>. QED BY <1>1, <2>3 DEF PopPending, TypeOK
<1>2. CASE wire[c] # <<>> /\ Poll(c)
  <2>. DEFINE f == Head(wire[c])
  <2>1. f \in Frame BY <1>2, ClientShape, TailRest
  <2>2. CASE Read(c, phx[c]) BY <1>2, <2>2, ClientShape, ReadTypes
  <2>3. CASE f.kind = "broadcast" /\ Read(c, [phx[c] EXCEPT !.got = Append(@, f.body)])
    <3>1. Append(phx[c].got, f.body) \in Seq(Broadcast)
      BY <2>1, <2>3, FrameShape, ClientShape, AppendLast
    <3>2. [phx[c] EXCEPT !.got = Append(@, f.body)] \in PhoenixState
      BY <3>1, ClientShape DEF PhoenixState
    <3>. QED BY <1>2, <2>3, <3>2, ReadTypes
  <2>4. CASE Read(c, [phx[c] EXCEPT !.phase = "done"])
    <3>1. [phx[c] EXCEPT !.phase = "done"] \in PhoenixState BY ClientShape DEF PhoenixState
    <3>. QED BY <1>2, <2>4, <3>1, ReadTypes
  <2>. QED BY <1>2, <2>2, <2>3, <2>4 DEF Poll
<1>. QED BY <1>1, <1>2 DEF NextBroadcast

(* The authority's, PubSub's and the channels' steps.                       *)
LEMMA InitTypes == Init => TypeInv
<1>. SUFFICES ASSUME Init PROVE TypeInv OBVIOUS
<1>1. \A c \in Clients : phx[c] \in PhoenixState
  BY RefsAreNumbers, EmptySeq DEF Init, ClientInit, PhoenixState
<1>2. \A c \in Clients : channel[c] \in Channel
  BY RefsAreNumbers, RelayAssumption DEF Init, Channel
<1>3. phx \in [Clients -> PhoenixState] /\ channel \in [Clients -> Channel]
  BY <1>1, <1>2 DEF Init, ClientInit
<1>4. wire \in [Clients -> Seq(Frame)] /\ mailbox \in [Clients -> Seq(Message)]
  BY EmptySeq DEF Init, ClientInit
<1>5. /\ holder \in [Roles -> Clients \cup {Nobody}] /\ last \in [Roles -> Numbers \cup {0}]
      /\ air \in Seq(Broadcast) /\ log \in Seq(Broadcast)
  BY EmptySeq DEF Init
<1>6. epoch \in 1..MaxFaults + 1 /\ faults \in 0..MaxFaults /\ epoch <= faults + 1
  BY RelayAssumption DEF Init
<1>. QED BY <1>3, <1>4, <1>5, <1>6 DEF TypeInv, TypeOK

LEMMA FaultTypes ==
    ASSUME TypeInv, Fault
    PROVE  faults' \in 0..MaxFaults /\ faults' = faults + 1 /\ epoch + 1 <= faults' + 1
           /\ epoch + 1 \in 1..MaxFaults + 1
BY RelayAssumption DEF TypeInv, TypeOK, Fault

LEMMA RotateTypes == ASSUME TypeInv, Rotate PROVE TypeInv'
<1>1. mailbox' \in [Clients -> Seq(Message)] BY FenceTypes DEF Rotate, TypeInv
<1>2. holder' \in [Roles -> Clients \cup {Nobody}] /\ last' \in [Roles -> Numbers \cup {0}]
  BY DEF Rotate
<1>. QED BY <1>1, <1>2, FaultTypes DEF Rotate, TypeInv, TypeOK

LEMMA DownTypes == ASSUME TypeInv, NEW c \in Clients, Down(c) PROVE TypeInv'
<1>1. channel' \in [Clients -> Channel] BY StatusTypes DEF Down, TypeInv
<1>2. holder' \in [Roles -> Clients \cup {Nobody}] BY DEF Down, TypeInv, TypeOK
<1>. QED BY <1>1, <1>2 DEF Down, TypeInv, TypeOK, client

LEMMA HeadMessage ==
    ASSUME TypeOK, NEW c \in Clients, mailbox[c] # <<>>
    PROVE  Head(mailbox[c]) \in Message /\ Tail(mailbox[c]) \in Seq(Message)
           /\ Head(mailbox[c]) = mailbox[c][1]
BY ClientShape, TailRest

LEMMA JoinRefusedTypes == ASSUME TypeInv, NEW c \in Clients, JoinRefused(c) PROVE TypeInv'
<1>. DEFINE m == Head(mailbox[c])
<1>1. m \in Message /\ m.kind = "join" BY HeadMessage DEF JoinRefused, Message_, TypeInv
<1>2. wire' \in [Clients -> Seq(Frame)]
  BY <1>1, MessageShape, ReplyTypes DEF JoinRefused, TypeInv
<1>3. mailbox' \in [Clients -> Seq(Message)] BY FenceTypes DEF JoinRefused, Message_, TypeInv
<1>4. channel' \in [Clients -> Channel] BY StatusTypes DEF JoinRefused, TypeInv
<1>. QED BY <1>2, <1>3, <1>4 DEF JoinRefused, TypeInv, TypeOK, authority

LEMMA ClaimTypes == ASSUME TypeInv, NEW c \in Clients, Claim(c) PROVE TypeInv'
<1>. DEFINE m == Head(mailbox[c])
<1>1. m \in Message /\ m.kind = "join" BY HeadMessage DEF Claim, Message_, TypeInv
<1>2. m.role \in Roles /\ m.ref \in Refs BY <1>1, MessageShape
<1>3. mailbox' \in [Clients -> Seq(Message)] BY FenceTypes DEF Claim, Message_, TypeInv
<1>4. epoch \in 0..MaxFaults + 1 BY RelayAssumption DEF TypeInv, TypeOK
<1>5. [status |-> "claimed", role |-> m.role, epoch |-> epoch, ref |-> m.ref] \in Channel
  BY <1>2, <1>4 DEF Channel
<1>6. channel' \in [Clients -> Channel] BY <1>5 DEF Claim, TypeInv, TypeOK
<1>7. holder' \in [Roles -> Clients \cup {Nobody}] BY <1>2 DEF Claim, TypeInv, TypeOK
<1>. QED BY <1>3, <1>6, <1>7 DEF Claim, TypeInv, TypeOK

LEMMA SubscribeTypes == ASSUME TypeInv, NEW c \in Clients, Subscribe(c) PROVE TypeInv'
<1>1. wire' \in [Clients -> Seq(Frame)]
  BY ClientShape, ReplyTypes DEF Subscribe, TypeInv
<1>2. [kind |-> "after_join"] \in Message BY DEF Message
<1>3. <<[kind |-> "after_join"]>> \o mailbox[c] \in Seq(Message)
  BY <1>2, ClientShape, PushFront DEF TypeInv
<1>4. mailbox' \in [Clients -> Seq(Message)]
  BY <1>3, MailboxTypes DEF Subscribe, TypeInv
<1>5. channel' \in [Clients -> Channel] BY StatusTypes DEF Subscribe, TypeInv
<1>. QED BY <1>1, <1>4, <1>5 DEF Subscribe, TypeInv, TypeOK, authority

LEMMA HandledTypes ==
    ASSUME TypeInv, NEW c \in Clients, NEW kind, Handles(c, kind), Handled(c)
    PROVE  /\ mailbox' \in [Clients -> Seq(Message)]
           /\ Head(mailbox[c]) \in Message /\ Head(mailbox[c]).kind = kind
BY HeadMessage, MailboxTypes DEF Handles, Handled, Message_, TypeInv

LEMMA StopTypes ==
    ASSUME TypeInv, NEW c \in Clients, Stop(c) \/ UNCHANGED channel
    PROVE  channel' \in [Clients -> Channel]
BY StatusTypes DEF Stop, TypeInv, TypeOK

LEMMA DispatchTypes == ASSUME TypeInv, Dispatch PROVE TypeInv'
<1>1. Head(air) \in Broadcast /\ air' \in Seq(Broadcast)
  BY TailRest DEF Dispatch, TypeInv, TypeOK
<1>2. [kind |-> "out", body |-> Head(air)] \in Message BY <1>1 DEF Message
<1>3. mailbox' \in [Clients -> Seq(Message)]
  <2>. SUFFICES ASSUME NEW c \in Clients PROVE mailbox'[c] \in Seq(Message)
    BY DEF Dispatch
  <2>1. /\ mailbox[c] \in Seq(Message)
        /\ Append(mailbox[c], [kind |-> "out", body |-> Head(air)]) \in Seq(Message)
    BY <1>2, ClientShape, AppendLast DEF TypeInv
  <2>. QED BY <2>1 DEF Dispatch
<1>. QED BY <1>1, <1>3 DEF Dispatch, TypeInv, TypeOK, authority

LEMMA AfterJoinTypes == ASSUME TypeInv, NEW c \in Clients, AfterJoin(c) PROVE TypeInv'
<1>1. mailbox' \in [Clients -> Seq(Message)] BY HandledTypes DEF AfterJoin
<1>2. channel' \in [Clients -> Channel] BY StopTypes DEF AfterJoin
<1>3. air' \in Seq(Broadcast) /\ log' \in Seq(Broadcast)
  BY RelayTypes, RefsAreNumbers DEF AfterJoin, Events, TypeInv, TypeOK
<1>. QED BY <1>1, <1>2, <1>3 DEF AfterJoin, TypeInv, TypeOK, authority

LEMMA FencedTypes ==
    ASSUME TypeInv, NEW c \in Clients, Fenced(c) \/ HandleLeave(c)
    PROVE  TypeInv'
<1>1. mailbox' \in [Clients -> Seq(Message)] BY HandledTypes DEF Fenced, HandleLeave
<1>2. channel' \in [Clients -> Channel] BY StopTypes DEF Fenced, HandleLeave
<1>. QED BY <1>1, <1>2 DEF Fenced, HandleLeave, TypeInv, TypeOK, authority

LEMMA HandleOutTypes == ASSUME TypeInv, NEW c \in Clients, HandleOut(c) PROVE TypeInv'
<1>. DEFINE b == Head(mailbox[c]).body
<1>1. mailbox' \in [Clients -> Seq(Message)] BY HandledTypes DEF HandleOut
<1>2. b \in Broadcast BY HandledTypes, MessageShape DEF HandleOut
<1>3. channel' \in [Clients -> Channel] BY StopTypes DEF HandleOut
<1>4. [kind |-> "broadcast", body |-> b] \in Frame BY <1>2 DEF Frame
<1>5. wire' \in [Clients -> Seq(Frame)]
  BY <1>4, ToClientTypes DEF HandleOut, PushFrame, TypeInv, TypeOK
<1>. QED BY <1>1, <1>3, <1>5 DEF HandleOut, TypeInv, TypeOK, authority

LEMMA HandleCommandTypes == ASSUME TypeInv, NEW c \in Clients, HandleCommand(c) PROVE TypeInv'
<1>. DEFINE m == Head(mailbox[c])
<1>1. mailbox' \in [Clients -> Seq(Message)] BY HandledTypes DEF HandleCommand
<1>2. m.ref \in Refs /\ m.seq \in Numbers \cup {0}
  BY HandledTypes, MessageShape DEF HandleCommand
<1>3. wire' \in [Clients -> Seq(Frame)]
  BY <1>2, ReplyTypes DEF HandleCommand, TypeInv, RelayOutcome
<1>4. /\ air' \in Seq(Broadcast) /\ log' \in Seq(Broadcast)
      /\ last' \in [Roles -> Numbers \cup {0}]
  <2>1. CASE Current(c) /\ RelayBroadcast(c, "command", m.ref, m.seq)
             /\ last' = [last EXCEPT ![channel[c].role] = m.seq]
    <3>1. air' \in Seq(Broadcast) /\ log' \in Seq(Broadcast)
      BY <1>2, <2>1, RelayTypes DEF Events, TypeInv
    <3>2. last' \in [Roles -> Numbers \cup {0}] BY <1>2, <2>1 DEF TypeInv, TypeOK
    <3>. QED BY <3>1, <3>2
  <2>2. CASE UNCHANGED <<last, air, log>> BY <2>2 DEF TypeInv, TypeOK
  <2>. QED BY <2>1, <2>2 DEF HandleCommand
<1>. QED BY <1>1, <1>3, <1>4 DEF HandleCommand, TypeInv, TypeOK

LEMMA HandleEventTypes == ASSUME TypeInv, NEW c \in Clients, HandleEvent(c) PROVE TypeInv'
<1>. DEFINE m == Head(mailbox[c])
<1>1. mailbox' \in [Clients -> Seq(Message)] BY HandledTypes DEF HandleEvent
<1>2. m.ref \in Refs BY HandledTypes, MessageShape DEF HandleEvent
<1>3. wire' \in [Clients -> Seq(Frame)]
  BY <1>2, ReplyTypes DEF HandleEvent, TypeInv, RelayOutcome
<1>4. air' \in Seq(Broadcast) /\ log' \in Seq(Broadcast)
  BY <1>2, RelayTypes DEF HandleEvent, Events, TypeInv, TypeOK
<1>. QED BY <1>1, <1>3, <1>4 DEF HandleEvent, TypeInv, TypeOK, authority

LEMMA AnnounceTypes == ASSUME TypeInv, NEW c \in Clients, Announce(c) PROVE TypeInv'
<1>1. channel' \in [Clients -> Channel] BY StatusTypes DEF Announce, TypeInv
<1>2. air' \in Seq(Broadcast) /\ log' \in Seq(Broadcast)
  BY RelayTypes, RefsAreNumbers DEF Announce, Events, TypeInv, TypeOK
<1>. QED BY <1>1, <1>2 DEF Announce, TypeInv, TypeOK, authority, client

LEMMA EndTypes == ASSUME TypeInv, NEW c \in Clients, Release(c) \/ Kill(c) PROVE TypeInv'
<1>1. channel' \in [Clients -> Channel] BY StatusTypes DEF Release, Kill, TypeInv
<1>2. [kind |-> "phx_close"] \in Frame /\ [kind |-> "phx_error"] \in Frame BY DEF Frame
<1>3. wire' \in [Clients -> Seq(Frame)] BY <1>2, ToClientTypes DEF Release, Kill, TypeInv
<1>4. mailbox' \in [Clients -> Seq(Message)]
  BY EmptySeq, MailboxTypes DEF Release, Kill, TypeInv
<1>5. CASE Release(c)
  <2>1. holder' \in [Roles -> Clients \cup {Nobody}] BY <1>5 DEF Release, TypeInv, TypeOK
  <2>. QED BY <1>1, <1>3, <1>4, <1>5, <2>1 DEF Release, TypeInv, TypeOK
<1>6. CASE Kill(c)
  <2>1. faults' \in 0..MaxFaults /\ epoch <= faults' + 1
    BY <1>6, FaultTypes DEF Kill, TypeInv, TypeOK
  <2>. QED BY <1>1, <1>3, <1>4, <1>6, <2>1 DEF Kill, TypeInv, TypeOK, authority
<1>. QED BY <1>5, <1>6

LEMMA ClientStepTypes ==
    ASSUME TypeInv, NEW c \in Clients, ClientStep(c) \/ GiveUp(c)
    PROVE  TypeInv'
<1>1. /\ phx' \in [Clients -> PhoenixState] /\ wire' \in [Clients -> Seq(Frame)]
      /\ mailbox' \in [Clients -> Seq(Message)]
  <2>1. CASE \E r \in Roles, e \in 1..epoch : Join(c, r, e)
    BY <2>1, JoinTypes DEF TypeInv, TypeOK
  <2>2. CASE \E event \in {"command", "event"}, seq \in Numbers \cup {0} : Push(c, event, seq)
    BY <2>2, PushTypes DEF TypeInv, TypeOK
  <2>3. CASE Heartbeat(c) BY <2>3, HeartbeatTypes DEF TypeInv, TypeOK
  <2>4. CASE Leave(c) \/ ReplyTimeout(c) BY <2>4, LeaveTypes DEF TypeInv
  <2>5. CASE AwaitReply(c) BY <2>5, AwaitTypes DEF TypeInv
  <2>6. CASE NextBroadcast(c) BY <2>6, NextBroadcastTypes DEF TypeInv
  <2>. QED BY <2>1, <2>2, <2>3, <2>4, <2>5, <2>6 DEF ClientStep, GiveUp
<1>2. faults' \in 0..MaxFaults /\ epoch <= faults' + 1
  BY FaultTypes DEF ClientStep, GiveUp, TypeInv, TypeOK
<1>. QED BY <1>1, <1>2 DEF ClientStep, GiveUp, TypeInv, TypeOK, authority

LEMMA TypeStep == TypeInv /\ [Next]_vars => TypeInv'
<1>. SUFFICES ASSUME TypeInv, [Next]_vars PROVE TypeInv' OBVIOUS
<1>1. CASE Rotate BY <1>1, RotateTypes
<1>2. CASE Dispatch BY <1>2, DispatchTypes
<1>3. ASSUME NEW c \in Clients, ClientStep(c) \/ GiveUp(c) PROVE TypeInv'
  BY <1>3, ClientStepTypes
<1>4. ASSUME NEW c \in Clients, ChannelStep(c) PROVE TypeInv'
  BY <1>4, JoinRefusedTypes, ClaimTypes, SubscribeTypes, AfterJoinTypes, FencedTypes,
     HandleOutTypes, HandleCommandTypes, HandleEventTypes, AnnounceTypes, EndTypes, DownTypes
     DEF ChannelStep
<1>5. CASE UNCHANGED vars BY <1>5 DEF vars, client, authority, TypeInv, TypeOK
<1>. QED BY <1>1, <1>2, <1>3, <1>4, <1>5 DEF Next

\* Every reachable state of the relay, its clients and what is on the way
\* between them is well formed.
THEOREM RelayTypesOK == Spec => []TypeOK
<1>1. Init => TypeInv BY InitTypes
<1>2. TypeInv /\ [Next]_vars => TypeInv' BY TypeStep
<1>3. TypeInv => TypeOK BY DEF TypeInv
<1>. QED BY <1>1, <1>2, <1>3, PTL DEF Spec
-----------------------------------------------------------------------------
(* What one step may do to a socket, to what a client has been given and to a *)
(* channel.  The properties rest on these, not on the single actions.        *)
Broadcasts(c, f) == /\ f.kind = "broadcast" /\ Current(c) /\ channel[c].status = "live"
                    /\ f.body.epoch = channel[c].epoch
                    /\ HandleOut(c) /\ f.body = Head(mailbox[c]).body
OutcomeFrame(f) == f.kind = "reply" /\ f.result \in RelayOutcome
Answering(c) == HandleCommand(c) \/ HandleEvent(c)
Sent(c, f) == /\ f.kind # "broadcast" \/ Broadcasts(c, f)
              /\ OutcomeFrame(f) => Answering(c)
WireMove(c) ==
    \/ wire'[c] \in {wire[c], <<>>}
    \/ wire[c] # <<>> /\ wire'[c] = Tail(wire[c])
    \/ \E f \in Frame : wire'[c] = Append(wire[c], f) /\ Sent(c, f)

ClientMove(c) ==
    \/ phx'[c].pending = phx[c].pending /\ phx'[c].got = phx[c].got
    \/ /\ wire[c] # <<>> /\ Head(wire[c]).kind = "broadcast"
       /\ wire'[c] \in {Tail(wire[c]), <<>>} /\ UNCHANGED mailbox
       /\ \/ /\ phx'[c].pending = Append(phx[c].pending, Head(wire[c]).body)
             /\ phx'[c].got = phx[c].got
          \/ /\ phx'[c].got = Append(phx[c].got, Head(wire[c]).body)
             /\ phx'[c].pending = phx[c].pending /\ phx[c].pending = <<>>
    \/ /\ phx[c].pending # <<>> /\ phx'[c].pending = Tail(phx[c].pending)
       /\ phx'[c].got = Append(phx[c].got, Head(phx[c].pending)) /\ UNCHANGED <<wire, mailbox>>

\* The seat and the epoch of a channel are those of its claim, and a channel
\* is live once.
ChannelMove(c) ==
    \/ /\ channel'[c].role = channel[c].role /\ channel'[c].epoch = channel[c].epoch
       /\ channel'[c].status \in {"none", "claimed"} => channel'[c].status = channel[c].status
       /\ channel'[c].status = "live" => channel[c].status \in {"claimed", "live"}
    \/ /\ channel[c].status = "none" /\ channel'[c].status = "claimed"
       /\ channel'[c].epoch = epoch /\ UNCHANGED epoch

LEMMA ToClientMove ==
    ASSUME TypeInv, NEW c \in Clients, NEW f \in Frame, ToClient(c, f), Sent(c, f)
    PROVE  \A d \in Clients : WireMove(d)
BY DEF ToClient, WireMove, TypeInv, TypeOK

LEMMA ReplyMove ==
    ASSUME TypeInv, NEW c \in Clients, NEW ref \in Refs,
           NEW result \in RelayOutcome \cup {"ok", "rejected"}, Reply(c, ref, result),
           result \in RelayOutcome => Answering(c)
    PROVE  \A d \in Clients : WireMove(d)
<1>1. [kind |-> "reply", ref |-> ref, result |-> result] \in Frame BY DEF Frame
<1>2. Sent(c, [kind |-> "reply", ref |-> ref, result |-> result])
  BY DEF Sent, OutcomeFrame
<1>. QED BY <1>1, <1>2, ToClientMove DEF Reply

LEMMA ReadMove ==
    ASSUME TypeInv, NEW c \in Clients, NEW next, wire[c] # <<>>, Read(c, next)
    PROVE  \A d \in Clients : WireMove(d)
BY DEF Read, WireMove, TypeInv, TypeOK

LEMMA ClientWire ==
    ASSUME TypeInv, NEW c \in Clients, ClientStep(c) \/ GiveUp(c)
    PROVE  \A d \in Clients : WireMove(d)
<1>1. CASE UNCHANGED wire BY <1>1 DEF WireMove
<1>2. CASE Heartbeat(c)
  <2>1. phx[c].next_ref + 1 \in 1..MaxRefs[c]
    BY <1>2, ClientShape, RefsAreNumbers DEF Heartbeat, TypeInv
  <2>2. [kind |-> "reply", ref |-> TakeRef(c), result |-> "ok"] \in Frame
    BY <2>1, RefsAreNumbers DEF Frame, TakeRef
  <2>3. Sent(c, [kind |-> "reply", ref |-> TakeRef(c), result |-> "ok"])
    BY DEF Sent, OutcomeFrame, RelayOutcome
  <2>. QED BY <1>2, <2>2, <2>3, ToClientMove DEF Heartbeat
<1>3. CASE wire' = [wire EXCEPT ![c] = <<>>]
  BY <1>3 DEF WireMove, TypeInv, TypeOK
<1>4. CASE AwaitReply(c)
  <2>1. wire[c] # <<>> /\ \E next : Read(c, next) BY <1>4 DEF AwaitReply
  <2>. QED BY <2>1, ReadMove
<1>5. CASE wire[c] # <<>> /\ Poll(c)
  <2>1. \E next : Read(c, next) BY <1>5 DEF Poll
  <2>. QED BY <1>5, <2>1, ReadMove
<1>. QED BY <1>1, <1>2, <1>3, <1>4, <1>5
     DEF ClientStep, GiveUp, Join, Push, Leave, ReplyTimeout, NextBroadcast, PopPending

LEMMA HandleOutWire ==
    ASSUME TypeInv, NEW c \in Clients, HandleOut(c)
    PROVE  \A d \in Clients : WireMove(d)
<1>. DEFINE b == Head(mailbox[c]).body
            f == [kind |-> "broadcast", body |-> b]
<1>1. b \in Broadcast BY HandledTypes, MessageShape DEF HandleOut
<1>2. f \in Frame BY <1>1 DEF Frame
<1>3. CASE UNCHANGED wire BY <1>3 DEF WireMove
<1>4. CASE b.epoch = channel[c].epoch /\ Current(c) /\ ToClient(c, f)
  <2>1. channel[c].status = "live" BY DEF HandleOut, Handles
  <2>2. Sent(c, f) BY <1>4, <2>1 DEF Broadcasts, Sent, OutcomeFrame
  <2>. QED BY <1>2, <1>4, <2>2, ToClientMove
<1>. QED BY <1>3, <1>4 DEF HandleOut, PushFrame

LEMMA ChannelWire ==
    ASSUME TypeInv, NEW c \in Clients, ChannelStep(c)
    PROVE  \A d \in Clients : WireMove(d)
<1>1. CASE UNCHANGED wire BY <1>1 DEF WireMove
<1>2. CASE HandleOut(c) BY <1>2, HandleOutWire
<1>3. CASE JoinRefused(c)
  <2>1. Head(mailbox[c]).ref \in Refs
    BY <1>3, HeadMessage, MessageShape DEF JoinRefused, Message_, TypeInv
  <2>. QED BY <1>3, <2>1, ReplyMove DEF JoinRefused, RelayOutcome
<1>4. CASE Subscribe(c) BY <1>4, ClientShape, ReplyMove DEF Subscribe, TypeInv, RelayOutcome
<1>5. CASE HandleCommand(c)
  <2>1. Head(mailbox[c]).ref \in Refs
    BY <1>5, HandledTypes, MessageShape DEF HandleCommand
  <2>2. \E result \in RelayOutcome \cup {"rejected"} : Reply(c, Head(mailbox[c]).ref, result)
    BY <1>5 DEF HandleCommand, RelayOutcome
  <2>. QED BY <1>5, <2>1, <2>2, ReplyMove DEF Answering
<1>6. CASE HandleEvent(c)
  <2>1. Head(mailbox[c]).ref \in Refs
    BY <1>6, HandledTypes, MessageShape DEF HandleEvent
  <2>2. \E result \in RelayOutcome \cup {"rejected"} : Reply(c, Head(mailbox[c]).ref, result)
    BY <1>6 DEF HandleEvent, RelayOutcome
  <2>. QED BY <1>6, <2>1, <2>2, ReplyMove DEF Answering
<1>7. CASE Release(c) \/ Kill(c)
  <2>1. [kind |-> "phx_close"] \in Frame /\ [kind |-> "phx_error"] \in Frame BY DEF Frame
  <2>2. Sent(c, [kind |-> "phx_close"]) /\ Sent(c, [kind |-> "phx_error"])
    BY DEF Sent, OutcomeFrame
  <2>. QED BY <1>7, <2>1, <2>2, ToClientMove DEF Release, Kill
<1>. QED BY <1>1, <1>2, <1>3, <1>4, <1>5, <1>6, <1>7
     DEF ChannelStep, Claim, AfterJoin, Fenced, HandleLeave, Announce, Down, client

LEMMA WireMoves ==
    ASSUME TypeInv, [Next]_vars
    PROVE  \A d \in Clients : WireMove(d)
<1>1. CASE UNCHANGED wire BY <1>1 DEF WireMove
<1>. QED BY <1>1, ClientWire, ChannelWire DEF Next, Rotate, Dispatch, vars, client

LEMMA ReadClient ==
    ASSUME TypeInv, NEW c \in Clients, NEW next \in PhoenixState, Read(c, next)
    PROVE  /\ phx'[c].pending = next.pending /\ phx'[c].got = next.got
           /\ \A d \in Clients : d # c => phx'[d] = phx[d]
           /\ wire'[c] \in {Tail(wire[c]), <<>>} /\ UNCHANGED mailbox
BY DEF Read, TypeInv, TypeOK, PhoenixState

LEMMA AwaitClient ==
    ASSUME TypeInv, NEW c \in Clients, AwaitReply(c)
    PROVE  \A d \in Clients : ClientMove(d)
<1>. DEFINE f == Head(wire[c])
<1>1. wire[c] # <<>> /\ f \in Frame BY ClientShape, TailRest DEF AwaitReply, TypeInv
<1>2. CASE Answered(c, f) /\ Read(c, Answer(phx[c], f.result))
  <2>1. f.result \in RelayOutcome \cup {"ok", "rejected"}
    BY <1>1, <1>2, FrameShape DEF Answered, IsReply
  <2>2. Answer(phx[c], f.result) \in PhoenixState BY <2>1, AnswerShape DEF TypeInv
  <2>3. /\ Answer(phx[c], f.result).pending = phx[c].pending
        /\ Answer(phx[c], f.result).got = phx[c].got
    BY ClientShape DEF Answer, TypeInv, PhoenixState
  <2>. QED BY <1>2, <2>2, <2>3, ReadClient DEF ClientMove
<1>3. CASE Read(c, phx[c])
  BY <1>3, ClientShape, ReadClient DEF ClientMove, TypeInv
<1>4. CASE f.kind = "broadcast" /\ Read(c, [phx[c] EXCEPT !.pending = Append(@, f.body)])
  <2>. DEFINE next == [phx[c] EXCEPT !.pending = Append(@, f.body)]
  <2>1. Append(phx[c].pending, f.body) \in Seq(Broadcast)
    BY <1>1, <1>4, FrameShape, ClientShape, AppendLast DEF TypeInv
  <2>2. /\ next \in PhoenixState /\ next.got = phx[c].got
        /\ next.pending = Append(phx[c].pending, f.body)
    BY <2>1, ClientShape DEF PhoenixState, TypeInv
  <2>3. /\ phx'[c].pending = next.pending /\ phx'[c].got = next.got
        /\ \A d \in Clients : d # c => phx'[d] = phx[d]
        /\ wire'[c] \in {Tail(wire[c]), <<>>} /\ UNCHANGED mailbox
    BY <1>4, <2>2, ReadClient
  <2>. QED BY <1>1, <1>4, <2>2, <2>3 DEF ClientMove
<1>5. CASE Read(c, [phx[c] EXCEPT !.phase = "done"])
  <2>1. /\ [phx[c] EXCEPT !.phase = "done"] \in PhoenixState
        /\ [phx[c] EXCEPT !.phase = "done"].pending = phx[c].pending
        /\ [phx[c] EXCEPT !.phase = "done"].got = phx[c].got
    BY ClientShape DEF PhoenixState, TypeInv
  <2>. QED BY <1>5, <2>1, ReadClient DEF ClientMove
<1>. QED BY <1>2, <1>3, <1>4, <1>5 DEF AwaitReply

LEMMA NextBroadcastClient ==
    ASSUME TypeInv, NEW c \in Clients, NextBroadcast(c)
    PROVE  \A d \in Clients : ClientMove(d)
<1>1. CASE phx[c].pending # <<>> /\ PopPending(c)
  BY <1>1, ClientShape DEF PopPending, ClientMove, TypeInv, TypeOK, PhoenixState
<1>2. CASE phx[c].pending = <<>> /\ wire[c] # <<>> /\ Poll(c)
  <2>. DEFINE f == Head(wire[c])
  <2>1. f \in Frame BY <1>2, ClientShape, TailRest DEF TypeInv
  <2>2. CASE Read(c, phx[c]) BY <2>2, ClientShape, ReadClient DEF ClientMove, TypeInv
  <2>3. CASE f.kind = "broadcast" /\ Read(c, [phx[c] EXCEPT !.got = Append(@, f.body)])
    <3>. DEFINE next == [phx[c] EXCEPT !.got = Append(@, f.body)]
    <3>1. Append(phx[c].got, f.body) \in Seq(Broadcast)
      BY <2>1, <2>3, FrameShape, ClientShape, AppendLast DEF TypeInv
    <3>2. /\ next \in PhoenixState /\ next.pending = phx[c].pending
          /\ next.got = Append(phx[c].got, f.body)
      BY <3>1, ClientShape DEF PhoenixState, TypeInv
    <3>3. /\ phx'[c].pending = next.pending /\ phx'[c].got = next.got
          /\ \A d \in Clients : d # c => phx'[d] = phx[d]
          /\ wire'[c] \in {Tail(wire[c]), <<>>} /\ UNCHANGED mailbox
      BY <2>3, <3>2, ReadClient
    <3>. QED BY <1>2, <2>3, <3>2, <3>3 DEF ClientMove
  <2>4. CASE Read(c, [phx[c] EXCEPT !.phase = "done"])
    <3>1. /\ [phx[c] EXCEPT !.phase = "done"] \in PhoenixState
          /\ [phx[c] EXCEPT !.phase = "done"].pending = phx[c].pending
          /\ [phx[c] EXCEPT !.phase = "done"].got = phx[c].got
      BY ClientShape DEF PhoenixState, TypeInv
    <3>. QED BY <2>4, <3>1, ReadClient DEF ClientMove
  <2>. QED BY <1>2, <2>2, <2>3, <2>4 DEF Poll
<1>. QED BY <1>1, <1>2 DEF NextBroadcast

\* The steps of a client that do not read.
LEMMA SendClient ==
    ASSUME TypeInv, NEW c \in Clients,
           \/ \E r \in Roles, e \in 1..epoch : Join(c, r, e)
           \/ \E event \in {"command", "event"}, seq \in Numbers \cup {0} : Push(c, event, seq)
           \/ Heartbeat(c) \/ Leave(c) \/ ReplyTimeout(c)
    PROVE  \A d \in Clients : ClientMove(d)
<1>1. phx \in [Clients -> PhoenixState] BY DEF TypeInv, TypeOK
<1>2. \A d \in Clients : phx'[d].pending = phx[d].pending /\ phx'[d].got = phx[d].got
  <2>. SUFFICES ASSUME NEW d \in Clients
                PROVE  phx'[d].pending = phx[d].pending /\ phx'[d].got = phx[d].got
    OBVIOUS
  <2>1. CASE \E r \in Roles, e \in 1..epoch : Join(c, r, e)
    BY <1>1, <2>1 DEF Join, PhoenixState
  <2>2. CASE \E event \in {"command", "event"}, seq \in Numbers \cup {0} : Push(c, event, seq)
    BY <1>1, <2>2 DEF Push, PhoenixState
  <2>3. CASE Heartbeat(c) BY <1>1, <2>3 DEF Heartbeat, PhoenixState
  <2>4. CASE Leave(c) BY <1>1, <2>4 DEF Leave, PhoenixState
  <2>5. CASE ReplyTimeout(c)
    <3>1. \A p \in {"done", "idle"} :
            phx' = [phx EXCEPT ![c].phase = p, ![c].wanted = 0] =>
                phx'[d].pending = phx[d].pending /\ phx'[d].got = phx[d].got
      BY <1>1 DEF PhoenixState
    <3>. QED BY <2>5, <3>1 DEF ReplyTimeout
  <2>. QED BY <2>1, <2>2, <2>3, <2>4, <2>5
<1>. QED BY <1>2 DEF ClientMove

LEMMA ClientMoves ==
    ASSUME TypeInv, [Next]_vars
    PROVE  \A d \in Clients : ClientMove(d)
<1>1. CASE UNCHANGED phx BY <1>1 DEF ClientMove
<1>2. ASSUME NEW c \in Clients, ClientStep(c) \/ GiveUp(c)
      PROVE  \A d \in Clients : ClientMove(d)
  BY <1>2, AwaitClient, NextBroadcastClient, SendClient DEF ClientStep, GiveUp
<1>3. ASSUME NEW c \in Clients, ChannelStep(c) PROVE UNCHANGED phx
  BY <1>3 DEF ChannelStep, JoinRefused, Claim, Subscribe, AfterJoin, Fenced, HandleOut,
     HandleCommand, HandleEvent, HandleLeave, Announce, Release, Kill, Down, client
<1>. QED BY <1>1, <1>2, <1>3 DEF Next, Rotate, Dispatch, vars, client

LEMMA ChannelMoves ==
    ASSUME TypeInv, [Next]_vars
    PROVE  \A d \in Clients : ChannelMove(d)
<1>1. CASE UNCHANGED channel BY <1>1 DEF ChannelMove
<1>2. ASSUME NEW c \in Clients,
             \E s \in {"live", "stopping", "leaving", "dead", "gone"} :
                /\ channel' = [channel EXCEPT ![c].status = s]
                /\ s = "live" => channel[c].status = "claimed"
      PROVE  \A d \in Clients : ChannelMove(d)
  BY <1>2 DEF ChannelMove, TypeInv, TypeOK, Channel
<1>3. ASSUME NEW c \in Clients, Claim(c) PROVE \A d \in Clients : ChannelMove(d)
  BY <1>3 DEF Claim, ChannelMove, TypeInv, TypeOK, Channel
<1>4. ASSUME NEW c \in Clients, ChannelStep(c) PROVE \A d \in Clients : ChannelMove(d)
  BY <1>1, <1>2, <1>3, <1>4 DEF ChannelStep, JoinRefused, Subscribe, AfterJoin, Fenced,
     HandleOut, HandleCommand, HandleEvent, HandleLeave, Announce, Release, Kill, Down, Stop
<1>. QED BY <1>1, <1>4 DEF Next, Rotate, Dispatch, ClientStep, GiveUp, vars
-----------------------------------------------------------------------------
(* Deliveries.                                                              *)

\* What is on the way to a client and what it keeps is of its channel's epoch,
\* which a channel that has not claimed a seat does not have yet.
Clean(c) ==
    /\ \A i \in DOMAIN wire[c] : wire[c][i].kind = "broadcast" =>
            /\ wire[c][i].body.epoch = channel[c].epoch /\ channel[c].status # "none"
    /\ \A i \in DOMAIN phx[c].pending :
            phx[c].pending[i].epoch = channel[c].epoch /\ channel[c].status # "none"
    /\ \A i \in DOMAIN phx[c].got :
            phx[c].got[i].epoch = channel[c].epoch /\ channel[c].status # "none"
CleanInv == \A c \in Clients : Clean(c)

LEMMA InitClean == Init => CleanInv
BY EmptySeq DEF Init, ClientInit, CleanInv, Clean

\* The elements of what a step leaves in a socket or gives a client.
LEMMA WireElements ==
    ASSUME TypeInv, NEW c \in Clients, WireMove(c), NEW i \in DOMAIN wire'[c]
    PROVE  (\E k \in DOMAIN wire[c] : wire'[c][i] = wire[c][k]) \/ Sent(c, wire'[c][i])
<1>0. wire[c] \in Seq(Frame) BY ClientShape DEF TypeInv
<1>1. CASE wire'[c] \in {wire[c], <<>>} BY <1>1, EmptySeq
<1>2. CASE wire[c] # <<>> /\ wire'[c] = Tail(wire[c])
  <2>1. i \in 1..(Len(wire[c]) - 1) /\ wire'[c][i] = wire[c][i + 1]
    BY <1>0, <1>2, TailRest
  <2>2. i + 1 \in DOMAIN wire[c] BY <1>0, <2>1
  <2>. QED BY <2>1, <2>2
<1>3. ASSUME NEW f \in Frame, wire'[c] = Append(wire[c], f), Sent(c, f)
      PROVE  (\E k \in DOMAIN wire[c] : wire'[c][i] = wire[c][k]) \/ Sent(c, wire'[c][i])
  <2>1. /\ i \in 1..(Len(wire[c]) + 1)
        /\ i = Len(wire[c]) + 1 => wire'[c][i] = f
        /\ i \in 1..Len(wire[c]) => wire'[c][i] = wire[c][i]
    BY <1>0, <1>3, AppendLast
  <2>2. Len(wire[c]) \in Nat /\ DOMAIN wire[c] = 1..Len(wire[c]) BY <1>0
  <2>. QED BY <1>3, <2>1, <2>2
<1>. QED BY <1>1, <1>2, <1>3 DEF WireMove

LEMMA SeqAppendElements ==
    ASSUME NEW S, NEW s \in Seq(S), NEW x \in S, NEW i \in DOMAIN Append(s, x)
    PROVE  Append(s, x)[i] = x \/ \E k \in DOMAIN s : Append(s, x)[i] = s[k]
OBVIOUS

LEMMA SeqTailElements ==
    ASSUME NEW S, NEW s \in Seq(S), s # <<>>, NEW i \in DOMAIN Tail(s)
    PROVE  \E k \in DOMAIN s : Tail(s)[i] = s[k]
<1>1. i \in 1..(Len(s) - 1) /\ Tail(s)[i] = s[i + 1] BY TailRest
<1>2. i + 1 \in DOMAIN s BY <1>1
<1>. QED BY <1>1, <1>2

Given(c, b) ==
    \/ \E k \in DOMAIN phx[c].pending : b = phx[c].pending[k]
    \/ \E k \in DOMAIN phx[c].got : b = phx[c].got[k]
    \/ \E k \in DOMAIN wire[c] : wire[c][k].kind = "broadcast" /\ b = wire[c][k].body

LEMMA GivenElements ==
    ASSUME TypeInv, NEW c \in Clients, ClientMove(c)
    PROVE  /\ \A i \in DOMAIN phx'[c].pending : Given(c, phx'[c].pending[i])
           /\ \A i \in DOMAIN phx'[c].got : Given(c, phx'[c].got[i])
<1>. DEFINE pending == phx[c].pending  got == phx[c].got  body == Head(wire[c]).body
<1>0. pending \in Seq(Broadcast) /\ got \in Seq(Broadcast) /\ wire[c] \in Seq(Frame)
  BY ClientShape DEF TypeInv
<1>1. /\ \A i \in DOMAIN pending : Given(c, pending[i])
      /\ \A i \in DOMAIN got : Given(c, got[i])
  BY DEF Given
<1>2. ASSUME NEW s \in Seq(Broadcast), \A i \in DOMAIN s : Given(c, s[i]),
             NEW b \in Broadcast, Given(c, b)
      PROVE  \A i \in DOMAIN Append(s, b) : Given(c, Append(s, b)[i])
  BY <1>2, SeqAppendElements
<1>3. CASE phx'[c].pending = pending /\ phx'[c].got = got BY <1>1, <1>3
<1>4. CASE /\ wire[c] # <<>> /\ Head(wire[c]).kind = "broadcast"
           /\ \/ phx'[c].pending = Append(pending, body) /\ phx'[c].got = got
              \/ phx'[c].got = Append(got, body) /\ phx'[c].pending = pending
  <2>1. Head(wire[c]) = wire[c][1] /\ 1 \in DOMAIN wire[c] /\ body \in Broadcast
    BY <1>0, <1>4, TailRest, FrameShape
  <2>2. Given(c, body) BY <1>4, <2>1 DEF Given
  <2>. QED BY <1>0, <1>1, <1>2, <1>4, <2>1, <2>2
<1>5. CASE /\ pending # <<>> /\ phx'[c].pending = Tail(pending)
           /\ phx'[c].got = Append(got, Head(pending))
  <2>1. Head(pending) = pending[1] /\ 1 \in DOMAIN pending /\ Head(pending) \in Broadcast
    BY <1>0, <1>5, TailRest
  <2>2. \A i \in DOMAIN Tail(pending) : \E k \in DOMAIN pending : Tail(pending)[i] = pending[k]
    BY <1>0, <1>5, SeqTailElements
  <2>3. Given(c, Head(pending)) BY <1>1, <2>1
  <2>4. \A i \in DOMAIN phx'[c].got : Given(c, phx'[c].got[i])
    BY <1>0, <1>1, <1>2, <1>5, <2>1, <2>3
  <2>. QED BY <1>1, <1>5, <2>2, <2>4
<1>. QED BY <1>3, <1>4, <1>5 DEF ClientMove

LEMMA CleanStep == TypeInv /\ CleanInv /\ [Next]_vars => CleanInv'
<1>. SUFFICES ASSUME TypeInv, CleanInv, [Next]_vars, NEW c \in Clients PROVE Clean(c)'
  BY DEF CleanInv
<1>0. Clean(c) /\ WireMove(c) /\ ClientMove(c) /\ ChannelMove(c)
  BY WireMoves, ClientMoves, ChannelMoves DEF CleanInv
\* A broadcast of the epoch of a channel that has one stays of that epoch.
<1>1. ASSUME channel[c].status # "none"
      PROVE  channel'[c].epoch = channel[c].epoch /\ channel'[c].status # "none"
  BY <1>0, <1>1 DEF ChannelMove
<1>2. ASSUME NEW i \in DOMAIN wire'[c], wire'[c][i].kind = "broadcast"
      PROVE  wire'[c][i].body.epoch = channel'[c].epoch /\ channel'[c].status # "none"
  <2>1. CASE \E k \in DOMAIN wire[c] : wire'[c][i] = wire[c][k]
    BY <1>0, <1>1, <1>2, <2>1 DEF Clean
  <2>2. CASE Broadcasts(c, wire'[c][i])
    BY <1>1, <2>2 DEF Broadcasts
  <2>. QED BY <1>0, <1>2, <2>1, <2>2, WireElements DEF Sent
<1>3. ASSUME NEW b, Given(c, b)
      PROVE  b.epoch = channel'[c].epoch /\ channel'[c].status # "none"
  BY <1>0, <1>1, <1>3 DEF Clean, Given
<1>4. /\ \A i \in DOMAIN phx'[c].pending : Given(c, phx'[c].pending[i])
      /\ \A i \in DOMAIN phx'[c].got : Given(c, phx'[c].got[i])
  BY <1>0, GivenElements
<1>. QED BY <1>2, <1>3, <1>4 DEF Clean

\* However long PubSub, a mailbox, a socket or a client's own buffer held it: no
\* client is given a broadcast of another epoch than its own.
THEOREM EpochCleanHolds == Spec => []EpochClean
<1>1. Init => TypeInv /\ CleanInv BY InitTypes, InitClean
<1>2. TypeInv /\ CleanInv /\ [Next]_vars => (TypeInv /\ CleanInv)' BY TypeStep, CleanStep
<1>3. CleanInv => EpochClean BY DEF CleanInv, Clean, EpochClean
<1>. QED BY <1>1, <1>2, <1>3, PTL DEF Spec

-----------------------------------------------------------------------------
(* The log.                                                                 *)

Tells(b) == b.event \in {"peer_joined", "peer_left"}
\* The step broadcasts b for a channel that holds its seat.
Logs(b) ==
    /\ b \in Broadcast /\ log' = Append(log, b) /\ Current(b.from)
    /\ b.role = channel[b.from].role /\ b.epoch = epoch /\ UNCHANGED <<epoch, holder>>
    /\ \/ /\ b.event = "peer_joined" /\ Handles(b.from, "after_join") /\ Handled(b.from)
          /\ UNCHANGED <<last, channel>>
       \/ /\ b.event = "peer_left" /\ channel[b.from].status = "stopping"
          /\ channel' = [channel EXCEPT ![b.from].status = "leaving"] /\ UNCHANGED last
       \/ /\ b.event = "command" /\ channel[b.from].status = "live" /\ UNCHANGED channel
          /\ Fresh(b.from, b.seq) /\ last' = [last EXCEPT ![b.role] = b.seq]
       \/ b.event = "event" /\ channel[b.from].status = "live" /\ UNCHANGED <<last, channel>>

LEMMA RelayShape ==
    ASSUME TypeInv, NEW c \in Clients, Current(c), NEW ref \in Refs, NEW seq \in Numbers \cup {0},
           NEW event \in Events, RelayBroadcast(c, event, ref, seq)
    PROVE  \E b \in Broadcast :
                /\ log' = Append(log, b) /\ b.from = c /\ b.event = event /\ b.ref = ref
                /\ b.seq = seq /\ b.role = channel[c].role /\ b.epoch = epoch
<1>. DEFINE b == [from |-> c, role |-> channel[c].role, ref |-> ref,
                  epoch |-> channel[c].epoch, event |-> event, seq |-> seq]
<1>1. channel[c].role \in Roles /\ channel[c].epoch \in Nat /\ channel[c].epoch = epoch
  BY ClientShape, RelayAssumption DEF Current, TypeInv
<1>2. b \in Broadcast BY <1>1 DEF Broadcast
<1>3. log' = Append(log, b) BY DEF RelayBroadcast
<1>. QED BY <1>1, <1>2, <1>3

LEMMA AfterJoinLogs ==
    ASSUME TypeInv, NEW c \in Clients, AfterJoin(c)
    PROVE  \/ log' = log
           \/ \E b \in Broadcast : Logs(b) /\ Tells(b) /\ b.from = c /\ b.ref = 0
<1>1. CASE Current(c) /\ RelayBroadcast(c, "peer_joined", 0, 0) /\ UNCHANGED channel
  <2>1. PICK b \in Broadcast : /\ log' = Append(log, b) /\ b.from = c /\ b.ref = 0
                               /\ b.event = "peer_joined"
                               /\ b.role = channel[c].role /\ b.epoch = epoch
    BY <1>1, RelayShape, RefsAreNumbers DEF Events
  <2>. QED BY <1>1, <2>1 DEF AfterJoin, Logs, Tells, authority
<1>. QED BY <1>1 DEF AfterJoin

LEMMA AnnounceLogs ==
    ASSUME TypeInv, NEW c \in Clients, Announce(c)
    PROVE  \/ log' = log
           \/ \E b \in Broadcast : Logs(b) /\ Tells(b) /\ b.from = c /\ b.ref = 0
<1>1. CASE Current(c) /\ RelayBroadcast(c, "peer_left", 0, 0)
  <2>1. PICK b \in Broadcast : /\ log' = Append(log, b) /\ b.from = c /\ b.ref = 0
                               /\ b.event = "peer_left"
                               /\ b.role = channel[c].role /\ b.epoch = epoch
    BY <1>1, RelayShape, RefsAreNumbers DEF Events
  <2>. QED BY <1>1, <2>1 DEF Announce, Logs, Tells, authority
<1>. QED BY <1>1 DEF Announce

LEMMA CommandLogs ==
    ASSUME TypeInv, NEW c \in Clients, HandleCommand(c)
    PROVE  log' = log \/ \E b \in Broadcast : /\ Logs(b) /\ b.from = c
                                              /\ b.ref = Head(mailbox[c]).ref
<1>. DEFINE m == Head(mailbox[c])
<1>1. CASE /\ Current(c) /\ Fresh(c, m.seq) /\ RelayBroadcast(c, "command", m.ref, m.seq)
           /\ last' = [last EXCEPT ![channel[c].role] = m.seq]
  <2>1. m.ref \in Refs /\ m.seq \in Numbers \cup {0}
    BY HandledTypes, MessageShape DEF HandleCommand
  <2>2. PICK b \in Broadcast : /\ log' = Append(log, b) /\ b.from = c /\ b.ref = m.ref
                               /\ b.event = "command" /\ b.seq = m.seq
                               /\ b.role = channel[c].role /\ b.epoch = epoch
    BY <1>1, <2>1, RelayShape DEF Events
  <2>3. channel[c].status = "live" BY DEF HandleCommand, Handles
  <2>. QED BY <1>1, <2>2, <2>3 DEF HandleCommand, Logs
<1>. QED BY <1>1 DEF HandleCommand

LEMMA EventLogs ==
    ASSUME TypeInv, NEW c \in Clients, HandleEvent(c)
    PROVE  log' = log \/ \E b \in Broadcast : /\ Logs(b) /\ b.from = c
                                              /\ b.ref = Head(mailbox[c]).ref
<1>. DEFINE m == Head(mailbox[c])
<1>1. CASE Current(c) /\ RelayBroadcast(c, "event", m.ref, 0)
  <2>1. m.ref \in Refs BY HandledTypes, MessageShape DEF HandleEvent
  <2>2. PICK b \in Broadcast : /\ log' = Append(log, b) /\ b.from = c /\ b.ref = m.ref
                               /\ b.event = "event"
                               /\ b.role = channel[c].role /\ b.epoch = epoch
    BY <1>1, <2>1, RelayShape DEF Events
  <2>3. channel[c].status = "live" BY DEF HandleEvent, Handles
  <2>. QED BY <1>1, <2>2, <2>3 DEF HandleEvent, Logs, authority
<1>. QED BY <1>1 DEF HandleEvent

LEMMA LogMoves ==
    ASSUME TypeInv, [Next]_vars
    PROVE  log' = log \/ \E b \in Broadcast : Logs(b)
<1>1. ASSUME NEW c \in Clients, ChannelStep(c)
      PROVE  log' = log \/ \E b \in Broadcast : Logs(b)
  BY <1>1, AfterJoinLogs, AnnounceLogs, CommandLogs, EventLogs
     DEF ChannelStep, JoinRefused, Claim, Subscribe, Fenced, HandleOut, HandleLeave, Release,
         Kill, Down
<1>. QED BY <1>1 DEF Next, Rotate, Dispatch, ClientStep, GiveUp, vars

\* Without a broadcast the numbers stay, unless the epoch moves.
LEMMA NumbersStay ==
    ASSUME TypeInv, [Next]_vars, log' = log
    PROVE  UNCHANGED <<epoch, last>> \/ epoch' = epoch + 1
<1>0. ASSUME NEW b PROVE log # Append(log, b)
  <2>1. log \in Seq(Broadcast) BY DEF TypeInv, TypeOK
  <2>2. Len(Append(log, b)) = Len(log) + 1 /\ Len(log) \in Nat BY <2>1
  <2>. QED BY <2>2
<1>1. ASSUME NEW c \in Clients, HandleCommand(c) PROVE UNCHANGED <<epoch, last>>
  BY <1>0, <1>1 DEF HandleCommand, RelayBroadcast
<1>2. ASSUME NEW c \in Clients, ChannelStep(c) PROVE UNCHANGED <<epoch, last>>
  BY <1>1, <1>2 DEF ChannelStep, JoinRefused, Claim, Subscribe, AfterJoin, Fenced, HandleOut,
     HandleEvent, HandleLeave, Announce, Release, Kill, Down, authority
<1>. QED BY <1>2 DEF Next, Rotate, Dispatch, ClientStep, GiveUp, vars, authority

\* The seat's last number bounds what it has broadcast in this epoch.
NumbersBound ==
    \A i \in DOMAIN log :
        /\ log[i].epoch <= epoch
        /\ log[i].event = "command" /\ log[i].epoch = epoch => log[i].seq <= last[log[i].role]
OrderInv == NumbersBound /\ InOrder

LEMMA BroadcastShape ==
    ASSUME NEW b \in Broadcast
    PROVE  /\ b.from \in Clients /\ b.role \in Roles /\ b.ref \in Nat /\ b.epoch \in Nat
           /\ b.event \in Events /\ b.seq \in Nat
BY RefsAreNumbers, ClientAssumption DEF Broadcast

LEMMA LogShape ==
    ASSUME TypeInv
    PROVE  /\ log \in Seq(Broadcast) /\ Len(log) \in Nat /\ DOMAIN log = 1..Len(log)
           /\ \A i \in DOMAIN log : log[i] \in Broadcast
           /\ epoch \in Nat /\ \A r \in Roles : last[r] \in Nat
<1>1. log \in Seq(Broadcast) BY DEF TypeInv, TypeOK
<1>2. /\ Len(log) \in Nat /\ DOMAIN log = 1..Len(log)
      /\ \A i \in DOMAIN log : log[i] \in Broadcast
  BY <1>1
<1>3. epoch \in Nat BY RelayAssumption DEF TypeInv, TypeOK
<1>4. Numbers \cup {0} \subseteq Nat BY ClientAssumption
<1>5. last \in [Roles -> Nat] BY <1>4 DEF TypeInv, TypeOK
<1>. QED BY <1>1, <1>2, <1>3, <1>5

LEMMA OrderStep == TypeInv /\ OrderInv /\ [Next]_vars => OrderInv'
<1>. SUFFICES ASSUME TypeInv, OrderInv, [Next]_vars PROVE OrderInv' OBVIOUS
<1>1. CASE log' = log
  <2>1. InOrder' BY <1>1 DEF OrderInv, InOrder
  <2>2. NumbersBound'
    <3>1. CASE UNCHANGED <<epoch, last>> BY <1>1, <3>1 DEF OrderInv, NumbersBound
    <3>2. CASE epoch' = epoch + 1
      <4>1. \A i \in DOMAIN log : log[i].epoch <= epoch /\ log[i].epoch \in Nat
        BY LogShape, BroadcastShape DEF OrderInv, NumbersBound
      <4>. QED BY <1>1, <3>2, <4>1, LogShape DEF NumbersBound
    <3>. QED BY <1>1, <3>1, <3>2, NumbersStay
  <2>. QED BY <2>1, <2>2 DEF OrderInv
<1>2. ASSUME NEW b \in Broadcast, Logs(b) PROVE OrderInv'
  <2>. DEFINE n == Len(log)
  <2>1. /\ log' = Append(log, b) /\ DOMAIN log' = 1..(n + 1) /\ log'[n + 1] = b
        /\ n \in Nat /\ \A i \in 1..n : log'[i] = log[i]
    BY <1>2, LogShape, AppendLast DEF Logs
  <2>2. epoch' = epoch /\ b.epoch = epoch /\ b.role \in Roles /\ b.seq \in Nat
    BY <1>2, BroadcastShape DEF Logs
  <2>3. /\ b.event = "command" => last[b.role] < b.seq /\ last'[b.role] = b.seq
        /\ \A r \in Roles : last'[r] \in Nat /\ last[r] <= last'[r]
    <3>1. last \in [Roles -> Nat] BY LogShape DEF TypeInv, TypeOK
    <3>2. CASE b.event = "command"
      <4>1. last[b.role] < b.seq /\ last' = [last EXCEPT ![b.role] = b.seq]
        BY <1>2, <3>2 DEF Logs, Fresh
      <4>. QED BY <2>2, <3>1, <4>1
    <3>3. CASE b.event # "command"
      <4>1. last' = last BY <1>2, <3>3 DEF Logs
      <4>. QED BY <3>1, <3>3, <4>1
    <3>. QED BY <3>2, <3>3
  <2>4. ASSUME NEW i \in 1..n
        PROVE  /\ log[i].epoch <= epoch /\ log[i].role \in Roles /\ log[i].seq \in Nat
               /\ log[i].event = "command" /\ log[i].epoch = epoch =>
                    log[i].seq <= last[log[i].role]
    BY LogShape, BroadcastShape DEF OrderInv, NumbersBound
  <2>5. NumbersBound'
    <3>. SUFFICES ASSUME NEW i \in 1..(n + 1)
                  PROVE  /\ log'[i].epoch <= epoch
                         /\ log'[i].event = "command" /\ log'[i].epoch = epoch =>
                                log'[i].seq <= last'[log'[i].role]
      BY <2>1, <2>2 DEF NumbersBound
    <3>1. CASE i = n + 1 BY <2>1, <2>2, <2>3, <3>1, LogShape
    <3>2. CASE i \in 1..n
      <4>1. last[log[i].role] <= last'[log[i].role] /\ last'[log[i].role] \in Nat
            /\ last[log[i].role] \in Nat
        BY <2>3, <2>4, <3>2, LogShape
      <4>. QED BY <2>1, <2>4, <3>2, <4>1
    <3>. QED BY <2>1, <3>1, <3>2
  <2>6. InOrder'
    <3>. SUFFICES ASSUME NEW i \in 1..(n + 1), NEW j \in 1..(n + 1), i < j,
                         log'[i].event = "command", log'[j].event = "command",
                         log'[i].role = log'[j].role, log'[i].epoch = log'[j].epoch
                  PROVE  log'[i].seq < log'[j].seq
      BY <2>1 DEF InOrder
    <3>1. i \in 1..n /\ log'[i] = log[i] BY <2>1
    <3>2. CASE j \in 1..n
      BY <2>1, <3>1, <3>2, LogShape DEF OrderInv, InOrder
    <3>3. CASE j = n + 1
      <4>1. log[i].seq <= last[b.role] /\ last[b.role] < b.seq /\ last[b.role] \in Nat
        BY <2>1, <2>2, <2>3, <2>4, <3>1, <3>3, LogShape
      <4>. QED BY <2>1, <2>2, <2>4, <3>1, <3>3, <4>1
    <3>. QED BY <2>1, <3>2, <3>3
  <2>. QED BY <2>5, <2>6 DEF OrderInv
<1>. QED BY <1>1, <1>2, LogMoves

\* Whoever holds a seat, and however often a push is retried: within an epoch
\* the seat's commands are relayed in the order of their numbers, none twice.
THEOREM CommandsInOrder == Spec => []InOrder
<1>1. Init => TypeInv /\ OrderInv
  BY InitTypes, EmptySeq DEF Init, OrderInv, NumbersBound, InOrder
<1>2. TypeInv /\ OrderInv /\ [Next]_vars => (TypeInv /\ OrderInv)' BY TypeStep, OrderStep
<1>3. OrderInv => InOrder BY DEF OrderInv
<1>. QED BY <1>1, <1>2, <1>3, PTL DEF Spec
-----------------------------------------------------------------------------
(* A channel's mailbox keeps its order: a step drops its first message (d = 1), *)
(* adds one at its end (d = 0), or both, or puts after_join before the rest.  *)
Others == {"join", "leave", "session_fenced"}
Requests == {"command", "event"}
Stays(c, d, i) == i + d \in DOMAIN mailbox[c] /\ mailbox'[c][i] = mailbox[c][i + d]
Fronts(c, d, i) ==
    /\ d = -1 /\ i = 1 /\ mailbox'[c][i].kind = "after_join"
    /\ channel'[c].status = "live" /\ log' = log
Pushed(c, d, i) ==
    /\ d = 0 /\ i = Len(mailbox[c]) + 1 /\ mailbox'[c][i].kind \in Requests
    /\ mailbox'[c][i].ref = phx[c].next_ref + 1 /\ phx'[c].next_ref = phx[c].next_ref + 1
Arrives(c, d, i) ==
    /\ d = 0 /\ i = Len(mailbox[c]) + 1 /\ mailbox'[c][i].kind = "out"
    /\ Dispatch /\ mailbox'[c][i].body = Head(air)
MailboxMoveBy(c, d) ==
    /\ d = -1 => channel[c].status = "claimed"
    /\ \A i \in DOMAIN mailbox'[c] :
        \/ Stays(c, d, i) \/ mailbox'[c][i].kind \in Others
        \/ Fronts(c, d, i) \/ Pushed(c, d, i) \/ Arrives(c, d, i)
MailboxMove(c) == \E d \in {-1, 0, 1} : MailboxMoveBy(c, d)

LEMMA SameMail ==
    ASSUME NEW c \in Clients, mailbox[c] \in Seq(Message), mailbox'[c] \in {mailbox[c], <<>>}
    PROVE  MailboxMove(c)
<1>1. \A i \in DOMAIN mailbox'[c] : Stays(c, 0, i)
  <2>1. CASE mailbox'[c] = <<>> BY <2>1, EmptySeq
  <2>2. CASE mailbox'[c] = mailbox[c] BY <2>2 DEF Stays
  <2>. QED BY <2>1, <2>2
<1>2. MailboxMoveBy(c, 0) BY <1>1 DEF MailboxMoveBy
<1>. QED BY <1>2 DEF MailboxMove

LEMMA HandledMail ==
    ASSUME NEW c \in Clients, mailbox[c] \in Seq(Message), mailbox[c] # <<>>,
           mailbox'[c] = Tail(mailbox[c])
    PROVE  MailboxMove(c)
<1>1. ASSUME NEW i \in DOMAIN mailbox'[c] PROVE Stays(c, 1, i)
  <2>1. i \in 1..(Len(mailbox[c]) - 1) /\ mailbox'[c][i] = mailbox[c][i + 1] BY TailRest
  <2>. QED BY <2>1 DEF Stays
<1>2. MailboxMoveBy(c, 1) BY <1>1 DEF MailboxMoveBy
<1>. QED BY <1>2 DEF MailboxMove

LEMMA AppendedMail ==
    ASSUME NEW c \in Clients, mailbox[c] \in Seq(Message), NEW m \in Message, m.kind \in Others,
           \/ mailbox'[c] = Append(mailbox[c], m)
           \/ mailbox[c] # <<>> /\ mailbox'[c] = Append(Tail(mailbox[c]), m)
    PROVE  MailboxMove(c)
<1>1. CASE mailbox'[c] = Append(mailbox[c], m)
  <2>1. ASSUME NEW i \in DOMAIN mailbox'[c]
        PROVE  Stays(c, 0, i) \/ mailbox'[c][i].kind \in Others
    <3>1. /\ i \in 1..(Len(mailbox[c]) + 1) /\ (i = Len(mailbox[c]) + 1 => mailbox'[c][i] = m)
          /\ i \in 1..Len(mailbox[c]) => mailbox'[c][i] = mailbox[c][i]
      BY <1>1, AppendLast
    <3>. QED BY <3>1 DEF Stays
  <2>2. MailboxMoveBy(c, 0) BY <2>1 DEF MailboxMoveBy
  <2>. QED BY <2>2 DEF MailboxMove
<1>2. CASE mailbox[c] # <<>> /\ mailbox'[c] = Append(Tail(mailbox[c]), m)
  <2>. DEFINE n == Len(mailbox[c])
  <2>0. /\ n \in Nat \ {0} /\ Tail(mailbox[c]) \in Seq(Message) /\ Len(Tail(mailbox[c])) = n - 1
        /\ \A i \in 1..(n - 1) : Tail(mailbox[c])[i] = mailbox[c][i + 1]
        /\ DOMAIN mailbox[c] = 1..n
    BY <1>2, TailRest
  <2>1. ASSUME NEW i \in DOMAIN mailbox'[c]
        PROVE  Stays(c, 1, i) \/ mailbox'[c][i].kind \in Others
    <3>1. /\ i \in 1..n /\ (i = n => mailbox'[c][i] = m)
          /\ i \in 1..(n - 1) => mailbox'[c][i] = Tail(mailbox[c])[i]
      <4>1. /\ DOMAIN mailbox'[c] = 1..((n - 1) + 1) /\ mailbox'[c][(n - 1) + 1] = m
            /\ \A k \in 1..(n - 1) : mailbox'[c][k] = Tail(mailbox[c])[k]
        BY <1>2, <2>0, AppendLast
      <4>2. (n - 1) + 1 = n BY <2>0
      <4>. QED BY <4>1, <4>2
    <3>. QED BY <2>0, <3>1 DEF Stays
  <2>2. MailboxMoveBy(c, 1) BY <2>1 DEF MailboxMoveBy
  <2>. QED BY <2>2 DEF MailboxMove
<1>. QED BY <1>1, <1>2

LEMMA FenceMail ==
    ASSUME TypeInv, NEW S, NEW done, Fence(S, done), \A c \in done : mailbox[c] # <<>>
    PROVE  \A c \in Clients : MailboxMove(c)
<1>. SUFFICES ASSUME NEW c \in Clients PROVE MailboxMove(c) OBVIOUS
<1>0. mailbox[c] \in Seq(Message) BY ClientShape DEF TypeInv
<1>1. [kind |-> "session_fenced"] \in Message BY DEF Message
<1>2. CASE c \in S BY <1>0, <1>1, <1>2, AppendedMail DEF Fence, Others
<1>3. CASE c \notin S BY <1>0, <1>3, SameMail, HandledMail DEF Fence
<1>. QED BY <1>2, <1>3

LEMMA MailOfOne ==
    ASSUME TypeInv, NEW c \in Clients, NEW m, mailbox' = [mailbox EXCEPT ![c] = m], MailboxMove(c)
    PROVE  \A d \in Clients : MailboxMove(d)
<1>1. \A d \in Clients : d # c => mailbox'[d] = mailbox[d] BY DEF TypeInv, TypeOK
<1>. QED BY <1>1, SameMail, ClientShape DEF TypeInv

LEMMA HandledMailbox ==
    ASSUME TypeInv, NEW c \in Clients, NEW kind, Handles(c, kind), Handled(c)
    PROVE  \A d \in Clients : MailboxMove(d)
<1>1. mailbox'[c] = Tail(mailbox[c]) /\ mailbox[c] # <<>> /\ mailbox[c] \in Seq(Message)
  BY ClientShape DEF Handles, Handled, Message_, TypeInv, TypeOK
<1>2. MailboxMove(c) BY <1>1, HandledMail
<1>. QED BY <1>2, MailOfOne DEF Handled

LEMMA SubscribeMailbox ==
    ASSUME TypeInv, NEW c \in Clients, Subscribe(c)
    PROVE  \A d \in Clients : MailboxMove(d)
<1>. DEFINE x == [kind |-> "after_join"]
<1>1. /\ mailbox'[c] = <<x>> \o mailbox[c] /\ channel'[c].status = "live" /\ log' = log
      /\ channel[c].status = "claimed" /\ mailbox[c] \in Seq(Message)
  BY ClientShape DEF Subscribe, TypeInv, TypeOK, Channel
<1>2. x \in Message BY DEF Message
<1>3. ASSUME NEW i \in DOMAIN mailbox'[c] PROVE Stays(c, -1, i) \/ Fronts(c, -1, i)
  <2>1. /\ i \in 1..(Len(mailbox[c]) + 1) /\ (i = 1 => mailbox'[c][i] = x)
        /\ \A k \in 1..Len(mailbox[c]) : mailbox'[c][k + 1] = mailbox[c][k]
    BY <1>1, <1>2, PushFront
  <2>2. CASE i = 1 BY <1>1, <2>1, <2>2 DEF Fronts
  <2>3. CASE i # 1
    <3>1. i + (-1) \in 1..Len(mailbox[c]) /\ (i + (-1)) + 1 = i BY <1>1, <2>1, <2>3
    <3>. QED BY <1>1, <2>1, <3>1 DEF Stays
  <2>. QED BY <2>2, <2>3
<1>4. MailboxMoveBy(c, -1) BY <1>1, <1>3 DEF MailboxMoveBy
<1>5. MailboxMove(c) BY <1>4 DEF MailboxMove
<1>. QED BY <1>5, MailOfOne DEF Subscribe

LEMMA DispatchMailbox ==
    ASSUME TypeInv, Dispatch
    PROVE  \A d \in Clients : MailboxMove(d)
<1>. SUFFICES ASSUME NEW d \in Clients PROVE MailboxMove(d) OBVIOUS
<1>1. Head(air) \in Broadcast BY TailRest DEF Dispatch, TypeInv, TypeOK
<1>2. [kind |-> "out", body |-> Head(air)] \in Message BY <1>1 DEF Message
<1>3. mailbox[d] \in Seq(Message) BY ClientShape DEF TypeInv
<1>. DEFINE m == [kind |-> "out", body |-> Head(air)]
<1>4. mailbox'[d] = mailbox[d] \/ mailbox'[d] = Append(mailbox[d], m) BY DEF Dispatch
<1>5. CASE mailbox'[d] = Append(mailbox[d], m)
  <2>1. ASSUME NEW i \in DOMAIN mailbox'[d] PROVE Stays(d, 0, i) \/ Arrives(d, 0, i)
    <3>1. /\ i \in 1..(Len(mailbox[d]) + 1) /\ (i = Len(mailbox[d]) + 1 => mailbox'[d][i] = m)
          /\ i \in 1..Len(mailbox[d]) => mailbox'[d][i] = mailbox[d][i]
      BY <1>2, <1>3, <1>5, AppendLast
    <3>2. CASE i = Len(mailbox[d]) + 1 BY <3>1, <3>2 DEF Arrives
    <3>3. CASE i \in 1..Len(mailbox[d]) BY <1>3, <3>1, <3>3 DEF Stays
    <3>. QED BY <1>3, <3>1, <3>2, <3>3
  <2>2. MailboxMoveBy(d, 0) BY <2>1 DEF MailboxMoveBy
  <2>. QED BY <2>2 DEF MailboxMove
<1>. QED BY <1>3, <1>4, <1>5, SameMail

LEMMA JoinMailbox ==
    ASSUME TypeInv, NEW c \in Clients, NEW r \in Roles, NEW e \in 1..epoch, Join(c, r, e)
    PROVE  \A d \in Clients : MailboxMove(d)
<1>. DEFINE m == [kind |-> "join", ref |-> TakeRef(c), role |-> r, epoch |-> e]
<1>1. phx[c].next_ref + 1 \in 1..MaxRefs[c]
  BY ClientShape, RefsAreNumbers DEF Join, Send, TypeInv
<1>2. m \in Message
  BY <1>1, RefsAreNumbers, RelayAssumption DEF Message, TakeRef, TypeInv, TypeOK
<1>3. mailbox'[c] = Append(mailbox[c], m) /\ mailbox[c] \in Seq(Message)
  BY ClientShape DEF Join, Send, TypeInv, TypeOK
<1>4. MailboxMove(c) BY <1>2, <1>3, AppendedMail DEF Others
<1>. QED BY <1>4, MailOfOne DEF Join, Send

LEMMA PushMailbox ==
    ASSUME TypeInv, NEW c \in Clients, NEW event \in Requests, NEW seq \in Numbers \cup {0},
           Push(c, event, seq)
    PROVE  \A d \in Clients : MailboxMove(d)
<1>. DEFINE m == [kind |-> event, ref |-> TakeRef(c), seq |-> seq]
<1>1. phx[c].next_ref + 1 \in 1..MaxRefs[c]
  BY ClientShape, RefsAreNumbers DEF Push, Send, TypeInv
<1>2. m \in Message BY <1>1, RefsAreNumbers DEF Message, TakeRef, Requests
<1>3. mailbox'[c] = Append(mailbox[c], m) /\ mailbox[c] \in Seq(Message)
  BY ClientShape DEF Push, Send, TypeInv, TypeOK
<1>4. phx'[c].next_ref = phx[c].next_ref + 1
  BY ClientShape DEF Push, TypeInv, TypeOK, PhoenixState
<1>5. ASSUME NEW i \in DOMAIN mailbox'[c] PROVE Stays(c, 0, i) \/ Pushed(c, 0, i)
  <2>1. /\ i \in 1..(Len(mailbox[c]) + 1) /\ (i = Len(mailbox[c]) + 1 => mailbox'[c][i] = m)
        /\ i \in 1..Len(mailbox[c]) => mailbox'[c][i] = mailbox[c][i]
    BY <1>2, <1>3, AppendLast
  <2>2. CASE i = Len(mailbox[c]) + 1 BY <1>4, <2>1, <2>2 DEF Pushed, TakeRef
  <2>3. CASE i \in 1..Len(mailbox[c]) BY <1>3, <2>1, <2>3 DEF Stays
  <2>. QED BY <1>3, <2>1, <2>2, <2>3
<1>6. MailboxMoveBy(c, 0) BY <1>5 DEF MailboxMoveBy
<1>7. MailboxMove(c) BY <1>6 DEF MailboxMove
<1>. QED BY <1>7, MailOfOne DEF Push, Send

LEMMA MailboxMoves ==
    ASSUME TypeInv, [Next]_vars
    PROVE  \A d \in Clients : MailboxMove(d)
<1>1. CASE UNCHANGED mailbox BY <1>1, SameMail, ClientShape DEF TypeInv
<1>2. ASSUME NEW c \in Clients, mailbox' = [mailbox EXCEPT ![c] = <<>>]
      PROVE  \A d \in Clients : MailboxMove(d)
  <2>1. mailbox'[c] = <<>> BY <1>2 DEF TypeInv, TypeOK
  <2>. QED BY <1>2, <2>1, SameMail, ClientShape, MailOfOne DEF TypeInv
<1>3. ASSUME NEW c \in Clients,
             mailbox' = [mailbox EXCEPT ![c] = Append(@, [kind |-> "leave"])]
      PROVE  \A d \in Clients : MailboxMove(d)
  <2>1. mailbox'[c] = Append(mailbox[c], [kind |-> "leave"]) /\ mailbox[c] \in Seq(Message)
    BY <1>3, ClientShape DEF TypeInv, TypeOK
  <2>2. [kind |-> "leave"] \in Message BY DEF Message
  <2>3. MailboxMove(c) BY <2>1, <2>2, AppendedMail DEF Others
  <2>. QED BY <1>3, <2>3, MailOfOne
<1>4. ASSUME NEW c \in Clients, ClientStep(c) \/ GiveUp(c)
      PROVE  \A d \in Clients : MailboxMove(d)
  BY <1>1, <1>3, <1>4, JoinMailbox, PushMailbox
     DEF ClientStep, GiveUp, Requests, Heartbeat, Leave, AwaitReply, Read, NextBroadcast,
         PopPending, Poll, ReplyTimeout
<1>5. ASSUME NEW c \in Clients, JoinRefused(c) \/ Claim(c)
      PROVE  \A d \in Clients : MailboxMove(d)
  <2>1. mailbox[c] # <<>> /\ \E S : Fence(S, {c})
    BY <1>5 DEF JoinRefused, Claim, Message_
  <2>. QED BY <2>1, FenceMail
<1>6. ASSUME NEW c \in Clients,
             \/ AfterJoin(c) \/ Fenced(c) \/ HandleOut(c) \/ HandleCommand(c)
             \/ HandleEvent(c) \/ HandleLeave(c)
      PROVE  \A d \in Clients : MailboxMove(d)
  <2>1. \E kind : Handles(c, kind) /\ Handled(c)
    BY <1>6 DEF AfterJoin, Fenced, HandleOut, HandleCommand, HandleEvent, HandleLeave
  <2>. QED BY <2>1, HandledMailbox
<1>7. ASSUME NEW c \in Clients, ChannelStep(c) PROVE \A d \in Clients : MailboxMove(d)
  BY <1>1, <1>2, <1>5, <1>6, <1>7, SubscribeMailbox
     DEF ChannelStep, Announce, Release, Kill, Down, client
<1>8. CASE Rotate
  <2>1. \E S : Fence(S, {}) BY <1>8 DEF Rotate
  <2>. QED BY <2>1, FenceMail
<1>. QED BY <1>1, <1>4, <1>7, <1>8, DispatchMailbox DEF Next, vars, client
-----------------------------------------------------------------------------
(* Announcements.                                                           *)

\* A seat that was lost is not regained: only a channel that has not claimed a
\* seat yet becomes a holder.
LEMMA HolderMoves ==
    ASSUME TypeInv, [Next]_vars
    PROVE  /\ epoch' \in {epoch, epoch + 1}
           /\ \A c \in Clients, r \in Roles :
                    holder'[r] = c => holder[r] = c \/ channel[c].status = "none"
<1>0. Nobody \notin Clients /\ holder \in [Roles -> Clients \cup {Nobody}]
  BY RelayAssumption DEF TypeInv, TypeOK
<1>1. CASE UNCHANGED <<epoch, holder>> BY <1>1
<1>2. CASE Rotate BY <1>0, <1>2 DEF Rotate
<1>3. ASSUME NEW d \in Clients, Down(d)
      PROVE  /\ epoch' = epoch
             /\ \A c \in Clients, r \in Roles : holder'[r] = c => holder[r] = c
  BY <1>0, <1>3 DEF Down
<1>4. ASSUME NEW d \in Clients, Release(d)
      PROVE  /\ epoch' = epoch
             /\ \A c \in Clients, r \in Roles : holder'[r] = c => holder[r] = c
  BY <1>0, <1>4 DEF Release
<1>5. ASSUME NEW d \in Clients, Claim(d)
      PROVE  /\ epoch' = epoch
             /\ \A c \in Clients, r \in Roles :
                    holder'[r] = c => holder[r] = c \/ channel[c].status = "none"
  BY <1>0, <1>5 DEF Claim
<1>6. ASSUME NEW d \in Clients, ChannelStep(d)
      PROVE  \/ UNCHANGED <<epoch, holder>> \/ Down(d) \/ Release(d) \/ Claim(d)
  BY <1>6 DEF ChannelStep, JoinRefused, Subscribe, AfterJoin, Fenced, HandleOut, HandleCommand,
     HandleEvent, HandleLeave, Announce, Kill, authority
<1>. QED BY <1>1, <1>2, <1>3, <1>4, <1>5, <1>6
     DEF Next, Dispatch, ClientStep, GiveUp, vars, authority

LEMMA LostForGood ==
    ASSUME TypeInv, [Next]_vars, NEW c \in Clients, channel[c].epoch <= epoch,
           channel[c].status # "none", ~Current(c)
    PROVE  ~Current(c)'
<1>1. channel'[c].role = channel[c].role /\ channel'[c].epoch = channel[c].epoch
  BY ChannelMoves DEF ChannelMove
<1>2. channel[c].role \in Roles \cup {Nobody} /\ channel[c].epoch \in Nat /\ epoch \in Nat
  BY ClientShape, RelayAssumption, LogShape DEF TypeInv
<1>. SUFFICES ASSUME Current(c)' PROVE FALSE OBVIOUS
<1>3. channel[c].role \in Roles /\ channel[c].epoch = epoch' /\ holder'[channel[c].role] = c
  BY <1>1, <1>2 DEF Current
<1>4. epoch' = epoch BY <1>2, <1>3, HolderMoves
<1>5. holder[channel[c].role] = c BY <1>3, HolderMoves
<1>. QED BY <1>3, <1>4, <1>5, RelayAssumption DEF Current

Entered(c) == channel[c].status \notin {"none", "claimed"}
EpochsBound == \A c \in Clients : channel[c].epoch <= epoch
\* A broadcast carries the seat of its channel for good.
Announced ==
    \A i \in DOMAIN log :
        /\ Entered(log[i].from) /\ channel[log[i].from].role = log[i].role
        /\ channel[log[i].from].epoch = log[i].epoch
\* :after_join is the first message of a channel, and comes once.
JoinsOnce ==
    \A c \in Clients : \A i \in DOMAIN mailbox[c] : mailbox[c][i].kind = "after_join" =>
        /\ i = 1 /\ Entered(c)
        /\ \A k \in DOMAIN log : ~(log[k].from = c /\ log[k].event = "peer_joined")
\* Later news of a seat means that its channel has lost it or is on its way out.
Superseded(i, j) ==
    /\ i < j /\ log[i].event = "peer_joined" /\ Tells(log[j])
    /\ log[i].role = log[j].role /\ log[i].epoch = log[j].epoch
LaterNews ==
    \A i, j \in DOMAIN log : Superseded(i, j) =>
        ~(Current(log[i].from) /\ channel[log[i].from].status = "live")
NewsInv == EpochsBound /\ Announced /\ JoinsOnce /\ LaterNews

LEMMA InitNews == Init => NewsInv
<1>. SUFFICES ASSUME Init PROVE NewsInv OBVIOUS
<1>1. EpochsBound BY DEF Init, EpochsBound
<1>2. Announced /\ LaterNews BY EmptySeq DEF Init, Announced, LaterNews
<1>3. JoinsOnce BY EmptySeq DEF Init, ClientInit, JoinsOnce
<1>. QED BY <1>1, <1>2, <1>3 DEF NewsInv

LEMMA EpochsBoundStep == TypeInv /\ NewsInv /\ [Next]_vars => EpochsBound'
<1>. SUFFICES ASSUME TypeInv, EpochsBound, [Next]_vars, NEW c \in Clients
              PROVE  channel'[c].epoch <= epoch'
  BY DEF EpochsBound, NewsInv
<1>1. epoch \in Nat /\ channel[c].epoch \in Nat /\ channel[c].epoch <= epoch
  BY LogShape, ClientShape DEF EpochsBound, TypeInv
<1>2. epoch' \in {epoch, epoch + 1} BY HolderMoves
<1>3. CASE channel'[c].epoch = channel[c].epoch BY <1>1, <1>2, <1>3
<1>4. CASE channel'[c].epoch = epoch /\ UNCHANGED epoch BY <1>1, <1>4
<1>. QED BY <1>3, <1>4, ChannelMoves DEF ChannelMove

\* What is true of a channel that has broadcast stays true of it.
LEMMA EnteredStays ==
    ASSUME TypeInv, NEW c \in Clients, Entered(c), ChannelMove(c)
    PROVE  /\ Entered(c)' /\ channel'[c].role = channel[c].role
           /\ channel'[c].epoch = channel[c].epoch
           /\ channel'[c].status = "live" => channel[c].status = "live"
BY DEF ChannelMove, Entered

LEMMA LogsShape ==
    ASSUME TypeInv, [Next]_vars, NEW b \in Broadcast, Logs(b)
    PROVE  /\ DOMAIN log' = 1..(Len(log) + 1) /\ log'[Len(log) + 1] = b
           /\ \A i \in 1..Len(log) : log'[i] = log[i]
           /\ Len(log) \in Nat /\ DOMAIN log = 1..Len(log)
           /\ b.from \in Clients /\ Entered(b.from) /\ Entered(b.from)'
           /\ channel'[b.from].role = b.role /\ channel'[b.from].epoch = b.epoch
<1>1. log' = Append(log, b) /\ b.from \in Clients BY BroadcastShape DEF Logs
<1>2. Entered(b.from) BY DEF Logs, Entered, Handles
<1>3. channel[b.from].role = b.role /\ channel[b.from].epoch = b.epoch
  BY DEF Logs, Current
<1>. QED BY <1>1, <1>2, <1>3, LogShape, AppendLast, ChannelMoves, EnteredStays

LEMMA AnnouncedStep == TypeInv /\ NewsInv /\ [Next]_vars => Announced'
<1>. SUFFICES ASSUME TypeInv, Announced, [Next]_vars PROVE Announced' BY DEF NewsInv
<1>. DEFINE Carries(c, b) == Entered(c) /\ channel[c].role = b.role /\ channel[c].epoch = b.epoch
<1>1. ASSUME NEW b \in Broadcast, NEW c \in Clients, Carries(c, b)
      PROVE  /\ Entered(c)' /\ channel'[c].role = b.role /\ channel'[c].epoch = b.epoch
  BY <1>1, ChannelMoves, EnteredStays
<1>2. ASSUME NEW i \in DOMAIN log, NEW c \in Clients, c = log[i].from
      PROVE  /\ Entered(c)' /\ channel'[c].role = log[i].role
             /\ channel'[c].epoch = log[i].epoch
  BY <1>1, <1>2, LogShape DEF Announced
<1>. SUFFICES ASSUME NEW i \in DOMAIN log', NEW c, c = log'[i].from
              PROVE  /\ Entered(c)' /\ channel'[c].role = log'[i].role
                     /\ channel'[c].epoch = log'[i].epoch
  BY DEF Announced, Entered
<1>3. CASE log' = log BY <1>2, <1>3, LogShape, BroadcastShape
<1>4. ASSUME NEW b \in Broadcast, Logs(b)
      PROVE  /\ Entered(c)' /\ channel'[c].role = log'[i].role
             /\ channel'[c].epoch = log'[i].epoch
  <2>1. CASE i = Len(log) + 1
    <3>1. log'[i] = b BY <1>4, <2>1, LogsShape
    <3>2. c = b.from /\ b.from \in Clients BY <3>1, BroadcastShape
    <3>3. /\ Entered(c) /\ channel[c].role = b.role /\ channel[c].epoch = b.epoch
      BY <1>4, <3>2 DEF Logs, Current, Entered, Handles
    <3>. QED BY <1>1, <3>1, <3>2, <3>3
  <2>2. CASE i \in 1..Len(log)
    <3>1. log'[i] = log[i] /\ i \in DOMAIN log BY <1>4, <2>2, LogsShape
    <3>. QED BY <1>2, <3>1, LogShape, BroadcastShape
  <2>. QED BY <1>4, <2>1, <2>2, LogsShape
<1>. QED BY <1>3, <1>4, LogMoves

LEMMA JoinsOnceStep == TypeInv /\ NewsInv /\ [Next]_vars => JoinsOnce'
<1>. SUFFICES ASSUME TypeInv, NewsInv, [Next]_vars, NEW c \in Clients,
                     NEW i \in DOMAIN mailbox'[c], mailbox'[c][i].kind = "after_join"
              PROVE  /\ i = 1 /\ Entered(c)'
                     /\ \A k \in DOMAIN log' : ~(log'[k].from = c /\ log'[k].event = "peer_joined")
  BY DEF JoinsOnce, Entered
<1>0. /\ JoinsOnce /\ Announced /\ ChannelMove(c) /\ mailbox[c] \in Seq(Message)
      /\ i \in Nat \ {0}
  BY ChannelMoves, ClientShape, TypeStep DEF NewsInv, TypeInv, TypeOK
<1>1. PICK d \in {-1, 0, 1} : MailboxMoveBy(c, d) BY MailboxMoves DEF MailboxMove
<1>2. ASSUME NEW k \in DOMAIN mailbox[c], mailbox[c][k].kind = "after_join"
      PROVE  /\ k = 1 /\ Entered(c) /\ Entered(c)'
             /\ \A n \in DOMAIN log : ~(log[n].from = c /\ log[n].event = "peer_joined")
  BY <1>0, <1>2, EnteredStays DEF JoinsOnce
\* Its own announcement takes the message out of the mailbox.
<1>3. ASSUME NEW b \in Broadcast, Logs(b), b.from = c, b.event = "peer_joined" PROVE FALSE
  <2>1. /\ mailbox[c] # <<>> /\ Head(mailbox[c]).kind = "after_join"
        /\ mailbox'[c] = Tail(mailbox[c])
    BY <1>3 DEF Logs, Handles, Handled, Message_, TypeInv, TypeOK
  <2>2. i + 1 \in DOMAIN mailbox[c] /\ mailbox'[c][i] = mailbox[c][i + 1]
    BY <1>0, <2>1, TailRest
  <2>3. i + 1 = 1 BY <1>2, <2>2
  <2>. QED BY <1>0, <2>3
<1>4. /\ i = 1 /\ Entered(c)'
      /\ \A n \in DOMAIN log : ~(log[n].from = c /\ log[n].event = "peer_joined")
  <2>1. CASE Stays(c, d, i)
    <3>1. i + d = 1 /\ Entered(c)
          /\ Entered(c)' /\ \A n \in DOMAIN log : ~(log[n].from = c /\ log[n].event = "peer_joined")
      BY <1>2, <2>1 DEF Stays
    <3>2. d # -1 BY <1>1, <3>1 DEF MailboxMoveBy, Entered
    <3>. QED BY <1>0, <3>1, <3>2
  <2>2. CASE Fronts(c, d, i)
    <3>1. channel[c].status = "claimed" BY <1>1, <2>2 DEF MailboxMoveBy, Fronts
    <3>2. \A n \in DOMAIN log : log[n].from # c BY <1>0, <3>1 DEF Announced, Entered
    <3>. QED BY <2>2, <3>2 DEF Fronts, Entered
  <2>. QED BY <1>1, <2>1, <2>2 DEF MailboxMoveBy, Others, Pushed, Arrives, Requests
<1>5. \A k \in DOMAIN log' : ~(log'[k].from = c /\ log'[k].event = "peer_joined")
  <2>1. CASE log' = log BY <1>4, <2>1
  <2>2. ASSUME NEW b \in Broadcast, Logs(b), NEW k \in DOMAIN log'
        PROVE  ~(log'[k].from = c /\ log'[k].event = "peer_joined")
    <3>1. CASE k = Len(log) + 1 BY <1>3, <2>2, <3>1, LogsShape
    <3>2. CASE k \in 1..Len(log) BY <1>4, <2>2, <3>2, LogsShape
    <3>. QED BY <2>2, <3>1, <3>2, LogsShape
  <2>. QED BY <2>1, <2>2, LogMoves
<1>. QED BY <1>4, <1>5

LEMMA LaterNewsStep == TypeInv /\ NewsInv /\ [Next]_vars => LaterNews'
<1>. SUFFICES ASSUME TypeInv, NewsInv, [Next]_vars PROVE LaterNews' OBVIOUS
<1>. DEFINE Out(c) == ~(Current(c) /\ channel[c].status = "live")
<1>0. EpochsBound /\ Announced /\ JoinsOnce /\ LaterNews BY DEF NewsInv
\* A channel that has broadcast and is out stays out.
<1>1. ASSUME NEW c \in Clients, NEW i \in DOMAIN log, c = log[i].from, Out(c) PROVE Out(c)'
  <2>1. Entered(c) BY <1>0, <1>1 DEF Announced
  <2>2. channel[c].epoch <= epoch /\ channel[c].status # "none"
    BY <1>0, <2>1 DEF EpochsBound, Entered
  <2>3. channel'[c].status = "live" => channel[c].status = "live"
    BY <2>1, ChannelMoves, EnteredStays
  <2>4. CASE Current(c) BY <1>1, <2>3, <2>4
  <2>5. CASE ~Current(c)
    <3>1. ~Current(c)' BY <2>2, <2>5, LostForGood
    <3>. QED BY <3>1
  <2>. QED BY <2>4, <2>5
<1>. SUFFICES ASSUME NEW i \in DOMAIN log', NEW j \in DOMAIN log', i < j,
                     log'[i].event = "peer_joined", Tells(log'[j]),
                     log'[i].role = log'[j].role, log'[i].epoch = log'[j].epoch,
                     NEW c, c = log'[i].from
              PROVE  Out(c)'
  BY DEF LaterNews, Superseded, Tells, Current
\* Two broadcasts that were there before.
<1>2. ASSUME i \in DOMAIN log, j \in DOMAIN log, log'[i] = log[i], log'[j] = log[j]
      PROVE  Out(c)'
  <2>1. Superseded(i, j) BY <1>2 DEF Superseded
  <2>2. Out(c) BY <1>0, <1>2, <2>1 DEF LaterNews
  <2>3. c \in Clients BY <1>2, LogShape, BroadcastShape
  <2>. QED BY <1>1, <1>2, <2>2, <2>3
<1>3. CASE log' = log BY <1>2, <1>3
<1>4. ASSUME NEW b \in Broadcast, Logs(b) PROVE Out(c)'
  <2>. DEFINE n == Len(log)
  <2>0. /\ DOMAIN log' = 1..(n + 1) /\ log'[n + 1] = b /\ \A k \in 1..n : log'[k] = log[k]
        /\ n \in Nat /\ DOMAIN log = 1..n
    BY <1>4, LogsShape
  <2>1. i \in DOMAIN log /\ log'[i] = log[i] BY <2>0
  <2>2. c \in Clients /\ c = log[i].from BY <2>1, LogShape, BroadcastShape
  <2>3. CASE j \in 1..n BY <1>2, <2>0, <2>1, <2>3
  \* The news is of this seat; its channel is another or on its way out.
  <2>4. CASE j = n + 1
    <3>1. /\ log[i].role = b.role /\ log[i].epoch = b.epoch /\ Tells(b)
          /\ log[i].event = "peer_joined"
      BY <2>0, <2>1, <2>4
    <3>2. CASE b.from = c
      <4>1. b.event # "peer_joined"
        <5>. SUFFICES ASSUME b.event = "peer_joined" PROVE FALSE OBVIOUS
        <5>1. mailbox[c] # <<>> /\ Head(mailbox[c]).kind = "after_join"
          BY <1>4, <3>2 DEF Logs, Handles, Message_
        <5>2. Head(mailbox[c]) = mailbox[c][1] /\ 1 \in DOMAIN mailbox[c]
          BY <2>2, <5>1, ClientShape, TailRest DEF TypeInv
        <5>. QED BY <1>0, <2>1, <2>2, <3>1, <5>1, <5>2 DEF JoinsOnce
      <4>2. b.event = "peer_left" BY <3>1, <4>1 DEF Tells
      <4>3. channel' = [channel EXCEPT ![c].status = "leaving"]
        BY <1>4, <3>2, <4>2 DEF Logs
      <4>4. channel'[c].status = "leaving" BY <2>2, <4>3 DEF TypeInv, TypeOK, Channel
      <4>. QED BY <4>4
    <3>3. CASE b.from # c
      <4>1. channel[c].role = b.role BY <1>0, <2>1, <2>2, <3>1 DEF Announced
      <4>2. holder[b.role] = b.from BY <1>4 DEF Logs, Current
      <4>3. ~Current(c) BY <3>3, <4>1, <4>2 DEF Current
      <4>4. Out(c) BY <4>3
      <4>. QED BY <1>1, <2>1, <2>2, <4>4
    <3>. QED BY <3>2, <3>3
  <2>. QED BY <2>0, <2>3, <2>4
<1>. QED BY <1>3, <1>4, LogMoves

LEMMA NewsStep == TypeInv /\ NewsInv /\ [Next]_vars => NewsInv'
BY EpochsBoundStep, AnnouncedStep, JoinsOnceStep, LaterNewsStep DEF NewsInv

\* What a channel has announced stands while it is live and holds its seat: the
\* terminate/2 of a channel it replaced cannot take it back.
THEOREM NoFalseLeaveHolds == Spec => []NoFalseLeave
<1>1. Init => TypeInv /\ NewsInv BY InitTypes, InitNews
<1>2. TypeInv /\ NewsInv /\ [Next]_vars => (TypeInv /\ NewsInv)' BY TypeStep, NewsStep
<1>3. TypeInv /\ NewsInv => NoFalseLeave
  <2>. SUFFICES ASSUME TypeInv, NewsInv, NEW c \in Clients, NEW i \in DOMAIN log, Current(c),
                       channel[c].status = "live", log[i].from = c,
                       log[i].event = "peer_joined", NEW j \in DOMAIN log,
                       News(log[j], channel[c].role)
                PROVE  j <= i
    BY DEF NoFalseLeave
  <2>1. log[i].role = channel[c].role /\ log[i].epoch = epoch
    BY DEF NewsInv, Announced, Current
  <2>2. ~(i < j) BY <2>1 DEF NewsInv, LaterNews, Superseded, Tells, News
  <2>. QED BY <2>2, LogShape
<1>. QED BY <1>1, <1>2, <1>3, PTL DEF Spec
-----------------------------------------------------------------------------
(* Outcomes.                                                                *)

\* A client numbers its frames one by one, and takes an outcome from the reply
\* it reads.
OutcomeMove(c) ==
    /\ phx'[c].next_ref \in {phx[c].next_ref, phx[c].next_ref + 1}
    /\ \/ phx'[c].outcomes = phx[c].outcomes
       \/ /\ wire[c] # <<>> /\ OutcomeFrame(Head(wire[c]))
          /\ phx'[c].outcomes =
                phx[c].outcomes \cup {<<Head(wire[c]).ref, Head(wire[c]).result>>}

LEMMA ReadOutcome ==
    ASSUME TypeInv, NEW c \in Clients, NEW next \in PhoenixState, Read(c, next)
    PROVE  /\ phx'[c].next_ref = next.next_ref /\ phx'[c].outcomes = next.outcomes
           /\ \A d \in Clients : d # c => phx'[d] = phx[d]
BY DEF Read, TypeInv, TypeOK, PhoenixState

LEMMA AwaitOutcome ==
    ASSUME TypeInv, NEW c \in Clients, AwaitReply(c)
    PROVE  \A d \in Clients : OutcomeMove(d)
<1>. DEFINE f == Head(wire[c])
<1>1. wire[c] # <<>> /\ f \in Frame BY ClientShape, TailRest DEF AwaitReply, TypeInv
<1>2. CASE Answered(c, f) /\ Read(c, Answer(phx[c], f.result))
  <2>1. /\ f.result \in RelayOutcome \cup {"ok", "rejected"}
        /\ f.kind = "reply" /\ f.ref = phx[c].wanted
    BY <1>1, <1>2, FrameShape DEF Answered, IsReply
  <2>2. Answer(phx[c], f.result) \in PhoenixState BY <2>1, AnswerShape DEF TypeInv
  <2>3. /\ Answer(phx[c], f.result).next_ref = phx[c].next_ref
        /\ Answer(phx[c], f.result).outcomes =
              IF f.result \in RelayOutcome THEN phx[c].outcomes \cup {<<f.ref, f.result>>}
                                           ELSE phx[c].outcomes
    BY <2>1, ClientShape DEF Answer, TypeInv, PhoenixState
  <2>. QED BY <1>1, <1>2, <2>1, <2>2, <2>3, ReadOutcome DEF OutcomeMove, OutcomeFrame
<1>3. ASSUME NEW next \in PhoenixState, Read(c, next), next.next_ref = phx[c].next_ref,
             next.outcomes = phx[c].outcomes
      PROVE  \A d \in Clients : OutcomeMove(d)
  BY <1>3, ReadOutcome DEF OutcomeMove
<1>4. CASE Read(c, phx[c]) BY <1>3, <1>4, ClientShape DEF TypeInv
<1>5. CASE f.kind = "broadcast" /\ Read(c, [phx[c] EXCEPT !.pending = Append(@, f.body)])
  <2>1. Append(phx[c].pending, f.body) \in Seq(Broadcast)
    BY <1>1, <1>5, FrameShape, ClientShape, AppendLast DEF TypeInv
  <2>2. /\ [phx[c] EXCEPT !.pending = Append(@, f.body)] \in PhoenixState
        /\ [phx[c] EXCEPT !.pending = Append(@, f.body)].next_ref = phx[c].next_ref
        /\ [phx[c] EXCEPT !.pending = Append(@, f.body)].outcomes = phx[c].outcomes
    BY <2>1, ClientShape DEF PhoenixState, TypeInv
  <2>. QED BY <1>3, <1>5, <2>2
<1>6. CASE Read(c, [phx[c] EXCEPT !.phase = "done"])
  <2>1. /\ [phx[c] EXCEPT !.phase = "done"] \in PhoenixState
        /\ [phx[c] EXCEPT !.phase = "done"].next_ref = phx[c].next_ref
        /\ [phx[c] EXCEPT !.phase = "done"].outcomes = phx[c].outcomes
    BY ClientShape DEF PhoenixState, TypeInv
  <2>. QED BY <1>3, <1>6, <2>1
<1>. QED BY <1>2, <1>4, <1>5, <1>6 DEF AwaitReply

LEMMA NextBroadcastOutcome ==
    ASSUME TypeInv, NEW c \in Clients, NextBroadcast(c)
    PROVE  \A d \in Clients : OutcomeMove(d)
<1>1. CASE phx[c].pending # <<>> /\ PopPending(c)
  BY <1>1, ClientShape DEF PopPending, OutcomeMove, TypeInv, TypeOK, PhoenixState
<1>2. CASE wire[c] # <<>> /\ Poll(c)
  <2>. DEFINE f == Head(wire[c])
  <2>0. f \in Frame BY <1>2, ClientShape, TailRest DEF TypeInv
  <2>1. ASSUME NEW next \in PhoenixState, Read(c, next), next.next_ref = phx[c].next_ref,
               next.outcomes = phx[c].outcomes
        PROVE  \A d \in Clients : OutcomeMove(d)
    BY <2>1, ReadOutcome DEF OutcomeMove
  <2>2. CASE Read(c, phx[c]) BY <2>1, <2>2, ClientShape DEF TypeInv
  <2>3. CASE f.kind = "broadcast" /\ Read(c, [phx[c] EXCEPT !.got = Append(@, f.body)])
    <3>1. Append(phx[c].got, f.body) \in Seq(Broadcast)
      BY <2>0, <2>3, FrameShape, ClientShape, AppendLast DEF TypeInv
    <3>2. /\ [phx[c] EXCEPT !.got = Append(@, f.body)] \in PhoenixState
          /\ [phx[c] EXCEPT !.got = Append(@, f.body)].next_ref = phx[c].next_ref
          /\ [phx[c] EXCEPT !.got = Append(@, f.body)].outcomes = phx[c].outcomes
      BY <3>1, ClientShape DEF PhoenixState, TypeInv
    <3>. QED BY <2>1, <2>3, <3>2
  <2>4. CASE Read(c, [phx[c] EXCEPT !.phase = "done"])
    <3>1. /\ [phx[c] EXCEPT !.phase = "done"] \in PhoenixState
          /\ [phx[c] EXCEPT !.phase = "done"].next_ref = phx[c].next_ref
          /\ [phx[c] EXCEPT !.phase = "done"].outcomes = phx[c].outcomes
      BY ClientShape DEF PhoenixState, TypeInv
    <3>. QED BY <2>1, <2>4, <3>1
  <2>. QED BY <1>2, <2>2, <2>3, <2>4 DEF Poll
<1>. QED BY <1>1, <1>2 DEF NextBroadcast

LEMMA SendOutcome ==
    ASSUME TypeInv, NEW c \in Clients,
           \/ \E r \in Roles, e \in 1..epoch : Join(c, r, e)
           \/ \E event \in {"command", "event"}, seq \in Numbers \cup {0} : Push(c, event, seq)
           \/ Heartbeat(c) \/ Leave(c) \/ ReplyTimeout(c)
    PROVE  \A d \in Clients : OutcomeMove(d)
<1>1. phx \in [Clients -> PhoenixState] BY DEF TypeInv, TypeOK
<1>. SUFFICES ASSUME NEW d \in Clients PROVE OutcomeMove(d) OBVIOUS
<1>2. CASE \E r \in Roles, e \in 1..epoch : Join(c, r, e)
  BY <1>1, <1>2 DEF Join, PhoenixState, OutcomeMove
<1>3. CASE \E event \in {"command", "event"}, seq \in Numbers \cup {0} : Push(c, event, seq)
  BY <1>1, <1>3 DEF Push, PhoenixState, OutcomeMove
<1>4. CASE Heartbeat(c) BY <1>1, <1>4 DEF Heartbeat, PhoenixState, OutcomeMove, TakeRef
<1>5. CASE Leave(c) BY <1>1, <1>5 DEF Leave, PhoenixState, OutcomeMove
<1>6. CASE ReplyTimeout(c)
  <2>1. \A p \in {"done", "idle"} :
          phx' = [phx EXCEPT ![c].phase = p, ![c].wanted = 0] =>
              phx'[d].next_ref = phx[d].next_ref /\ phx'[d].outcomes = phx[d].outcomes
    BY <1>1 DEF PhoenixState
  <2>. QED BY <1>6, <2>1 DEF ReplyTimeout, OutcomeMove
<1>. QED BY <1>2, <1>3, <1>4, <1>5, <1>6

LEMMA OutcomeMoves ==
    ASSUME TypeInv, [Next]_vars
    PROVE  \A d \in Clients : OutcomeMove(d)
<1>1. CASE UNCHANGED phx BY <1>1 DEF OutcomeMove
<1>2. ASSUME NEW c \in Clients, ClientStep(c) \/ GiveUp(c)
      PROVE  \A d \in Clients : OutcomeMove(d)
  BY <1>2, AwaitOutcome, NextBroadcastOutcome, SendOutcome DEF ClientStep, GiveUp
<1>3. ASSUME NEW c \in Clients, ChannelStep(c) PROVE UNCHANGED phx
  BY <1>3 DEF ChannelStep, JoinRefused, Claim, Subscribe, AfterJoin, Fenced, HandleOut,
     HandleCommand, HandleEvent, HandleLeave, Announce, Release, Kill, Down, client
<1>. QED BY <1>1, <1>2, <1>3 DEF Next, Rotate, Dispatch, vars, client

Logged(c, r) == \E i \in DOMAIN log : log[i].from = c /\ log[i].ref = r
\* What a reply may say of push r.
Told(c, r, result) == /\ r \in 1..phx[c].next_ref
                      /\ result = "relayed" <=> Logged(c, r)
\* Push r has been sent, and nobody has decided about it.
Undecided(c, r) ==
    /\ r \in 1..phx[c].next_ref /\ ~Logged(c, r)
    /\ \A k \in DOMAIN wire[c] : OutcomeFrame(wire[c][k]) => wire[c][k].ref # r
    /\ \A o \in phx[c].outcomes : o[1] # r
IsRequest(c, i) == i \in DOMAIN mailbox[c] /\ mailbox[c][i].kind \in Requests

QueueHonest(c) ==
    /\ \A i, j \in DOMAIN mailbox[c] :
            i < j /\ IsRequest(c, i) /\ IsRequest(c, j) => mailbox[c][i].ref < mailbox[c][j].ref
    /\ \A i \in DOMAIN mailbox[c] : IsRequest(c, i) => Undecided(c, mailbox[c][i].ref)
RepliesHonest(c) ==
    /\ \A k \in DOMAIN wire[c] : OutcomeFrame(wire[c][k]) =>
            Told(c, wire[c][k].ref, wire[c][k].result)
    /\ \A o \in phx[c].outcomes : Told(c, o[1], o[2])
LoggedRefs(c) == \A i \in DOMAIN log : log[i].from = c => log[i].ref <= phx[c].next_ref
Honest(c) == QueueHonest(c) /\ RepliesHonest(c) /\ LoggedRefs(c)
HonestInv == \A c \in Clients : Honest(c)

LEMMA InitHonest == Init => HonestInv
<1>. SUFFICES ASSUME Init, NEW c \in Clients PROVE Honest(c) BY DEF HonestInv
<1>1. /\ phx[c].next_ref = 0 /\ phx[c].outcomes = {} /\ wire[c] = <<>> /\ mailbox[c] = <<>>
      /\ log = <<>>
  BY DEF Init, ClientInit
<1>2. QueueHonest(c) BY <1>1, EmptySeq DEF QueueHonest
<1>3. RepliesHonest(c) BY <1>1, EmptySeq DEF RepliesHonest
<1>4. LoggedRefs(c) BY <1>1, EmptySeq DEF LoggedRefs
<1>. QED BY <1>2, <1>3, <1>4 DEF Honest

LEMMA RefNumbers ==
    ASSUME TypeInv, NEW c \in Clients
    PROVE  /\ phx[c].next_ref \in Nat /\ mailbox[c] \in Seq(Message) /\ wire[c] \in Seq(Frame)
           /\ \A i \in DOMAIN mailbox[c] : IsRequest(c, i) => mailbox[c][i].ref \in Nat
<1>1. mailbox[c] \in Seq(Message) /\ wire[c] \in Seq(Frame) /\ phx[c].next_ref \in Nat
  BY ClientShape, RefsAreNumbers DEF TypeInv
<1>2. \A i \in DOMAIN mailbox[c] : mailbox[c][i] \in Message BY <1>1
<1>. QED BY <1>1, <1>2, MessageShape, RefsAreNumbers DEF IsRequest, Requests

\* Steps in which the channel of c decides about no push of c.
LEMMA QuietLogs ==
    ASSUME TypeInv, [Next]_vars, NEW c \in Clients, ~Answering(c)
    PROVE  log' = log \/ \E b \in Broadcast : Logs(b) /\ (b.from # c \/ b.ref = 0)
<1>1. ASSUME NEW d \in Clients, ChannelStep(d)
      PROVE  log' = log \/ \E b \in Broadcast : Logs(b) /\ (b.from # c \/ b.ref = 0)
  BY <1>1, AfterJoinLogs, AnnounceLogs, CommandLogs, EventLogs
     DEF ChannelStep, JoinRefused, Claim, Subscribe, Fenced, HandleOut, HandleLeave, Release,
         Kill, Down, Answering
<1>. QED BY <1>1 DEF Next, Rotate, Dispatch, ClientStep, GiveUp, vars

LEMMA QuietLogged ==
    ASSUME TypeInv, [Next]_vars, NEW c \in Clients, ~Answering(c)
    PROVE  /\ \A r \in Nat \ {0} : Logged(c, r)' <=> Logged(c, r)
           /\ \A i \in DOMAIN log' : log'[i].from = c =>
                    log'[i].ref = 0 \/ \E k \in DOMAIN log : log'[i] = log[k]
<1>1. CASE log' = log BY <1>1 DEF Logged
<1>2. ASSUME NEW b \in Broadcast, Logs(b), b.from # c \/ b.ref = 0
      PROVE  /\ \A r \in Nat \ {0} : Logged(c, r)' <=> Logged(c, r)
             /\ \A i \in DOMAIN log' : log'[i].from = c =>
                      log'[i].ref = 0 \/ \E k \in DOMAIN log : log'[i] = log[k]
  <2>. DEFINE n == Len(log)
  <2>1. /\ DOMAIN log' = 1..(n + 1) /\ log'[n + 1] = b /\ \A k \in 1..n : log'[k] = log[k]
        /\ n \in Nat /\ DOMAIN log = 1..n
    BY <1>2, LogsShape
  <2>2. ASSUME NEW i \in DOMAIN log', log'[i].from = c, log'[i].ref # 0
        PROVE  i \in DOMAIN log /\ log'[i] = log[i]
    <3>1. i # n + 1 BY <1>2, <2>1, <2>2
    <3>. QED BY <2>1, <2>2, <3>1
  <2>3. \A i \in DOMAIN log : i \in DOMAIN log' /\ log'[i] = log[i] BY <2>1
  <2>4. ASSUME NEW r \in Nat \ {0} PROVE Logged(c, r)' <=> Logged(c, r)
    <3>1. Logged(c, r) => Logged(c, r)' BY <2>3 DEF Logged
    <3>2. ASSUME Logged(c, r)' PROVE Logged(c, r)
      <4>1. PICK i \in DOMAIN log' : log'[i].from = c /\ log'[i].ref = r BY <3>2 DEF Logged
      <4>2. i \in DOMAIN log /\ log'[i] = log[i] BY <2>2, <4>1
      <4>. QED BY <4>1, <4>2 DEF Logged
    <3>. QED BY <3>1, <3>2
  <2>. QED BY <2>2, <2>4
<1>. QED BY <1>1, <1>2, QuietLogs

LEMMA QuietStep ==
    ASSUME TypeInv, [Next]_vars, NEW c \in Clients, Honest(c), ~Answering(c)
    PROVE  Honest(c)'
<1>. DEFINE n == phx[c].next_ref  next == phx'[c].next_ref
<1>0. /\ QueueHonest(c) /\ RepliesHonest(c) /\ LoggedRefs(c) BY DEF Honest
<1>1. n \in Nat /\ next \in {n, n + 1} /\ TypeInv'
  BY RefNumbers, OutcomeMoves, TypeStep DEF OutcomeMove
<1>2. \A r \in Nat \ {0} : Logged(c, r)' <=> Logged(c, r) BY QuietLogged
<1>3. ASSUME NEW i \in DOMAIN wire'[c], OutcomeFrame(wire'[c][i])
      PROVE  \E k \in DOMAIN wire[c] : wire'[c][i] = wire[c][k] /\ OutcomeFrame(wire[c][k])
  BY <1>3, WireMoves, WireElements DEF Sent
<1>4. ASSUME NEW o \in phx'[c].outcomes
      PROVE  \/ o \in phx[c].outcomes
             \/ \E k \in DOMAIN wire[c] : /\ OutcomeFrame(wire[c][k])
                                         /\ o = <<wire[c][k].ref, wire[c][k].result>>
  <2>1. CASE phx'[c].outcomes = phx[c].outcomes BY <1>4, <2>1
  <2>2. CASE /\ wire[c] # <<>> /\ OutcomeFrame(Head(wire[c]))
             /\ phx'[c].outcomes =
                    phx[c].outcomes \cup {<<Head(wire[c]).ref, Head(wire[c]).result>>}
    <3>1. Head(wire[c]) = wire[c][1] /\ 1 \in DOMAIN wire[c]
      BY <2>2, RefNumbers, TailRest
    <3>. QED BY <1>4, <2>2, <3>1
  <2>. QED BY <2>1, <2>2, OutcomeMoves DEF OutcomeMove
<1>5. ASSUME NEW r, NEW result, Told(c, r, result) PROVE Told(c, r, result)'
  BY <1>1, <1>2, <1>5 DEF Told
<1>6. RepliesHonest(c)'
  <2>1. ASSUME NEW k \in DOMAIN wire'[c], OutcomeFrame(wire'[c][k]), NEW f, f = wire'[c][k]
        PROVE  Told(c, f.ref, f.result)'
    <3>1. Told(c, f.ref, f.result) BY <1>0, <1>3, <2>1 DEF RepliesHonest
    <3>2. \A r, x : Told(c, r, x) => Told(c, r, x)' BY <1>5
    <3>. QED BY <3>1, <3>2
  <2>2. ASSUME NEW o, o \in phx'[c].outcomes PROVE Told(c, o[1], o[2])'
    <3>1. Told(c, o[1], o[2]) BY <1>0, <1>4, <2>2 DEF RepliesHonest
    <3>2. \A r, x : Told(c, r, x) => Told(c, r, x)' BY <1>5
    <3>. QED BY <3>1, <3>2
  <2>. QED BY <2>1, <2>2 DEF RepliesHonest, Told, Logged, OutcomeFrame
<1>7. LoggedRefs(c)'
  <2>. SUFFICES ASSUME NEW i \in DOMAIN log', log'[i].from = c PROVE log'[i].ref <= next
    BY DEF LoggedRefs
  <2>1. CASE log'[i].ref = 0 BY <1>1, <2>1
  <2>2. ASSUME NEW k \in DOMAIN log, log'[i] = log[k] PROVE log'[i].ref <= next
    <3>1. log[k].ref <= n /\ log[k].ref \in Nat
      BY <1>0, <2>2, LogShape, BroadcastShape DEF LoggedRefs
    <3>. QED BY <1>1, <2>2, <3>1
  <2>. QED BY <2>1, <2>2, QuietLogged
\* A push that waits is still undecided, and a new one is.
<1>8. ASSUME NEW r, Undecided(c, r) PROVE Undecided(c, r)'
  <2>1. r \in 1..n /\ r \in Nat \ {0} BY <1>1, <1>8 DEF Undecided
  <2>2. r \in 1..next BY <1>1, <2>1
  <2>3. ~Logged(c, r)' BY <1>2, <1>8, <2>1 DEF Undecided
  <2>4. \A k \in DOMAIN wire'[c] : OutcomeFrame(wire'[c][k]) => wire'[c][k].ref # r
    BY <1>3, <1>8 DEF Undecided
  <2>5. \A o \in phx'[c].outcomes : o[1] # r BY <1>4, <1>8 DEF Undecided
  <2>. QED BY <2>2, <2>3, <2>4, <2>5 DEF Undecided, Logged, OutcomeFrame
<1>9. ASSUME NEW r, r = n + 1, next = n + 1 PROVE Undecided(c, r)'
  <2>1. ~Logged(c, r)
    <3>1. ASSUME NEW i \in DOMAIN log, log[i].from = c PROVE log[i].ref # r
      <4>1. log[i].ref <= n /\ log[i].ref \in Nat
        BY <1>0, <3>1, LogShape, BroadcastShape DEF LoggedRefs
      <4>. QED BY <1>1, <1>9, <4>1
    <3>. QED BY <3>1 DEF Logged
  <2>2. r \in Nat \ {0} /\ r \notin 1..n /\ r \in 1..next BY <1>1, <1>9
  <2>3. ~Logged(c, r)' BY <1>2, <2>1, <2>2
  <2>4. \A k \in DOMAIN wire[c] : OutcomeFrame(wire[c][k]) => wire[c][k].ref # r
    BY <1>0, <2>2 DEF RepliesHonest, Told
  <2>5. \A o \in phx[c].outcomes : o[1] # r BY <1>0, <2>2 DEF RepliesHonest, Told
  <2>6. \A k \in DOMAIN wire'[c] : OutcomeFrame(wire'[c][k]) => wire'[c][k].ref # r
    BY <1>3, <2>4
  <2>7. \A o \in phx'[c].outcomes : o[1] # r BY <1>4, <2>4, <2>5
  <2>. QED BY <2>2, <2>3, <2>6, <2>7 DEF Undecided, Logged, OutcomeFrame
<1>10. PICK d \in {-1, 0, 1} : MailboxMoveBy(c, d) BY MailboxMoves DEF MailboxMove
<1>11. ASSUME NEW i \in DOMAIN mailbox'[c], mailbox'[c][i].kind \in Requests
       PROVE  Stays(c, d, i) \/ Pushed(c, d, i)
  BY <1>10, <1>11 DEF MailboxMoveBy, Fronts, Arrives, Requests, Others
<1>12. ASSUME NEW i \in DOMAIN mailbox'[c], mailbox'[c][i].kind \in Requests, Stays(c, d, i)
       PROVE  /\ IsRequest(c, i + d) /\ mailbox'[c][i].ref = mailbox[c][i + d].ref
              /\ Undecided(c, mailbox'[c][i].ref) /\ mailbox'[c][i].ref \in 1..n
  <2>1. IsRequest(c, i + d) /\ mailbox'[c][i] = mailbox[c][i + d]
    BY <1>12 DEF Stays, IsRequest
  <2>2. Undecided(c, mailbox[c][i + d].ref) BY <1>0, <2>1 DEF QueueHonest, IsRequest
  <2>. QED BY <2>1, <2>2 DEF Undecided
<1>13. ASSUME NEW i \in DOMAIN mailbox'[c], NEW j \in DOMAIN mailbox'[c], i < j,
              mailbox'[c][i].kind \in Requests, mailbox'[c][j].kind \in Requests
       PROVE  mailbox'[c][i].ref < mailbox'[c][j].ref
  <2>0. /\ mailbox[c] \in Seq(Message) /\ i \in Nat /\ j \in Nat
    <3>0. mailbox' \in [Clients -> Seq(Message)] BY <1>1 DEF TypeInv, TypeOK
    <3>1. mailbox'[c] \in Seq(Message) BY <3>0
    <3>2. DOMAIN mailbox'[c] \subseteq Nat BY <3>1
    <3>. QED BY <1>13, <3>2, RefNumbers
  <2>1. ~Pushed(c, d, i)
    <3>1. ASSUME Pushed(c, d, i) PROVE ~Stays(c, d, j) /\ ~Pushed(c, d, j)
      BY <1>13, <2>0, <3>1 DEF Stays, Pushed
    <3>. QED BY <1>11, <1>13, <3>1
  <2>2. Stays(c, d, i) BY <1>11, <1>13, <2>1
  <2>3. CASE Stays(c, d, j)
    <3>1. /\ IsRequest(c, i + d) /\ mailbox'[c][i].ref = mailbox[c][i + d].ref
          /\ IsRequest(c, j + d) /\ mailbox'[c][j].ref = mailbox[c][j + d].ref
      BY <1>12, <1>13, <2>2, <2>3
    <3>2. i + d < j + d BY <1>13, <2>0
    <3>. QED BY <1>0, <3>1, <3>2 DEF QueueHonest, IsRequest
  <2>4. CASE Pushed(c, d, j)
    <3>1. mailbox'[c][i].ref \in 1..n BY <1>12, <1>13, <2>2
    <3>2. mailbox'[c][j].ref = n + 1 BY <2>4 DEF Pushed
    <3>. QED BY <1>1, <3>1, <3>2
  <2>. QED BY <1>11, <1>13, <2>3, <2>4
<1>14. ASSUME NEW i \in DOMAIN mailbox'[c], mailbox'[c][i].kind \in Requests,
              NEW r, r = mailbox'[c][i].ref
       PROVE  Undecided(c, r)'
  <2>1. CASE Stays(c, d, i) BY <1>8, <1>12, <1>14, <2>1
  <2>2. CASE Pushed(c, d, i) BY <1>9, <1>14, <2>2 DEF Pushed
  <2>. QED BY <1>11, <1>14, <2>1, <2>2
<1>15. QueueHonest(c)'
  BY <1>13, <1>14 DEF QueueHonest, IsRequest, Undecided, Logged, OutcomeFrame
<1>. QED BY <1>6, <1>7, <1>15 DEF Honest

\* The step in which the channel of c decides about a push of c.
Decision(c, m, result) ==
    /\ wire'[c] \in {wire[c], Append(wire[c], [kind |-> "reply", ref |-> m.ref, result |-> result])}
    /\ \/ /\ result = "relayed"
          /\ \E b \in Broadcast : Logs(b) /\ b.from = c /\ b.ref = m.ref
       \/ result # "relayed" /\ log' = log

LEMMA Decisions ==
    ASSUME TypeInv, NEW c \in Clients, Answering(c)
    PROVE  /\ mailbox[c] # <<>> /\ mailbox[c][1].kind \in Requests
           /\ mailbox'[c] = Tail(mailbox[c]) /\ phx' = phx
           /\ \E result \in RelayOutcome \cup {"rejected"} : Decision(c, mailbox[c][1], result)
<1>. DEFINE m == Head(mailbox[c])
<1>1. /\ mailbox[c] # <<>> /\ m.kind \in Requests /\ m \in Message
      /\ mailbox'[c] = Tail(mailbox[c]) /\ phx' = phx
  BY HandledTypes DEF Answering, HandleCommand, HandleEvent, Handles, Message_, Handled, Requests,
     TypeInv, TypeOK
<1>2. m = mailbox[c][1] BY <1>1, ClientShape, TailRest DEF TypeInv
<1>3. ASSUME NEW result, Reply(c, m.ref, result)
      PROVE  wire'[c] \in {wire[c], Append(wire[c], [kind |-> "reply", ref |-> m.ref,
                                                     result |-> result])}
  BY <1>3 DEF Reply, ToClient, TypeInv, TypeOK
<1>4. ASSUME NEW b, log' = Append(log, b) PROVE log' # log
  <2>1. log \in Seq(Broadcast \cup {b}) BY LogShape
  <2>2. Len(log') = Len(log) + 1 /\ Len(log) \in Nat
    BY <1>4, <2>1, LogShape, AppendLast
  <2>. QED BY <2>2
<1>5. CASE HandleCommand(c)
  <2>1. \/ log' # log /\ Reply(c, m.ref, "relayed")
        \/ log' = log /\ Reply(c, m.ref, "dropped")
        \/ log' = log /\ Reply(c, m.ref, "rejected")
    BY <1>4, <1>5 DEF HandleCommand, RelayBroadcast
  <2>. QED BY <1>1, <1>2, <1>3, <1>5, <2>1, CommandLogs DEF Decision, RelayOutcome
<1>6. CASE HandleEvent(c)
  <2>1. \/ log' # log /\ Reply(c, m.ref, "relayed")
        \/ log' = log /\ Reply(c, m.ref, "rejected")
    BY <1>4, <1>6 DEF HandleEvent, RelayBroadcast
  <2>. QED BY <1>1, <1>2, <1>3, <1>6, <2>1, EventLogs DEF Decision, RelayOutcome
<1>. QED BY <1>5, <1>6 DEF Answering

LEMMA DecidedLog ==
    ASSUME TypeInv, [Next]_vars, NEW c \in Clients, NEW m, m.ref \in Nat, NEW result,
           Decision(c, m, result)
    PROVE  /\ \A r : r # m.ref => (Logged(c, r)' <=> Logged(c, r))
           /\ ~Logged(c, m.ref) => \A r : r = m.ref => (Logged(c, r)' <=> result = "relayed")
           /\ \A i \in DOMAIN log' : log'[i].from = c =>
                    log'[i].ref = m.ref \/ \E k \in DOMAIN log : log'[i] = log[k]
<1>1. CASE result # "relayed" /\ log' = log BY <1>1 DEF Logged
<1>2. ASSUME NEW b \in Broadcast, Logs(b), b.from = c, b.ref = m.ref, result = "relayed"
      PROVE  /\ \A r : r # m.ref => (Logged(c, r)' <=> Logged(c, r))
             /\ \A r : r = m.ref => (Logged(c, r)' <=> result = "relayed")
             /\ \A i \in DOMAIN log' : log'[i].from = c =>
                      log'[i].ref = m.ref \/ \E k \in DOMAIN log : log'[i] = log[k]
  <2>. DEFINE n == Len(log)
  <2>1. /\ DOMAIN log' = 1..(n + 1) /\ log'[n + 1] = b /\ \A k \in 1..n : log'[k] = log[k]
        /\ n \in Nat /\ DOMAIN log = 1..n
    BY <1>2, LogsShape
  <2>2. ASSUME NEW i \in DOMAIN log', log'[i].ref # m.ref
        PROVE  i \in DOMAIN log /\ log'[i] = log[i]
    <3>1. i # n + 1 BY <1>2, <2>1, <2>2
    <3>. QED BY <2>1, <2>2, <3>1
  <2>3. \A i \in DOMAIN log : i \in DOMAIN log' /\ log'[i] = log[i] BY <2>1
  <2>4. ASSUME NEW r, r # m.ref PROVE Logged(c, r)' <=> Logged(c, r)
    <3>1. Logged(c, r) => Logged(c, r)' BY <2>3 DEF Logged
    <3>2. ASSUME Logged(c, r)' PROVE Logged(c, r)
      <4>1. PICK i \in DOMAIN log' : log'[i].from = c /\ log'[i].ref = r BY <3>2 DEF Logged
      <4>2. i \in DOMAIN log /\ log'[i] = log[i] BY <2>2, <2>4, <4>1
      <4>. QED BY <4>1, <4>2 DEF Logged
    <3>. QED BY <3>1, <3>2
  <2>5. ASSUME NEW r, r = m.ref PROVE Logged(c, r)'
    <3>1. n + 1 \in DOMAIN log' /\ log'[n + 1].from = c /\ log'[n + 1].ref = r
      BY <1>2, <2>1, <2>5
    <3>. QED BY <3>1 DEF Logged
  <2>. QED BY <1>2, <2>2, <2>4, <2>5
<1>. QED BY <1>1, <1>2 DEF Decision

LEMMA AnswerStep ==
    ASSUME TypeInv, [Next]_vars, NEW c \in Clients, Honest(c), Answering(c)
    PROVE  Honest(c)'
<1>. DEFINE m == mailbox[c][1]  n == phx[c].next_ref
<1>0. /\ QueueHonest(c) /\ RepliesHonest(c) /\ LoggedRefs(c) BY DEF Honest
<1>1. /\ mailbox[c] # <<>> /\ m.kind \in Requests /\ mailbox'[c] = Tail(mailbox[c])
      /\ phx'[c].next_ref = n /\ phx'[c].outcomes = phx[c].outcomes
  BY Decisions
<1>2. PICK result \in RelayOutcome \cup {"rejected"} : Decision(c, m, result) BY Decisions
<1>3. /\ mailbox[c] \in Seq(Message) /\ wire[c] \in Seq(Frame) /\ n \in Nat
      /\ 1 \in DOMAIN mailbox[c] /\ IsRequest(c, 1)
      /\ Len(mailbox[c]) \in Nat /\ DOMAIN mailbox[c] = 1..Len(mailbox[c])
      /\ DOMAIN mailbox'[c] = 1..(Len(mailbox[c]) - 1)
      /\ \A i \in DOMAIN mailbox'[c] : mailbox'[c][i] = mailbox[c][i + 1]
  BY <1>1, RefNumbers, TailRest DEF IsRequest
<1>4. Undecided(c, m.ref) /\ m.ref \in 1..n /\ m.ref \in Nat
  BY <1>0, <1>1, <1>3 DEF QueueHonest, Undecided
<1>5. /\ \A r : r # m.ref => (Logged(c, r)' <=> Logged(c, r))
      /\ \A r : r = m.ref => (Logged(c, r)' <=> result = "relayed")
      /\ \A i \in DOMAIN log' : log'[i].from = c =>
               log'[i].ref = m.ref \/ \E k \in DOMAIN log : log'[i] = log[k]
  BY <1>2, <1>4, DecidedLog DEF Undecided
\* The socket has what it had, and the reply to m.
<1>6. ASSUME NEW k \in DOMAIN wire'[c], OutcomeFrame(wire'[c][k])
      PROVE  \/ \E j \in DOMAIN wire[c] : wire'[c][k] = wire[c][j]
             \/ wire'[c][k].ref = m.ref /\ wire'[c][k].result = result
  <2>1. CASE wire'[c] = wire[c] BY <1>6, <2>1
  <2>. DEFINE f == [kind |-> "reply", ref |-> m.ref, result |-> result]
  <2>2. CASE wire'[c] = Append(wire[c], f)
    <3>1. DOMAIN wire'[c] = 1..(Len(wire[c]) + 1) /\ Len(wire[c]) \in Nat
      BY <1>3, <2>2
    <3>2. \A j \in 1..Len(wire[c]) : j \in DOMAIN wire[c] /\ wire'[c][j] = wire[c][j]
      BY <1>3, <2>2
    <3>3. wire'[c][Len(wire[c]) + 1] = f BY <1>3, <2>2
    <3>4. k = Len(wire[c]) + 1 \/ k \in 1..Len(wire[c]) BY <1>6, <3>1
    <3>. QED BY <3>2, <3>3, <3>4
  <2>. QED BY <1>2, <2>1, <2>2 DEF Decision
<1>7. ASSUME NEW r, NEW x, Told(c, r, x), r # m.ref PROVE Told(c, r, x)'
  BY <1>1, <1>5, <1>7 DEF Told
<1>8. ASSUME NEW r, r = m.ref PROVE Told(c, r, result)'
  BY <1>1, <1>4, <1>5, <1>8 DEF Told
<1>9. RepliesHonest(c)'
  <2>1. ASSUME NEW k \in DOMAIN wire'[c], OutcomeFrame(wire'[c][k]), NEW f, f = wire'[c][k]
        PROVE  Told(c, f.ref, f.result)'
    <3>1. CASE f.ref = m.ref /\ f.result = result
      <4>1. \A r : r = m.ref => Told(c, r, result)' BY <1>8
      <4>. QED BY <3>1, <4>1
    <3>2. CASE \E j \in DOMAIN wire[c] : f = wire[c][j]
      <4>1. Told(c, f.ref, f.result) /\ f.ref # m.ref
        BY <1>0, <1>4, <2>1, <3>2 DEF RepliesHonest, Undecided
      <4>2. \A r, x : Told(c, r, x) /\ r # m.ref => Told(c, r, x)' BY <1>7
      <4>. QED BY <4>1, <4>2
    <3>. QED BY <1>6, <2>1, <3>1, <3>2
  <2>2. ASSUME NEW o, o \in phx'[c].outcomes PROVE Told(c, o[1], o[2])'
    <3>1. Told(c, o[1], o[2]) /\ o[1] # m.ref
      BY <1>0, <1>1, <1>4, <2>2 DEF RepliesHonest, Undecided
    <3>2. \A r, x : Told(c, r, x) /\ r # m.ref => Told(c, r, x)' BY <1>7
    <3>. QED BY <3>1, <3>2
  <2>. QED BY <2>1, <2>2 DEF RepliesHonest, Told, Logged, OutcomeFrame
<1>10. LoggedRefs(c)'
  <2>. SUFFICES ASSUME NEW i \in DOMAIN log', log'[i].from = c PROVE log'[i].ref <= n
    BY <1>1 DEF LoggedRefs
  <2>1. CASE log'[i].ref = m.ref BY <1>3, <1>4, <2>1
  <2>2. ASSUME NEW k \in DOMAIN log, log'[i] = log[k] PROVE log'[i].ref <= n
    BY <1>0, <2>2 DEF LoggedRefs
  <2>. QED BY <1>5, <2>1, <2>2
\* The pushes behind m have higher numbers, so they stay undecided.
<1>11. ASSUME NEW i \in DOMAIN mailbox'[c], mailbox'[c][i].kind \in Requests
       PROVE  /\ IsRequest(c, i + 1) /\ mailbox'[c][i] = mailbox[c][i + 1]
              /\ mailbox[c][i + 1].ref \in Nat /\ mailbox[c][i + 1].ref > m.ref
              /\ Undecided(c, mailbox[c][i + 1].ref)
  <2>1. i + 1 \in DOMAIN mailbox[c] /\ 1 < i + 1 BY <1>3
  <2>2. IsRequest(c, i + 1) /\ mailbox'[c][i] = mailbox[c][i + 1]
    BY <1>3, <1>11, <2>1 DEF IsRequest
  <2>. QED BY <1>0, <1>3, <2>1, <2>2, RefNumbers DEF QueueHonest, IsRequest
<1>12. ASSUME NEW i \in DOMAIN mailbox'[c], mailbox'[c][i].kind \in Requests,
              NEW r, r = mailbox'[c][i].ref
       PROVE  Undecided(c, r)'
  <2>1. Undecided(c, r) /\ r # m.ref BY <1>4, <1>11, <1>12
  <2>2. \A k \in DOMAIN wire'[c] : OutcomeFrame(wire'[c][k]) => wire'[c][k].ref # r
    BY <1>6, <2>1 DEF Undecided
  <2>3. ~Logged(c, r)' BY <1>5, <2>1 DEF Undecided
  <2>. QED BY <1>1, <2>1, <2>2, <2>3 DEF Undecided, Logged, OutcomeFrame
<1>13. ASSUME NEW i \in DOMAIN mailbox'[c], NEW j \in DOMAIN mailbox'[c], i < j,
              mailbox'[c][i].kind \in Requests, mailbox'[c][j].kind \in Requests
       PROVE  mailbox'[c][i].ref < mailbox'[c][j].ref
  <2>1. i + 1 < j + 1 BY <1>3, <1>13
  <2>. QED BY <1>0, <1>11, <1>13, <2>1 DEF QueueHonest, IsRequest
<1>14. QueueHonest(c)'
  BY <1>12, <1>13 DEF QueueHonest, IsRequest, Undecided, Logged, OutcomeFrame
<1>. QED BY <1>9, <1>10, <1>14 DEF Honest

LEMMA HonestStep == TypeInv /\ HonestInv /\ [Next]_vars => HonestInv'
<1>. SUFFICES ASSUME TypeInv, HonestInv, [Next]_vars, NEW c \in Clients PROVE Honest(c)'
  BY DEF HonestInv
<1>1. Honest(c) BY DEF HonestInv
<1>. QED BY <1>1, QuietStep, AnswerStep

\* What send_command and send_event report of a push is what the relay did with
\* that push, also when the reply comes after its client has given it up and the
\* next push is waiting: a reply carries the number of its push.
THEOREM OutcomeHonestHolds == Spec => []OutcomeHonest
<1>1. HonestInv => OutcomeHonest
  BY DEF HonestInv, Honest, RepliesHonest, Told, Logged, OutcomeHonest
<1>. QED BY <1>1, HonestStep, InitTypes, TypeStep, InitHonest, PTL DEF Spec

-----------------------------------------------------------------------------
(* Deliveries: a broadcast goes from the log through PubSub, the mailbox of *)
(* the channel, the socket and the client's own buffer, and no step of any  *)
(* of them lets a later one pass an earlier one.                            *)

(* No broadcast is made twice.                                              *)
Over == {"leaving", "dead", "gone"}
LeftOnce == \A i \in DOMAIN log : log[i].event = "peer_left" => channel[log[i].from].status \in Over
Distinct == \A i, j \in DOMAIN log : log[i] = log[j] => i = j

LEMMA OverStays ==
    ASSUME TypeInv, [Next]_vars
    PROVE  \A c \in Clients : channel[c].status \in Over => channel'[c].status \in Over
<1>0. channel \in [Clients -> Channel] BY DEF TypeInv, TypeOK
<1>1. CASE UNCHANGED channel BY <1>1
<1>2. ASSUME NEW d \in Clients, channel[d].status \notin Over,
             NEW e, channel' = [channel EXCEPT ![d] = e]
      PROVE  \A c \in Clients : channel[c].status \in Over => channel'[c].status \in Over
  BY <1>0, <1>2
<1>3. ASSUME NEW d \in Clients, NEW s \in Over, channel' = [channel EXCEPT ![d].status = s]
      PROVE  \A c \in Clients : channel[c].status \in Over => channel'[c].status \in Over
  BY <1>0, <1>3 DEF Channel
<1>4. ASSUME NEW d \in Clients, ChannelStep(d)
      PROVE  \A c \in Clients : channel[c].status \in Over => channel'[c].status \in Over
  <2>1. CASE Claim(d) BY <1>2, <2>1 DEF Claim, Over
  <2>2. CASE Subscribe(d) BY <1>2, <2>2 DEF Subscribe, Over
  <2>3. CASE channel[d].status = "live" /\ Stop(d) BY <1>2, <2>3 DEF Stop, Over
  <2>. QED BY <1>1, <1>3, <1>4, <2>1, <2>2, <2>3
       DEF ChannelStep, JoinRefused, AfterJoin, Fenced, HandleOut, HandleCommand, HandleEvent,
           HandleLeave, Announce, Release, Kill, Down, Handles, Over
<1>. QED BY <1>1, <1>4 DEF Next, Rotate, Dispatch, ClientStep, GiveUp, vars

LEMMA LogGrows ==
    ASSUME TypeInv, NEW b, log' = Append(log, b)
    PROVE  /\ log' # log /\ \A d : log' = Append(log, d) => d = b
           /\ DOMAIN log' = 1..(Len(log) + 1) /\ Len(log') = Len(log) + 1
           /\ log'[Len(log) + 1] = b /\ \A i \in DOMAIN log : i \in DOMAIN log' /\ log'[i] = log[i]
<1>1. log \in Seq(Broadcast \cup {b}) BY LogShape
<1>2. \A d : Append(log, d)[Len(log) + 1] = d BY <1>1
<1>. QED BY <1>1, <1>2

\* A broadcast announces its channel or answers a push.
LEMMA LogReasons ==
    ASSUME TypeInv, [Next]_vars, NEW b \in Broadcast, Logs(b)
    PROVE  \/ Tells(b)
           \/ \E c \in Clients : Answering(c)
<1>1. log' # log /\ \A d : Logs(d) => d = b BY LogGrows DEF Logs
<1>2. ASSUME NEW c \in Clients, ChannelStep(c), ~Answering(c) PROVE Tells(b)
  BY <1>1, <1>2, AfterJoinLogs, AnnounceLogs
     DEF ChannelStep, Answering, JoinRefused, Claim, Subscribe, Fenced, HandleOut, HandleLeave,
         Release, Kill, Down
<1>. QED BY <1>1, <1>2 DEF Next, Rotate, Dispatch, ClientStep, GiveUp, vars

LEMMA BroadcastOnce ==
    ASSUME TypeInv, NewsInv, HonestInv, LeftOnce, [Next]_vars, NEW b \in Broadcast, Logs(b),
           NEW i \in DOMAIN log
    PROVE  log[i] # b
<1>. SUFFICES ASSUME log[i] = b PROVE FALSE OBVIOUS
<1>0. log' # log /\ \A d : Logs(d) => d = b BY LogGrows DEF Logs
<1>1. CASE Tells(b)
  <2>1. b.from \in Clients BY BroadcastShape
  <2>2. CASE b.event = "peer_joined"
    <3>1. mailbox[b.from] # <<>> /\ Head(mailbox[b.from]).kind = "after_join"
      BY <2>2 DEF Logs, Handles, Message_
    <3>2. Head(mailbox[b.from]) = mailbox[b.from][1] /\ 1 \in DOMAIN mailbox[b.from]
      BY <2>1, <3>1, ClientShape, TailRest DEF TypeInv
    <3>. QED BY <2>1, <2>2, <3>1, <3>2 DEF NewsInv, JoinsOnce
  <2>3. CASE b.event = "peer_left"
    <3>1. channel[b.from].status = "stopping" BY <2>3 DEF Logs
    <3>. QED BY <2>3, <3>1 DEF LeftOnce, Over
  <2>. QED BY <1>1, <2>2, <2>3 DEF Tells
<1>2. ASSUME NEW c \in Clients, Answering(c) PROVE FALSE
  <2>1. PICK m : m = mailbox[c][1] OBVIOUS
  <2>2. /\ mailbox[c] # <<>> /\ m.kind \in Requests
        /\ \E result \in RelayOutcome \cup {"rejected"} : Decision(c, m, result)
    BY <1>2, <2>1, Decisions
  <2>3. b.from = c /\ b.ref = m.ref BY <1>0, <2>2 DEF Decision
  <2>4. IsRequest(c, 1) /\ 1 \in DOMAIN mailbox[c]
    <3>1. mailbox[c] \in Seq(Message) BY ClientShape DEF TypeInv
    <3>. QED BY <2>1, <2>2, <3>1 DEF IsRequest
  <2>5. ~Logged(c, m.ref)
    BY <2>1, <2>4 DEF HonestInv, Honest, QueueHonest, Undecided
  <2>. QED BY <2>3, <2>5 DEF Logged
<1>. QED BY <1>1, <1>2, LogReasons

OnceInv == LeftOnce /\ Distinct

LEMMA OnceStep == TypeInv /\ NewsInv /\ HonestInv /\ OnceInv /\ [Next]_vars => OnceInv'
<1>. SUFFICES ASSUME TypeInv, NewsInv, HonestInv, LeftOnce, Distinct, [Next]_vars PROVE OnceInv'
  BY DEF OnceInv
<1>1. ASSUME NEW i \in DOMAIN log, log[i].event = "peer_left", NEW c, c = log[i].from
      PROVE  channel'[c].status \in Over
  BY <1>1, OverStays, LogShape, BroadcastShape DEF LeftOnce
<1>2. CASE log' = log BY <1>1, <1>2 DEF OnceInv, LeftOnce, Distinct
<1>3. ASSUME NEW b \in Broadcast, Logs(b) PROVE OnceInv'
  <2>1. /\ DOMAIN log' = 1..(Len(log) + 1) /\ log'[Len(log) + 1] = b
        /\ \A i \in 1..Len(log) : log'[i] = log[i]
        /\ Len(log) \in Nat /\ DOMAIN log = 1..Len(log)
    BY <1>3, LogsShape
  <2>2. \A i \in DOMAIN log : log[i] # b BY <1>3, BroadcastOnce
  <2>3. Distinct' BY <2>1, <2>2 DEF Distinct
  <2>4. ASSUME b.event = "peer_left" PROVE channel'[b.from].status \in Over
    <3>1. channel' = [channel EXCEPT ![b.from].status = "leaving"] BY <1>3, <2>4 DEF Logs
    <3>2. b.from \in Clients /\ channel \in [Clients -> Channel]
      BY BroadcastShape DEF TypeInv, TypeOK
    <3>. QED BY <3>1, <3>2 DEF Channel, Over
  <2>5. LeftOnce'
    <3>. SUFFICES ASSUME NEW i \in DOMAIN log', log'[i].event = "peer_left",
                         NEW c, c = log'[i].from
                  PROVE  channel'[c].status \in Over
      BY DEF LeftOnce
    <3>1. CASE i = Len(log) + 1 BY <2>1, <2>4, <3>1
    <3>2. CASE i \in DOMAIN log BY <1>1, <2>1, <3>2
    <3>. QED BY <2>1, <3>1, <3>2
  <2>. QED BY <2>3, <2>5 DEF OnceInv
<1>. QED BY <1>2, <1>3, LogMoves
-----------------------------------------------------------------------------
(* PubSub.  What is in the air is the end of the log.                       *)
Known(b) == \E k \in DOMAIN log : log[k] = b
Dispatched == Len(log) - Len(air)
AirInv == Len(air) <= Len(log) /\ \A i \in DOMAIN air : air[i] = log[Dispatched + i]

AirMove ==
    \/ UNCHANGED <<air, log>>
    \/ \E b \in Broadcast : air' = Append(air, b) /\ log' = Append(log, b)
    \/ Dispatch

LEMMA AirMoves == ASSUME TypeInv, [Next]_vars PROVE AirMove
<1>1. ASSUME NEW c \in Clients, NEW event, NEW ref, NEW seq, RelayBroadcast(c, event, ref, seq)
      PROVE  AirMove
  <2>. DEFINE b == [from |-> c, role |-> channel[c].role, ref |-> ref,
                    epoch |-> channel[c].epoch, event |-> event, seq |-> seq]
  <2>1. air' = Append(air, b) /\ log' = Append(log, b) BY <1>1 DEF RelayBroadcast
  <2>2. b \in Broadcast
    <3>1. log' \in Seq(Broadcast) BY TypeStep DEF TypeInv, TypeOK
    <3>2. PICK x : x = b OBVIOUS
    <3>3. log' = Append(log, x) BY <2>1, <3>2
    <3>. HIDE DEF b
    <3>4. log'[Len(log) + 1] = x /\ DOMAIN log' = 1..(Len(log) + 1) BY <3>3, LogGrows
    <3>5. Len(log) + 1 \in DOMAIN log' BY <3>4, LogShape
    <3>. QED BY <3>1, <3>2, <3>4, <3>5
  <2>. QED BY <2>1, <2>2 DEF AirMove
<1>2. ASSUME NEW c \in Clients, ChannelStep(c) PROVE AirMove
  <2>1. UNCHANGED <<air, log>> \/ \E event, ref, seq : RelayBroadcast(c, event, ref, seq)
    BY <1>2 DEF ChannelStep, JoinRefused, Claim, Subscribe, AfterJoin, Fenced, HandleOut,
       HandleCommand, HandleEvent, HandleLeave, Announce, Release, Kill, Down
  <2>. QED BY <1>1, <2>1 DEF AirMove
<1>. QED BY <1>2 DEF Next, Rotate, ClientStep, GiveUp, vars, AirMove

LEMMA AirShape ==
    ASSUME TypeInv
    PROVE  air \in Seq(Broadcast) /\ Len(air) \in Nat /\ DOMAIN air = 1..Len(air)
<1>1. air \in Seq(Broadcast) BY DEF TypeInv, TypeOK
<1>. QED BY <1>1

\* The oldest in the air is the first in the log that is not dispatched.
LEMMA OldestInAir ==
    ASSUME TypeInv, AirInv, air # <<>>
    PROVE  /\ Dispatched \in Nat /\ Dispatched + 1 \in DOMAIN log
           /\ Head(air) = log[Dispatched + 1] /\ Head(air) \in Broadcast
<1>1. Head(air) = air[1] /\ 1 \in DOMAIN air /\ Len(air) \in Nat \ {0} /\ Head(air) \in Broadcast
  BY AirShape, TailRest
<1>. QED BY <1>1, LogShape DEF AirInv, Dispatched

LEMMA AirStep ==
    ASSUME TypeInv, AirInv, [Next]_vars
    PROVE  /\ AirInv' /\ Dispatched' \in Nat /\ Dispatched <= Dispatched'
           /\ Dispatch => Dispatched' = Dispatched + 1
<1>0. /\ Len(air) \in Nat /\ DOMAIN air = 1..Len(air) /\ air \in Seq(Broadcast)
      /\ Len(log) \in Nat /\ DOMAIN log = 1..Len(log) /\ Len(air) <= Len(log)
  BY AirShape, LogShape DEF AirInv
<1>1. CASE UNCHANGED <<air, log>> /\ ~Dispatch
  <2>1. Dispatched' = Dispatched /\ Dispatched \in Nat BY <1>0, <1>1 DEF Dispatched
  <2>2. AirInv' BY <1>1, <2>1 DEF AirInv
  <2>. QED BY <1>1, <2>1, <2>2
<1>2. ASSUME NEW b \in Broadcast, air' = Append(air, b), log' = Append(log, b)
      PROVE  AirInv' /\ Dispatched' \in Nat /\ Dispatched <= Dispatched' /\ ~Dispatch
  <2>1. /\ DOMAIN log' = 1..(Len(log) + 1) /\ Len(log') = Len(log) + 1
        /\ log'[Len(log) + 1] = b /\ \A i \in DOMAIN log : log'[i] = log[i] /\ log' # log
    BY <1>2, LogGrows
  <2>2. /\ DOMAIN air' = 1..(Len(air) + 1) /\ Len(air') = Len(air) + 1
        /\ air'[Len(air) + 1] = b /\ \A i \in 1..Len(air) : air'[i] = air[i]
    BY <1>0, <1>2, AppendLast
  <2>3. Dispatched' = Dispatched /\ Dispatched \in Nat
        /\ Dispatched + (Len(air) + 1) = Len(log) + 1
    BY <1>0, <2>1, <2>2 DEF Dispatched
  <2>4. ASSUME NEW i \in 1..Len(air)
        PROVE  air'[i] = log[Dispatched + i] /\ Dispatched + i \in DOMAIN log
    BY <1>0, <2>2, <2>3, <2>4 DEF AirInv
  <2>5. ASSUME NEW i \in DOMAIN air' PROVE air'[i] = log'[Dispatched + i]
    <3>1. CASE i = Len(air) + 1 BY <2>1, <2>2, <2>3, <3>1
    <3>2. CASE i \in 1..Len(air) BY <2>1, <2>4, <3>2
    <3>. QED BY <1>0, <2>2, <3>1, <3>2
  <2>6. ~Dispatch BY <2>1, <1>0 DEF Dispatch
  <2>. QED BY <1>0, <2>1, <2>2, <2>3, <2>5, <2>6 DEF AirInv
<1>3. CASE Dispatch
  <2>1. air # <<>> /\ air' = Tail(air) /\ log' = log BY <1>3 DEF Dispatch
  <2>2. /\ Len(air') = Len(air) - 1 /\ Len(air) # 0 /\ DOMAIN air' = 1..(Len(air) - 1)
        /\ \A i \in 1..(Len(air) - 1) : air'[i] = air[i + 1]
    BY <1>0, <2>1, TailRest
  <2>3. Dispatched' = Dispatched + 1 /\ Dispatched \in Nat
    BY <1>0, <2>1, <2>2 DEF Dispatched
  <2>4. ASSUME NEW i \in DOMAIN air' PROVE air'[i] = log'[Dispatched' + i]
    <3>1. i + 1 \in DOMAIN air /\ air'[i] = air[i + 1] /\ i \in Nat BY <1>0, <2>2
    <3>2. air[i + 1] = log[Dispatched + (i + 1)] BY <3>1 DEF AirInv
    <3>3. Dispatched + (i + 1) = (Dispatched + 1) + i BY <2>3, <3>1
    <3>. QED BY <2>1, <2>3, <3>1, <3>2, <3>3
  <2>. QED BY <1>0, <2>1, <2>2, <2>3, <2>4 DEF AirInv
<1>. QED BY <1>1, <1>2, <1>3, AirMoves DEF AirMove
-----------------------------------------------------------------------------
(* What is on the way to a client has been made.                            *)
Held(c, b) ==
    \/ Given(c, b)
    \/ \E i \in DOMAIN mailbox[c] : mailbox[c][i].kind = "out" /\ mailbox[c][i].body = b
KnownInv == \A c \in Clients, b \in Broadcast : Held(c, b) => Known(b)

LEMMA KnownStays == ASSUME TypeInv, [Next]_vars, NEW b, Known(b) PROVE Known(b)'
<1>1. CASE log' = log BY <1>1 DEF Known
<1>2. ASSUME NEW d \in Broadcast, log' = Append(log, d) PROVE Known(b)'
  BY <1>2, LogGrows DEF Known
<1>. QED BY <1>1, <1>2, LogMoves DEF Logs

\* Of what a mailbox holds, the rest stays in order and the oldest in the air
\* may come to its end.
LEMMA OutMoves ==
    ASSUME TypeInv, [Next]_vars, NEW c \in Clients
    PROVE  \E d \in {-1, 0, 1} : \A i \in DOMAIN mailbox'[c] : mailbox'[c][i].kind = "out" =>
                Stays(c, d, i) \/ Arrives(c, d, i)
<1>1. PICK d \in {-1, 0, 1} : MailboxMoveBy(c, d) BY MailboxMoves DEF MailboxMove
<1>. QED BY <1>1 DEF MailboxMoveBy, Others, Fronts, Pushed, Requests

LEMMA KnownStep ==
    ASSUME TypeInv, AirInv, KnownInv, [Next]_vars
    PROVE  KnownInv'
<1>. SUFFICES ASSUME NEW c \in Clients, NEW b \in Broadcast, Held(c, b)' PROVE Known(b)
  BY KnownStays DEF KnownInv
<1>0. WireMove(c) /\ ClientMove(c) /\ (\A d \in Broadcast : Held(c, d) => Known(d))
  BY WireMoves, ClientMoves DEF KnownInv
<1>1. CASE Given(c, b) BY <1>0, <1>1 DEF Held
<1>2. ASSUME NEW i \in DOMAIN mailbox'[c], mailbox'[c][i].kind = "out", mailbox'[c][i].body = b
      PROVE  Known(b)
  <2>1. PICK d \in {-1, 0, 1} : Stays(c, d, i) \/ Arrives(c, d, i) BY <1>2, OutMoves
  <2>2. CASE Stays(c, d, i) BY <1>0, <1>2, <2>2 DEF Stays, Held
  <2>3. CASE Arrives(c, d, i) BY <1>2, <2>3, OldestInAir DEF Arrives, Dispatch, Known
  <2>. QED BY <2>1, <2>2, <2>3
<1>3. ASSUME NEW i \in DOMAIN wire'[c], wire'[c][i].kind = "broadcast", wire'[c][i].body = b
      PROVE  Known(b)
  <2>1. CASE \E k \in DOMAIN wire[c] : wire'[c][i] = wire[c][k]
    BY <1>0, <1>3, <2>1 DEF Held, Given
  <2>2. CASE Broadcasts(c, wire'[c][i])
    <3>1. /\ Head(mailbox[c]).body = b /\ Head(mailbox[c]).kind = "out" /\ mailbox[c] # <<>>
      BY <1>3, <2>2 DEF Broadcasts, HandleOut, Handles, Message_
    <3>2. Head(mailbox[c]) = mailbox[c][1] /\ 1 \in DOMAIN mailbox[c]
      BY <3>1, ClientShape, TailRest DEF TypeInv
    <3>. QED BY <1>0, <3>1, <3>2 DEF Held
  <2>. QED BY <1>0, <1>3, <2>1, <2>2, WireElements DEF Sent
<1>4. CASE \/ \E k \in DOMAIN phx'[c].pending : b = phx'[c].pending[k]
           \/ \E k \in DOMAIN phx'[c].got : b = phx'[c].got[k]
  BY <1>0, <1>1, <1>4, GivenElements
<1>. QED BY <1>2, <1>3, <1>4 DEF Held, Given
-----------------------------------------------------------------------------
(* The stages of a delivery, as pairs of a place in the stage and a place in *)
(* the log: what c has been given, what it keeps, what its socket has for it *)
(* and what waits for its channel.                                          *)
GotAt(c) == {x \in (DOMAIN phx[c].got) \X (DOMAIN log) : phx[c].got[x[1]] = log[x[2]]}
PendingAt(c) ==
    {x \in (DOMAIN phx[c].pending) \X (DOMAIN log) : phx[c].pending[x[1]] = log[x[2]]}
WireAt(c) ==
    {x \in (DOMAIN wire[c]) \X (DOMAIN log) :
        wire[c][x[1]].kind = "broadcast" /\ wire[c][x[1]].body = log[x[2]]}
MailAt(c) ==
    {x \in (DOMAIN mailbox[c]) \X (DOMAIN log) :
        mailbox[c][x[1]].kind = "out" /\ mailbox[c][x[1]].body = log[x[2]]}

\* A stage is in the order of the log and lies between two marks in it.
Rising(P, lo, hi) ==
    \A i, k \in Nat : <<i, k>> \in P =>
        /\ lo < k /\ k <= hi
        /\ \A j, l \in Nat : <<j, l>> \in P /\ i < j => k < l
Ordered(c) ==
    \E a, b, d \in Nat :
        /\ a <= b /\ b <= d /\ d <= Dispatched
        /\ Rising(GotAt(c), 0, a) /\ Rising(PendingAt(c), a, b)
        /\ Rising(WireAt(c), b, d) /\ Rising(MailAt(c), d, Dispatched)
OrderedInv == \A c \in Clients : Ordered(c)

\* Every place of Q is one of P, moved by e, or, in Grows, the new place p at n + 1.
Shifts(P, Q, e) == \A i, k \in Nat : <<i, k>> \in Q => <<i + e, k>> \in P
Grows(P, Q, e, n, p) ==
    \A i, k \in Nat : <<i, k>> \in Q =>
        (i <= n /\ <<i + e, k>> \in P) \/ (i = n + 1 /\ k = p)
Drops(P, Q, h) ==
    <<1, h>> \in P /\ \A i, k \in Nat : <<i, k>> \in Q => 1 <= i /\ <<i + 1, k>> \in P

LEMMA Moved ==
    ASSUME NEW P, NEW Q, NEW e \in Int, NEW lo \in Nat, NEW hi \in Nat, NEW hi2 \in Nat,
           Rising(P, lo, hi), P \subseteq Nat \X Nat, hi <= hi2,
           Shifts(P, Q, e)
    PROVE  Rising(Q, lo, hi2)
<1>. SUFFICES ASSUME NEW i \in Nat, NEW k \in Nat, <<i, k>> \in Q
              PROVE  /\ lo < k /\ k <= hi2
                     /\ \A j, l \in Nat : <<j, l>> \in Q /\ i < j => k < l
  BY DEF Rising
<1>1. <<i + e, k>> \in P /\ i + e \in Nat BY DEF Shifts
<1>2. lo < k /\ k <= hi BY <1>1 DEF Rising
<1>3. ASSUME NEW j \in Nat, NEW l \in Nat, <<j, l>> \in Q, i < j PROVE k < l
  <2>1. <<j + e, l>> \in P /\ j + e \in Nat /\ i + e < j + e BY <1>3 DEF Shifts
  <2>. QED BY <1>1, <2>1 DEF Rising
<1>. QED BY <1>2, <1>3

LEMMA Added ==
    ASSUME NEW P, NEW Q, NEW e \in Int, NEW lo \in Nat, NEW hi \in Nat, NEW p \in Nat,
           NEW n \in Nat,
           Rising(P, lo, hi), P \subseteq Nat \X Nat, lo <= hi, hi < p,
           Grows(P, Q, e, n, p)
    PROVE  Rising(Q, lo, p)
<1>. SUFFICES ASSUME NEW i \in Nat, NEW k \in Nat, <<i, k>> \in Q
              PROVE  /\ lo < k /\ k <= p
                     /\ \A j, l \in Nat : <<j, l>> \in Q /\ i < j => k < l
  BY DEF Rising
<1>1. CASE i = n + 1 /\ k = p
  <2>1. ASSUME NEW j \in Nat, NEW l \in Nat, <<j, l>> \in Q, i < j PROVE FALSE
    <3>1. j <= n \/ j = n + 1 BY <2>1 DEF Grows
    <3>. QED BY <1>1, <2>1, <3>1
  <2>. QED BY <1>1, <2>1
<1>2. CASE i <= n /\ <<i + e, k>> \in P
  <2>1. i + e \in Nat BY <1>2
  <2>2. lo < k /\ k <= hi BY <1>2, <2>1 DEF Rising
  <2>3. ASSUME NEW j \in Nat, NEW l \in Nat, <<j, l>> \in Q, i < j PROVE k < l
    <3>1. CASE j = n + 1 /\ l = p BY <2>2, <3>1
    <3>2. CASE <<j + e, l>> \in P
      <4>1. j + e \in Nat /\ i + e < j + e BY <2>3, <3>2
      <4>. QED BY <1>2, <2>1, <3>2, <4>1 DEF Rising
    <3>. QED BY <2>3, <3>1, <3>2 DEF Grows
  <2>. QED BY <2>2, <2>3
<1>. QED BY <1>1, <1>2 DEF Grows

LEMMA Dropped ==
    ASSUME NEW P, NEW Q, NEW lo \in Nat, NEW hi \in Nat, NEW h \in Nat,
           Rising(P, lo, hi), Drops(P, Q, h)
    PROVE  lo < h /\ h <= hi /\ Rising(Q, h, hi)
<1>1. lo < h /\ h <= hi BY DEF Rising, Drops
<1>. SUFFICES ASSUME NEW i \in Nat, NEW k \in Nat, <<i, k>> \in Q
              PROVE  /\ h < k /\ k <= hi
                     /\ \A j, l \in Nat : <<j, l>> \in Q /\ i < j => k < l
  BY <1>1 DEF Rising
<1>2. <<i + 1, k>> \in P /\ i + 1 \in Nat /\ 1 < i + 1 BY DEF Drops
<1>3. h < k /\ k <= hi BY <1>2 DEF Rising, Drops
<1>4. ASSUME NEW j \in Nat, NEW l \in Nat, <<j, l>> \in Q, i < j PROVE k < l
  <2>1. <<j + 1, l>> \in P /\ j + 1 \in Nat /\ i + 1 < j + 1 BY <1>4 DEF Drops
  <2>. QED BY <1>2, <2>1 DEF Rising
<1>. QED BY <1>3, <1>4

LEMMA StageShape ==
    ASSUME TypeInv, NEW c \in Clients
    PROVE  /\ GotAt(c) \subseteq Nat \X Nat /\ PendingAt(c) \subseteq Nat \X Nat
           /\ WireAt(c) \subseteq Nat \X Nat /\ MailAt(c) \subseteq Nat \X Nat
           /\ DOMAIN phx[c].got = 1..Len(phx[c].got) /\ Len(phx[c].got) \in Nat
           /\ DOMAIN phx[c].pending = 1..Len(phx[c].pending) /\ Len(phx[c].pending) \in Nat
           /\ DOMAIN wire[c] = 1..Len(wire[c]) /\ Len(wire[c]) \in Nat
           /\ DOMAIN mailbox[c] = 1..Len(mailbox[c]) /\ Len(mailbox[c]) \in Nat
<1>1. /\ phx[c].got \in Seq(Broadcast) /\ phx[c].pending \in Seq(Broadcast)
      /\ wire[c] \in Seq(Frame) /\ mailbox[c] \in Seq(Message)
  BY ClientShape DEF TypeInv
<1>2. /\ DOMAIN phx[c].got = 1..Len(phx[c].got) /\ Len(phx[c].got) \in Nat
      /\ DOMAIN phx[c].pending = 1..Len(phx[c].pending) /\ Len(phx[c].pending) \in Nat
      /\ DOMAIN wire[c] = 1..Len(wire[c]) /\ Len(wire[c]) \in Nat
      /\ DOMAIN mailbox[c] = 1..Len(mailbox[c]) /\ Len(mailbox[c]) \in Nat
  BY <1>1
<1>3. DOMAIN log \subseteq Nat BY LogShape
<1>. QED BY <1>2, <1>3 DEF GotAt, PendingAt, WireAt, MailAt

\* What was made before the step has its place in the log before the step.
LEMMA OldPlace ==
    ASSUME TypeInv, [Next]_vars, Distinct', NEW b, Known(b), NEW k \in DOMAIN log', log'[k] = b
    PROVE  k \in DOMAIN log /\ log[k] = b
<1>1. PICK j \in DOMAIN log : log[j] = b BY DEF Known
<1>2. CASE log' = log BY <1>2
<1>3. ASSUME NEW d \in Broadcast, log' = Append(log, d) PROVE k = j
  <2>1. j \in DOMAIN log' /\ log'[j] = log[j] BY <1>1, <1>3, LogGrows
  <2>. QED BY <1>1, <2>1 DEF Distinct
<1>. QED BY <1>1, <1>2, <1>3, LogMoves DEF Logs

\* What keeps its place in a stage, or moves on, keeps its place in the log.
LEMMA PlaceStays ==
    ASSUME TypeInv, [Next]_vars, KnownInv, Distinct', NEW c \in Clients,
           NEW i \in Nat, NEW k \in Nat, NEW j
    PROVE  /\ /\ <<i, k>> \in GotAt(c)' /\ j \in DOMAIN phx[c].got
              /\ phx'[c].got[i] = phx[c].got[j]
              => <<j, k>> \in GotAt(c)
           /\ /\ <<i, k>> \in PendingAt(c)' /\ j \in DOMAIN phx[c].pending
              /\ phx'[c].pending[i] = phx[c].pending[j]
              => <<j, k>> \in PendingAt(c)
           /\ /\ <<i, k>> \in WireAt(c)' /\ j \in DOMAIN wire[c]
              /\ wire'[c][i] = wire[c][j]
              => <<j, k>> \in WireAt(c)
           /\ /\ <<i, k>> \in MailAt(c)' /\ j \in DOMAIN mailbox[c]
              /\ mailbox'[c][i] = mailbox[c][j]
              => <<j, k>> \in MailAt(c)
<1>0. /\ phx[c].got \in Seq(Broadcast) /\ phx[c].pending \in Seq(Broadcast)
      /\ wire[c] \in Seq(Frame) /\ mailbox[c] \in Seq(Message)
  BY ClientShape DEF TypeInv
<1>1. ASSUME NEW b \in Broadcast, Held(c, b), k \in DOMAIN log', log'[k] = b
      PROVE  k \in DOMAIN log /\ log[k] = b
  BY <1>1, OldPlace DEF KnownInv
<1>2. ASSUME <<i, k>> \in GotAt(c)', j \in DOMAIN phx[c].got,
             phx'[c].got[i] = phx[c].got[j]
      PROVE  <<j, k>> \in GotAt(c)
  <2>1. phx[c].got[j] \in Broadcast /\ Held(c, phx[c].got[j])
    BY <1>0, <1>2 DEF Held, Given
  <2>3. k \in DOMAIN log' /\ phx'[c].got[i] = log'[k] BY <1>2 DEF GotAt
  <2>4. k \in DOMAIN log /\ log'[k] = log[k] BY <1>1, <1>2, <2>1, <2>3
  <2>. QED BY <1>2, <2>1, <2>3, <2>4 DEF GotAt
<1>3. ASSUME <<i, k>> \in PendingAt(c)', j \in DOMAIN phx[c].pending,
             phx'[c].pending[i] = phx[c].pending[j]
      PROVE  <<j, k>> \in PendingAt(c)
  <2>1. phx[c].pending[j] \in Broadcast /\ Held(c, phx[c].pending[j])
    BY <1>0, <1>3 DEF Held, Given
  <2>3. k \in DOMAIN log' /\ phx'[c].pending[i] = log'[k] BY <1>3 DEF PendingAt
  <2>4. k \in DOMAIN log /\ log'[k] = log[k] BY <1>1, <1>3, <2>1, <2>3
  <2>. QED BY <1>3, <2>1, <2>3, <2>4 DEF PendingAt
<1>4. ASSUME <<i, k>> \in WireAt(c)', j \in DOMAIN wire[c],
             wire'[c][i] = wire[c][j]
      PROVE  <<j, k>> \in WireAt(c)
  <2>1. wire[c][j] \in Frame /\ wire[c][j].kind = "broadcast"
    BY <1>0, <1>4 DEF WireAt
  <2>2. wire[c][j].body \in Broadcast /\ Held(c, wire[c][j].body)
    BY <1>4, <2>1, FrameShape DEF Held, Given
  <2>3. k \in DOMAIN log' /\ wire'[c][i].body = log'[k] BY <1>4 DEF WireAt
  <2>4. k \in DOMAIN log /\ log'[k] = log[k] BY <1>1, <1>4, <2>1, <2>2, <2>3
  <2>. QED BY <1>4, <2>1, <2>2, <2>3, <2>4 DEF WireAt
<1>5. ASSUME <<i, k>> \in MailAt(c)', j \in DOMAIN mailbox[c],
             mailbox'[c][i] = mailbox[c][j]
      PROVE  <<j, k>> \in MailAt(c)
  <2>1. mailbox[c][j] \in Message /\ mailbox[c][j].kind = "out"
    BY <1>0, <1>5 DEF MailAt
  <2>2. mailbox[c][j].body \in Broadcast /\ Held(c, mailbox[c][j].body)
    BY <1>5, <2>1, MessageShape DEF Held
  <2>3. k \in DOMAIN log' /\ mailbox'[c][i].body = log'[k] BY <1>5 DEF MailAt
  <2>4. k \in DOMAIN log /\ log'[k] = log[k] BY <1>1, <1>5, <2>1, <2>2, <2>3
  <2>. QED BY <1>5, <2>1, <2>2, <2>3, <2>4 DEF MailAt
<1>. QED BY <1>2, <1>3, <1>4, <1>5

LEMMA InitOrdered == Init => OnceInv /\ AirInv /\ KnownInv /\ OrderedInv
<1>. SUFFICES ASSUME Init PROVE OnceInv /\ AirInv /\ KnownInv /\ OrderedInv OBVIOUS
<1>1. log = <<>> /\ air = <<>> /\ wire = [c \in Clients |-> <<>>] /\ mailbox = wire
  BY DEF Init, ClientInit
<1>2. \A c \in Clients : /\ wire[c] = <<>> /\ mailbox[c] = <<>>
                         /\ phx[c].got = <<>> /\ phx[c].pending = <<>>
  BY DEF Init, ClientInit
<1>3. DOMAIN log = {} /\ DOMAIN air = {} /\ Len(log) = 0 /\ Len(air) = 0 BY <1>1, EmptySeq
<1>4. OnceInv /\ AirInv BY <1>3 DEF OnceInv, LeftOnce, Distinct, AirInv
<1>5. KnownInv BY <1>2, EmptySeq DEF KnownInv, Held, Given
<1>6. ASSUME NEW c \in Clients PROVE Ordered(c)
  <2>1. GotAt(c) = {} /\ PendingAt(c) = {} /\ WireAt(c) = {} /\ MailAt(c) = {}
    BY <1>2, EmptySeq DEF GotAt, PendingAt, WireAt, MailAt
  <2>2. \A lo, hi : Rising({}, lo, hi) BY DEF Rising
  <2>3. Dispatched = 0 BY <1>3 DEF Dispatched
  <2>. QED BY <2>1, <2>2, <2>3 DEF Ordered
<1>. QED BY <1>4, <1>5, <1>6 DEF OrderedInv

\* A mailbox stays in order, and the oldest in the air comes after all it has.
LEMMA MailStays ==
    ASSUME TypeInv, [Next]_vars, AirInv, KnownInv, Distinct', NEW c \in Clients, NEW lo \in Nat,
           lo <= Dispatched, Rising(MailAt(c), lo, Dispatched)
    PROVE  Rising(MailAt(c)', lo, Dispatched')
<1>0. /\ Dispatched' \in Nat /\ Dispatched <= Dispatched' /\ Dispatched \in Nat
      /\ Dispatch => Dispatched' = Dispatched + 1
  <2>1. Dispatched \in Nat BY AirShape, LogShape DEF AirInv, Dispatched
  <2>. QED BY <2>1, AirStep
<1>1. PICK d \in {-1, 0, 1} : \A i \in DOMAIN mailbox'[c] : mailbox'[c][i].kind = "out" =>
            Stays(c, d, i) \/ Arrives(c, d, i)
  BY OutMoves
<1>2. d \in Int OBVIOUS
<1>3. MailAt(c) \subseteq Nat \X Nat BY StageShape
<1>. DEFINE n == Len(mailbox[c])
<1>4. n \in Nat /\ DOMAIN mailbox[c] = 1..n BY StageShape
<1>5. ASSUME NEW i \in Nat, NEW k \in Nat, <<i, k>> \in MailAt(c)'
      PROVE  \/ i + d \in DOMAIN mailbox[c] /\ <<i + d, k>> \in MailAt(c)
             \/ Arrives(c, d, i) /\ k = Dispatched + 1
  <2>1. /\ i \in DOMAIN mailbox'[c] /\ mailbox'[c][i].kind = "out"
        /\ k \in DOMAIN log' /\ mailbox'[c][i].body = log'[k]
    BY <1>5 DEF MailAt
  <2>2. CASE Stays(c, d, i) BY <1>2, <1>5, <2>2, PlaceStays DEF Stays
  <2>3. CASE Arrives(c, d, i)
    <3>1. Dispatch /\ mailbox'[c][i].body = Head(air) /\ air # <<>> /\ log' = log
      BY <2>3 DEF Arrives, Dispatch
    <3>2. log'[Dispatched + 1] = log'[k] /\ Dispatched + 1 \in DOMAIN log'
      BY <2>1, <3>1, OldestInAir
    <3>. QED BY <2>1, <2>3, <3>2 DEF Distinct
  <2>. QED BY <1>1, <2>1, <2>2, <2>3
<1>6. CASE Dispatch /\ d = 0
  <2>1. \A i, k \in Nat : <<i, k>> \in MailAt(c)' =>
            (i <= n /\ <<i + d, k>> \in MailAt(c)) \/ (i = n + 1 /\ k = Dispatched + 1)
    BY <1>4, <1>5, <1>6 DEF Arrives
  <2>2. Dispatched < Dispatched + 1 /\ Dispatched + 1 \in Nat BY <1>0
  <2>3. PICK P, Q, p, hi, len :
            P = MailAt(c) /\ Q = MailAt(c)' /\ p = Dispatched + 1 /\ hi = Dispatched /\ len = n
    OBVIOUS
  <2>4. Grows(P, Q, d, len, p) BY <2>1, <2>3 DEF Grows
  <2>5. /\ P \subseteq Nat \X Nat /\ Rising(P, lo, hi) /\ lo <= hi /\ hi < p
        /\ hi \in Nat /\ p \in Nat /\ len \in Nat
    BY <1>0, <1>3, <1>4, <2>2, <2>3
  <2>6. Rising(Q, lo, p) BY <1>2, <2>4, <2>5, Added
  <2>. QED BY <1>0, <1>6, <2>3, <2>6
<1>7. CASE ~(Dispatch /\ d = 0)
  <2>1. PICK P, Q, hi, hi2 :
            P = MailAt(c) /\ Q = MailAt(c)' /\ hi = Dispatched /\ hi2 = Dispatched'
    OBVIOUS
  <2>2. Shifts(P, Q, d) BY <1>5, <1>7, <2>1 DEF Arrives, Shifts
  <2>3. /\ P \subseteq Nat \X Nat /\ Rising(P, lo, hi) /\ hi <= hi2
        /\ hi \in Nat /\ hi2 \in Nat
    BY <1>0, <1>3, <2>1
  <2>4. Rising(Q, lo, hi2) BY <1>2, <2>2, <2>3, Moved
  <2>. QED BY <2>1, <2>4
<1>. QED BY <1>6, <1>7

LEMMA GotStays ==
    ASSUME TypeInv, [Next]_vars, KnownInv, Distinct', NEW c \in Clients, NEW lo \in Nat,
           NEW hi \in Nat, NEW hi2 \in Nat, hi <= hi2, Rising(GotAt(c), lo, hi),
           phx'[c].got = phx[c].got
    PROVE  Rising(GotAt(c)', lo, hi2)
<1>1. \A i, k \in Nat : <<i, k>> \in GotAt(c)' => i + 0 \in DOMAIN phx[c].got BY DEF GotAt
<1>2. Shifts(GotAt(c), GotAt(c)', 0)
  <2>. SUFFICES ASSUME NEW i \in Nat, NEW k \in Nat, <<i, k>> \in GotAt(c)'
                PROVE  <<i + 0, k>> \in GotAt(c)
    BY DEF Shifts
  <2>1. i + 0 \in DOMAIN phx[c].got /\ phx'[c].got[i] = phx[c].got[i + 0] BY <1>1
  <2>. QED BY <2>1, PlaceStays
<1>3. PICK P, Q : P = GotAt(c) /\ Q = GotAt(c)' OBVIOUS
<1>4. P \subseteq Nat \X Nat BY <1>3, StageShape
<1>5. Shifts(P, Q, 0) BY <1>2, <1>3
<1>6. Rising(P, lo, hi) BY <1>3
<1>7. Rising(Q, lo, hi2) BY <1>4, <1>5, <1>6, Moved
<1>. QED BY <1>3, <1>7

LEMMA PendingStays ==
    ASSUME TypeInv, [Next]_vars, KnownInv, Distinct', NEW c \in Clients, NEW lo \in Nat,
           NEW hi \in Nat, Rising(PendingAt(c), lo, hi), phx'[c].pending = phx[c].pending
    PROVE  Rising(PendingAt(c)', lo, hi)
<1>1. \A i, k \in Nat : <<i, k>> \in PendingAt(c)' => i + 0 \in DOMAIN phx[c].pending
  BY DEF PendingAt
<1>2. Shifts(PendingAt(c), PendingAt(c)', 0)
  <2>. SUFFICES ASSUME NEW i \in Nat, NEW k \in Nat, <<i, k>> \in PendingAt(c)'
                PROVE  <<i + 0, k>> \in PendingAt(c)
    BY DEF Shifts
  <2>1. i + 0 \in DOMAIN phx[c].pending /\ phx'[c].pending[i] = phx[c].pending[i + 0] BY <1>1
  <2>. QED BY <2>1, PlaceStays
<1>3. PICK P, Q : P = PendingAt(c) /\ Q = PendingAt(c)' OBVIOUS
<1>4. P \subseteq Nat \X Nat BY <1>3, StageShape
<1>5. Shifts(P, Q, 0) BY <1>2, <1>3
<1>6. Rising(P, lo, hi) BY <1>3
<1>7. Rising(Q, lo, hi) BY <1>4, <1>5, <1>6, Moved
<1>. QED BY <1>3, <1>7

\* A socket stays in order unless a broadcast is put in.
LEMMA WireStays ==
    ASSUME TypeInv, [Next]_vars, KnownInv, Distinct', NEW c \in Clients, NEW lo \in Nat,
           NEW hi \in Nat, Rising(WireAt(c), lo, hi),
           \A f \in Frame : wire'[c] = Append(wire[c], f) => ~Broadcasts(c, f)
    PROVE  Rising(WireAt(c)', lo, hi)
<1>0. wire[c] \in Seq(Frame) BY ClientShape DEF TypeInv
<1>1. PICK e \in {0, 1} : \A i \in DOMAIN wire'[c] : wire'[c][i].kind = "broadcast" =>
            i + e \in DOMAIN wire[c] /\ wire'[c][i] = wire[c][i + e]
  <2>1. CASE wire'[c] \in {wire[c], <<>>}
    <3>1. \A i \in DOMAIN wire'[c] : i \in Nat /\ i \in DOMAIN wire[c] /\ wire'[c][i] = wire[c][i]
      BY <1>0, <2>1, EmptySeq, StageShape
    <3>2. \A i \in DOMAIN wire'[c] : i + 0 \in DOMAIN wire[c] /\ wire'[c][i] = wire[c][i + 0]
      BY <3>1
    <3>. QED BY <3>2
  <2>2. CASE wire[c] # <<>> /\ wire'[c] = Tail(wire[c])
    <3>1. \A i \in DOMAIN wire'[c] : i + 1 \in DOMAIN wire[c] /\ wire'[c][i] = wire[c][i + 1]
      BY <1>0, <2>2, TailRest
    <3>. QED BY <3>1
  <2>3. ASSUME NEW f \in Frame, wire'[c] = Append(wire[c], f), Sent(c, f)
        PROVE  \A i \in DOMAIN wire'[c] : wire'[c][i].kind = "broadcast" =>
                    i + 0 \in DOMAIN wire[c] /\ wire'[c][i] = wire[c][i + 0]
    <3>1. /\ DOMAIN wire'[c] = 1..(Len(wire[c]) + 1) /\ wire'[c][Len(wire[c]) + 1] = f
          /\ \A i \in 1..Len(wire[c]) : wire'[c][i] = wire[c][i]
          /\ DOMAIN wire[c] = 1..Len(wire[c]) /\ Len(wire[c]) \in Nat
      BY <1>0, <2>3, AppendLast
    <3>2. f.kind # "broadcast" BY <2>3 DEF Sent
    <3>3. ASSUME NEW i \in DOMAIN wire'[c], wire'[c][i].kind = "broadcast"
          PROVE  i + 0 \in DOMAIN wire[c] /\ wire'[c][i] = wire[c][i + 0]
      <4>1. i # Len(wire[c]) + 1 BY <3>1, <3>2, <3>3
      <4>2. i \in 1..Len(wire[c]) /\ i + 0 = i BY <3>1, <4>1
      <4>. QED BY <3>1, <4>2
    <3>. QED BY <3>3
  <2>. QED BY <2>1, <2>2, <2>3, WireMoves DEF WireMove
<1>2. e \in Int OBVIOUS
<1>3. ASSUME NEW i \in Nat, NEW k \in Nat, <<i, k>> \in WireAt(c)'
      PROVE  <<i + e, k>> \in WireAt(c)
  <2>1. i \in DOMAIN wire'[c] /\ wire'[c][i].kind = "broadcast" BY <1>3 DEF WireAt
  <2>. QED BY <1>1, <1>2, <1>3, <2>1, PlaceStays
<1>4. PICK P, Q : P = WireAt(c) /\ Q = WireAt(c)' OBVIOUS
<1>5. P \subseteq Nat \X Nat BY <1>4, StageShape
<1>6. Shifts(P, Q, e) BY <1>3, <1>4 DEF Shifts
<1>7. Rising(P, lo, hi) BY <1>4
<1>8. Rising(Q, lo, hi) BY <1>2, <1>5, <1>6, <1>7, Moved
<1>. QED BY <1>4, <1>8

\* The marks between the stages, as constants, for one client.
LEMMA MarksKept ==
    ASSUME NEW c \in Clients, NEW a \in Nat, NEW b \in Nat, NEW d \in Nat, a <= b, b <= d,
           d <= Dispatched', Rising(GotAt(c)', 0, a), Rising(PendingAt(c)', a, b),
           Rising(WireAt(c)', b, d), Rising(MailAt(c)', d, Dispatched')
    PROVE  Ordered(c)'
BY DEF Ordered

\* The oldest of a stage has a place in the log.
LEMMA HeadPlaces ==
    ASSUME TypeInv, KnownInv, NEW c \in Clients
    PROVE  /\ phx[c].pending # <<>> =>
                \E k \in DOMAIN log : log[k] = Head(phx[c].pending) /\ <<1, k>> \in PendingAt(c)
           /\ wire[c] # <<>> /\ Head(wire[c]).kind = "broadcast" =>
                \E k \in DOMAIN log : log[k] = Head(wire[c]).body /\ <<1, k>> \in WireAt(c)
           /\ mailbox[c] # <<>> /\ Head(mailbox[c]).kind = "out" =>
                \E k \in DOMAIN log : log[k] = Head(mailbox[c]).body /\ <<1, k>> \in MailAt(c)
<1>0. /\ phx[c].pending \in Seq(Broadcast) /\ wire[c] \in Seq(Frame)
      /\ mailbox[c] \in Seq(Message)
  BY ClientShape DEF TypeInv
<1>1. ASSUME phx[c].pending # <<>>
      PROVE  \E k \in DOMAIN log : log[k] = Head(phx[c].pending) /\ <<1, k>> \in PendingAt(c)
  <2>1. /\ Head(phx[c].pending) = phx[c].pending[1] /\ 1 \in DOMAIN phx[c].pending
        /\ Head(phx[c].pending) \in Broadcast
    BY <1>0, <1>1, TailRest
  <2>2. Known(Head(phx[c].pending)) BY <2>1 DEF KnownInv, Held, Given
  <2>. QED BY <2>1, <2>2 DEF Known, PendingAt
<1>2. ASSUME wire[c] # <<>>, Head(wire[c]).kind = "broadcast"
      PROVE  \E k \in DOMAIN log : log[k] = Head(wire[c]).body /\ <<1, k>> \in WireAt(c)
  <2>1. /\ Head(wire[c]) = wire[c][1] /\ 1 \in DOMAIN wire[c] /\ Head(wire[c]).body \in Broadcast
    BY <1>0, <1>2, TailRest, FrameShape
  <2>2. Known(Head(wire[c]).body) BY <1>2, <2>1 DEF KnownInv, Held, Given
  <2>. QED BY <1>2, <2>1, <2>2 DEF Known, WireAt
<1>3. ASSUME mailbox[c] # <<>>, Head(mailbox[c]).kind = "out"
      PROVE  \E k \in DOMAIN log : log[k] = Head(mailbox[c]).body /\ <<1, k>> \in MailAt(c)
  <2>1. /\ Head(mailbox[c]) = mailbox[c][1] /\ 1 \in DOMAIN mailbox[c]
        /\ Head(mailbox[c]).body \in Broadcast
    BY <1>0, <1>3, TailRest, MessageShape
  <2>2. Known(Head(mailbox[c]).body) BY <1>3, <2>1 DEF KnownInv, Held
  <2>. QED BY <1>3, <2>1, <2>2 DEF Known, MailAt
<1>. QED BY <1>1, <1>2, <1>3

\* A place in the log keeps its broadcast, which has no other place.
LEMMA PlaceKept ==
    ASSUME TypeInv, [Next]_vars, Distinct', NEW h \in DOMAIN log, NEW k \in DOMAIN log',
           log'[k] = log[h]
    PROVE  k = h
<1>1. CASE log' = log BY <1>1 DEF Distinct
<1>2. ASSUME NEW d \in Broadcast, log' = Append(log, d) PROVE k = h
  <2>1. h \in DOMAIN log' /\ log'[h] = log[h] BY <1>2, LogGrows
  <2>. QED BY <2>1 DEF Distinct
<1>. QED BY <1>1, <1>2, LogMoves DEF Logs

\* The stages that lose their oldest, and those it comes to.
LEMMA GotAdds ==
    ASSUME TypeInv, [Next]_vars, KnownInv, Distinct', NEW c \in Clients, NEW h \in DOMAIN log,
           phx'[c].got = Append(phx[c].got, log[h]), NEW lo \in Nat, NEW hi \in Nat, lo <= hi,
           hi < h, Rising(GotAt(c), lo, hi)
    PROVE  Rising(GotAt(c)', lo, h)
<1>1. h \in Nat /\ log[h] \in Broadcast BY LogShape
<1>2. phx[c].got \in Seq(Broadcast) BY ClientShape DEF TypeInv
<1>0. PICK n \in Nat : n = Len(phx[c].got) BY StageShape
<1>3. PICK P, Q : P = GotAt(c) /\ Q = GotAt(c)' OBVIOUS
<1>4. /\ DOMAIN phx'[c].got = 1..(n + 1) /\ phx'[c].got[n + 1] = log[h]
      /\ DOMAIN phx[c].got = 1..n /\ \A i \in 1..n : phx'[c].got[i] = phx[c].got[i]
  BY <1>0, <1>1, <1>2, <1>3, AppendLast
<1>5. ASSUME NEW i \in Nat, NEW k \in Nat, <<i, k>> \in GotAt(c)'
      PROVE  (i <= n /\ <<i + 0, k>> \in GotAt(c)) \/ (i = n + 1 /\ k = h)
  <2>1. i \in DOMAIN phx'[c].got /\ k \in DOMAIN log' /\ phx'[c].got[i] = log'[k]
    BY <1>5 DEF GotAt
  <2>2. CASE i \in 1..n
    <3>1. i + 0 \in DOMAIN phx[c].got /\ phx'[c].got[i] = phx[c].got[i + 0] BY <1>4, <2>2
    <3>. QED BY <1>5, <2>2, <3>1, PlaceStays
  <2>3. CASE i = n + 1 BY <1>4, <2>1, <2>3, PlaceKept
  <2>. QED BY <1>4, <2>1, <2>2, <2>3
<1>6. Grows(P, Q, 0, n, h) BY <1>0, <1>3, <1>5 DEF Grows
<1>7. Rising(P, lo, hi) /\ P \subseteq Nat \X Nat BY <1>0, <1>3, StageShape
<1>8. Rising(Q, lo, h) BY <1>1, <1>6, <1>7, Added
<1>. QED BY <1>0, <1>3, <1>8

LEMMA PendingAdds ==
    ASSUME TypeInv, [Next]_vars, KnownInv, Distinct', NEW c \in Clients, NEW h \in DOMAIN log,
           phx'[c].pending = Append(phx[c].pending, log[h]), NEW lo \in Nat, NEW hi \in Nat,
           lo <= hi, hi < h, Rising(PendingAt(c), lo, hi)
    PROVE  Rising(PendingAt(c)', lo, h)
<1>1. h \in Nat /\ log[h] \in Broadcast BY LogShape
<1>2. phx[c].pending \in Seq(Broadcast) BY ClientShape DEF TypeInv
<1>0. PICK n \in Nat : n = Len(phx[c].pending) BY StageShape
<1>3. PICK P, Q : P = PendingAt(c) /\ Q = PendingAt(c)' OBVIOUS
<1>4. /\ DOMAIN phx'[c].pending = 1..(n + 1) /\ phx'[c].pending[n + 1] = log[h]
      /\ DOMAIN phx[c].pending = 1..n
      /\ \A i \in 1..n : phx'[c].pending[i] = phx[c].pending[i]
  BY <1>0, <1>1, <1>2, <1>3, AppendLast
<1>5. ASSUME NEW i \in Nat, NEW k \in Nat, <<i, k>> \in PendingAt(c)'
      PROVE  (i <= n /\ <<i + 0, k>> \in PendingAt(c)) \/ (i = n + 1 /\ k = h)
  <2>1. i \in DOMAIN phx'[c].pending /\ k \in DOMAIN log' /\ phx'[c].pending[i] = log'[k]
    BY <1>5 DEF PendingAt
  <2>2. CASE i \in 1..n
    <3>1. i + 0 \in DOMAIN phx[c].pending /\ phx'[c].pending[i] = phx[c].pending[i + 0]
      BY <1>4, <2>2
    <3>. QED BY <1>5, <2>2, <3>1, PlaceStays
  <2>3. CASE i = n + 1 BY <1>4, <2>1, <2>3, PlaceKept
  <2>. QED BY <1>4, <2>1, <2>2, <2>3
<1>6. Grows(P, Q, 0, n, h) BY <1>0, <1>3, <1>5 DEF Grows
<1>7. Rising(P, lo, hi) /\ P \subseteq Nat \X Nat BY <1>0, <1>3, StageShape
<1>8. Rising(Q, lo, h) BY <1>1, <1>6, <1>7, Added
<1>. QED BY <1>0, <1>3, <1>8

LEMMA WireAdds ==
    ASSUME TypeInv, [Next]_vars, KnownInv, Distinct', NEW c \in Clients, NEW h \in DOMAIN log,
           NEW f \in Frame, wire'[c] = Append(wire[c], f), f.kind = "broadcast", f.body = log[h],
           NEW lo \in Nat, NEW hi \in Nat, lo <= hi, hi < h, Rising(WireAt(c), lo, hi)
    PROVE  Rising(WireAt(c)', lo, h)
<1>1. h \in Nat BY LogShape
<1>2. wire[c] \in Seq(Frame) BY ClientShape DEF TypeInv
<1>0. PICK n \in Nat : n = Len(wire[c]) BY StageShape
<1>3. PICK P, Q : P = WireAt(c) /\ Q = WireAt(c)' OBVIOUS
<1>4. /\ DOMAIN wire'[c] = 1..(n + 1) /\ wire'[c][n + 1] = f
      /\ DOMAIN wire[c] = 1..n /\ \A i \in 1..n : wire'[c][i] = wire[c][i]
  BY <1>0, <1>2, <1>3, AppendLast
<1>5. ASSUME NEW i \in Nat, NEW k \in Nat, <<i, k>> \in WireAt(c)'
      PROVE  (i <= n /\ <<i + 0, k>> \in WireAt(c)) \/ (i = n + 1 /\ k = h)
  <2>1. i \in DOMAIN wire'[c] /\ k \in DOMAIN log' /\ wire'[c][i].body = log'[k]
    BY <1>5 DEF WireAt
  <2>2. CASE i \in 1..n
    <3>1. i + 0 \in DOMAIN wire[c] /\ wire'[c][i] = wire[c][i + 0] BY <1>4, <2>2
    <3>. QED BY <1>5, <2>2, <3>1, PlaceStays
  <2>3. CASE i = n + 1 BY <1>4, <2>1, <2>3, PlaceKept
  <2>. QED BY <1>4, <2>1, <2>2, <2>3
<1>6. Grows(P, Q, 0, n, h) BY <1>0, <1>3, <1>5 DEF Grows
<1>7. Rising(P, lo, hi) /\ P \subseteq Nat \X Nat BY <1>0, <1>3, StageShape
<1>8. Rising(Q, lo, h) BY <1>1, <1>6, <1>7, Added
<1>. QED BY <1>0, <1>3, <1>8

LEMMA PendingDrops ==
    ASSUME TypeInv, [Next]_vars, KnownInv, Distinct', NEW c \in Clients, phx[c].pending # <<>>,
           phx'[c].pending = Tail(phx[c].pending), NEW h \in Nat, <<1, h>> \in PendingAt(c),
           NEW lo \in Nat, NEW hi \in Nat, Rising(PendingAt(c), lo, hi)
    PROVE  lo < h /\ h <= hi /\ Rising(PendingAt(c)', h, hi)
<1>1. phx[c].pending \in Seq(Broadcast) BY ClientShape DEF TypeInv
<1>2. PICK P, Q : P = PendingAt(c) /\ Q = PendingAt(c)' OBVIOUS
<1>3. ASSUME NEW i \in Nat, NEW k \in Nat, <<i, k>> \in PendingAt(c)'
      PROVE  1 <= i /\ <<i + 1, k>> \in PendingAt(c)
  <2>1. i \in DOMAIN phx'[c].pending BY <1>3 DEF PendingAt
  <2>2. 1 <= i /\ i + 1 \in DOMAIN phx[c].pending /\ phx'[c].pending[i] = phx[c].pending[i + 1]
    BY <1>1, <2>1, TailRest
  <2>. QED BY <1>3, <2>2, PlaceStays
<1>4. Drops(P, Q, h) /\ Rising(P, lo, hi) BY <1>2, <1>3 DEF Drops
<1>5. lo < h /\ h <= hi /\ Rising(Q, h, hi) BY <1>4, Dropped
<1>. QED BY <1>2, <1>5

LEMMA WireDrops ==
    ASSUME TypeInv, [Next]_vars, KnownInv, Distinct', NEW c \in Clients, wire[c] # <<>>,
           wire'[c] \in {Tail(wire[c]), <<>>}, NEW h \in Nat, <<1, h>> \in WireAt(c),
           NEW lo \in Nat, NEW hi \in Nat, Rising(WireAt(c), lo, hi)
    PROVE  lo < h /\ h <= hi /\ Rising(WireAt(c)', h, hi)
<1>1. wire[c] \in Seq(Frame) BY ClientShape DEF TypeInv
<1>2. PICK P, Q : P = WireAt(c) /\ Q = WireAt(c)' OBVIOUS
<1>3. ASSUME NEW i \in Nat, NEW k \in Nat, <<i, k>> \in WireAt(c)'
      PROVE  1 <= i /\ <<i + 1, k>> \in WireAt(c)
  <2>1. i \in DOMAIN wire'[c] BY <1>3 DEF WireAt
  <2>2. wire'[c] = Tail(wire[c]) BY <2>1, EmptySeq
  <2>3. 1 <= i /\ i + 1 \in DOMAIN wire[c] /\ wire'[c][i] = wire[c][i + 1]
    BY <1>1, <2>1, <2>2, TailRest
  <2>. QED BY <1>3, <2>3, PlaceStays
<1>4. Drops(P, Q, h) /\ Rising(P, lo, hi) BY <1>2, <1>3 DEF Drops
<1>5. lo < h /\ h <= hi /\ Rising(Q, h, hi) BY <1>4, Dropped
<1>. QED BY <1>2, <1>5

LEMMA MailDrops ==
    ASSUME TypeInv, [Next]_vars, KnownInv, Distinct', NEW c \in Clients, mailbox[c] # <<>>,
           mailbox'[c] = Tail(mailbox[c]), NEW h \in Nat, <<1, h>> \in MailAt(c),
           NEW lo \in Nat, NEW hi \in Nat, Rising(MailAt(c), lo, hi)
    PROVE  lo < h /\ h <= hi /\ Rising(MailAt(c)', h, hi)
<1>1. mailbox[c] \in Seq(Message) BY ClientShape DEF TypeInv
<1>2. PICK P, Q : P = MailAt(c) /\ Q = MailAt(c)' OBVIOUS
<1>3. ASSUME NEW i \in Nat, NEW k \in Nat, <<i, k>> \in MailAt(c)'
      PROVE  1 <= i /\ <<i + 1, k>> \in MailAt(c)
  <2>1. i \in DOMAIN mailbox'[c] BY <1>3 DEF MailAt
  <2>2. 1 <= i /\ i + 1 \in DOMAIN mailbox[c] /\ mailbox'[c][i] = mailbox[c][i + 1]
    BY <1>1, <2>1, TailRest
  <2>. QED BY <1>3, <2>2, PlaceStays
<1>4. Drops(P, Q, h) /\ Rising(P, lo, hi) BY <1>2, <1>3 DEF Drops
<1>5. lo < h /\ h <= hi /\ Rising(Q, h, hi) BY <1>4, Dropped
<1>. QED BY <1>2, <1>5

\* handle_out: what waits for the channel goes into the socket.
LEMMA PushedOn ==
    ASSUME TypeInv, [Next]_vars, AirInv, KnownInv, Distinct', NEW c \in Clients, Ordered(c),
           NEW f \in Frame, wire'[c] = Append(wire[c], f), Broadcasts(c, f)
    PROVE  Ordered(c)'
<1>1. PICK a \in Nat, b \in Nat, d \in Nat :
            /\ a <= b /\ b <= d /\ d <= Dispatched
            /\ Rising(GotAt(c), 0, a) /\ Rising(PendingAt(c), a, b)
            /\ Rising(WireAt(c), b, d) /\ Rising(MailAt(c), d, Dispatched)
  BY DEF Ordered
<1>2. /\ mailbox[c] # <<>> /\ Head(mailbox[c]).kind = "out" /\ UNCHANGED <<phx, air, log>>
      /\ mailbox'[c] = Tail(mailbox[c]) /\ f.kind = "broadcast"
      /\ f.body = Head(mailbox[c]).body
  BY DEF Broadcasts, HandleOut, Handles, Handled, Message_, TypeInv, TypeOK
<1>3. PICK h \in DOMAIN log : log[h] = f.body /\ <<1, h>> \in MailAt(c) BY <1>2, HeadPlaces
<1>4. PICK hi \in Nat : hi = Dispatched /\ hi = Dispatched'
  <2>1. Dispatched \in Nat BY AirShape, LogShape DEF AirInv, Dispatched
  <2>2. Dispatched' = Dispatched BY <1>2 DEF Dispatched
  <2>. QED BY <2>1, <2>2
<1>5. h \in Nat BY LogShape
<1>6. d < h /\ h <= hi /\ Rising(MailAt(c)', h, hi) BY <1>1, <1>2, <1>3, <1>4, <1>5, MailDrops
<1>7. Rising(WireAt(c)', b, h) BY <1>1, <1>2, <1>3, <1>6, WireAdds
<1>8. Rising(GotAt(c)', 0, a) BY <1>1, <1>2, GotStays
<1>9. Rising(PendingAt(c)', a, b) BY <1>1, <1>2, PendingStays
<1>10. b <= h BY <1>1, <1>5, <1>6
<1>. QED BY <1>1, <1>4, <1>5, <1>6, <1>7, <1>8, <1>9, <1>10, MarksKept

\* A client takes a broadcast from its socket.
LEMMA TakenOn ==
    ASSUME TypeInv, [Next]_vars, AirInv, KnownInv, Distinct', NEW c \in Clients, Ordered(c),
           wire[c] # <<>>, Head(wire[c]).kind = "broadcast", wire'[c] \in {Tail(wire[c]), <<>>},
           \/ /\ phx'[c].pending = Append(phx[c].pending, Head(wire[c]).body)
              /\ phx'[c].got = phx[c].got
           \/ /\ phx'[c].got = Append(phx[c].got, Head(wire[c]).body)
              /\ phx'[c].pending = phx[c].pending /\ phx[c].pending = <<>>
    PROVE  Ordered(c)'
<1>1. PICK a \in Nat, b \in Nat, d \in Nat :
            /\ a <= b /\ b <= d /\ d <= Dispatched
            /\ Rising(GotAt(c), 0, a) /\ Rising(PendingAt(c), a, b)
            /\ Rising(WireAt(c), b, d) /\ Rising(MailAt(c), d, Dispatched)
  BY DEF Ordered
<1>2. PICK h \in DOMAIN log : log[h] = Head(wire[c]).body /\ <<1, h>> \in WireAt(c)
  BY HeadPlaces
<1>3. h \in Nat /\ d <= Dispatched'
  <2>1. Dispatched \in Nat BY AirShape, LogShape DEF AirInv, Dispatched
  <2>. QED BY <1>1, <2>1, AirStep, LogShape
<1>4. b < h /\ h <= d /\ Rising(WireAt(c)', h, d) BY <1>1, <1>2, <1>3, WireDrops
<1>5. Rising(MailAt(c)', d, Dispatched') BY <1>1, MailStays
<1>6. CASE phx'[c].pending = Append(phx[c].pending, log[h]) /\ phx'[c].got = phx[c].got
  <2>1. Rising(PendingAt(c)', a, h) BY <1>1, <1>4, <1>6, PendingAdds
  <2>2. Rising(GotAt(c)', 0, a) BY <1>1, <1>6, GotStays
  <2>3. a <= h BY <1>1, <1>3, <1>4
  <2>. QED BY <1>1, <1>3, <1>4, <1>5, <2>1, <2>2, <2>3, MarksKept
<1>7. CASE /\ phx'[c].got = Append(phx[c].got, log[h])
           /\ phx'[c].pending = phx[c].pending /\ phx[c].pending = <<>>
  <2>1. a < h BY <1>1, <1>3, <1>4
  <2>2. Rising(GotAt(c)', 0, h) BY <1>1, <1>7, <2>1, GotAdds
  <2>3. PendingAt(c)' = {} BY <1>7, EmptySeq DEF PendingAt
  <2>4. Rising(PendingAt(c)', h, h) BY <2>3 DEF Rising
  <2>. QED BY <1>1, <1>3, <1>4, <1>5, <2>2, <2>4, MarksKept
<1>. QED BY <1>2, <1>6, <1>7

\* A client is given the oldest broadcast it keeps.
LEMMA PoppedOn ==
    ASSUME TypeInv, [Next]_vars, AirInv, KnownInv, Distinct', NEW c \in Clients, Ordered(c),
           phx[c].pending # <<>>, phx'[c].pending = Tail(phx[c].pending),
           phx'[c].got = Append(phx[c].got, Head(phx[c].pending)), UNCHANGED wire
    PROVE  Ordered(c)'
<1>1. PICK a \in Nat, b \in Nat, d \in Nat :
            /\ a <= b /\ b <= d /\ d <= Dispatched
            /\ Rising(GotAt(c), 0, a) /\ Rising(PendingAt(c), a, b)
            /\ Rising(WireAt(c), b, d) /\ Rising(MailAt(c), d, Dispatched)
  BY DEF Ordered
<1>2. PICK h \in DOMAIN log : log[h] = Head(phx[c].pending) /\ <<1, h>> \in PendingAt(c)
  BY HeadPlaces
<1>3. h \in Nat /\ d <= Dispatched'
  <2>1. Dispatched \in Nat BY AirShape, LogShape DEF AirInv, Dispatched
  <2>. QED BY <1>1, <2>1, AirStep, LogShape
<1>4. a < h /\ h <= b /\ Rising(PendingAt(c)', h, b) BY <1>1, <1>2, <1>3, PendingDrops
<1>5. Rising(MailAt(c)', d, Dispatched') BY <1>1, MailStays
<1>6. Rising(GotAt(c)', 0, h) BY <1>1, <1>2, <1>4, GotAdds
<1>7. \A f \in Frame : wire'[c] # Append(wire[c], f)
  <2>1. wire[c] \in Seq(Frame) /\ wire'[c] = wire[c] BY ClientShape DEF TypeInv
  <2>2. \A f \in Frame : Len(Append(wire[c], f)) = Len(wire[c]) + 1 BY <2>1
  <2>3. Len(wire[c]) \in Nat BY <2>1
  <2>. QED BY <2>1, <2>2, <2>3
<1>8. Rising(WireAt(c)', b, d) BY <1>1, <1>7, WireStays
<1>. QED BY <1>1, <1>3, <1>4, <1>5, <1>6, <1>8, MarksKept

LEMMA OrderedStep ==
    TypeInv /\ AirInv /\ KnownInv /\ OrderedInv /\ Distinct' /\ [Next]_vars => OrderedInv'
<1>. SUFFICES ASSUME TypeInv, AirInv, KnownInv, OrderedInv, Distinct', [Next]_vars,
                     NEW c \in Clients
              PROVE  Ordered(c)'
  BY DEF OrderedInv
<1>1. Ordered(c) /\ ClientMove(c) BY ClientMoves DEF OrderedInv
<1>2. ASSUME NEW f \in Frame, wire'[c] = Append(wire[c], f), Broadcasts(c, f) PROVE Ordered(c)'
  BY <1>1, <1>2, PushedOn
<1>3. CASE /\ wire[c] # <<>> /\ Head(wire[c]).kind = "broadcast"
           /\ wire'[c] \in {Tail(wire[c]), <<>>} /\ UNCHANGED mailbox
           /\ \/ /\ phx'[c].pending = Append(phx[c].pending, Head(wire[c]).body)
                 /\ phx'[c].got = phx[c].got
              \/ /\ phx'[c].got = Append(phx[c].got, Head(wire[c]).body)
                 /\ phx'[c].pending = phx[c].pending /\ phx[c].pending = <<>>
  BY <1>1, <1>3, TakenOn
<1>4. CASE /\ phx[c].pending # <<>> /\ phx'[c].pending = Tail(phx[c].pending)
           /\ phx'[c].got = Append(phx[c].got, Head(phx[c].pending)) /\ UNCHANGED <<wire, mailbox>>
  BY <1>1, <1>4, PoppedOn
<1>5. ASSUME phx'[c].pending = phx[c].pending, phx'[c].got = phx[c].got,
             \A f \in Frame : wire'[c] = Append(wire[c], f) => ~Broadcasts(c, f)
      PROVE  Ordered(c)'
  <2>1. PICK a \in Nat, b \in Nat, d \in Nat :
              /\ a <= b /\ b <= d /\ d <= Dispatched
              /\ Rising(GotAt(c), 0, a) /\ Rising(PendingAt(c), a, b)
              /\ Rising(WireAt(c), b, d) /\ Rising(MailAt(c), d, Dispatched)
    BY <1>1 DEF Ordered
  <2>2. d <= Dispatched'
    <3>1. Dispatched \in Nat BY AirShape, LogShape DEF AirInv, Dispatched
    <3>. QED BY <2>1, <3>1, AirStep
  <2>3. Rising(GotAt(c)', 0, a) BY <1>5, <2>1, GotStays
  <2>4. Rising(PendingAt(c)', a, b) BY <1>5, <2>1, PendingStays
  <2>5. Rising(WireAt(c)', b, d) BY <1>5, <2>1, WireStays
  <2>6. Rising(MailAt(c)', d, Dispatched') BY <2>1, MailStays
  <2>. QED BY <2>1, <2>2, <2>3, <2>4, <2>5, <2>6, MarksKept
<1>. QED BY <1>1, <1>2, <1>3, <1>4, <1>5 DEF ClientMove
-----------------------------------------------------------------------------
(* The order of deliveries.                                                 *)
DeliveryInv == AirInv /\ KnownInv /\ OrderedInv

LEMMA DeliveryStep ==
    /\ TypeInv /\ NewsInv /\ HonestInv /\ OnceInv /\ DeliveryInv /\ [Next]_vars
    => (OnceInv /\ DeliveryInv)'
<1>. SUFFICES ASSUME TypeInv, NewsInv, HonestInv, OnceInv, DeliveryInv, [Next]_vars
              PROVE  (OnceInv /\ DeliveryInv)'
  OBVIOUS
<1>1. OnceInv' BY OnceStep
<1>2. AirInv' BY AirStep DEF DeliveryInv
<1>3. KnownInv' BY KnownStep DEF DeliveryInv
<1>4. Distinct' BY <1>1 DEF OnceInv
<1>5. OrderedInv' BY <1>4, OrderedStep DEF DeliveryInv
<1>. QED BY <1>1, <1>2, <1>3, <1>5 DEF DeliveryInv

\* Distinct broadcasts have one place each in the log, so that what a client has
\* been given, in its order, has rising places there.
LEMMA OrderedGives ==
    ASSUME TypeInv, InOrder, Distinct, KnownInv, OrderedInv
    PROVE  OnceInOrder
<1>. SUFFICES ASSUME NEW c \in Clients, NEW i \in DOMAIN phx[c].got, NEW j \in DOMAIN phx[c].got,
                     i < j
              PROVE  Position(phx[c].got[i]) < Position(phx[c].got[j])
  BY DEF OnceInOrder
<1>1. PICK a \in Nat : Rising(GotAt(c), 0, a) BY DEF OrderedInv, Ordered
<1>2. ASSUME NEW n \in DOMAIN phx[c].got
      PROVE  /\ Position(phx[c].got[n]) \in DOMAIN log /\ n \in Nat
             /\ <<n, Position(phx[c].got[n])>> \in GotAt(c)
  <2>1. phx[c].got \in Seq(Broadcast) /\ phx[c].got[n] \in Broadcast BY ClientShape DEF TypeInv
  <2>2. PICK k \in DOMAIN log : log[k] = phx[c].got[n]
    BY <2>1 DEF KnownInv, Held, Given, Known
  <2>3. Position(phx[c].got[n]) \in DOMAIN log /\ log[Position(phx[c].got[n])] = phx[c].got[n]
    BY <2>2 DEF Position
  <2>. QED BY <2>1, <2>3 DEF GotAt
<1>3. DOMAIN log \subseteq Nat BY LogShape
<1>4. PICK x \in Nat, y \in Nat : x = Position(phx[c].got[i]) /\ y = Position(phx[c].got[j])
  BY <1>2, <1>3
<1>5. <<i, x>> \in GotAt(c) /\ <<j, y>> \in GotAt(c) /\ i \in Nat /\ j \in Nat BY <1>2, <1>4
<1>6. x < y BY <1>1, <1>5 DEF Rising
<1>. QED BY <1>4, <1>6

\* A seat's commands are relayed in the order of their numbers and none twice,
\* and a client is given the broadcasts of its session in the order they were
\* made and none twice, through PubSub, its channel's mailbox, its socket and
\* what it has kept while it waited for a reply.
THEOREM OnceInOrderHolds == Spec => []OnceInOrder
<1>1. Init => TypeInv /\ OrderInv /\ NewsInv /\ HonestInv /\ OnceInv /\ DeliveryInv
  <2>1. Init => OrderInv BY EmptySeq DEF Init, OrderInv, NumbersBound, InOrder
  <2>. QED BY <2>1, InitTypes, InitNews, InitHonest, InitOrdered DEF DeliveryInv
<1>2. /\ TypeInv /\ OrderInv /\ NewsInv /\ HonestInv /\ OnceInv /\ DeliveryInv /\ [Next]_vars
      => (TypeInv /\ OrderInv /\ NewsInv /\ HonestInv /\ OnceInv /\ DeliveryInv)'
  BY TypeStep, OrderStep, NewsStep, HonestStep, DeliveryStep
<1>3. TypeInv /\ OrderInv /\ OnceInv /\ DeliveryInv => OnceInOrder
  BY OrderedGives DEF OrderInv, OnceInv, DeliveryInv
<1>. QED BY <1>1, <1>2, <1>3, PTL DEF Spec
=============================================================================
