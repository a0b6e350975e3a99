-------------------------------- MODULE Rooms --------------------------------
(***************************************************************************)
(* The life of one voice room: Burble.Rooms.RoomManager starts the room     *)
(* process on demand, Burble.Rooms.Room keeps the participants in one       *)
(* mailbox and stops when idle, and the channel process of each connection  *)
(* (BurbleWeb.RoomChannel) joins, changes its voice state and leaves.       *)
(*                                                                          *)
(* Rooms do not share state, so one room is modelled, through its           *)
(* successive processes 1, 2, ...  Callers and the room run concurrently: a *)
(* call is sent in one step and served in another.  Finding a process in    *)
(* the registry and sending to it is one step, because a call to a process  *)
(* that stops in between fails like a call that is queued when it stops.    *)
(***************************************************************************)
EXTENDS Integers, Sequences, FiniteSets, Functions

CONSTANTS
    Conns,          \* channel processes; each serves one connection
    Users,          \* participants
    UserOf,         \* the user of each connection
    VoiceStates,    \* voice states a client may set
    Connected,      \* the voice state of a new participant
    Capacity,       \* max_participants
    Disturbances,   \* which of "room_crash", "call_timeout", "join_crash", "kick" occur
    MaxBoots,       \* bound: room processes started
    MaxAsks,        \* bound: voice changes, scoped sends and kicks asked for
    NoConn, NoUser

ASSUME RoomAssumption ==
    /\ UserOf \in [Conns -> Users]
    /\ Connected \in VoiceStates
    /\ Capacity \in Nat \ {0} /\ MaxBoots \in Nat \ {0} /\ MaxAsks \in Nat
    /\ Disturbances \subseteq {"room_crash", "call_timeout", "join_crash", "kick"}
    /\ NoConn \notin Conns /\ NoUser \notin Users

VARIABLES
    room,       \* the registered room process, 0 for none
    boots,      \* room processes started so far
    restarting, \* is the supervisor about to restart a crashed room?
    people,     \* participants: a function from users to voice states
    armed,      \* is the idle timer running?
    inbox,      \* the mailbox of the room process
    at,         \* where each channel process is
    asked,      \* optional requests made so far
    sent,       \* history: the scoped sends that ran
    departed    \* history: users whose leave was answered and who are not back

vars == <<room, boots, restarting, people, armed, inbox, at, asked, sent, departed>>
-----------------------------------------------------------------------------
Stages == {"out",       \* not connected yet
           "boot",      \* found no room and is about to start one
           "enter",     \* is about to call Room.join
           "joining",   \* waits for Room.join
           "admitted",  \* was admitted; the rest of join/3 is still to run
           "in",        \* joined
           "voicing",   \* waits for Room.set_voice_state
           "exit",      \* runs terminate/2
           "leaving",   \* waits for Room.leave
           "gone",      \* ended after having joined
           "refused",   \* its join was answered with an error
           "beaten",    \* its join failed because another caller started the room
           "failed"}    \* crashed in join/3

Waiting == {"joining", "voicing", "leaving"}

Message == [kind : {"join", "leave", "voice", "send", "idle"},
            user : Users \cup {NoUser}, peer : Users \cup {NoUser},
            state : VoiceStates, conn : Conns \cup {NoConn}]
Request == {m \in Message : /\ m.kind # "idle" => m.user \in Users
                            /\ m.kind = "send" => m.peer \in Users}

Ask(kind, user, peer, state, conn) ==
    inbox' = Append(inbox, [kind |-> kind, user |-> user, peer |-> peer,
                            state |-> state, conn |-> conn])

Listed(u) == u \in DOMAIN people
Empty == DOMAIN people = {}
Nobody == [u \in {} |-> Connected]
With(user) == [u \in DOMAIN people \cup {user} |-> IF u = user THEN Connected ELSE people[u]]
Without(u) == Restrict(people, DOMAIN people \ {u})

Init ==
    /\ room = 0 /\ boots = 0 /\ restarting = FALSE
    /\ people = Nobody /\ armed = FALSE /\ inbox = <<>>
    /\ at = [c \in Conns |-> "out"]
    /\ asked = 0 /\ sent = <<>> /\ departed = {}
-----------------------------------------------------------------------------
(* The room process comes and goes.                                         *)

\* Slips: a restart leaves the crashed process registered; a room is started
\* without its idle timer.
SlipRegistered ==
    /\ room' = boots /\ boots' = boots + 1
    /\ people' = Nobody /\ armed' = TRUE /\ inbox' = <<>>

SlipBoot ==
    /\ room' = boots + 1 /\ boots' = boots + 1
    /\ people' = Nobody /\ armed' = FALSE /\ inbox' = <<>>

\* Room.init/1 in a new process.
Boot ==
    /\ room' = boots + 1 /\ boots' = boots + 1
    /\ people' = Nobody /\ armed' = TRUE /\ inbox' = <<>>

\* The room process is gone: the calls that wait for it exit.  A crash in
\* join/3 ends the channel, one in handle_in/3 takes it to terminate/2, one in
\* terminate/2 ends it.
Dropped ==
    [c \in Conns |->
        IF \E i \in DOMAIN inbox : inbox[i].conn = c
        THEN CASE at[c] = "joining" -> "failed"
               [] at[c] = "voicing" -> "exit"
               [] at[c] = "leaving" -> "gone"
               [] OTHER -> at[c]
        ELSE at[c]]

\* The room crashes; until its supervisor restarts it none is registered.
RoomCrash ==
    /\ "room_crash" \in Disturbances
    /\ room # 0 /\ boots < MaxBoots
    /\ room' = 0 /\ people' = Nobody /\ armed' = FALSE /\ inbox' = <<>>
    /\ at' = Dropped /\ restarting' = TRUE
    /\ UNCHANGED <<boots, asked, sent, departed>>

\* The supervisor restarts it (restart: :transient), unless a caller has started
\* another one in between.
Restart ==
    /\ restarting /\ restarting' = FALSE
    /\ \/ room = 0 /\ boots < MaxBoots /\ Boot
       \/ room # 0 /\ UNCHANGED <<room, boots, people, armed, inbox>>
    /\ UNCHANGED <<at, asked, sent, departed>>
-----------------------------------------------------------------------------
(* Joining: RoomManager.join/4, called from RoomChannel.join/3.             *)

\* ensure_room/2 looks the room up.
EnsureRoom(c) ==
    /\ at[c] = "out"
    /\ at' = [at EXCEPT ![c] = IF room = 0 THEN "boot" ELSE "enter"]
    /\ UNCHANGED <<room, boots, restarting, people, armed, inbox, asked, sent, departed>>

\* start_room/2: the supervisor starts the room, unless it runs by now.
StartRoom(c) ==
    /\ at[c] = "boot"
    /\ \/ /\ room = 0 /\ boots < MaxBoots
          /\ Boot
          /\ at' = [at EXCEPT ![c] = "enter"]
       \/ /\ room # 0
          /\ at' = [at EXCEPT ![c] = "beaten"]
          /\ UNCHANGED <<room, boots, people, armed, inbox>>
    /\ UNCHANGED <<restarting, asked, sent, departed>>

\* Room.join/3, which looks the room up again.
AskJoin(c) ==
    /\ at[c] = "enter"
    /\ \/ /\ room = 0
          /\ at' = [at EXCEPT ![c] = "refused"]
          /\ UNCHANGED inbox
       \/ /\ room # 0
          /\ at' = [at EXCEPT ![c] = "joining"]
          /\ Ask("join", UserOf[c], NoUser, Connected, c)
    /\ UNCHANGED <<room, boots, restarting, people, armed, asked, sent, departed>>

\* The rest of RoomChannel.join/3 succeeds, or raises in a call to the media
\* engine; terminate/2 does not run for a channel that has not joined.
Admit(c) ==
    /\ at[c] = "admitted"
    /\ \/ at' = [at EXCEPT ![c] = "in"]
       \/ "join_crash" \in Disturbances /\ at' = [at EXCEPT ![c] = "failed"]
    /\ UNCHANGED <<room, boots, restarting, people, armed, inbox, asked, sent, departed>>
-----------------------------------------------------------------------------
(* What a joined channel, and other callers, ask of the room.               *)

\* handle_in("voice_state"): without a room the answer is ignored.
AskVoice(c, state) ==
    /\ at[c] = "in" /\ room # 0 /\ asked < MaxAsks
    /\ asked' = asked + 1
    /\ at' = [at EXCEPT ![c] = "voicing"]
    /\ Ask("voice", UserOf[c], NoUser, state, c)
    /\ UNCHANGED <<room, boots, restarting, people, armed, sent, departed>>

\* with_voice_members/4, called by the groove adapters.
AskSend(user, peer) ==
    /\ room # 0 /\ asked < MaxAsks
    /\ asked' = asked + 1
    /\ Ask("send", user, peer, Connected, NoConn)
    /\ UNCHANGED <<room, boots, restarting, people, armed, at, sent, departed>>

\* A moderator removes a listed user with Room.leave/2.
Kick(user) ==
    /\ "kick" \in Disturbances
    /\ room # 0 /\ Listed(user) /\ asked < MaxAsks
    /\ asked' = asked + 1
    /\ Ask("leave", user, NoUser, Connected, NoConn)
    /\ UNCHANGED <<room, boots, restarting, people, armed, at, sent, departed>>

\* The connection ends.
Close(c) ==
    /\ at[c] = "in"
    /\ at' = [at EXCEPT ![c] = "exit"]
    /\ UNCHANGED <<room, boots, restarting, people, armed, inbox, asked, sent, departed>>

\* terminate/2 calls Room.leave/2.
AskLeave(c) ==
    /\ at[c] = "exit"
    /\ \/ /\ room = 0
          /\ at' = [at EXCEPT ![c] = "gone"]
          /\ UNCHANGED inbox
       \/ /\ room # 0
          /\ at' = [at EXCEPT ![c] = "leaving"]
          /\ Ask("leave", UserOf[c], NoUser, Connected, c)
    /\ UNCHANGED <<room, boots, restarting, people, armed, asked, sent, departed>>

\* A caller gives up; its request stays in the mailbox.
CallTimeout(c) ==
    /\ "call_timeout" \in Disturbances
    /\ at[c] \in Waiting
    /\ at' = [at EXCEPT ![c] = CASE @ = "joining" -> "failed"
                                 [] @ = "voicing" -> "exit"
                                 [] @ = "leaving" -> "gone"]
    /\ UNCHANGED <<room, boots, restarting, people, armed, inbox, asked, sent, departed>>
-----------------------------------------------------------------------------
(* The room serves its mailbox.                                             *)

Served(kind) == room # 0 /\ inbox # <<>> /\ Head(inbox).kind = kind

\* A caller that gave up does not see the answer, whatever it waits for by now.
Answer(c, waits, stage) ==
    at' = IF c # NoConn /\ at[c] = waits THEN [at EXCEPT ![c] = stage] ELSE at

IdleQueued == \E i \in DOMAIN inbox : inbox[i].kind = "idle"

\* Slips: the capacity is passed by one; the idle timer keeps running.
SlipRoomFor(user) == ~Listed(user) /\ Cardinality(DOMAIN people) <= Capacity
SlipAdmitted(user) ==
    people' = With(user) /\ armed' = armed

RoomFor(user) == ~Listed(user) /\ Cardinality(DOMAIN people) < Capacity

Admitted(user) ==
    people' = With(user) /\ armed' = FALSE

\* {:join, ...}: refused when already joined or when the room is full.
ServeJoin ==
    LET m == Head(inbox)
    IN /\ Served("join")
       /\ inbox' = Tail(inbox)
       /\ \/ /\ RoomFor(m.user)
             /\ Admitted(m.user)
             /\ Answer(m.conn, "joining", "admitted")
             /\ departed' = departed \ {m.user}
          \/ /\ ~RoomFor(m.user)
             /\ Answer(m.conn, "joining", "refused")
             /\ UNCHANGED <<people, armed, departed>>
       /\ UNCHANGED <<room, boots, restarting, asked, sent>>

\* Slip: only a room that was never joined is stopped when idle.
SlipRemoved(user) == people' = Without(user) /\ armed' = armed

Removed(user) ==
    /\ people' = Without(user)
    /\ armed' = (armed \/ DOMAIN people = {user})

\* {:leave, ...}
ServeLeave ==
    LET m == Head(inbox)
    IN /\ Served("leave")
       /\ inbox' = Tail(inbox)
       /\ \/ /\ Listed(m.user)
             /\ Removed(m.user)
          \/ /\ ~Listed(m.user)
             /\ UNCHANGED <<people, armed>>
       /\ departed' = departed \cup {m.user}
       /\ Answer(m.conn, "leaving", "gone")
       /\ UNCHANGED <<room, boots, restarting, asked, sent>>

\* {:set_voice_state, ...}: the channel carries on whatever the answer.
ServeVoice ==
    LET m == Head(inbox)
    IN /\ Served("voice")
       /\ inbox' = Tail(inbox)
       /\ people' = IF Listed(m.user) THEN [people EXCEPT ![m.user] = m.state] ELSE people
       /\ Answer(m.conn, "voicing", "in")
       /\ UNCHANGED <<room, boots, restarting, armed, asked, sent, departed>>

\* Slip: only the sender is checked.
SlipMembers(user, peer) == Listed(user)
Members(user, peer) == Listed(user) /\ Listed(peer)

\* {:with_voice_members, ...}: the effect runs in this mailbox turn.
ServeSend ==
    LET m == Head(inbox)
    IN /\ Served("send")
       /\ inbox' = Tail(inbox)
       /\ sent' = IF Members(m.user, m.peer) THEN Append(sent, <<m.user, m.peer>>) ELSE sent
       /\ UNCHANGED <<room, boots, restarting, people, armed, at, asked, departed>>

\* The idle timer fires.
Fire ==
    /\ room # 0 /\ armed
    /\ armed' = FALSE
    /\ Ask("idle", NoUser, NoUser, Connected, NoConn)
    /\ UNCHANGED <<room, boots, restarting, people, at, asked, sent, departed>>

\* Slip: the room stops whoever is in it.
SlipMayStop == TRUE
MayStop == Empty

\* :idle_check: an empty room stops, for good.
ServeIdle ==
    /\ Served("idle")
    /\ \/ /\ MayStop
          /\ room' = 0 /\ people' = Nobody /\ armed' = FALSE /\ inbox' = <<>>
          /\ at' = Dropped
       \/ /\ ~MayStop
          /\ inbox' = Tail(inbox)
          /\ UNCHANGED <<room, people, armed, at>>
    /\ UNCHANGED <<boots, restarting, asked, sent, departed>>

Serve == ServeJoin \/ ServeLeave \/ ServeVoice \/ ServeSend \/ ServeIdle

Arrive(c) == EnsureRoom(c) \/ StartRoom(c) \/ AskJoin(c) \/ Admit(c)

Next ==
    \/ \E c \in Conns : Arrive(c)
    \/ \E c \in Conns, state \in VoiceStates : AskVoice(c, state)
    \/ \E user, peer \in Users : AskSend(user, peer)
    \/ \E user \in Users : Kick(user)
    \/ \E c \in Conns : Close(c)
    \/ \E c \in Conns : AskLeave(c)
    \/ \E c \in Conns : CallTimeout(c)
    \/ Serve
    \/ Fire
    \/ RoomCrash
    \/ Restart

Spec == Init /\ [][Next]_vars

\* A process with a message, or in the middle of a function, runs on, and a
\* timer that is not cancelled fires.  Nothing makes a connection arrive or end.
Fairness ==
    /\ WF_vars(Serve) /\ WF_vars(Fire)
    /\ \A c \in Conns : WF_vars(StartRoom(c)) /\ WF_vars(AskJoin(c)) /\ WF_vars(Admit(c))
    /\ \A c \in Conns : WF_vars(AskLeave(c))

FairSpec == Spec /\ Fairness
-----------------------------------------------------------------------------
(* Properties.                                                              *)

\* Every variable holds what the registry, the room's struct, its mailbox and
\* the channel processes may hold.
TypeOK ==
    /\ room \in {0, boots} /\ boots \in 0..MaxBoots
    /\ DOMAIN people \subseteq Users /\ \A u \in DOMAIN people : people[u] \in VoiceStates
    /\ armed \in BOOLEAN /\ restarting \in BOOLEAN
    /\ inbox \in Seq(Request)
    /\ at \in [Conns -> Stages]
    /\ asked \in 0..MaxAsks
    /\ sent \in Seq(Users \X Users)
    /\ departed \subseteq Users

Present(c) == at[c] \in {"admitted", "in", "voicing", "exit"}

\* Nobody exceeds max_participants, however joins, leaves, restarts and
\* abandoned calls interleave ({:join, ...} checks and adds in one mailbox turn).
CapacityKept == Cardinality(DOMAIN people) <= Capacity

\* Room and channels agree when nothing breaks: a channel that has joined finds
\* its user listed in a live room, and two channels never sit in the room for
\* one user (the :already_joined check, and idle stops of empty rooms only).
PresentIsListed ==
    /\ \A c \in Conns : Present(c) => room # 0 /\ Listed(UserOf[c])
    /\ \A c, d \in Conns :
          Present(c) /\ Present(d) /\ UserOf[c] = UserOf[d] => c = d

\* The idle timer never runs for a room with participants, and an empty room
\* always has it running or its message queued, so it is neither stopped under
\* its participants nor kept for ever (schedule_idle_check and cancel_idle).
IdleTimerWatches ==
    room # 0 => /\ armed => Empty
                /\ Empty => armed \/ IdleQueued

\* Once a leave is answered no later scoped send involves that user, unless the
\* user joins again (the membership check and the send share a mailbox turn in
\* {:with_voice_members, ...}).
NoSendAfterLeave ==
    [][Len(sent') > Len(sent) =>
        LET s == sent'[Len(sent')] IN s[1] \notin departed /\ s[2] \notin departed]_vars

\* A room left by every connection is stopped in the end (the idle timer that
\* the last leave starts), when no call fails.
DesertedStops ==
    (\A c \in Conns : at[c] \in {"gone", "refused", "beaten", "failed"}) ~> (room = 0)

\* An empty room is stopped or joined in the end, after crashes and abandoned
\* calls too.
EmptyEnds == (room # 0 /\ Empty) ~> (room = 0 \/ ~Empty)

\* What the documentation of ensure_room/2 and of join/4 says: the room is found
\* or created, so nobody is turned away because someone else created it.
EnsureFinds == \A c \in Conns : at[c] # "beaten"
=============================================================================
