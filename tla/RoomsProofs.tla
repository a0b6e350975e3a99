----------------------------- MODULE RoomsProofs -----------------------------
(***************************************************************************)
(* Proofs about Rooms, for any number of connections, users and voice       *)
(* states, any capacity, and every combination of disturbances.             *)
(***************************************************************************)
EXTENDS Rooms, FiniteSetTheorems, TLAPS

USE RoomAssumption

\* Why the properties hold: the types, the capacity, the idle timer, and that a
\* user whose leave was answered is not listed.
GoneUnlisted == departed \cap DOMAIN people = {}
FiniteRoom == IsFiniteSet(DOMAIN people)
RoomInv == TypeOK /\ FiniteRoom /\ CapacityKept /\ IdleTimerWatches /\ GoneUnlisted
-----------------------------------------------------------------------------
(* The operators the actions are built from.                                *)

LEMMA PeopleTypes ==
    ASSUME TypeOK, NEW u \in Users
    PROVE  /\ DOMAIN With(u) = DOMAIN people \cup {u}
           /\ DOMAIN Without(u) = DOMAIN people \ {u}
           /\ \A v \in DOMAIN With(u) : With(u)[v] \in VoiceStates
           /\ \A v \in DOMAIN Without(u) : Without(u)[v] \in VoiceStates
BY DEF TypeOK, With, Without, Restrict

LEMMA NobodyThere == DOMAIN Nobody = {} /\ IsFiniteSet({}) /\ Cardinality({}) = 0
BY FS_EmptySet DEF Nobody

LEMMA WhereTypes ==
    ASSUME TypeOK, NEW c, NEW stage \in Stages
    PROVE  /\ [at EXCEPT ![c] = stage] \in [Conns -> Stages]
           /\ Dropped \in [Conns -> Stages]
<1>1. [at EXCEPT ![c] = stage] \in [Conns -> Stages]
  BY DEF TypeOK
<1>2. ASSUME NEW d \in Conns
      PROVE  (IF \E i \in DOMAIN inbox : inbox[i].conn = d
              THEN CASE at[d] = "joining" -> "failed"
                     [] at[d] = "voicing" -> "exit"
                     [] at[d] = "leaving" -> "gone"
                     [] OTHER -> at[d]
              ELSE at[d]) \in Stages
  BY DEF TypeOK, Stages
<1>. QED BY <1>1, <1>2 DEF Dropped

LEMMA MailTypes ==
    ASSUME TypeOK, NEW kind \in {"join", "leave", "voice", "send", "idle"},
           NEW user \in Users \cup {NoUser}, NEW peer \in Users \cup {NoUser},
           NEW state \in VoiceStates, NEW conn \in Conns \cup {NoConn},
           kind # "idle" => user \in Users, kind = "send" => peer \in Users,
           Ask(kind, user, peer, state, conn)
    PROVE  /\ inbox' \in Seq(Request)
           /\ IdleQueued => IdleQueued'
           /\ kind = "idle" => IdleQueued'
<1> DEFINE m == [kind |-> kind, user |-> user, peer |-> peer, state |-> state, conn |-> conn]
<1>1. m \in Request
  BY DEF Request, Message
<1>2. inbox \in Seq(Request) /\ inbox' = Append(inbox, m)
  BY DEF TypeOK, Ask
<1>3. m.kind = kind
  OBVIOUS
<1> HIDE DEF m
<1>4. inbox' \in Seq(Request) /\ DOMAIN inbox = 1..Len(inbox)
  BY <1>1, <1>2
<1>5. /\ DOMAIN inbox' = 1..(Len(inbox) + 1) /\ inbox'[Len(inbox) + 1] = m
      /\ \A i \in 1..Len(inbox) : inbox'[i] = inbox[i]
  BY <1>1, <1>2
<1>6. IdleQueued => IdleQueued'
  BY <1>4, <1>5 DEF IdleQueued
<1>7. Len(inbox) + 1 \in DOMAIN inbox'
  BY <1>2, <1>5
<1>8. kind = "idle" => IdleQueued'
  BY <1>3, <1>5, <1>7 DEF IdleQueued
<1>. QED BY <1>4, <1>6, <1>8

\* Serving another message does not lose a queued :idle_check.
LEMMA HeadTypes ==
    ASSUME TypeOK, NEW kind, Served(kind)
    PROVE  /\ Head(inbox) \in Request /\ Tail(inbox) \in Seq(Request)
           /\ kind # "idle" /\ IdleQueued =>
                \E i \in DOMAIN Tail(inbox) : Tail(inbox)[i].kind = "idle"
<1>1. inbox \in Seq(Request) /\ inbox # <<>> /\ Head(inbox).kind = kind
  BY DEF TypeOK, Served
<1>2. Head(inbox) \in Request /\ Tail(inbox) \in Seq(Request) /\ Head(inbox) = inbox[1]
  BY <1>1
<1>3. /\ Len(inbox) \in Nat /\ Len(inbox) # 0 /\ DOMAIN inbox = 1..Len(inbox)
      /\ Len(Tail(inbox)) = Len(inbox) - 1
      /\ \A i \in 1..(Len(inbox) - 1) : Tail(inbox)[i] = inbox[i + 1]
  BY <1>1
<1>4. DOMAIN Tail(inbox) = 1..(Len(inbox) - 1)
  BY <1>2, <1>3
<1>5. ASSUME kind # "idle", IdleQueued
      PROVE  \E i \in DOMAIN Tail(inbox) : Tail(inbox)[i].kind = "idle"
  <2>1. PICK i \in DOMAIN inbox : inbox[i].kind = "idle"
    BY <1>5 DEF IdleQueued
  <2>2. i # 1
    BY <2>1, <1>1, <1>2, <1>5
  <2>3. i - 1 \in 1..(Len(inbox) - 1) /\ (i - 1) + 1 = i
    BY <2>1, <2>2, <1>3
  <2>4. Tail(inbox)[i - 1] = inbox[i]
    BY <2>3, <1>3
  <2>. QED BY <2>1, <2>3, <2>4, <1>4
<1>. QED BY <1>2, <1>5

LEMMA AnswerTypes ==
    ASSUME TypeOK, NEW c, NEW waits, NEW stage \in Stages, Answer(c, waits, stage)
    PROVE  at' \in [Conns -> Stages]
BY DEF Answer, TypeOK

-----------------------------------------------------------------------------
(* Types.                                                                   *)

LEMMA BootTypes ==
    ASSUME TypeOK, Boot, boots < MaxBoots
    PROVE  /\ room' = boots' /\ boots' \in 0..MaxBoots
           /\ DOMAIN people' = {} /\ armed' = TRUE /\ inbox' = <<>>
BY DEF TypeOK, Boot, Nobody

LEMMA ArriveTypes ==
    ASSUME TypeOK, NEW c \in Conns, Arrive(c)
    PROVE  TypeOK'
<1>1. UserOf[c] \in Users
  OBVIOUS
<1>2. CASE EnsureRoom(c)
  <2>1. at' \in [Conns -> Stages]
    BY <1>2, WhereTypes DEF EnsureRoom, Stages
  <2>. QED BY <1>2, <2>1 DEF EnsureRoom, TypeOK
<1>3. CASE StartRoom(c)
  <2>1. at' \in [Conns -> Stages]
    BY <1>3, WhereTypes DEF StartRoom, Stages
  <2>2. CASE Boot /\ boots < MaxBoots
    <3>1. inbox' \in Seq(Request)
      BY <2>2, BootTypes
    <3>. QED BY <1>3, <2>1, <2>2, <3>1, BootTypes DEF StartRoom, TypeOK
  <2>3. CASE UNCHANGED <<room, boots, people, armed, inbox>>
    BY <1>3, <2>1, <2>3 DEF StartRoom, TypeOK
  <2>. QED BY <1>3, <2>2, <2>3 DEF StartRoom
<1>4. CASE AskJoin(c)
  <2>1. at' \in [Conns -> Stages]
    BY <1>4, WhereTypes DEF AskJoin, Stages
  <2>2. CASE Ask("join", UserOf[c], NoUser, Connected, c)
    <3>1. inbox' \in Seq(Request)
      BY <1>1, <2>2, MailTypes
    <3>. QED BY <1>4, <2>1, <3>1 DEF AskJoin, TypeOK
  <2>3. CASE UNCHANGED inbox
    BY <1>4, <2>1, <2>3 DEF AskJoin, TypeOK
  <2>. QED BY <1>4, <2>2, <2>3 DEF AskJoin
<1>5. CASE Admit(c)
  <2>1. at' \in [Conns -> Stages]
    BY <1>5, WhereTypes DEF Admit, Stages
  <2>. QED BY <1>5, <2>1 DEF Admit, TypeOK
<1>. QED BY <1>2, <1>3, <1>4, <1>5 DEF Arrive

LEMMA AskTypes ==
    ASSUME TypeOK,
           \/ \E c \in Conns, state \in VoiceStates : AskVoice(c, state)
           \/ \E user, peer \in Users : AskSend(user, peer)
           \/ \E user \in Users : Kick(user)
           \/ \E c \in Conns : Close(c) \/ AskLeave(c) \/ CallTimeout(c)
           \/ Fire
    PROVE  TypeOK'
<1>1. ASSUME NEW c \in Conns, NEW state \in VoiceStates, AskVoice(c, state)
      PROVE  TypeOK'
  <2>1. inbox' \in Seq(Request)
    BY <1>1, MailTypes DEF AskVoice
  <2>2. at' \in [Conns -> Stages]
    BY <1>1, WhereTypes DEF AskVoice, Stages
  <2>. QED BY <1>1, <2>1, <2>2 DEF AskVoice, TypeOK
<1>2. ASSUME NEW user \in Users, NEW peer \in Users, AskSend(user, peer)
      PROVE  TypeOK'
  <2>1. inbox' \in Seq(Request)
    BY <1>2, MailTypes DEF AskSend
  <2>. QED BY <1>2, <2>1 DEF AskSend, TypeOK
<1>3. ASSUME NEW user \in Users, Kick(user)
      PROVE  TypeOK'
  <2>1. inbox' \in Seq(Request)
    BY <1>3, MailTypes DEF Kick
  <2>. QED BY <1>3, <2>1 DEF Kick, TypeOK
<1>4. ASSUME NEW c \in Conns, Close(c) \/ CallTimeout(c)
      PROVE  TypeOK'
  <2>1. at' \in [Conns -> Stages]
    <3>1. CASE Close(c)
      BY <3>1, WhereTypes DEF Close, Stages
    <3>2. CASE CallTimeout(c)
      BY <3>2 DEF CallTimeout, Waiting, TypeOK, Stages
    <3>. QED BY <1>4, <3>1, <3>2
  <2>. QED BY <1>4, <2>1 DEF Close, CallTimeout, TypeOK
<1>5. ASSUME NEW c \in Conns, AskLeave(c)
      PROVE  TypeOK'
  <2>1. at' \in [Conns -> Stages]
    BY <1>5, WhereTypes DEF AskLeave, Stages
  <2>2. inbox' \in Seq(Request)
    <3>1. CASE UNCHANGED inbox
      BY <3>1 DEF TypeOK
    <3>2. CASE Ask("leave", UserOf[c], NoUser, Connected, c)
      <4>1. UserOf[c] \in Users
        OBVIOUS
      <4>. QED BY <3>2, <4>1, MailTypes
    <3>. QED BY <1>5, <3>1, <3>2 DEF AskLeave
  <2>. QED BY <1>5, <2>1, <2>2 DEF AskLeave, TypeOK
<1>6. CASE Fire
  <2>1. inbox' \in Seq(Request)
    BY <1>6, MailTypes DEF Fire
  <2>. QED BY <1>6, <2>1 DEF Fire, TypeOK
<1>. QED BY <1>1, <1>2, <1>3, <1>4, <1>5, <1>6

LEMMA ServeTypes ==
    ASSUME TypeOK, Serve \/ RoomCrash \/ Restart
    PROVE  TypeOK'
<1> DEFINE m == Head(inbox)
<1>0. ASSUME NEW kind \in {"join", "leave", "voice", "send"}, Served(kind)
      PROVE  /\ m.user \in Users /\ m.state \in VoiceStates
             /\ kind = "send" => m.peer \in Users
             /\ Tail(inbox) \in Seq(Request)
  <2>1. m \in Request /\ m.kind = kind /\ Tail(inbox) \in Seq(Request)
    BY <1>0, HeadTypes DEF Served
  <2>. QED BY <2>1 DEF Request, Message
<1>1. CASE ServeJoin
  <2>1. m.user \in Users /\ Tail(inbox) \in Seq(Request)
    BY <1>1, <1>0 DEF ServeJoin
  <2>2. at' \in [Conns -> Stages]
    BY <1>1, AnswerTypes DEF ServeJoin, Stages
  <2>3. CASE Admitted(m.user) /\ departed' = departed \ {m.user}
    <3>0. /\ DOMAIN With(m.user) = DOMAIN people \cup {m.user}
          /\ \A v \in DOMAIN With(m.user) : With(m.user)[v] \in VoiceStates
      BY <2>1, PeopleTypes
    <3>1. people' = With(m.user) /\ armed' = FALSE
      BY <2>3 DEF Admitted
    <3>2. DOMAIN people' \subseteq Users /\ \A v \in DOMAIN people' : people'[v] \in VoiceStates
      BY <2>1, <3>0, <3>1 DEF TypeOK
    <3>. QED BY <1>1, <2>1, <2>2, <2>3, <3>1, <3>2 DEF ServeJoin, TypeOK
  <2>4. CASE UNCHANGED <<people, armed, departed>>
    BY <1>1, <2>1, <2>2, <2>4 DEF ServeJoin, TypeOK
  <2>. QED BY <1>1, <2>3, <2>4 DEF ServeJoin
<1>2. CASE ServeLeave
  <2>1. m.user \in Users /\ Tail(inbox) \in Seq(Request)
    BY <1>2, <1>0 DEF ServeLeave
  <2>2. at' \in [Conns -> Stages]
    BY <1>2, AnswerTypes DEF ServeLeave, Stages
  <2>3. CASE Removed(m.user)
    <3>0. /\ DOMAIN Without(m.user) = DOMAIN people \ {m.user}
          /\ \A v \in DOMAIN Without(m.user) : Without(m.user)[v] \in VoiceStates
      BY <2>1, PeopleTypes
    <3>1. people' = Without(m.user) /\ armed' \in BOOLEAN
      BY <2>3 DEF Removed, TypeOK
    <3>2. DOMAIN people' \subseteq Users /\ \A v \in DOMAIN people' : people'[v] \in VoiceStates
      BY <2>1, <3>0, <3>1 DEF TypeOK
    <3>. QED BY <1>2, <2>1, <2>2, <3>1, <3>2 DEF ServeLeave, TypeOK
  <2>4. CASE UNCHANGED <<people, armed>>
    BY <1>2, <2>1, <2>2, <2>4 DEF ServeLeave, TypeOK
  <2>. QED BY <1>2, <2>3, <2>4 DEF ServeLeave
<1>3. CASE ServeVoice
  <2>1. m.user \in Users /\ m.state \in VoiceStates /\ Tail(inbox) \in Seq(Request)
    BY <1>3, <1>0 DEF ServeVoice
  <2>2. at' \in [Conns -> Stages]
    BY <1>3, AnswerTypes DEF ServeVoice, Stages
  <2>3. DOMAIN people' = DOMAIN people /\ \A v \in DOMAIN people' : people'[v] \in VoiceStates
    BY <1>3, <2>1 DEF ServeVoice, TypeOK
  <2>. QED BY <1>3, <2>1, <2>2, <2>3 DEF ServeVoice, TypeOK
<1>4. CASE ServeSend
  <2>1. m.user \in Users /\ m.peer \in Users /\ Tail(inbox) \in Seq(Request)
    BY <1>4, <1>0 DEF ServeSend
  <2>2. sent' \in Seq(Users \X Users)
    BY <1>4, <2>1 DEF ServeSend, TypeOK
  <2>. QED BY <1>4, <2>1, <2>2 DEF ServeSend, TypeOK
<1>5. CASE ServeIdle
  <2>1. Tail(inbox) \in Seq(Request)
    BY <1>5, HeadTypes DEF ServeIdle
  <2>2. CASE inbox' = <<>>
    <3>1. inbox' \in Seq(Request) /\ DOMAIN Nobody = {}
      BY <2>2 DEF Nobody
    <3>2. at' \in [Conns -> Stages]
      BY <1>5, WhereTypes DEF ServeIdle, Stages, TypeOK
    <3>. QED BY <1>5, <2>1, <3>1, <3>2 DEF ServeIdle, TypeOK
  <2>3. CASE inbox' = Tail(inbox) /\ UNCHANGED <<room, people, armed, at>>
    BY <1>5, <2>1, <2>3 DEF ServeIdle, TypeOK
  <2>. QED BY <1>5, <2>2, <2>3 DEF ServeIdle
<1>6. CASE RoomCrash
  <2>1. at' \in [Conns -> Stages]
    BY <1>6, WhereTypes DEF RoomCrash, Stages
  <2>2. inbox' \in Seq(Request) /\ DOMAIN people' = {}
    BY <1>6, NobodyThere DEF RoomCrash
  <2>. QED BY <1>6, <2>1, <2>2 DEF RoomCrash, TypeOK
<1>7. CASE Restart
  <2>1. CASE boots < MaxBoots /\ Boot
    <3>1. inbox' \in Seq(Request)
      BY <2>1, BootTypes
    <3>. QED BY <1>7, <2>1, <3>1, BootTypes DEF Restart, TypeOK
  <2>2. CASE UNCHANGED <<room, boots, people, armed, inbox>>
    BY <1>7, <2>2 DEF Restart, TypeOK
  <2>. QED BY <1>7, <2>1, <2>2 DEF Restart
<1>. QED BY <1>1, <1>2, <1>3, <1>4, <1>5, <1>6, <1>7 DEF Serve

LEMMA StepTypes == TypeOK /\ [Next]_vars => TypeOK'
<1> SUFFICES ASSUME TypeOK, [Next]_vars PROVE TypeOK'
  OBVIOUS
<1>1. CASE UNCHANGED vars
  BY <1>1 DEF TypeOK, vars
<1>2. CASE \E c \in Conns : Arrive(c)
  BY <1>2, ArriveTypes
<1>3. CASE Serve \/ RoomCrash \/ Restart
  BY <1>3, ServeTypes
<1>4. CASE Next /\ ~(Serve \/ RoomCrash \/ Restart) /\ ~\E c \in Conns : Arrive(c)
  BY <1>4, AskTypes DEF Next
<1>. QED BY <1>1, <1>2, <1>3, <1>4
-----------------------------------------------------------------------------
(* The capacity, the idle timer and the departed users.                     *)

\* A step that leaves the participants and the timer alone, and the mailbox's
\* idle check queued.
LEMMA QuietStep ==
    ASSUME RoomInv, UNCHANGED <<room, people, armed, departed>>,
           room # 0 => (IdleQueued => IdleQueued')
    PROVE  FiniteRoom' /\ CapacityKept' /\ IdleTimerWatches' /\ GoneUnlisted'
BY DEF RoomInv, FiniteRoom, CapacityKept, IdleTimerWatches, GoneUnlisted, Empty

LEMMA BootStep ==
    ASSUME RoomInv, Boot, UNCHANGED departed
    PROVE  FiniteRoom' /\ CapacityKept' /\ IdleTimerWatches' /\ GoneUnlisted'
<1>1. DOMAIN people' = {} /\ armed'
  BY NobodyThere DEF Boot
<1>. QED BY <1>1, NobodyThere DEF FiniteRoom, CapacityKept, IdleTimerWatches, GoneUnlisted, Empty

LEMMA AskStep ==
    ASSUME RoomInv,
           \/ \E c \in Conns : Arrive(c)
           \/ \E c \in Conns, state \in VoiceStates : AskVoice(c, state)
           \/ \E user, peer \in Users : AskSend(user, peer)
           \/ \E user \in Users : Kick(user)
           \/ \E c \in Conns : Close(c)
           \/ \E c \in Conns : AskLeave(c)
           \/ \E c \in Conns : CallTimeout(c)
    PROVE  FiniteRoom' /\ CapacityKept' /\ IdleTimerWatches' /\ GoneUnlisted'
<1>0. TypeOK
  BY DEF RoomInv
<1>1. CASE inbox' = inbox /\ UNCHANGED <<room, people, armed, departed>>
  BY <1>1, QuietStep DEF IdleQueued
<1>2. ASSUME NEW c \in Conns, Arrive(c)
      PROVE  FiniteRoom' /\ CapacityKept' /\ IdleTimerWatches' /\ GoneUnlisted'
  <2>1. CASE EnsureRoom(c) \/ Admit(c)
    BY <1>1, <2>1 DEF EnsureRoom, Admit
  <2>2. CASE StartRoom(c)
    BY <1>1, <2>2, BootStep DEF StartRoom
  <2>3. CASE AskJoin(c)
    <3>1. CASE Ask("join", UserOf[c], NoUser, Connected, c)
      <4>1. UserOf[c] \in Users
        OBVIOUS
      <4>2. IdleQueued => IdleQueued'
        BY <1>0, <3>1, <4>1, MailTypes
      <4>. QED BY <2>3, <4>2, QuietStep DEF AskJoin
    <3>. QED BY <1>1, <2>3, <3>1 DEF AskJoin
  <2>. QED BY <1>2, <2>1, <2>2, <2>3 DEF Arrive
<1>3. ASSUME NEW c \in Conns, NEW state \in VoiceStates, AskVoice(c, state)
      PROVE  FiniteRoom' /\ CapacityKept' /\ IdleTimerWatches' /\ GoneUnlisted'
  <2>1. UserOf[c] \in Users
    OBVIOUS
  <2>2. IdleQueued => IdleQueued'
    BY <1>0, <1>3, <2>1, MailTypes DEF AskVoice
  <2>. QED BY <1>3, <2>2, QuietStep DEF AskVoice
<1>4. ASSUME NEW user \in Users, NEW peer \in Users, AskSend(user, peer)
      PROVE  FiniteRoom' /\ CapacityKept' /\ IdleTimerWatches' /\ GoneUnlisted'
  <2>1. IdleQueued => IdleQueued'
    BY <1>0, <1>4, MailTypes DEF AskSend
  <2>. QED BY <1>4, <2>1, QuietStep DEF AskSend
<1>5. ASSUME NEW user \in Users, Kick(user)
      PROVE  FiniteRoom' /\ CapacityKept' /\ IdleTimerWatches' /\ GoneUnlisted'
  <2>1. IdleQueued => IdleQueued'
    BY <1>0, <1>5, MailTypes DEF Kick
  <2>. QED BY <1>5, <2>1, QuietStep DEF Kick
<1>6. ASSUME NEW c \in Conns, AskLeave(c)
      PROVE  FiniteRoom' /\ CapacityKept' /\ IdleTimerWatches' /\ GoneUnlisted'
  <2>1. CASE Ask("leave", UserOf[c], NoUser, Connected, c)
    <3>1. UserOf[c] \in Users
      OBVIOUS
    <3>2. IdleQueued => IdleQueued'
      BY <1>0, <2>1, <3>1, MailTypes
    <3>. QED BY <1>6, <3>2, QuietStep DEF AskLeave
  <2>. QED BY <1>1, <1>6, <2>1 DEF AskLeave
<1>7. ASSUME NEW c \in Conns, Close(c) \/ CallTimeout(c)
      PROVE  FiniteRoom' /\ CapacityKept' /\ IdleTimerWatches' /\ GoneUnlisted'
  BY <1>1, <1>7 DEF Close, CallTimeout
<1>. QED BY <1>2, <1>3, <1>4, <1>5, <1>6, <1>7

LEMMA FireStep ==
    ASSUME RoomInv, Fire
    PROVE  FiniteRoom' /\ CapacityKept' /\ IdleTimerWatches' /\ GoneUnlisted'
<1>1. TypeOK
  BY DEF RoomInv
<1>2. IdleQueued' /\ ~armed'
  BY <1>1, MailTypes DEF Fire
<1>. QED BY <1>2 DEF Fire, RoomInv, FiniteRoom, CapacityKept, IdleTimerWatches, GoneUnlisted, Empty

LEMMA ServeStep ==
    ASSUME RoomInv, Serve
    PROVE  FiniteRoom' /\ CapacityKept' /\ IdleTimerWatches' /\ GoneUnlisted'
<1> DEFINE m == Head(inbox)
           u == Head(inbox).user
<1>0. TypeOK /\ FiniteRoom /\ CapacityKept /\ IdleTimerWatches /\ GoneUnlisted
  BY DEF RoomInv
<1>1. ASSUME NEW kind \in {"join", "leave", "voice", "send"}, Served(kind), inbox' = Tail(inbox)
      PROVE  u \in Users /\ room # 0 /\ (IdleQueued => IdleQueued')
  <2>1. m \in Request /\ m.kind = kind /\ room # 0
    BY <1>0, <1>1, HeadTypes DEF Served
  <2>2. IdleQueued => IdleQueued'
    BY <1>0, <1>1, HeadTypes DEF IdleQueued
  <2>. QED BY <2>1, <2>2 DEF Request
<1>2. CASE ServeJoin
  <2>1. u \in Users /\ room # 0 /\ (IdleQueued => IdleQueued') /\ room' = room
    BY <1>1, <1>2 DEF ServeJoin
  <2>2. CASE RoomFor(u) /\ Admitted(u) /\ departed' = departed \ {u}
    <3>1. DOMAIN people' = DOMAIN people \cup {u} /\ ~armed'
      BY <1>0, <2>1, <2>2, PeopleTypes DEF Admitted
    <3>2. /\ IsFiniteSet(DOMAIN people \cup {u})
          /\ Cardinality(DOMAIN people \cup {u}) = Cardinality(DOMAIN people) + 1
      BY <1>0, <2>2, FS_AddElement DEF FiniteRoom, RoomFor, Listed
    <3>3. Cardinality(DOMAIN people) \in Nat /\ Cardinality(DOMAIN people) < Capacity
      BY <1>0, <2>2, FS_CardinalityType DEF FiniteRoom, RoomFor
    <3>4. FiniteRoom' /\ CapacityKept'
      BY <3>1, <3>2, <3>3 DEF FiniteRoom, CapacityKept
    <3>. QED BY <1>0, <2>2, <3>1, <3>4 DEF IdleTimerWatches, GoneUnlisted, Empty
  <2>3. CASE UNCHANGED <<people, armed, departed>>
    BY <2>1, <2>3, QuietStep
  <2>. QED BY <1>2, <2>2, <2>3 DEF ServeJoin
<1>3. CASE ServeLeave
  <2>1. u \in Users /\ room # 0 /\ (IdleQueued => IdleQueued') /\ room' = room
    BY <1>1, <1>3 DEF ServeLeave
  <2>2. departed' = departed \cup {u}
    BY <1>3 DEF ServeLeave
  <2>3. CASE Listed(u) /\ Removed(u)
    <3>1. DOMAIN people' = DOMAIN people \ {u} /\ (armed' <=> armed \/ DOMAIN people = {u})
      BY <1>0, <2>1, <2>3, PeopleTypes DEF Removed
    <3>2. ~armed
      BY <1>0, <2>1, <2>3 DEF IdleTimerWatches, Empty, Listed
    <3>3. /\ IsFiniteSet(DOMAIN people \ {u})
          /\ Cardinality(DOMAIN people \ {u}) = Cardinality(DOMAIN people) - 1
      BY <1>0, <2>3, FS_RemoveElement DEF FiniteRoom, Listed
    <3>4. Cardinality(DOMAIN people) \in Nat
      BY <1>0, FS_CardinalityType DEF FiniteRoom
    <3>5. FiniteRoom' /\ CapacityKept'
      BY <1>0, <3>1, <3>3, <3>4 DEF FiniteRoom, CapacityKept
    <3>6. IdleTimerWatches'
      BY <2>3, <3>1, <3>2 DEF IdleTimerWatches, Empty, Listed
    <3>. QED BY <1>0, <2>2, <3>1, <3>5, <3>6 DEF GoneUnlisted
  <2>4. CASE ~Listed(u) /\ UNCHANGED <<people, armed>>
    BY <1>0, <2>1, <2>2, <2>4
       DEF FiniteRoom, CapacityKept, IdleTimerWatches, GoneUnlisted, Empty, Listed
  <2>. QED BY <1>3, <2>3, <2>4 DEF ServeLeave
<1>4. CASE ServeVoice
  <2>1. u \in Users /\ room # 0 /\ (IdleQueued => IdleQueued')
    BY <1>1, <1>4 DEF ServeVoice
  <2>2. DOMAIN people' = DOMAIN people /\ UNCHANGED <<room, armed, departed>>
    BY <1>4 DEF ServeVoice
  <2>. QED BY <1>0, <2>1, <2>2
           DEF FiniteRoom, CapacityKept, IdleTimerWatches, GoneUnlisted, Empty
<1>5. CASE ServeSend
  <2>1. IdleQueued => IdleQueued'
    BY <1>1, <1>5 DEF ServeSend
  <2>. QED BY <1>5, <2>1, QuietStep DEF ServeSend
<1>6. CASE ServeIdle
  <2>1. CASE room' = 0 /\ people' = Nobody
    BY <1>6, <2>1, NobodyThere
       DEF ServeIdle, FiniteRoom, CapacityKept, IdleTimerWatches, GoneUnlisted
  <2>2. CASE ~MayStop /\ UNCHANGED <<room, people, armed, at>>
    BY <1>0, <1>6, <2>2
       DEF ServeIdle, MayStop, FiniteRoom, CapacityKept, IdleTimerWatches, GoneUnlisted, Empty
  <2>. QED BY <1>6, <2>1, <2>2 DEF ServeIdle
<1>. QED BY <1>2, <1>3, <1>4, <1>5, <1>6 DEF Serve

LEMMA StepRoom == RoomInv /\ [Next]_vars => RoomInv'
<1> SUFFICES ASSUME RoomInv, [Next]_vars PROVE RoomInv'
  OBVIOUS
<1>1. TypeOK'
  BY StepTypes DEF RoomInv
<1>2. FiniteRoom' /\ CapacityKept' /\ IdleTimerWatches' /\ GoneUnlisted'
  <2>1. CASE UNCHANGED vars
    BY <2>1, QuietStep DEF vars, IdleQueued
  <2>2. CASE Serve
    BY <2>2, ServeStep
  <2>3. CASE Fire
    BY <2>3, FireStep
  <2>4. CASE RoomCrash
    BY <2>4, NobodyThere
       DEF RoomCrash, FiniteRoom, CapacityKept, IdleTimerWatches, GoneUnlisted
  <2>5. CASE Restart
    BY <2>5, BootStep, QuietStep DEF Restart, IdleQueued
  <2>6. CASE Next /\ ~(Serve \/ Fire \/ RoomCrash \/ Restart)
    BY <2>6, AskStep DEF Next
  <2>. QED BY <2>1, <2>2, <2>3, <2>4, <2>5, <2>6 DEF Next
<1>. QED BY <1>1, <1>2 DEF RoomInv

LEMMA InitRoom == Init => RoomInv
<1> SUFFICES ASSUME Init PROVE RoomInv
  OBVIOUS
<1>1. DOMAIN people = {} /\ room = 0 /\ departed = {}
  BY NobodyThere DEF Init
<1>2. at \in [Conns -> Stages]
  BY DEF Init, Stages
<1>3. inbox \in Seq(Request) /\ sent \in Seq(Users \X Users)
  BY DEF Init
<1>4. room \in {0, boots} /\ boots \in 0..MaxBoots /\ asked \in 0..MaxAsks
  BY DEF Init
<1>5. armed \in BOOLEAN /\ restarting \in BOOLEAN
  BY DEF Init
<1>6. TypeOK
  BY <1>1, <1>2, <1>3, <1>4, <1>5 DEF TypeOK
<1>. QED BY <1>1, <1>6, NobodyThere
         DEF RoomInv, FiniteRoom, CapacityKept, IdleTimerWatches, GoneUnlisted

\* A step that runs a scoped send finds both users listed, so neither is one
\* whose leave was answered.
LEMMA StepSend ==
    ASSUME RoomInv, [Next]_vars, Len(sent') > Len(sent)
    PROVE  LET s == sent'[Len(sent')] IN s[1] \notin departed /\ s[2] \notin departed
<1> DEFINE m == Head(inbox)
<1>1. TypeOK /\ GoneUnlisted /\ sent \in Seq(Users \X Users)
  BY DEF RoomInv, TypeOK
<1>2. sent' # sent
  BY <1>1
<1>3. ServeSend
  <2>1. CASE Serve
    BY <1>2, <2>1 DEF Serve, ServeJoin, ServeLeave, ServeVoice, ServeIdle
  <2>2. CASE ~Serve
    BY <1>2, <2>2 DEF Next, vars, Arrive, EnsureRoom, StartRoom, AskJoin, Admit, AskVoice,
       AskSend, Kick, Close, AskLeave, CallTimeout, Fire, RoomCrash, Restart, Boot
  <2>. QED BY <2>1, <2>2
<1>4. Members(m.user, m.peer) /\ sent' = Append(sent, <<m.user, m.peer>>)
  BY <1>2, <1>3 DEF ServeSend
<1>5. sent'[Len(sent')] = <<m.user, m.peer>>
  BY <1>1, <1>4
<1>6. m.user \notin departed /\ m.peer \notin departed
  BY <1>1, <1>4 DEF Members, Listed, GoneUnlisted
<1>. QED BY <1>5, <1>6
-----------------------------------------------------------------------------
(* Room and channels agree when nothing breaks.                             *)

\* A channel whose user is in the room, or is until its leave is served.
Seated(c) == at[c] \in {"admitted", "in", "voicing", "exit", "leaving"}
Calls == {<<"join", "joining">>, <<"voice", "voicing">>, <<"leave", "leaving">>}

\* A message is the room's own or nobody's, or the one call its channel waits for.
Mail ==
    \A i \in DOMAIN inbox :
       \/ inbox[i].conn = NoConn /\ inbox[i].kind \in {"send", "idle"}
       \/ /\ inbox[i].conn \in Conns /\ inbox[i].user = UserOf[inbox[i].conn]
          /\ <<inbox[i].kind, at[inbox[i].conn]>> \in Calls
OneCall ==
    \A i, j \in DOMAIN inbox :
       inbox[i].conn = inbox[j].conn /\ inbox[i].conn # NoConn => i = j
Seats ==
    /\ \A c \in Conns : Seated(c) => room # 0 /\ Listed(UserOf[c])
    /\ \A c, d \in Conns : Seated(c) /\ Seated(d) /\ UserOf[c] = UserOf[d] => c = d
Agreement == Mail /\ OneCall /\ Seats

\* A channel moves on without a call.
LEMMA MoveAgrees ==
    ASSUME TypeOK, Agreement, NEW c \in Conns, NEW stage, at' = [at EXCEPT ![c] = stage],
           at[c] \notin Waiting, UNCHANGED <<room, people, inbox>>,
           stage \in {"admitted", "in", "voicing", "exit", "leaving"} => Seated(c)
    PROVE  Agreement'
<1>1. at'[c] = stage /\ \A d \in Conns : d # c => at'[d] = at[d] BY DEF TypeOK
<1>2. \A i \in DOMAIN inbox : inbox[i].conn # c
  BY DEF Agreement, Mail, Calls, Waiting
<1>3. Mail' BY <1>1, <1>2 DEF Agreement, Mail
<1>4. OneCall' BY DEF Agreement, OneCall
<1>5. \A d \in Conns : Seated(d)' => Seated(d) BY <1>1 DEF Seated
<1>6. Seats' BY <1>5 DEF Agreement, Seats, Listed
<1>. QED BY <1>3, <1>4, <1>6 DEF Agreement

LEMMA Asked ==
    ASSUME TypeOK, NEW kind, NEW user, NEW peer, NEW state, NEW conn,
           Ask(kind, user, peer, state, conn)
    PROVE  /\ DOMAIN inbox' = DOMAIN inbox \cup {Len(inbox) + 1}
           /\ Len(inbox) + 1 \notin DOMAIN inbox
           /\ inbox'[Len(inbox) + 1].kind = kind /\ inbox'[Len(inbox) + 1].user = user
           /\ inbox'[Len(inbox) + 1].conn = conn
           /\ \A i \in DOMAIN inbox : inbox'[i] = inbox[i]
<1>. DEFINE m == [kind |-> kind, user |-> user, peer |-> peer, state |-> state, conn |-> conn]
<1>1. inbox \in Seq(Request) /\ inbox' = Append(inbox, m) BY DEF TypeOK, Ask
<1>2. m.kind = kind /\ m.user = user /\ m.conn = conn OBVIOUS
<1>. HIDE DEF m
<1>3. /\ DOMAIN inbox = 1..Len(inbox) /\ DOMAIN inbox' = 1..(Len(inbox) + 1)
      /\ Len(inbox) \in Nat /\ inbox'[Len(inbox) + 1] = m
      /\ \A i \in 1..Len(inbox) : inbox'[i] = inbox[i]
  BY <1>1
<1>4. /\ 1..(Len(inbox) + 1) = 1..Len(inbox) \cup {Len(inbox) + 1}
      /\ Len(inbox) + 1 \notin 1..Len(inbox)
  BY <1>3
<1>. QED BY <1>2, <1>3, <1>4

\* A channel calls the room.
LEMMA CallAgrees ==
    ASSUME TypeOK, Agreement, NEW c \in Conns, NEW kind, NEW stage, NEW state,
           at' = [at EXCEPT ![c] = stage], at[c] \notin Waiting, <<kind, stage>> \in Calls,
           Ask(kind, UserOf[c], NoUser, state, c), UNCHANGED <<room, people>>,
           stage # "joining" => Seated(c)
    PROVE  Agreement'
<1>. DEFINE n == Len(inbox) + 1
<1>1. at'[c] = stage /\ \A d \in Conns : d # c => at'[d] = at[d] BY DEF TypeOK
<1>2. \A i \in DOMAIN inbox : inbox[i].conn # c
  BY DEF Agreement, Mail, Calls, Waiting
<1>3. /\ DOMAIN inbox' = DOMAIN inbox \cup {n} /\ n \notin DOMAIN inbox
      /\ inbox'[n].kind = kind /\ inbox'[n].user = UserOf[c] /\ inbox'[n].conn = c
      /\ \A i \in DOMAIN inbox : inbox'[i] = inbox[i]
  BY Asked
<1>. HIDE DEF n
<1>4. Mail' BY <1>1, <1>2, <1>3 DEF Agreement, Mail
<1>5. OneCall' BY <1>2, <1>3 DEF Agreement, OneCall
<1>6. \A d \in Conns : Seated(d)' => Seated(d) BY <1>1 DEF Seated, Calls
<1>7. Seats' BY <1>6 DEF Agreement, Seats, Listed
<1>. QED BY <1>4, <1>5, <1>7 DEF Agreement

\* Nobody's message.
LEMMA SendAgrees ==
    ASSUME TypeOK, Agreement, NEW kind \in {"send", "idle"}, NEW user, NEW peer, NEW state,
           Ask(kind, user, peer, state, NoConn), UNCHANGED <<room, people, at>>
    PROVE  Agreement'
<1>. DEFINE n == Len(inbox) + 1
<1>1. /\ DOMAIN inbox' = DOMAIN inbox \cup {n} /\ n \notin DOMAIN inbox
      /\ inbox'[n].kind = kind /\ inbox'[n].conn = NoConn
      /\ \A i \in DOMAIN inbox : inbox'[i] = inbox[i]
  BY Asked
<1>. HIDE DEF n
<1>2. Mail' BY <1>1 DEF Agreement, Mail
<1>3. OneCall' BY <1>1 DEF Agreement, OneCall
<1>4. Seats' BY DEF Agreement, Seats, Listed, Seated
<1>. QED BY <1>2, <1>3, <1>4 DEF Agreement

\* A room that starts or stops has nobody in it.
LEMMA NewRoomAgrees ==
    ASSUME inbox' = <<>>, \A c \in Conns : ~Seated(c)'
    PROVE  Agreement'
<1>1. DOMAIN inbox' = {} OBVIOUS
<1>. QED BY <1>1 DEF Agreement, Mail, OneCall, Seats

\* The room takes the next message, whose channel, if any, waits no longer.
LEMMA TakenAgrees ==
    ASSUME TypeOK, Agreement, NEW kind, Served(kind), inbox' = Tail(inbox),
           NEW c, c = Head(inbox).conn, NEW u, u = Head(inbox).user
    PROVE  /\ \/ c = NoConn /\ kind \in {"send", "idle"}
              \/ c \in Conns /\ u = UserOf[c] /\ <<kind, at[c]>> \in Calls
           /\ (\A d \in Conns : d # c => at'[d] = at[d]) => Mail' /\ OneCall'
<1>1. inbox \in Seq(Request) /\ inbox # <<>> /\ Head(inbox).kind = kind
  BY DEF TypeOK, Served
<1>2. /\ 1 \in DOMAIN inbox /\ Head(inbox) = inbox[1]
      /\ \A i \in DOMAIN Tail(inbox) :
            i + 1 \in DOMAIN inbox /\ i + 1 # 1 /\ Tail(inbox)[i] = inbox[i + 1] /\ i \in Int
  BY <1>1
<1>3. \/ c = NoConn /\ kind \in {"send", "idle"}
      \/ c \in Conns /\ u = UserOf[c] /\ <<kind, at[c]>> \in Calls
  BY <1>1, <1>2 DEF Agreement, Mail
<1>4. ASSUME \A d \in Conns : d # c => at'[d] = at[d] PROVE Mail'
  <2>. SUFFICES ASSUME NEW i \in DOMAIN inbox'
                PROVE  \/ inbox'[i].conn = NoConn /\ inbox'[i].kind \in {"send", "idle"}
                       \/ /\ inbox'[i].conn \in Conns /\ inbox'[i].user = UserOf[inbox'[i].conn]
                          /\ <<inbox'[i].kind, at'[inbox'[i].conn]>> \in Calls
    BY DEF Mail
  <2>. DEFINE j == i + 1
  <2>1. j \in DOMAIN inbox /\ j # 1 /\ inbox'[i] = inbox[j] BY <1>2
  <2>. HIDE DEF j
  <2>2. inbox[j].conn = c => c = NoConn BY <1>2, <2>1 DEF Agreement, OneCall
  <2>3. inbox[j].conn = c => inbox[j].conn \notin Conns BY <2>2
  <2>. QED BY <1>4, <2>1, <2>3 DEF Agreement, Mail
<1>5. OneCall'
  <2>. SUFFICES ASSUME NEW i \in DOMAIN inbox', NEW j \in DOMAIN inbox',
                       inbox'[i].conn = inbox'[j].conn, inbox'[i].conn # NoConn
                PROVE  i = j
    BY DEF OneCall
  <2>1. i + 1 = j + 1 BY <1>2 DEF Agreement, OneCall
  <2>. QED BY <1>2, <2>1
<1>. QED BY <1>3, <1>4, <1>5

LEMMA AgreedServe ==
    ASSUME RoomInv, Agreement, Serve
    PROVE  Agreement'
<1>. DEFINE c == Head(inbox).conn  u == Head(inbox).user
<1>0. TypeOK BY DEF RoomInv
<1>1. ASSUME NEW kind, Served(kind), inbox' = Tail(inbox)
      PROVE  /\ u \in Users \/ kind = "idle"
             /\ room # 0
             /\ \/ c = NoConn /\ kind \in {"send", "idle"}
                \/ c \in Conns /\ u = UserOf[c] /\ <<kind, at[c]>> \in Calls
             /\ (\A d \in Conns : d # c => at'[d] = at[d]) => Mail' /\ OneCall'
  <2>1. Head(inbox) \in Request /\ Head(inbox).kind = kind BY <1>0, <1>1, HeadTypes DEF Served
  <2>2. u \in Users \/ kind = "idle" BY <2>1 DEF Request
  <2>3. PICK d : d = Head(inbox).conn OBVIOUS
  <2>4. PICK v : v = Head(inbox).user OBVIOUS
  <2>5. /\ \/ d = NoConn /\ kind \in {"send", "idle"}
           \/ d \in Conns /\ v = UserOf[d] /\ <<kind, at[d]>> \in Calls
        /\ (\A e \in Conns : e # d => at'[e] = at[e]) => Mail' /\ OneCall'
    BY <1>0, <1>1, <2>3, <2>4, TakenAgrees
  <2>. QED BY <1>1, <2>2, <2>3, <2>4, <2>5 DEF Served
<1>. HIDE DEF c, u
<1>2. ASSUME NEW waits, NEW stage, Answer(c, waits, stage), c \in Conns, at[c] = waits
      PROVE  at'[c] = stage /\ \A d \in Conns : d # c => at'[d] = at[d]
  BY <1>0, <1>2 DEF Answer, TypeOK
<1>3. CASE ServeJoin
  <2>1. Served("join") /\ inbox' = Tail(inbox) /\ room' = room BY <1>3 DEF ServeJoin
  <2>2. c \in Conns /\ u = UserOf[c] /\ u \in Users /\ at[c] = "joining" /\ room # 0
    BY <1>1, <2>1 DEF Calls
  <2>3. CASE RoomFor(u) /\ Admitted(u) /\ Answer(c, "joining", "admitted")
    <3>1. at'[c] = "admitted" /\ \A d \in Conns : d # c => at'[d] = at[d]
      BY <1>2, <2>2, <2>3
    <3>2. DOMAIN people' = DOMAIN people \cup {u} /\ ~Listed(u)
      BY <1>0, <2>2, <2>3, PeopleTypes DEF Admitted, RoomFor
    <3>3. \A d \in Conns : d # c /\ Seated(d)' => Seated(d) /\ UserOf[d] # u
      BY <3>1, <3>2 DEF Seated, Agreement, Seats
    <3>4. Seats' BY <2>1, <2>2, <3>2, <3>3 DEF Agreement, Seats, Listed
    <3>. QED BY <1>1, <2>1, <3>1, <3>4 DEF Agreement
  <2>4. CASE Answer(c, "joining", "refused") /\ UNCHANGED people
    <3>1. at'[c] = "refused" /\ \A d \in Conns : d # c => at'[d] = at[d]
      BY <1>2, <2>2, <2>4
    <3>2. \A d \in Conns : Seated(d)' => Seated(d) BY <3>1 DEF Seated
    <3>3. Seats' BY <2>1, <2>4, <3>2 DEF Agreement, Seats, Listed
    <3>. QED BY <1>1, <2>1, <3>1, <3>3 DEF Agreement
  <2>. QED BY <1>3, <2>3, <2>4 DEF ServeJoin, c, u
<1>4. CASE ServeLeave
  <2>1. Served("leave") /\ inbox' = Tail(inbox) /\ room' = room /\ Answer(c, "leaving", "gone")
    BY <1>4 DEF ServeLeave, c
  <2>2. c \in Conns /\ u = UserOf[c] /\ u \in Users /\ at[c] = "leaving" /\ room # 0
    BY <1>1, <2>1 DEF Calls
  <2>3. at'[c] = "gone" /\ \A d \in Conns : d # c => at'[d] = at[d]
    BY <1>2, <2>1, <2>2
  <2>4. DOMAIN people \ {u} \subseteq DOMAIN people'
    BY <1>0, <1>4, <2>2, PeopleTypes DEF ServeLeave, Removed, u
  <2>5. Seated(c) BY <2>2 DEF Seated
  <2>6. \A d \in Conns : Seated(d)' => Seated(d) /\ UserOf[d] # u
    BY <2>2, <2>3, <2>5 DEF Seated, Agreement, Seats
  <2>7. Seats' BY <2>1, <2>4, <2>6 DEF Agreement, Seats, Listed
  <2>. QED BY <1>1, <2>1, <2>3, <2>7 DEF Agreement
<1>5. CASE ServeVoice
  <2>1. Served("voice") /\ inbox' = Tail(inbox) /\ room' = room /\ Answer(c, "voicing", "in")
    BY <1>5 DEF ServeVoice, c
  <2>2. c \in Conns /\ at[c] = "voicing" BY <1>1, <2>1 DEF Calls
  <2>3. at'[c] = "in" /\ \A d \in Conns : d # c => at'[d] = at[d]
    BY <1>2, <2>1, <2>2
  <2>4. DOMAIN people' = DOMAIN people BY <1>5 DEF ServeVoice
  <2>5. \A d \in Conns : Seated(d)' => Seated(d) BY <2>2, <2>3 DEF Seated
  <2>6. Seats' BY <2>1, <2>4, <2>5 DEF Agreement, Seats, Listed
  <2>. QED BY <1>1, <2>1, <2>3, <2>6 DEF Agreement
<1>6. CASE \/ ServeSend
           \/ ServeIdle /\ inbox' = Tail(inbox) /\ UNCHANGED <<room, people, at>>
  <2>1. UNCHANGED <<room, people, at>> /\ inbox' = Tail(inbox) BY <1>6 DEF ServeSend
  <2>2. Served("send") \/ Served("idle") BY <1>6 DEF ServeSend, ServeIdle
  <2>3. Seats' BY <2>1 DEF Agreement, Seats, Listed, Seated
  <2>. QED BY <1>1, <2>1, <2>2, <2>3 DEF Agreement
<1>7. CASE ServeIdle /\ MayStop /\ inbox' = <<>> /\ at' = Dropped
  <2>1. \A d \in Conns : ~Seated(d) BY <1>7 DEF MayStop, Empty, Agreement, Seats, Listed
  <2>2. \A d \in Conns : at'[d] \in {at[d], "failed"} BY <1>7, <2>1 DEF Dropped, Seated
  <2>3. \A d \in Conns : ~Seated(d)' BY <2>1, <2>2 DEF Seated
  <2>. QED BY <1>7, <2>3, NewRoomAgrees
<1>. QED BY <1>3, <1>4, <1>5, <1>6, <1>7 DEF Serve, ServeIdle

LEMMA AgreedStep ==
    ASSUME Disturbances = {}, RoomInv, Agreement, ~restarting, [Next]_vars
    PROVE  Agreement'
<1>0. TypeOK BY DEF RoomInv
<1>1. ASSUME NEW c \in Conns, Arrive(c) PROVE Agreement'
  <2>1. CASE EnsureRoom(c)
    <3>1. PICK stage \in {"boot", "enter"} : at' = [at EXCEPT ![c] = stage]
      BY <2>1 DEF EnsureRoom
    <3>2. at[c] \notin Waiting BY <2>1 DEF EnsureRoom, Waiting
    <3>. QED BY <1>0, <2>1, <3>1, <3>2, MoveAgrees DEF EnsureRoom
  <2>2. CASE StartRoom(c)
    <3>1. at[c] \notin Waiting /\ ~Seated(c) BY <2>2 DEF StartRoom, Waiting, Seated
    <3>2. CASE at' = [at EXCEPT ![c] = "beaten"] /\ UNCHANGED <<room, boots, people, armed, inbox>>
      BY <1>0, <3>1, <3>2, MoveAgrees
    <3>3. CASE room = 0 /\ Boot /\ at' = [at EXCEPT ![c] = "enter"]
      <4>1. \A d \in Conns : ~Seated(d) BY <3>3 DEF Agreement, Seats
      <4>2. \A d \in Conns : at'[d] \in {at[d], "enter"} BY <1>0, <3>3 DEF TypeOK
      <4>3. \A d \in Conns : ~Seated(d)' BY <4>1, <4>2 DEF Seated
      <4>. QED BY <3>3, <4>3, NewRoomAgrees DEF Boot
    <3>. QED BY <2>2, <3>2, <3>3 DEF StartRoom
  <2>3. CASE AskJoin(c)
    <3>1. at[c] \notin Waiting BY <2>3 DEF AskJoin, Waiting
    <3>2. CASE at' = [at EXCEPT ![c] = "refused"] /\ UNCHANGED inbox
      BY <1>0, <2>3, <3>1, <3>2, MoveAgrees DEF AskJoin
    <3>3. CASE /\ at' = [at EXCEPT ![c] = "joining"]
               /\ Ask("join", UserOf[c], NoUser, Connected, c)
      <4>1. <<"join", "joining">> \in Calls BY DEF Calls
      <4>. QED BY <1>0, <2>3, <3>1, <3>3, <4>1, CallAgrees DEF AskJoin
    <3>. QED BY <2>3, <3>2, <3>3 DEF AskJoin
  <2>4. CASE Admit(c)
    <3>1. at[c] \notin Waiting /\ Seated(c) BY <2>4 DEF Admit, Waiting, Seated
    <3>. QED BY <1>0, <2>4, <3>1, MoveAgrees DEF Admit
  <2>. QED BY <1>1, <2>1, <2>2, <2>3, <2>4 DEF Arrive
<1>2. ASSUME NEW c \in Conns, NEW state \in VoiceStates, AskVoice(c, state) PROVE Agreement'
  <2>1. at[c] \notin Waiting /\ Seated(c) /\ <<"voice", "voicing">> \in Calls
    BY <1>2 DEF AskVoice, Waiting, Seated, Calls
  <2>. QED BY <1>0, <1>2, <2>1, CallAgrees DEF AskVoice
<1>3. ASSUME NEW user \in Users, NEW peer \in Users, AskSend(user, peer) PROVE Agreement'
  BY <1>0, <1>3, SendAgrees DEF AskSend
<1>4. CASE Fire BY <1>0, <1>4, SendAgrees DEF Fire
<1>5. ASSUME NEW c \in Conns, Close(c) PROVE Agreement'
  <2>1. at[c] \notin Waiting /\ Seated(c) BY <1>5 DEF Close, Waiting, Seated
  <2>. QED BY <1>0, <1>5, <2>1, MoveAgrees DEF Close
<1>6. ASSUME NEW c \in Conns, AskLeave(c) PROVE Agreement'
  <2>1. at[c] \notin Waiting /\ Seated(c) /\ <<"leave", "leaving">> \in Calls
    BY <1>6 DEF AskLeave, Waiting, Seated, Calls
  <2>2. room # 0 BY <2>1 DEF Agreement, Seats
  <2>. QED BY <1>0, <1>6, <2>1, <2>2, CallAgrees DEF AskLeave
<1>7. CASE UNCHANGED vars
  BY <1>7 DEF vars, Agreement, Mail, OneCall, Seats, Seated, Listed
<1>8. /\ ~RoomCrash /\ ~Restart
      /\ (\A user \in Users : ~Kick(user)) /\ (\A c \in Conns : ~CallTimeout(c))
  BY DEF RoomCrash, Restart, Kick, CallTimeout
<1>9. CASE Serve BY <1>9, AgreedServe
<1>. QED BY <1>1, <1>2, <1>3, <1>4, <1>5, <1>6, <1>7, <1>8, <1>9 DEF Next

\* No room is restarted that has not crashed.
LEMMA NoRestart ==
    ASSUME Disturbances = {}, ~restarting, [Next]_vars
    PROVE  ~restarting'
BY DEF Next, vars, Arrive, EnsureRoom, StartRoom, AskJoin, Admit, AskVoice, AskSend, Kick, Close,
       AskLeave, CallTimeout, Serve, ServeJoin, ServeLeave, ServeVoice, ServeSend, ServeIdle,
       Fire, RoomCrash, Restart

LEMMA AgreedInit == ASSUME Init PROVE Agreement
<1>1. inbox = <<>> /\ \A c \in Conns : at[c] = "out" BY DEF Init
<1>2. DOMAIN inbox = {} BY <1>1
<1>. QED BY <1>1, <1>2 DEF Agreement, Mail, OneCall, Seats, Seated
-----------------------------------------------------------------------------
(* The theorems.                                                            *)

\* Types, capacity, idle timer and departed users together: the inductive
\* invariant of the room.
THEOREM RoomInvariant == Spec => []RoomInv
BY InitRoom, StepRoom, PTL DEF Spec

\* Type correctness of the registry, the room's struct, its mailbox and the
\* channel processes.
THEOREM RoomTypes == Spec => []TypeOK
<1>1. RoomInv => TypeOK
  BY DEF RoomInv
<1>. QED BY <1>1, RoomInvariant, PTL

\* max_participants is never exceeded, whatever crashes, kicks and abandoned
\* calls happen ({:join, ...} of Room).
THEOREM RoomCapacity == Spec => []CapacityKept
<1>1. RoomInv => CapacityKept
  BY DEF RoomInv
<1>. QED BY <1>1, RoomInvariant, PTL

\* The idle timer watches every empty room and no other (schedule_idle_check and
\* cancel_idle of Room).
THEOREM IdleWatched == Spec => []IdleTimerWatches
<1>1. RoomInv => IdleTimerWatches
  BY DEF RoomInv
<1>. QED BY <1>1, RoomInvariant, PTL

\* No scoped send runs for a user after that user's leave was answered
\* ({:with_voice_members, ...} of Room).
THEOREM LeftMeansUnreachable == Spec => NoSendAfterLeave
<1>1. RoomInv /\ [Next]_vars =>
        [Len(sent') > Len(sent) =>
            LET s == sent'[Len(sent')] IN s[1] \notin departed /\ s[2] \notin departed]_vars
  BY StepSend
<1>. QED BY <1>1, RoomInvariant, PTL DEF Spec, NoSendAfterLeave

\* When no call fails and nobody is removed by others, a channel that has joined
\* finds its user listed in a live room, and no two channels sit in the room for
\* one user (:already_joined and :idle_check of Room).
THEOREM RoomsAgree == ASSUME Disturbances = {} PROVE Spec => []PresentIsListed
<1>1. Init => RoomInv /\ Agreement /\ ~restarting BY InitRoom, AgreedInit DEF Init
<1>2. RoomInv /\ Agreement /\ ~restarting /\ [Next]_vars =>
        (RoomInv /\ Agreement /\ ~restarting)'
  BY StepRoom, AgreedStep, NoRestart
<1>3. RoomInv /\ Agreement => PresentIsListed
  BY DEF Agreement, Seats, Seated, Present, PresentIsListed
<1>. QED BY <1>1, <1>2, <1>3, PTL DEF Spec
==============================================================================
