------------------------------ MODULE Admission ------------------------------
(***************************************************************************)
(* The session admission authority, Burble.Sessions.Admission: one         *)
(* GenServer that hands out the seats of game sessions.  A host creates a   *)
(* session and gets one ticket per role; a channel process claims the seat  *)
(* with the ticket, and later with the rotating rejoin token, and receives  *)
(* a lease bound to its pid; an effect (a broadcast or a push) runs inside  *)
(* the authority while the lease is current.                                *)
(*                                                                          *)
(* One action is one message of the authority's mailbox, or one step of its *)
(* surroundings: a caller dies, the clocks move, the supervisor restarts    *)
(* the authority.  A refused call only runs the sweep that precedes it, so  *)
(* refusals are the action Sweep.                                           *)
(*                                                                          *)
(* Secrets (epochs, tickets, rejoin tokens, lease ids, monitor references)  *)
(* are draws of a counter that never repeats.  A provision uses one draw:   *)
(* its epoch, and the ticket <<draw, role>> of each role.  A claim uses one *)
(* draw: its lease id, its monitor reference and its rejoin token.          *)
(***************************************************************************)
EXTENDS Integers, Sequences, FiniteSets

CONSTANTS
    SessionIds,     \* identifiers a host may provision
    Audiences,      \* game ids a session may be provisioned for
    Roles,          \* seat names
    Subjects,       \* authenticated participants
    Pids,           \* channel processes
    Rosters,        \* rosters a host asks for: functions from roles to subjects
    Ttls,           \* lifetimes a host asks for
    Expiries,       \* wall-clock expiries of the identities presented
    Seqs,           \* sequence numbers a seat presents
    MaxLifetime,    \* @max_lifetime
    MaxSeats,       \* @max_seats
    MaxSessions,    \* @max_sessions
    MaxSeq,         \* @max_seq
    MaxDraws,       \* bound: secrets drawn
    MaxClock,       \* bound: clock values
    MaxRelays,      \* bound: effects run
    NoSession, NoSeat, Nil

ASSUME RosterAssumption ==
    Rosters \subseteq UNION {[D -> Subjects] : D \in SUBSET Roles}
ASSUME NumberAssumption ==
    /\ Ttls \subseteq Int /\ Expiries \subseteq Int /\ Seqs \subseteq Int
    /\ MaxLifetime \in Nat /\ MaxSeats \in Nat /\ MaxSessions \in Nat
    /\ MaxSeq \in Nat /\ MaxDraws \in Nat /\ MaxClock \in Nat /\ MaxRelays \in Nat

VARIABLES
    sessions,   \* live sessions, without their seats
    seats,      \* the seats of each session
    monitors,   \* the authority's table from monitor reference to seat
    beam,       \* monitors the runtime still watches
    downs,      \* references of the :DOWN messages in the authority's mailbox
    fenced,     \* :session_fenced messages sent: <<process, lease it lost>>
    procs,      \* live channel processes
    mono, wall, \* the monotonic and the wall clock, in seconds
    fresh,      \* the next secret
    issued,     \* history: every credential handed out, with its scope
    leases,     \* history: every lease granted (the terms the callers keep)
    relays      \* history: every effect that ran, in order

vars == <<sessions, seats, monitors, beam, downs, fenced, procs, mono, wall,
          fresh, issued, leases, relays>>
clocks == <<mono, wall>>
-----------------------------------------------------------------------------
Token == Nat \X Roles

Session == [audience : Audiences, epoch : Nat, revision : Nat,
            deadline : Int, ttl : Int]

Seat == [subject : Subjects, ticket : Token, used : BOOLEAN,
         pid : Pids \cup {Nil}, monitor : Nat \cup {Nil},
         lease : Nat \cup {Nil}, rejoin : Token \cup {Nil},
         expires : Int \cup {Nil}, lastSeq : Int \cup {Nil}]

Monitor == [ref : Nat, session : SessionIds, role : Roles, lease : Nat]

Watch == [ref : Nat, pid : Pids]

Credential == [token : Token, session : SessionIds, audience : Audiences,
               epoch : Nat, role : Roles, subject : Subjects]

Lease == [lease : Nat, session : SessionIds, audience : Audiences, epoch : Nat,
          role : Roles, subject : Subjects, pid : Pids, token : Token]

Relay == [session : SessionIds, epoch : Nat, role : Roles, lease : Nat,
          seq : Int \cup {Nil}]

\* The "absent" values are none of the values they stand in for.
ASSUME NilAssumption ==
    /\ NoSession \notin Session
    /\ NoSeat \notin Seat
    /\ Nil \notin Pids \cup Int \cup Token

Place == SessionIds \X Roles
SeatAt(p) == seats[p[1]][p[2]]
\* Slip: disconnect/4 does not ask whether the seat has a process.
SlipConnected == {p \in Place : SeatAt(p) # NoSeat}

Connected == {p \in Place : SeatAt(p) # NoSeat /\ SeatAt(p).pid # Nil}

Init ==
    /\ sessions = [id \in SessionIds |-> NoSession]
    /\ seats = [id \in SessionIds |-> [r \in Roles |-> NoSeat]]
    /\ monitors = {} /\ beam = {} /\ downs = {} /\ fenced = {}
    /\ procs = Pids
    /\ mono = 0 /\ wall = 0 /\ fresh = 0
    /\ issued = {} /\ leases = {} /\ relays = <<>>
-----------------------------------------------------------------------------
(* Disconnecting.  `cut' is a set of places.                                *)

Refs(cut) == {SeatAt(p).monitor : p \in cut \cap Connected}

\* Slip: the table keeps the entry of a replaced connection.
SlipDisconnect(cut, fence, new) ==
    /\ monitors' = monitors \cup {[ref |-> l.lease, session |-> l.session,
                                  role |-> l.role, lease |-> l.lease] : l \in new}
    /\ beam' = {w \in beam : w.ref \notin Refs(cut)}
                 \cup {[ref |-> l.lease, pid |-> l.pid] : l \in new}
    /\ downs' = downs
    /\ fenced' = IF fence
                 THEN fenced \cup {<<SeatAt(p).pid, SeatAt(p).lease>> :
                                        p \in cut \cap Connected}
                 ELSE fenced

\* disconnect/4 on every place of `cut': demonitor with flush, forget the
\* table entry and, when `fence' holds, tell the process it lost the seat.
\* `new' is the monitor a claim sets up, as a set of at most one element.
Disconnect(cut, fence, new) ==
    /\ monitors' = {m \in monitors : m.ref \notin Refs(cut)}
                     \cup {[ref |-> l.lease, session |-> l.session,
                            role |-> l.role, lease |-> l.lease] : l \in new}
    /\ beam' = {w \in beam : w.ref \notin Refs(cut)}
                 \cup {[ref |-> l.lease, pid |-> l.pid] :
                            l \in {x \in new : x.pid \in procs}}
    /\ downs' = (downs \ Refs(cut))
                  \cup {l.lease : l \in {x \in new : x.pid \notin procs}}
    /\ fenced' = IF fence
                 THEN fenced \cup {<<SeatAt(p).pid, SeatAt(p).lease>> :
                                        p \in cut \cap Connected}
                 ELSE fenced

Vacated(seat) ==
    [seat EXCEPT !.pid = Nil, !.monitor = Nil, !.lease = Nil, !.expires = Nil]

Live(gone) == {id \in SessionIds : sessions[id] # NoSession} \ gone
\* Slip: the deadline is compared with the wall clock.
SlipOverdue == {id \in Live({}) : sessions[id].deadline <= wall}
Overdue == {id \in Live({}) : sessions[id].deadline <= mono}

SessionsWithout(gone) ==
    [id \in SessionIds |-> IF id \in gone THEN NoSession ELSE sessions[id]]
SeatsWithout(gone) ==
    [id \in SessionIds |->
        IF id \in gone THEN [r \in Roles |-> NoSeat] ELSE seats[id]]

\* Slip: the seats of a revoked session are not fenced.
SlipRevoke(gone) ==
    /\ sessions' = SessionsWithout(gone)
    /\ seats' = SeatsWithout(gone)
    /\ Disconnect(gone \X Roles, FALSE, {})

\* revoke/2 of every session of `gone': all its seats are fenced.
Revoke(gone) ==
    /\ sessions' = SessionsWithout(gone)
    /\ seats' = SeatsWithout(gone)
    /\ Disconnect(gone \X Roles, TRUE, {})
-----------------------------------------------------------------------------
(* Provisioning: create, rotate, close.                                     *)

ValidRoster(roster) ==
    /\ Cardinality(DOMAIN roster) \in 1..MaxSeats
    /\ \A r1, r2 \in DOMAIN roster : roster[r1] = roster[r2] => r1 = r2

NewSeat(subject, role) ==
    [subject |-> subject, ticket |-> <<fresh, role>>, used |-> FALSE,
     pid |-> Nil, monitor |-> Nil, lease |-> Nil, rejoin |-> Nil,
     expires |-> Nil, lastSeq |-> Nil]

SeatFor(roster, role) ==
    IF role \in DOMAIN roster THEN NewSeat(roster[role], role) ELSE NoSeat

NewSession(audience, ttl, revision) ==
    [audience |-> audience, epoch |-> fresh, revision |-> revision,
     deadline |-> mono + ttl, ttl |-> ttl]

\* provision/5, after the sessions of `gone' were revoked.
Provision(gone, id, roster, session) ==
    /\ fresh < MaxDraws
    /\ sessions' = [SessionsWithout(gone) EXCEPT ![id] = session]
    /\ seats' = [SeatsWithout(gone) EXCEPT ![id] =
                    [r \in Roles |-> SeatFor(roster, r)]]
    /\ issued' = issued \cup
                    {[token |-> <<fresh, r>>, session |-> id,
                      audience |-> session.audience, epoch |-> fresh, role |-> r,
                      subject |-> roster[r]] : r \in DOMAIN roster}
    /\ fresh' = fresh + 1
    /\ Disconnect(gone \X Roles, TRUE, {})
    /\ UNCHANGED <<procs, clocks, leases, relays>>

Create(id, audience, roster, ttl) ==
    /\ ValidRoster(roster) /\ ttl \in 1..MaxLifetime
    /\ id \notin Live(Overdue)
    /\ Cardinality(Live(Overdue)) < MaxSessions
    /\ Provision(Overdue, id, roster, NewSession(audience, ttl, 1))

Roster(id) ==
    [r \in {x \in Roles : seats[id][x] # NoSeat} |-> seats[id][r].subject]

Rotate(id) ==
    LET old == sessions[id]
    IN /\ id \in Live(Overdue)
       /\ Provision(Overdue \cup {id}, id, Roster(id),
                    NewSession(old.audience, old.ttl, old.revision + 1))

Close(id) ==
    /\ id \in Live({})
    /\ Revoke({id})
    /\ UNCHANGED <<procs, clocks, fresh, issued, leases, relays>>

\* The :expire timer, and every call that is refused after its sweep.
Sweep ==
    /\ Revoke(Overdue)
    /\ UNCHANGED <<procs, clocks, fresh, issued, leases, relays>>
-----------------------------------------------------------------------------
(* Seats: claim, effect, leave.                                             *)

\* Slips: a used ticket still admits; any rejoin token of the session does.
SlipTicketOk(seat, kind, token) ==
    \/ kind = "ticket" /\ token = seat.ticket
    \/ kind = "rejoin" /\ seat.used /\ token = seat.rejoin
SlipRejoinOk(seat, kind, token) ==
    \/ kind = "ticket" /\ ~seat.used /\ token = seat.ticket
    \/ kind = "rejoin" /\ seat.used

\* credential/2: `kind' is how the client tags the token it presents.
CredentialOk(seat, kind, token) ==
    \/ kind = "ticket" /\ ~seat.used /\ token = seat.ticket
    \/ kind = "rejoin" /\ seat.used /\ token = seat.rejoin

\* The ticket is used up and the rejoin token replaced; last_seq stays.
Occupied(seat, pid, expires, role) ==
    [seat EXCEPT !.used = TRUE, !.pid = pid, !.monitor = fresh, !.lease = fresh,
                 !.expires = expires, !.rejoin = <<fresh, role>>]

\* A claim by a process that died while its call was queued is answered all
\* the same; its monitor fires at once.
Claim(pid, subject, expires, id, audience, role, epoch, kind, token) ==
    LET seat == seats[id][role]
        lease == [lease |-> fresh, session |-> id, audience |-> audience,
                  epoch |-> epoch, role |-> role, subject |-> subject,
                  pid |-> pid, token |-> token]
    IN /\ fresh < MaxDraws
       /\ expires > wall
       /\ id \in Live(Overdue)
       /\ sessions[id].epoch = epoch /\ sessions[id].audience = audience
       /\ seat # NoSeat /\ seat.subject = subject
       /\ CredentialOk(seat, kind, token)
       /\ sessions' = SessionsWithout(Overdue)
       /\ seats' = [SeatsWithout(Overdue) EXCEPT ![id][role] =
                       Occupied(seat, pid, expires, role)]
       /\ Disconnect((Overdue \X Roles) \cup {<<id, role>>}, TRUE, {lease})
       /\ issued' = issued \cup
                       {[token |-> <<fresh, role>>, session |-> id,
                         audience |-> audience, epoch |-> epoch, role |-> role,
                         subject |-> subject]}
       /\ leases' = leases \cup {lease}
       /\ fresh' = fresh + 1
       /\ UNCHANGED <<procs, clocks, relays>>

\* Slip: the process is checked and the lease id is not.
SlipCurrent(pid, l) ==
    /\ sessions[l.session] # NoSession
    /\ sessions[l.session].epoch = l.epoch
    /\ LET seat == seats[l.session][l.role]
       IN /\ seat # NoSeat
          /\ seat.pid = pid /\ seat.subject = l.subject
          /\ seat.expires > wall

\* current/3: `pid' presents the lease term l.
Current(pid, l) ==
    /\ sessions[l.session] # NoSession
    /\ sessions[l.session].epoch = l.epoch
    /\ LET seat == seats[l.session][l.role]
       IN /\ seat # NoSeat
          /\ seat.pid = pid /\ seat.subject = l.subject /\ seat.lease = l.lease
          /\ seat.expires > wall

\* Slip: a repeated number passes.
SlipSequenceOk(seq, last) ==
    seq # Nil => seq \in 0..MaxSeq /\ (last # Nil => last <= seq)

\* sequence/2; Nil is :unsequenced.
SequenceOk(seq, last) ==
    seq # Nil => seq \in 0..MaxSeq /\ (last # Nil => last < seq)

EffectRuns(pid, l, seq) ==
    /\ Len(relays) < MaxRelays
    /\ l.session \notin Overdue
    /\ Current(pid, l)
    /\ SequenceOk(seq, seats[l.session][l.role].lastSeq)
    /\ relays' = Append(relays, [session |-> l.session, epoch |-> l.epoch,
                                 role |-> l.role, lease |-> l.lease,
                                 seq |-> seq])

\* An unsequenced effect leaves last_seq alone.
Numbered(seat, seq) == IF seq = Nil THEN seat ELSE [seat EXCEPT !.lastSeq = seq]

\* The effect returns :ok.  One that returns an error changes nothing (Sweep).
Effect(pid, l, seq) ==
    /\ EffectRuns(pid, l, seq)
    /\ sessions' = SessionsWithout(Overdue)
    /\ seats' = [SeatsWithout(Overdue) EXCEPT ![l.session][l.role] = Numbered(@, seq)]
    /\ Disconnect(Overdue \X Roles, TRUE, {})
    /\ UNCHANGED <<procs, clocks, fresh, issued, leases>>

Leave(pid, l) ==
    /\ Current(pid, l)
    /\ seats' = [seats EXCEPT ![l.session][l.role] = Vacated(@)]
    /\ Disconnect({<<l.session, l.role>>}, FALSE, {})
    /\ UNCHANGED <<sessions, procs, clocks, fresh, issued, leases, relays>>

\* Slip: the table entry is dropped and the seat stays connected.
SlipDown(ref) ==
    /\ ref \in downs
    /\ monitors' = {m \in monitors : m.ref # ref}
    /\ downs' = downs \ {ref}
    /\ UNCHANGED <<sessions, seats, beam, fenced, procs, clocks, fresh, issued,
                   leases, relays>>

\* handle_info({:DOWN, ...}).  The code also tolerates a reference it does not
\* know and one whose seat has another lease by now.
Down(ref) ==
    LET known == {m \in monitors : m.ref = ref}
        owned == {<<m.session, m.role>> : m \in
                    {x \in known : /\ seats[x.session][x.role] # NoSeat
                                   /\ seats[x.session][x.role].lease = x.lease}}
    IN /\ ref \in downs
       /\ seats' = [id \in SessionIds |-> [r \in Roles |->
                       IF <<id, r>> \in owned THEN Vacated(seats[id][r])
                       ELSE seats[id][r]]]
       /\ monitors' = monitors \ known
       /\ downs' = downs \ {ref}
       /\ UNCHANGED <<sessions, beam, fenced, procs, clocks, fresh, issued,
                      leases, relays>>
-----------------------------------------------------------------------------
(* The surroundings.                                                        *)

Die(pid) ==
    /\ pid \in procs
    /\ procs' = procs \ {pid}
    /\ downs' = downs \cup {w.ref : w \in {x \in beam : x.pid = pid}}
    /\ beam' = {w \in beam : w.pid # pid}
    /\ UNCHANGED <<sessions, seats, monitors, fenced, clocks, fresh, issued,
                   leases, relays>>

\* The supervisor restarts the authority with init/1: it knows no session, and
\* its monitors and its mailbox are gone.
Forget ==
    /\ sessions' = [id \in SessionIds |-> NoSession]
    /\ seats' = [id \in SessionIds |-> [r \in Roles |-> NoSeat]]
    /\ monitors' = {} /\ beam' = {} /\ downs' = {}
    /\ UNCHANGED <<fenced, procs, clocks, fresh, issued, leases>>

Restart == Forget /\ UNCHANGED relays

\* The effect took place and then raised: the authority dies with its caller's
\* sequence number unrecorded.
EffectCrash(pid, l, seq) == EffectRuns(pid, l, seq) /\ Forget

\* A second passes; the wall clock may be set to any value meanwhile.
Tick ==
    /\ mono < MaxClock
    /\ mono' = mono + 1
    /\ wall' \in 0..MaxClock
    /\ UNCHANGED <<sessions, seats, monitors, beam, downs, fenced, procs, fresh,
                   issued, leases, relays>>

ClaimAny ==
    \E pid \in Pids, subject \in Subjects, expires \in Expiries,
       id \in SessionIds, audience \in Audiences, role \in Roles,
       g \in issued, kind \in {"ticket", "rejoin"}, epoch \in {x.epoch : x \in issued} :
        Claim(pid, subject, expires, id, audience, role, epoch, kind, g.token)

Next ==
    \/ \E id \in SessionIds, audience \in Audiences, roster \in Rosters, ttl \in Ttls :
            Create(id, audience, roster, ttl)
    \/ \E id \in SessionIds : Rotate(id)
    \/ \E id \in SessionIds : Close(id)
    \/ Sweep
    \/ ClaimAny
    \/ \E pid \in Pids, l \in leases, seq \in Seqs \cup {Nil} : Effect(pid, l, seq)
    \/ \E pid \in Pids, l \in leases, seq \in Seqs \cup {Nil} : EffectCrash(pid, l, seq)
    \/ \E pid \in Pids, l \in leases : Leave(pid, l)
    \/ \E ref \in downs : Down(ref)
    \/ \E pid \in Pids : Die(pid)
    \/ Restart
    \/ Tick

Spec == Init /\ [][Next]_vars

\* The mailbox is served in turn, so a :DOWN is handled, and the timer that
\* init/1 starts re-arms itself.
Fairness ==
    /\ \A ref \in 0..MaxDraws : WF_vars(Down(ref))
    /\ WF_vars(Sweep)

FairSpec == Spec /\ Fairness
-----------------------------------------------------------------------------
(* Properties.                                                              *)

\* Every variable holds what the GenServer state, the runtime and the history
\* may hold (the shape of the maps built by provision/5 and the claim handler).
TypeOK ==
    /\ sessions \in [SessionIds -> Session \cup {NoSession}]
    /\ seats \in [SessionIds -> [Roles -> Seat \cup {NoSeat}]]
    /\ monitors \subseteq Monitor
    /\ beam \subseteq Watch
    /\ downs \subseteq Nat
    /\ fenced \subseteq Pids \X Nat
    /\ procs \subseteq Pids
    /\ mono \in Nat /\ wall \in Nat /\ fresh \in Nat
    /\ issued \subseteq Credential
    /\ leases \subseteq Lease
    /\ relays \in Seq(Relay)

\* The monitor table names exactly the connected seats, each of them watched by
\* the runtime while its process lives and announced by a queued :DOWN once it
\* is dead.  No monitor leaks and no death is missed, whatever the order of
\* claims, fencings, sweeps, deaths and restarts (disconnect/4 and the :DOWN
\* handler are what keeps the three in step).
MonitorAgreement ==
    /\ monitors = {[ref |-> SeatAt(p).monitor, session |-> p[1], role |-> p[2],
                    lease |-> SeatAt(p).lease] : p \in Connected}
    /\ beam = {[ref |-> SeatAt(p).monitor, pid |-> SeatAt(p).pid] :
                    p \in {q \in Connected : SeatAt(q).pid \in procs}}
    /\ downs = {SeatAt(p).monitor :
                    p \in {q \in Connected : SeatAt(q).pid \notin procs}}

\* A ticket or a rejoin token admits at most one connection, ever: two leases
\* never came from the same token (the used flag and the rotation of the rejoin
\* token in the claim handler).
CredentialOnce ==
    \A l1, l2 \in leases : l1.token = l2.token => l1 = l2

\* A lease is only granted for the session, audience, epoch, role and subject
\* its credential was handed out for: no credential outlives a rotation, a
\* closing or a restart, or works on another seat (the chain of checks of the
\* claim handler).
ScopedLease ==
    \A l \in leases : \E g \in issued :
        /\ g.token = l.token /\ g.session = l.session /\ g.epoch = l.epoch
        /\ g.audience = l.audience /\ g.role = l.role /\ g.subject = l.subject

\* Within an epoch the sequenced effects of a seat run in strictly increasing
\* order, through any number of rejoins by other processes (last_seq is kept
\* by disconnect/4 and by the claim handler), so none of them runs twice.
RelayOrder ==
    \A i, j \in DOMAIN relays :
        (/\ i < j
         /\ relays[i].epoch = relays[j].epoch /\ relays[i].role = relays[j].role
         /\ relays[i].seq # Nil /\ relays[j].seq # Nil)
            => relays[i].seq < relays[j].seq

\* The lease that currently holds a place.
HeldLeases == {[session |-> p[1], epoch |-> sessions[p[1]].epoch, role |-> p[2],
                lease |-> SeatAt(p).lease, pid |-> SeatAt(p).pid] : p \in Connected}

\* What the authority promises, without its mechanism: see SeatAuthority.  The
\* admission of a rejoin, the revocations and the relay checks, with the sweep
\* each call begins with, are single steps of that abstract authority.
Authority == INSTANCE SeatAuthority WITH
    Unnumbered <- Nil, granted <- {l.lease : l \in leases},
    held <- HeldLeases, log <- relays
ImplementsAuthority == Authority!ASpec

\* A live process never loses its seat without being told: a lease that stops
\* being held was left by its holder (the effects of Leave), or its holder is
\* dead, or the process was sent :session_fenced, or the authority restarted
\* (every call of disconnect/4 with fence? = false is for one of the first two).
ToldWhenCut ==
    [][\A h \in HeldLeases \ HeldLeases' :
            \/ <<h.pid, h.lease>> \in fenced'
            \/ h.pid \notin procs
            \/ \E l \in leases : l.lease = h.lease /\ Leave(h.pid, l)
            \/ Forget]_vars

\* A seat whose process died is given up (the :DOWN handler), so the dead
\* process is not counted as connected for ever.
DeadHolderFreed ==
    \A p \in Place, pid \in Pids :
        (SeatAt(p) # NoSeat /\ SeatAt(p).pid = pid /\ pid \notin procs)
            ~> (SeatAt(p) = NoSeat \/ SeatAt(p).pid # pid)

PastDeadline(id) == sessions[id] # NoSession /\ sessions[id].deadline <= mono

\* A session past its deadline on the monotonic clock is revoked even if
\* nobody calls the authority (the :expire timer), whatever the wall clock does.
OverdueRevoked ==
    \A id \in SessionIds : PastDeadline(id) ~> ~PastDeadline(id)
-----------------------------------------------------------------------------
(* The inductive invariant behind the safety properties: why they hold.     *)

Seated(p) == SeatAt(p) # NoSeat

\* A seat belongs to a live session; its process, monitor and lease come and go
\* together, and only after its ticket was used.
SeatShape ==
    \A p \in Place : Seated(p) =>
        /\ sessions[p[1]] # NoSession
        /\ (SeatAt(p).pid = Nil) <=> (SeatAt(p).lease = Nil)
        /\ SeatAt(p).monitor = SeatAt(p).lease
        /\ (SeatAt(p).pid = Nil) <=> (SeatAt(p).expires = Nil)
        /\ SeatAt(p).pid # Nil => SeatAt(p).used
        /\ SeatAt(p).used <=> (SeatAt(p).rejoin # Nil)

\* Every secret in use was drawn before.
Drawn ==
    /\ \A id \in Live({}) : sessions[id].epoch < fresh
    /\ \A l \in leases : l.lease < fresh
    /\ \A g \in issued : g.token[1] < fresh
    /\ \A i \in DOMAIN relays : relays[i].epoch < fresh

\* A lease id names one lease, and an epoch one session.
LeaseUnique == \A l1, l2 \in leases : l1.lease = l2.lease => l1 = l2
EpochUnique ==
    \A i, j \in Live({}) : sessions[i].epoch = sessions[j].epoch => i = j

\* A connected seat holds a lease that was granted for it.
HeldGranted ==
    \A p \in Connected : \E l \in leases :
        /\ l.lease = SeatAt(p).lease /\ l.pid = SeatAt(p).pid
        /\ l.session = p[1] /\ l.role = p[2] /\ l.epoch = sessions[p[1]].epoch

\* The one credential a seat accepts: its ticket, then its latest rejoin token.
Accepted(p) == IF SeatAt(p).used THEN SeatAt(p).rejoin ELSE SeatAt(p).ticket

\* It was handed out for that seat, it opens no other seat, and nobody used it.
AcceptedCredential ==
    /\ \A p \in Place : Seated(p) =>
          /\ [token |-> Accepted(p), session |-> p[1],
              audience |-> sessions[p[1]].audience,
              epoch |-> sessions[p[1]].epoch, role |-> p[2],
              subject |-> SeatAt(p).subject] \in issued
          /\ \A l \in leases : l.token # Accepted(p)
    /\ \A p, q \in Place :
          Seated(p) /\ Seated(q) /\ Accepted(p) = Accepted(q) => p = q

\* last_seq of a seat bounds every sequenced effect of its epoch.
RelayBound ==
    \A p \in Place, i \in DOMAIN relays :
        (/\ Seated(p) /\ relays[i].seq # Nil
         /\ relays[i].epoch = sessions[p[1]].epoch /\ relays[i].role = p[2])
            => SeatAt(p).lastSeq # Nil /\ relays[i].seq <= SeatAt(p).lastSeq

IndInv ==
    /\ TypeOK /\ SeatShape /\ Drawn
    /\ LeaseUnique /\ EpochUnique /\ HeldGranted
    /\ MonitorAgreement /\ AcceptedCredential /\ CredentialOnce /\ ScopedLease
    /\ RelayBound /\ RelayOrder
=============================================================================
