# Burble, verified

TLA+ models of the stateful core of Burble, a self-hosted voice platform, and of
the planner that deploys it: the properties that should hold of them, the TLC
runs that check them on small instances, and TLAPS proofs of the ones that matter
most, for every value of the constants. `PROJECT.json` lists components, runs,
mutants, hazards, findings and theorems, and maps each definition to the lines it
models.

Reading order: `Admission` (with `SeatAuthority`), `PhoenixClient` and
`GameRelay`, `Rooms`, `KeySession` and `KeyExchange`; apart from these `Interp`,
`ComposeFile`, `ComposePlan`, `Podman`, `SelurCompose` and `ComposeLaws`; then the proof
modules, of which `PlanProofs` comes first, then `InterpProofs`, then `ComposeProofs`.

## 1. The system

Burble's server is an Elixir application (`src/server`, 34 000 lines). Its parts
are processes with a mailbox each, supervised, that talk by calls (a caller
waits at most 5 s), casts, PubSub broadcasts and monitors. A connection is a
socket with one channel process per topic.

| Part | State | Operations | Talks to |
|---|---|---|---|
| `Sessions.Admission` | game sessions: epoch, deadline, seats (ticket, rejoin token, holder, lease, last sequence number); table of monitors | create, rotate, close, claim, effect, leave; `:DOWN`, `:expire` | game channels call it; it monitors them and sends `:session_fenced` |
| `GameChannel` | lease, role, mode | join, command, event, ping, terminate; intercepts broadcasts | every effect runs inside `Admission.relay` |
| `Rooms.RoomManager`, `Rooms.Room` | registry of room processes; participants, idle timer | ensure, start, join, leave, voice state, scoped send, `:idle_check` | called by room channels, moderation, groove |
| `RoomChannel` | room, user | join, voice state, text, signalling, E2EE events, terminate | Room, Media.Engine, Media.E2EE, PubSub |
| `Media.E2EE` | per room: epoch, public keys, sealed keys | init, register, remove, rotate, publish, fetch | channels call it; lifecycle broadcasts |
| `e2ee-session.js` | browser session: epoch, key set, room key, leader key | start, refresh, onKeySet, onSealedKey | its room channel |
| `Security.KeyRotation` | tracked rooms | tick, rotate now, track, untrack | E2EE, lifecycle broadcasts |
| `Media.Engine`, `Media.Peer` | sessions and peers; one process per peer | add, remove, mute, distribute | channels, moderation |
| `Groove` | leased connections, queue, voice inboxes | connect, heartbeat, send, recv, sweep | Room (scoped sends), health mesh |
| `Moderation` | mutes, bans, timeouts | kick, mute, ban, ... | Room, Media.Engine |
| `CircuitBreaker` | counters in a shared ETS table | run, success, failure, reset | store, mailer, LLM callers |
| `Store`, backups | tables and files | read, write, back up, restore | accounts, rooms |
| `client/rust`: `GameClient` over `PhoenixClient` | one WebSocket; next frame number, awaited answer, heartbeat, kept broadcasts | join, send command or event, next broadcast, leave | a game channel |
| `tools/selur-compose` | none of its own: each command reads the compose file and works on podman's containers, networks and images | up, down, build, pull, ps, logs, config | podman, other commands through it |
| the rest | sockets, timing, codecs, coprocessor, LLM, audit, panels | | |

What is hard, and what makes each part correct:

* **Admission.** One process serialises everything, but its callers die, time
  out and are replaced, clocks jump, effects raise and the process restarts. It
  is correct when a credential admits once and in its scope, one lease holds a
  seat, an effect only runs for the current lease and in order, nobody loses a
  seat unawares, and dead holders and overdue sessions go away.
* **Rooms.** Looking a room up, starting it and calling it are separate steps of
  concurrent callers; rooms stop when idle, crash and restart empty. It is
  correct when channels and participants agree, capacity holds, a left user is
  unreachable, and rooms neither vanish under people nor stay for ever.
* **Key exchange.** A server that cannot read keys coordinates asynchronous
  browsers: broadcasts, awaits and epochs overlap. It is correct when members of
  an epoch hold one key and nobody holds a key from before joining.
* **Game relay.** Between a check of the lease and the client lie a channel's
  mailbox, PubSub, a socket and the client's buffer, while seats change hands and
  sessions rotate; pushes time out and are tried again. It is correct when a
  client is given broadcasts of its own epoch only, in order; when a push reports
  what became of it; and when what a channel announced stands while it holds its
  seat.
* **selur-compose.** Pure functions from a file and an environment to a plan, and
  a plan executed call by call on a host that changes meanwhile. It is correct
  when texts expand exactly, a plan respects dependencies and their barriers, a
  successful `up` or `down` has done what it says and nothing to another project,
  and every command ends.
* **Media, groove, rotation, breaker.** State of two processes that follow each
  other through messages, deadlines checked at both ends, and shared counters
  without locks.

## 2. Modules and code

### Admission.tla (`server/lib/burble/sessions/admission.ex`)

One action is one message of the authority's mailbox; every call of `expire/1`
a handler starts with is part of its action. `sessions`, `seats` and `monitors`
are the GenServer state (the seats are split from their session so that an
update reads like the code). `beam` and `downs` are what the runtime knows: the
monitors it watches and the `:DOWN` messages it has delivered. `fenced` records
the `:session_fenced` messages sent, `procs` the live channel processes, `mono`
and `wall` the two clocks. `issued`, `leases` and `relays` are history: what the
callers were handed and which effects ran.

* A secret (epoch, ticket, token, lease id, reference) is a draw of a counter;
  digests and constant-time comparison are thereby equality.
* A refused call runs its sweep and changes nothing else: that is `Sweep`, which
  is also the `:expire` timer.
* A call is served even if its caller died or timed out while it was queued; a
  monitor set up on a dead process fires at once (`Disconnect`).
* `Claim` presents any credential ever handed out, for any session, audience,
  role, epoch and subject, from any process, dead or alive.
* `EffectCrash` is an effect that took place and then raised: the authority dies
  and restarts with no sessions (`Forget`). `Restart` is any other crash.

### SeatAuthority.tla

What the authority promises, without digests, monitors, clocks or processes'
deaths: seats are held by leases, a lease is granted at most once and replaces
whoever held the place, any set of leases may be given up, and an effect is
logged only for a held lease and with a number above the earlier ones.
`Admission` implements it under `held <- HeldLeases`, the leases of connected
seats; the sweep that begins a call may revoke leases in the same abstract step.

### Rooms.tla (`rooms/room.ex`, `rooms/room_manager.ex`, `channels/room_channel.ex`)

One room, through its successive processes. `people`, `armed` and `inbox` are
the room's participants, idle timer and mailbox; `at` says where each channel
process is between `RoomChannel.join/3` and the end of `terminate/2`. The steps
of the callers (`EnsureRoom`, `StartRoom`, `AskJoin`, `Admit`, `AskVoice`,
`AskLeave`) interleave with the room's serving of its mailbox (`Serve`). The
constant `Disturbances` names the failures an instance admits: `room_crash`,
`call_timeout`, `join_crash` (the rest of `join/3` raises after the room
admitted the user) and `kick`. `join_crash` does not run `terminate/2`, as
Phoenix does not for a channel that has not joined.

A lookup and the send of the call that follows are one step: a call to a process
that stopped in between exits like a call queued when the process stops, and
both outcomes are in `Dropped`. Between a crash and the supervisor's restart no room is
registered (`restarting`): callers are told so, or start a room of their own.

### KeySession.tla and KeyExchange.tla (`media/e2ee.ex`, `channels/room_channel.ex`, `client/web/e2ee-session.js`)

`KeySession` is one browser session without its surroundings. JavaScript runs
from one `await` to the next without interruption, so an operator is such a
piece of code: from a session and the task that resumes, it gives the new session
and the task it then waits for. `start()`, `onKeySet` and `onSealedKey` may all
be waiting at once. A public key is the life (the connection) of its owner; a
room key is its maker, epoch and serial number; a blob opens if both lives match.

`KeyExchange` is the room around them. The coordinator (`open`, `epoch`, `pubs`,
`sealed`) serves a call in one step. A channel process takes its client's
requests in order (`chan`) and answers in further steps (`busy`): a registration
calls the coordinator (`Register`), reads the key set for the broadcast
(`ReadKeySet`) and sends it with the reply (`Send`). `down` is what is on the way
to a client. Sealing takes no step of its own, because the publication it
precedes may wait in `chan`; opening does (`Unseal`), in any order. When a client
goes (`Close`), its channel serves what it was sent, leaves the room, so that the
user may join again, and only then removes the key (`Teardown`). `accepted`,
`past` and `barred` are history: blobs stored, blobs stored before a peer
registered, keys known to connections that were removed.

Not in the model: the time key generation takes before the registration (a
broadcast that comes in it only sets the epoch and the key set, which `start()`
fetches again), capacity, identity proofs, a missing coordinator, and `clear()`. A
session makes a new key pair in each `start()` (`e2ee-session.js:142`), so the
coordinator's branch for a key it already has (`e2ee.ex:540`) is never taken.

### PhoenixClient.tla (`client/rust/src/phoenix.rs`, `game.rs`)

The embedding calls one method of the client at a time; `phase` says which one
it is in. A method that waits reads frames from `wire`: `await_reply` keeps the
broadcasts it meets (`pending`), drops answers to earlier pushes, and gives up
after ten seconds (`ReplyTimeout`, after which the embedding may push again);
`next_broadcast` hands out what was kept first. `mailbox` is what the channel
process has yet to handle. `got` and `outcomes` are history: what the embedding
was given. The socket answers heartbeats itself. An embedding whose join failed
or whose socket ended drops the client; the Rust code offers nothing else to do.

### GameRelay.tla (`server/lib/burble_web/channels/game_channel.ex`)

The channel processes of one session between the clients and the authority, of
which it keeps what the channels ask: `epoch`, `holder`, `last`. (The authority in
full is `Admission`; a relay here is one call there, checked and recorded in
one turn of its mailbox, which is why `HandleCommand` is atomic.) `channel` is where
each process is between `join/3` and the end of `terminate/2`. A broadcast
travels in `air` and reaches the channels that are subscribed when it arrives
(`Dispatch`); `handle_out` compares its epoch and asks for the lease again before
it pushes (`HandleOut`). A seat is lost by a takeover (`Claim`), a rotation, the
channel's own end (`Release`) or its death (`Kill`, then `Down`); whoever loses it
is sent a fence, which waits in its mailbox like everything else. `log` is
history: the broadcasts in the order they were made. `Release` ends the socket after
the work of `terminate/2`, where Phoenix sends `phx_close` before it; no property
depends on which comes first.

### Interp.tla, ComposeFile.tla, ComposePlan.tla (`selur-compose-interp`, `-schema`, `-plan`)

The pure half of the planner. A text is a sequence of characters, because
interpolation is about characters: `Lex` and `Expand` are the lexer and the
expander, `BuildEnv` the environment of process, `.env` and `--env-file`.
`ComposeFile` has the types a file may hold, `Validate`, and which texts are
interpolated. `Plan` filters by profile, checks references, layers the services
by Kahn's algorithm (`TopologicalWaves`) and lays out the operations (`Layout`).
Every `Result` is a record that is `ok` or names its error. Services are numbers
in the order of their names, the order of the `BTreeMap`s they are kept in.
What repeats itself (the lexer's scan, the rounds of the waves) is a recursive
function of one argument. `ComposeLaws` says what these pure parts promise, as
properties that do not depend on the state.

### Podman.tla and SelurCompose.tla (`selur-compose-driver`, `selur-compose`)

`Podman` says what each call tells podman (`...Argv`, from `argv.rs`), and what
podman then does as far as the driver depends on it: names are unique, a running
container is not removed without force, an existing network is no error.
`SelurCompose` has the commands as concurrent processes, each in a phase of its own:
`ops` walks `Steps`, the operations of the plan that the command performs; `list`,
`stop` and `rm` are `down`; `tail` is `logs`, with its readers, its bounded channel
and the rule that nothing is drained before every reader has been started. A
container's log has `LogLines` lines, of which it wrote `ErrLines` to stderr: a
reader forwards the others (`Forward`), while the driver opens podman's stderr as a
pipe and drops it, so that these are lost (`LoseLine`). A reader also ends at a line
it cannot read, or when podman dies, just as at the end of the log (`ReadBreaks`);
the command does not look at podman's status. Any call may fail (`CallFails`),
`podman run` may leave a container it could not start (`RunFails`), starting a
reader may fail (`SpawnFails`), and containers exit and change their health whenever
they like (`World`). `before` is history: the containers there were when the command
was typed.

## 3. Runs

| Run | Question | Bounds |
|---|---|---|
| `Admission` | Safety of the authority, its inductive invariant, its implementation of `SeatAuthority`, fencing and liveness | 2 processes and 2 subjects over 2 roles, 2 session ids, 3 draws (a provision and two claims, or two provisions and a claim), 2 effects, clocks 0..1, identities that expire at 1 |
| `Rooms` | Agreement of rooms and channels when nothing fails | 3 connections, two of them of one user, capacity 2, 2 boots, 1 optional request |
| `RoomsFaults` | Capacity and clean-up under every disturbance | the same with capacity 1 |
| `RoomsRace` | Documentation of `ensure_room` (violated) | 2 connections |
| `RoomsGhost` | Documentation of the idle timeout (violated) | 2 connections, `join_crash` |
| `KeyExchange` | Which keys peers may learn | 3 peers, one of them alone in the room at first, two may leave, 2 epoch changes |
| `KeyAgreement` | Do two peers end with one key? | 2 peers that start at the same time, 2 rotations |
| `KeySplit` | "No split brain" (violated) | 3 peers, nobody leaves |
| `KeyStale` | Comment of `hasRoomKey` (violated) | 2 peers, 1 rotation |
| `KeyLeave` | Comment of `rotate/2` (violated) | 2 peers, one leaves |
| `GameRelay` | Delivery, order, outcomes and announcements of the relay | 2 clients with 3 and 1 pushes over 2 roles, 3 broadcasts, 2 numbers, one fault: a rotation, a killed channel or an answer given up |
| `Compose` | Commands on one host; laws of interpolation, environments and plans | any 2 of 17 command lines on 3 services, 5 containers of which 2 may be leftovers, one failing call, one change of a container, logs of 3 lines, the second on stderr, in a channel of 1 slot a reader |

The bounds suffice for the interesting cases. In `Admission` three draws allow a
seat to be claimed and taken over with a rejoin token, or a session to be rotated
(or a second one created) and claimed; two processes are enough for holder and
rival, one of which may be dead. A rejoin token used twice, or claims on both sides
of a rotation, take five draws: that no credential admits twice then either is what
the theorem says, not the run. A lease whose identity expires at 1 is swept when the
wall clock gets there, a session of one tick when the monotonic does. `Ttls`
contains an invalid, a short and a too long lifetime; one tick separates the clocks.
In `Rooms` one user with two connections meets `:already_joined`, leaves by user id,
and a second user fills the room; two boots allow a stop and a new start, or a
crash. In `KeyExchange` three peers are a leader, a peer that is served and one that
arrives between; `First` starts the instance behind the `start()` of a lone peer,
which meets nobody, and two epoch changes let a departure and an arrival follow each
other while publications of the first epoch are still queued. Since one who is alone
may leave while another has joined but not registered, the run also reaches the
dropped room and the refused registration. In `GameRelay` a join, two pushes and a
takeover or a second player are enough for a retried push whose first answer is
late, for a broadcast held through a rotation, and for a `terminate/2` that runs
after its successor has joined; one client with one push is the rival or the
audience. In `Compose` the 17 lines contain every command, both default file names,
profiles, two files that fall into one project and one that does not, files that are
refused (no image, a cycle), an image no registry has and a `logs --follow`. Two
commands meet; a leftover of an unfinished `up` makes names clash; the one change of
a container makes a barrier pass, fail or end a stream. The laws of the pure parts
in `ComposeLaws` (`ExpandLaw`, `EnvLaw`, `WavesSound`, `PlanOrdered`) do not depend
on the state and are evaluated in the initial states: over all texts of at most four
of the characters that matter to the lexer, all combinations of three environments,
and all dependency graphs of three services, cyclic ones included. Every property of
a passing run has a mutant, a plausible slip in the code's own definitions
(`Slip...`), that breaks it.

*Fairness.* In `Admission` a queued `:DOWN` is handled and the `:expire`
timer fires again: the mailbox is FIFO and the handler re-arms the timer. In
`Rooms` the room serves its mailbox, an uncancelled timer fires, and a channel
in the middle of a function goes on. In `KeyAgreement` and `KeyLeave` channels
and browsers that have something to do go on. In `Compose` a command that can take its
next step takes it, and the deadline of a barrier comes (`WF` for each command's
`Proceed` and `Deadline`): processes are scheduled, podman's calls return and time
passes. `GameRelay` states safety only. Nothing makes a connection arrive or leave,
a process die, a container change or a clock advance. Deadlock is not checked,
since all these systems may rest and the bounds end them.

`CommandEnds` excuses two commands: a `logs --follow`, which ends with its
containers, and a `logs` one of whose readers could not be started. The second hangs
in fact when the channel is full at that moment: the error line waits for room
before anything is drained (`logs.rs:61`). `LogsFaithful` says that nothing that was
printed is wrong then. It is about what services write to stdout, and about all of
it only where no error broke the reader off: the program takes such an end for the
log's, and never prints stderr. `DownClears` speaks of the containers there were
when the command was typed; an `up` beside it may create others.

`EventuallyAgreed` has a premise: that in the end every session has learned the
last epoch and none holds an older key. Both parts can fail, which is what
`KeyLeave` and `KeyStale` show. With them granted, agreement still depends on the
session's retry of blobs that arrive too early; the mutant drops it.

`DesertedStops` is claimed without disturbances; with one it fails, which is the
second finding below. `PresentIsListed` likewise: after a room crash a channel
believes it is in a room that forgot it.

## 4. Findings

* `RoomsRace`: two first joins of a room; the loser of the race is refused with
  `already_started` although the room runs (`room_manager.ex:20`).
* `RoomsGhost`: a join that fails after the room admitted its user leaves the
  user listed for ever, and the room is never idle (`room_channel.ex:93`).
* `KeySplit`: a lower id registers while another leader's first publication is
  queued; both distribute in one epoch, peers end with different keys, and the
  slower leader's `start()` or handler fails with `already_published`
  (`e2ee-session.js:200`).
* `KeyStale`: `setRoomKey` follows several awaits without a second look at the
  epoch, so a session installs a key of an epoch it has left
  (`e2ee-session.js:281` and `:355`).
* `KeyLeave`: a leave or a requested rotation moves the epoch at the coordinator,
  but no channel tells the sessions (`e2ee.ex:579`).

Of the keys, what nevertheless holds is the server's half of the promise:
`NoPastKey` and `LeaverLockedOut`.

Noted while modelling the planner, and not claimed by any property:

* of `.env` and several `--env-file` the first that defines a name wins (`env.rs:115`);
  the comments of `load` (`load.rs:17`, `:147`) and of the environment (`env.rs:12`) and
  the dialect document say that each `--env-file` overrides `.env` and those before it.
  `EnvLaw` therefore leaves open which of the files that define a name gives its value;
* lines that a container writes to stderr never appear in `logs`, which succeeds, though
  the comments promise one merged stream (`podman.rs:186` to `:191`);
* a `logs` whose reader broke off, at a line that is not UTF-8 for one, reports success
  (`logs.rs:94`); one whose reader cannot be started while the channel is full hangs and
  prints nothing, although an error line is promised (`logs.rs:61`, `:71`);
* a healthcheck of the compose file never reaches podman, so `service_healthy`
  passes at once unless the image defines one, and `service_completed_successfully`
  is never waited for (`dag.rs:48`);
* `env_file`, `user`, `secrets`, `hostname` and capabilities are parsed and not
  passed on; an external volume is created if it is missing;
* the services named on the command line are checked and then do not restrict the
  plan; a second `up` fails on the names of the first; a failed one is not rolled
  back; files without `[project]` share the project called `project`;
* `execute` runs one operation after the other, where its comment announces
  concurrent waves.

## 5. Proofs

All theorems are for every value of the constants, from the named assumptions of
the modules (rosters are functions to subjects, bounds are naturals, the absent
values are not values). Each rests on an inductive invariant that was tried with
TLC on small instances before it was proved.

**Admission** (`AdmissionProofs`). The invariant `IndInv` has
three layers.

1. *Core*: types; a seat's process, monitor and lease come and go together
   (`SeatShape`); every secret in use was drawn (`Drawn`); lease ids are unique;
   a connected seat holds a granted lease; and `MonitorAgreement`. `Disconnect`
   is the heart: one lemma shows it keeps the three tables in step for any set
   of places, and every handler cites it.
2. *Credentials*: the one credential a seat accepts was handed out for that seat
   and never used (`AcceptedCredential`), because a claim consumes the accepted
   one and installs a fresh one. `CredentialOnce` and `ScopedLease` follow.
3. *Order*: epochs are unique, and `lastSeq` bounds the sequenced effects of the
   epoch (`RelayBound`). `RelayOrder` follows, through any rejoins, because a
   seat keeps `lastSeq` while its holders change and a rotation changes epoch.

From it follow all safety properties of the run, among them the action
property `ToldWhenCut` and the refinement (`AuthorityImplemented`): initial
states map to initial states and each action maps to a step of `SeatAuthority`
or a stutter. For it, `HeldLeases` is shown to change only by the cut and the
new lease.

**Rooms** (`RoomsProofs`). `RoomInv` adds to the types that people are finitely
many, that a removed or departed user is unlisted (`GoneUnlisted`), and the
timer invariant; `CapacityKept`, `IdleTimerWatches` and `NoSendAfterLeave`
follow for every number of connections and all disturbances. `RoomsAgree`
(`PresentIsListed`) supposes that there are none; its invariant `Agreement` says that
every call in the mailbox is the one its channel waits for (`Mail`, `OneCall`), and
that a channel which has joined, or whose leave is still to be served, is the only
one of its user and finds it listed (`Seats`).

**Game relay** (`RelayProofs`), for any number of clients, seats and numbers, of rotations,
killed channels and answers given up, and for logs of any length. Every property is about
one sequence being carried into another, so the lemmas come first: what a single step may do
to a socket (`WireMoves`), to the client's buffer and deliveries (`ClientMoves`), to a
mailbox (`MailboxMoves`), to the log (`LogMoves`), to a channel (`ChannelMoves`) and to the
seats (`HolderMoves`).

1. *Epochs* (`CleanInv`): what a channel has put on a socket, and what its client
   keeps or has been given, is of the channel's epoch; only `handle_out` puts a
   broadcast there, and it compares the epochs and asks for the seat in the same
   step. `EpochCleanHolds`.
2. *Numbers* (`OrderInv`): the seat's last number in the authority is no lower
   than any number logged for it in this epoch (`CommandsInOrder`).
3. *News* (`NewsInv`): a channel announces itself once, before anything else in
   its mailbox, and a newer joiner's news comes after its predecessor has lost
   the seat; a process that lost a seat never holds it again (`LostForGood`).
   `NoFalseLeaveHolds` follows.
4. *Outcomes* (`HonestInv`): the pushes waiting in a mailbox have increasing
   numbers and are undecided (not logged, not answered, not reported), and every
   reply on the socket tells the truth about its push. A step of the channel
   decides exactly the push at the head (`AnswerStep`); every other step leaves
   the decided alone (`QuietStep`). `OutcomeHonestHolds`.
5. *Deliveries*, which also use 1 to 4. What is true of a client at
   the end has to be known of a broadcast all the way from the log: PubSub still holds
   the log's last entries (`AirInv`), and then come a channel's mailbox, its socket,
   what the client keeps while it waits for a reply, and what it has been given.
   `OrderedInv` says that each of these four rises in log positions and lies after
   the next one's: a step moves the head of one to the end of the next (`Moved`,
   `Added`, `Dropped`). Two facts make the places of
   a broadcast unique: no broadcast is made twice (`OnceInv`), since a seat's commands
   have different numbers and a channel announces its coming and going once; and
   what is under way is in the log (`KnownInv`). `OnceInOrderHolds`.

**Key exchange** (`KeySessionProofs`, `KeyProofs`), for any peers, any number of
connections of each, any number of epochs, rotations at any time, and users who
join again before their old channel has removed their key. The latter is more than
the run covers, which has one connection for each peer. `KeySessionProofs` says
which peer a distribution serves next. The first part of `KeyProofs` then shows of
each piece of the session that it leaves a sound session and asks for a sound task
(`SealNextOK`, `OnKeySetOK`, `ResumeOK`, ...); "sound" (`SessionOK`, `TaskOK`,
`RequestOK`, `DownOK`) means that every room key is one the session made in its
present life or one from an accepted blob, and that every life a key set names has
registered (`Known`). What is sound for a connection stays so while it lasts,
because lives and stored blobs only grow (`SoundStays`); that takes care of all that
is queued, in transit or awaited, however late it arrives. The invariant `Inv` adds:

1. *Coordinator* (`Coord`): a peer whose present connection has registered has
   that connection's key in the key set; stored blobs were accepted.
2. *Ages* (`Written`, `Aged`): a blob has its maker's key for its epoch, and while
   the maker's public key is registered the blob is of no later epoch than the
   room's, and of an earlier one once nothing is sealed. Once that public key is
   replaced or removed, no blob under it is ever accepted again.
3. *Before and after* (`Before`, `Unseen`, `Spent`): what was stored before a
   registration is of an earlier epoch from then on, so no later blob can carry
   its key; the same holds of the keys a removed connection knew.

`NoPastKeyHolds`, `LeaverLockedOutHolds`, `OneKeyHolds` and `SealedCurrentHolds`
follow. `OneKeyHolds` needs no more than `Written`: two blobs of one session and
epoch have the same key because the session makes one per epoch.

**Plans** (`PlanProofs`), for any services, files and profiles. The planner is pure,
and what it computes it computes by repetition: rounds of Kahn's algorithm, pieces
appended to a list, numbers taken in order. Induction theorems take an operator,
which the provers cannot instantiate; what replaces them is `LeastNatural`, that a
set of naturals with an element has a least one: the first place where a claim
about a repetition fails cannot be the first, nor come after one where it holds.
That needs recursive functions of one argument and the folds of the community
modules, and no `RECURSIVE` operator.

1. *Lists*: `InOrder` lists each member of a finite set once and in order, and
   `FlattenSeq` puts the elements of its pieces at known places (`FlattenSpreads`).
2. *Waves*: a round's in-degrees count the edges from services not yet placed
   (`RoundsCount`), a wave that is empty stays empty, and what is left over at the
   end waits for one another (`StuckWaits`). `WavesSoundHolds` follows, and
   `EveryWiringLayers` for graphs with conditions of every kind.
3. *Plans*: the barriers of a wave are those of the services that it is the first to
   want healthy (`WaitOpsShape`), and each operation has its place among the others
   (`LayoutLaid`). `EveryPlanSound`, `PlanOrderedHolds`, and of what `up` performs
   `EveryPlanOrdered` and `EveryPlanComplete`.

`FilesAssumption` says of the files that commands find that they are of the schema's
types: what serde accepts is (`services.rs` and its neighbours), and anything else
fails in `load` before the planner sees it. It says of `.env` files, the environment
of the process and `--project-name` that they hold texts. Nothing is assumed of what
is made of them.

**Texts and environments** (`InterpProofs`), for texts of any length over any
characters and any number of files and lines.

1. *The lexer* is a scan from every position, each made of the scans after it
   (`LexScans`), so claims about it go backwards from the end of the text. What a
   text says from a position on (`Reads`, `Stops`) is related to what tokens say
   (`Yields`) one token at a time.
2. *Expansion*: `DoubledExpands` and `ReferenceExpands` are for all texts,
   names, defaults and environments; `ExpandLawHolds` is an instance of them.
3. *Environments*: what a line means (`LineMeans`), what one file gives
   (`FileGives`), and that a file is laid under what there was (`FilesLayer`).
   `ProcessWins` says that no file changes a variable of the process, and
   `EnvLawHolds` that a name which files define has a value that one of them gives
   it, and how quotes are taken off. Which of several files it is, is not claimed.

**Commands** (`ComposeProofs`), for any command lines, files, environments,
hosts, numbers of concurrent commands and failures. The containers of a host are
changed by all commands, so the lemmas about podman come first: no call changes
the project of a container, new ids are new, and only `rm` takes one away.

1. *Operations* (`EveryStepTyped`): whatever the files and the environment say, each
   step of a command is an operation podman can be given. An expansion that succeeds
   gives a text (`ExpandTyped`), an environment holds texts (`EnvTyped`), the visit of
   a file that can be read gives a file (`VisitComposeTyped`), in which each service
   still has the image or the build that `parse_str` asks for, and `plan` lays out
   operations from it (`LayoutTyped`).
2. *Types* (`TypesOK`), by the phase a command is in. The functions `:>` and `@@`
   hide their definitions from the provers; a container is therefore added with
   `Put`, which spells the function out.
3. *Down* (`DownInv`): while a `down` works, what is left to remove contains every
   container of its project that was there when it was typed and still is, and it
   lists and removes containers of its project only. `DownClearsHolds` and
   `OwnProjectHolds` follow.
4. *Starts* (`RunInv`): a service that ran did so by a `run` step the command has
   passed, in a container made before the next one; barriers likewise. The order and
   completeness of the steps is what `EveryPlanOrdered` and `EveryPlanComplete` say of
   every plan. The invariant also says that a command which reports success has passed
   its last operation (`ThroughPlan`) and that no two services share a container
   (`OwnContainers`). `StartOrderHolds` and `UpCompleteHolds` follow without any
   premise about plans: from a file to the containers that run.
5. *Logs* (`LogInv`): of each service a first part of the lines on stdout is out and the
   next ones in the channel, or the reader never started and its one error line is
   in either place (`Followed`); a reader ends only with its log, its container, that
   error line or a read that failed (`Ended`), and a container that is gone stays gone
   because ids are not given twice. `LogsFaithfulHolds`, for logs and channels of
   any length and any lines on stderr.

*Only model-checked*: liveness (`DeadHolderFreed`, `OverdueRevoked`,
`DesertedStops`, `EmptyEnds`, `EventuallyAgreed`, `CommandEnds`), which TLAPS cannot
prove under fairness. Every other property of a passing run is a theorem.

## 6. Plan

In order of weight:

1. `KeyExchange` further: capacity; a restart of the coordinator.
2. `KeyRotation`: tracked rooms against the coordinator, with crashes of either.
3. `CircuitBreaker`: the unlocked counters; an abstract breaker it should
   implement.
4. `GrooveLeases`: soft and hard leases, late operations, bounded inboxes.
5. `MediaSession` and `Moderation`: the engine's peers against participants.
6. `Store`: write-through tables and their recovery.

The small modules of 2 to 6 do not interact and can share a run through one MC
module that instantiates them side by side.

## 7. Not modelled

Signal processing, codecs, WebRTC/SDP, network and clock adapters (numeric or
pure I/O); web controllers, panels and the other clients (ends of the protocols
above); attestation and audit (append-only, never read back). Of the modelled
parts:

* admission: token syntax and digests; the relay: the loopback-only development mode,
  `ping`, and the checks of a payload's form and of which role may send what. The
  Rust client sends no protocol version or ticket, so against the scoped mode it
  stands for a client that does;
* rooms: RTSP mountpoints, topology mode, whispers and chat;
* the planner: TOML and duration syntax, the config-hash label (nothing reads it
  back), printed tables, the mock driver, and `HealthGate` and
  `execute_wave_concurrent`, which nothing calls. What a container does between the
  passing of a barrier and the start of its dependents is left open, as the
  code leaves it. No property depends on the texts of ports and mounts, nor on most of
  the arguments that `...Argv` builds.

`PROJECT.json` lists every component with its reason.
