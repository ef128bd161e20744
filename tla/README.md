# A TLA+ model of adrop

adrop is a daemon that runs on each of a person's devices and moves files and
clipboard texts between devices that were paired. This directory holds a
specification of it in TLA+, translated from the Go source, the TLC models that
check it on small instances, and proofs about every one of its components that
TLAPS checks for all instances. Source paths below are relative to the repository.

## 1. The system and its parts

| part | source | module | status |
|---|---|---|---|
| receiving files: sessions, slots, partials, resume, verification | `internal/daemon/receive.go`, `util.go` | `Receiver`, `Downloads` | modelled, proved; inbound clipboard sessions left to `Outbox` |
| sending files and folders | `internal/daemon/send.go` | `Transfer` (with `Receiver`) | modelled, proved |
| queue of sends that wait for a device | `internal/daemon/queue.go` | `Outbox` | modelled, proved |
| clipboard texts in packets through hubs; pings | `internal/daemon/queue.go`, `rns.go` | `HubClip` | modelled, proved |
| the list of paired devices and the last-used one | `internal/config/config.go` | `DeviceStore` | modelled, but not `config.json`; proved |
| pairing by QR: windows and inbound connections | `internal/daemon/pairing.go`, `receive.go`, `internal/transport` | `PairWindow` (with `DeviceStore`) | modelled, proved |
| pairing by tap: both users confirm | `internal/daemon/tappair.go` | `TapPair` | modelled, proved |
| reaching a device: stored address, mDNS, direct channel, wake | `internal/daemon/send.go`, `daemon.go` | `Dial` | modelled, proved |
| setting up a direct channel: signalling and inboxes | `internal/daemon/directch.go`, `internal/direct` | `DirectSetup` | signalling only, proved; ICE and QUIC are libraries |
| keeping Reticulum hubs connected | `internal/rns/hubs.go`, `rns.go`, `hubconn.go` | `HubManager` | modelled, but not framing and packets; proved |
| control socket, event streams, pair-show | `internal/daemon/ipc_handler.go`, `daemon.go` | `Ipc` | modelled, proved; commands grouped by how they answer |
| mDNS discovery | `internal/mdns`, `daemon.go` | `Dial` | its effect on addresses; not the nearby list |
| FCM wake | `internal/fcm`, `cmd/adrop-relay` | `Dial` | request, relay, token, push, each failing or taking any time; not the token cache |
| wire protocol | `internal/proto` | `Receiver`, `Transfer` | message types and order; not their encoding |
| pairing URI | `internal/pairing` | – | a conversion without state |
| mobile core | `core` | `PhonePair` (with `PairWindow`) | `Pair` and its undo, revocation, restarts; proved |
| command line, app, clipboard, notifications | `cmd/adrop`, `app`, `internal/clipboard`, `internal/notify` | – | user interface and system calls |

How they interact: a request enters through the control socket (`Ipc`), its
target is resolved against the device list (`DeviceStore`), the device is reached
(`Dial`, where needed over a channel set up by `DirectSetup` with signals that
travel through hubs kept by `HubManager`), the files are sent and received
(`Transfer`, `Receiver`); when the device cannot be reached the send waits
(`Outbox`) or, for a short clipboard text, goes through the hubs (`HubClip`).
Devices enter the list by `PairWindow` or `TapPair`.

The composed models are `Transfer`, which runs a sender against the actions of
`Receiver`, and `PhonePair`, which runs a phone that scans a QR against the windows
and connections of `PairWindow`, which work on the device list of `DeviceStore`.

Three levels describe a transfer. `Downloads` says what receiving promises: whole
files appear under free names, and what was acknowledged stays. `Receiver` has the
sessions, slots, partials and crashes that bring it about, with a peer that may
send any frame at any time; it implements `Downloads` (`ImplementsDownloads`).
`Transfer` replaces that peer by the sender of adrop and implements `Receiver`
(`ImplementsReceiver`). Both refinements are checked by TLC and proved, so what is
proved of the upper levels holds of real transfers.

## 2. The modules

Each module has a state that follows the fields and locals of the Go code, one
action per handler or per stretch of a handler between two points where others
can run (a lock released, a message awaited, a goroutine started), and the
properties at its end. Operators named as mutants are plausible mistakes in the
definition that follows them; no specification uses them, they show that each
property can fail.

**Receiver.** `slots` is `Daemon.slots`, `file`, `part`, `sidecar` the download
directory (final names, `.adrop-part` and `.meta` files), and per session the
locals of `receiveFilesWithProgress` and `receiveOneFile` (`rpc` is where it
waits). `up` says whether the connection stands and `reply` is the last
answer. A content is a sequence of bytes, and a hash is identified with the
content. The peer's frames come from `PeerFrame`, one of them malformed.
`DiskErrors` lets every disk operation fail, also those whose error the code ignores:
the write of a sidecar, the removal of a partial, and the reading of the partial
that seeds the hasher (`Seeded`), which may then have been fed less than the file
holds. `Foreign` are the paths that another program may create.

**Downloads.** `shown` is what a reader of the download directory finds at a path,
`acked` what senders were told. `Receiver` maps `file` to `shown` as it is; the
acknowledgements are the completed entries of its manifests with what is at their
path (`AckedEntries`, `Found`), files and folders. A partial is not shown, so most
steps of a session are stutters.

**Transfer.** Adds the sender's side (`buildManifest`, `SendFiles`, `sendOneFile`), the
frames on the way and the source files, which may be saved anew, or turn out to be
unreadable, at any time. A job is a sequence of files and folders; a folder goes out
as a header and an end without chunks.

**Outbox.** `queue` is `queue.json`; a request and the retry pass are separate
actors, and the pass sends from the snapshot it took, as `retryQueue` does.
`DiskErrors` lets a write of `queue.json` fail, once in a behaviour (the code ignores
the error); `unsaved` records it. Once the daemon was told to stop the process may go
at any moment (`Exit`), since `Run` waits for the accept loops only; a crash is a stop
and an exit at once. `cut` records what the peer had taken in an attempt that was
under way then. `runner` is "none" where `rns.Open` failed (section 7). `air` are clipboard texts on their way through
the hubs, which may arrive after the sender gave up.

**HubClip.** A packet in `air` arrives late, again, or never, so loss needs no step
of its own; a collection has a timer started by `time.AfterFunc` that is not
stopped when it completes. A call of `Ping` waits for its pong in the table
`pongs` in which a send of a clip waits for its acknowledgement.

**DeviceStore, PairWindow.** `devices` is in memory, `saved` on disk; a save may
fail. A connection goes through handshake, Hello, reading the window, pairing
attempt, save, trust check, update of the stored details and session as separate
steps. A connection that ended is used for the next one.

**PhonePair.** `Pair` of the mobile core: `AddPeer` saves the PC and greets it, a
second Hello decides whether the PC is kept. The phone's two connections are
connections of `PairWindow`; `clean` records that no window ended, no connection
broke and nobody else revoked or restarted anything since `Pair` began.

**TapPair.** Two sides and two pairings of them, with the local and the remote
answer read in either order. A save may fail; the device then stays trusted in
memory.

**HubManager.** Time is counted in checks. `good` hubs come up and send in time;
others do as they like, and may keep a connection up by sending now and then
(`fresh`). A `DropHub` is over before the backoff of its hub is.

**Dial.** One call of `dialPeer`; the environment moves, wakes, renames and
revokes devices between its steps, also while a dial is under way. Looking an address
up and dialling it are separate steps. A dial of a device that listens may fail.
The wake goes through the relay: `relay` is where its handler is. The relay's steps
have no deadline, as its calls use `context.Background`.

**DirectSetup.** A setup has one run at the dialer and one at the accepter for every
offer that arrives, a repeated one too. Signals are lost, repeated, reordered and
held back for any time: Reticulum's messages are taken up to five minutes old
(`internal/rns/rns.go:283`), longer than anything here lasts. An inbox is a channel
with a number: a run keeps reading the one it was given when another has taken its
place in `iceSetups`. One candidate per run.

**Ipc.** One handler per client: an immediate reply, an operation, a `pair add`, a
pair-show or an event stream. An operation may be "blocked": waiting for a peer in a
read that heeds no context. `broadcast` goes through the subscribers one by one,
holding `subMu`.

## 3. The runs

Each run is one module with one configuration of the same name.

| run | configuration | what it shows |
|---|---|---|
| receiver | `MCReceiver` | With an arbitrary remote end, failing disk operations, drops and crashes: two files being received never share a destination (`SlotsExclusive`), a session's partial holds what the session counted and its hasher was fed just that, or less where seeding it failed (`HasherMatchesDisk`), what was acked is stored (`AckedIsStored`); seen from outside whole files appear under free names and stay (`ImplementsDownloads`) |
| transfer | `MCTransfer` | A send that reports success has its files stored and its folders made (`SentIsStored`). On a disk that works: a partial is a prefix of the file its sidecar names (`PartialIsPrefix`), and an entry is refused only when a folder and a file contend for its name, never because sender and receiver disagree on the byte at which a file goes on (`NoFalseReject`). Further: neither end waits for something the other is not going to send (`NoStandstill`); every behaviour is one of `Receiver` (`ImplementsReceiver`) |
| outbox | `MCOutbox` | A queued send is in the queue until it is answered for, and not after (`QueueIsWhatWaits`), the device gets nothing twice unless the process went, or a write failed, in between (`TakenOnce`), a signal of a device is not lost (`KickPending`), the queue drains if there is a runner and attempts end (`QueueDrains`) |
| outbox_drop | `MCOutboxDrop` | The comment on what is dropped from the queue does not hold: see section 7 |
| hubclip | `MCHubClip` | The clipboard is set to whole texts only (`SetIsOriginal`), "sent" is true and so is an answered ping (`SentIsSet`), sender and receiver agree on the limits (`PacketsAcceptable`), collections go (`CollectionsExpire`) |
| devices | `MCDeviceStore` | A revoked device stays out, in memory and on disk (`RevokedStaysOut`) |
| window | `MCPhonePair` | A phone that pairs, sends, is revoked and restarts against a PC that does the same: who is trusted was invited (`TrustedWasInvited`), who has a session is paired (`SessionIsPaired`), closing a window leaves the others (`OtherWindowsStay`), and a `Pair` that nothing interfered with ends with both sides paired or neither (`PairIsMutual`) |
| tappair | `MCTapPair` | A device is saved only with both answers (`SavedOnlyIfBothYes`), on both sides or on neither unless something broke (`SidesAgree`), and whoever confirms is told the outcome (`ConfirmReturns`) |
| hubs | `MCHubManager` | Manager and node agree on the interfaces (`LinksManaged`), the wanted number of hubs stays connected in the end if the backoff outlasts the silent ones (`KeepsWant`), each that comes up hears of the device (`UpIsAnnounced`) |
| dial | `MCDial` | A device that is there, and whose dials succeed, is not reported unreachable (`ThereIsReached`); a call whose waits for the peer end returns, whatever the relay does (`DialReturns`) |
| direct | `MCDirectSetup` | The inbox a setup made stays the one its signals are put into (`SetupHears`), no inbox stays behind (`InboxesGo`), a setup that sent its offer or answer ends (`SetupsEnd`) |
| ipc | `MCIpc` | One final answer per command (`AnsweredOnce`), no event sent on a channel that a leaving subscriber closed (`NoSendOnClosed`), a client that leaves is cleaned up after unless a wait for a peer lasts for ever (`LeaverIsCleanedUp`) |

Every module has a `TypeOK` that gives its variables their types; it holds on the
instance of its run. `IInv` of `Receiver` is the inductive invariant of the proofs
(section 6) and holds in the receiver run too.

Deadlock is checked only for `hubs` and `direct`, where the tickers go on for
ever. Everywhere else the program may come to rest: all transfers are over, all
requests answered.

## 4. Bounds

- `receiver`: two sessions, because every conflict over slots and partials is one
  between two; a manifest with a folder whose path the other's file wants and an
  unsafe relative path, and one with a file of two bytes; chunks from which a partial
  can be empty, half, whole, too long, or of the right size and wrong. 560,457 states.
- `transfer`: sends of two files and of a folder that share a name; the two files end
  alike, so that a partial of one can be mistaken for one of the other, and the folder
  holds an empty file; chunks of one byte, one write in flight, one edit. The disk
  works: with a failed write of a sidecar `PartialIsPrefix` does not hold. 572,352
  states.
- `outbox`: a file and a short clipboard text, one failed write, any number of stops
  and exits. 1,214,008 states. The two items differ in
  all that the code tells apart; the queue's order is that of the items.
- `hubclip`: a text of three packets, the last one short, at the largest size
  accepted, and an empty one (one packet); two timers, so that an old one can fire
  into a new collection; one ping beside them.
- `devices`: two devices, two names.
- `window`: one phone with three connections at a time, so that the two of `Pair`
  overlap with each other and with one from before; two windows, so that one can
  replace the other; two sets of details. The run has one fingerprint, and `invited` only grows:
  `TrustedWasInvited` says more in its theorem, for any number. A second phone makes the instance too
  large for a regular run and adds only `OnePerWindow` (section 7).
- `tappair`: two pairings of the same two devices.
- `hubs`: two hubs that promise nothing and come first, and a good one that is only in
  the catalog; one break of a good connection; a silent hub is given up after three
  checks and comes back after four, so that the second is tried before the first
  again (`BackoffOutlasts`), which is what lets the good one in. In the code the grace
  and silence of 90 s last 7 checks and the backoff 120: it outlasts 18 silent hubs,
  and a catalog may be longer. With more of them in a row `KeepsWant` does not hold.
- `dial`: two devices, two addresses, three events in the surroundings. 390,960 states.
- `direct`: one setup with both sides, one repeated signal (an offer, say, and with it
  a second accepting run), one candidate; setup and inbox live equally long, the worst
  case that `SetupConstantsOK` allows (30 s and two minutes in the code). 249,907 states.
- `ipc`: two clients, buffers of two and three events, so that a buffer overflows.

Symmetry is used over sessions, over fingerprints and names, and over connections,
in runs with safety properties only.

## 5. Fairness

Liveness is claimed only where the code has a goroutine, a timer or a deadline
that brings it about.

- `Outbox`: the runner's loop runs and the ticker fires. That an attempt ends is not
  assumed but a premise of `QueueDrains`, as are that the device stays reachable and
  the daemon up with its runner: a peer that freezes after the dial holds the runner,
  and everything behind the item, for as long as TCP keeps the connection.
- `HubClip`: `time.AfterFunc` fires.
- `TapPair`: sessions run and their deadline passes; users are not assumed to answer.
- `HubManager`: the check ticker, the goroutines it starts, and good hubs; other
  hubs are not assumed to do anything. `KeepsWant` presupposes enough good hubs
  among the candidates, few enough silent ones, and that the others stop sending now
  and then.
- `Dial`: the call's own steps are taken, the request to the relay times out, the
  deadlines of the two loops pass, and a LAN dial ends where it has `lanTimeout` (with
  a direct channel to fall back on). A dial without it, the setup of a direct channel
  and the read of the peer's Hello (`send.go:188`) have no deadline: that they do not
  last for ever (`Blocked`) is a premise of `DialReturns`. The relay is not assumed to
  answer.
- `DirectSetup`: time passes and timers fire; signals are not assumed to arrive.
  `SetupsEnd` begins when the offer or answer is sent: before that the run waits for
  a path to the peer, and that wait does not heed `Options.Timeout`.
- `Ipc`: handlers run, a lock is granted again and again, a window expires, a cancelled
  operation returns where it looks at its context. That no wait for a peer lasts for
  ever is a premise of `LeaverIsCleanedUp`.
- `Transfer` has no fairness: `NoStandstill` says that until a send is over one of
  the two ends has a step to take. Each takes finitely many, so it ends.

## 6. What is proved

| module | theorem | statement |
|---|---|---|
| `ReceiverProofs` | `SlotSafety`, `HasherSafety`, `AckSafety` | `SlotsExclusive`, `HasherMatchesDisk`, `AckedIsStored` always hold |
| | `WholeFileSafety`, `NoOverwrite` | `Spec => []WholeFilesOnly`, `Spec => NeverOverwrites` |
| | `Refinement` | `Spec => ImplementsDownloads` |
| | `KeptAlways`, `SettledAlways` | of `Downloads`: what was acknowledged is there, a taken name never changes what it shows |
| | `Promise` | the same of `Receiver` |
| `TransferProofs` | `TransferRefinement` | `TSpec => ImplementsReceiver` |
| | `SentSafety` | `TSpec => []SentIsStored` |
| `OutboxProofs` | `QueueSafety`, `KickSafety`, `TakenSafety` | `QueueIsWhatWaits`, `KickPending` and `TakenOnce` always hold |
| `TapPairProofs` | `BothSaidYes`, `AgreementSafety` | `SavedOnlyIfBothYes` and `SidesAgree` always hold |
| `PairProofs` | `RevokedSafety` | of `DeviceStore`: `Spec => []RevokedStaysOut` |
| | `InvitedSafety`, `SessionSafety`, `RevokedSafetyWithPeers` | of `PairWindow`: `TrustedWasInvited`, `SessionIsPaired` and `RevokedStaysOut` always hold |
| | `WindowsSafety` | `WSpec => OtherWindowsStay` |
| | `MutualSafety` | of `PhonePair`: `PSpec => []PairIsMutual` |
| | `PhoneImplementsWindow` | `PSpec => WSpec`: what holds of `PairWindow` holds beside a phone |
| `RequestProofs` | `AnswerSafety`, `ChannelSafety` | of `Ipc`: `AnsweredOnce` and `NoSendOnClosed` always hold |
| | `ThereSafety` | of `Dial`: `DSpec => []ThereIsReached` |
| | `HearsSafety` | of `DirectSetup`: `Spec => []SetupHears` |
| `HubProofs` | `OriginalSafety`, `SentSafety`, `AcceptSafety` | of `HubClip`: `SetIsOriginal`, `SentIsSet` and `PacketsAcceptable` always hold |
| | `ManagedSafety` | of `HubManager`: `HSpec => []LinksManaged` |

They hold for any number of sessions, paths, names, contents, manifests, frames,
items, pairings, devices, connections, clients, setups, texts and hubs, with or
without disk errors, edits and crashes.

Assumptions: those the modules state of their constants (they have their types,
special values are distinct); for `Receiver` and above, `Foreign = {}`, that no
other program writes to the download directory; for `Transfer`, `PeerFrame = Frame`,
that the peer of `Receiver` may send every frame there is, since adrop's sender is
to be an instance of it; for `DirectSetup`, `SetupLife <= InboxLife`: thirty seconds
against two minutes in the code.

**Receiver.** None of the properties is inductive alone. That an acked file stays
stored needs that no session renames onto it, so that a session about to rename
has a destination with no file (`NotYetThere`); that in turn needs that no other
session has the same destination (`SlotsExclusive`), and that what is renamed was
verified (`Verified`). That what is renamed is then what the digest says needs
`HasherMatchesDisk`: the digest and the count agree with the entry, so the hasher was
fed the whole partial and the partial is the file (`RenamedFits`), also where seeding
failed, because then the count exceeds what was hashed. It is preserved when
a partial is opened only because its size is still the offset chosen at the header
(`OffsetFits`), which again needs exclusive slots: nobody else has touched it.
`CurrentFile` and `SessionsWellFormed` tie the local variables to the manifest.
`IInv` is the conjunction, with the types (`Invariance`). Its proof, in `ReceiverSteps` and `ReceiverProofs`, first shows what a step of one session can do to another
(`OthersUnchanged`, `FileStep`, `PartStep`, `History`), then preserves one conjunct
after the other, and treats `Crash`, the network and stuttering apart.

**Refinement.** With `IInv` a step of a session either leaves final names and
completed entries alone, or creates one name that was free, or completes one entry
whose file is there (`SessionRefines`). An entry once acknowledged keeps its path and
what is there (`AckedPlace`, `FoundStays`), so the set of acknowledgements only grows (`AckedGrows`).

**Transfer.** Every step of the sender is a frame of the peer or nothing at all to
the receiver (`StepRefines`). `SentIsStored` rests on `TInv`: `IInv`, and that a
sender which is past its dial has the receiver's manifest (`Linked`) and is "done"
only when all its entries are completed (`Progressing`); then `AckedIsStored` does
the rest.

**Outbox.** `OutInv` says that the queue has no item twice and holds exactly what
was answered with "queued" and is neither resolved nor removed, that the snapshot
of a pass consists of items, and that a device heard during an attempt has left a
kick. Without "no item twice" a removal could leave a copy behind.

`TakenOnce` needs `TakenInv` besides: while no write failed, the peer has not taken
a file that waits in the queue or in the runner's snapshot, nor one whose attempt
is still under way without having been taken (`NotYetTaken`); the files in `cut`, whose
attempt the process did not survive, are excepted.

**TapPair.** `TapInv` follows a "yes" from the user to the decision, the message to
the other side and the other side's memory (`SideTruthful`): each of them is there
only if that user said yes. For `SidesAgree`, `SettleInv` says of each side of a
pairing without a fault that the answer it sent is on its way to the other or has
been read there (`SideSettles`), so that two sides which are over decided from the
same two answers.

**Devices, windows and phones.** Three invariants, each with the one before it.
`StoreInv`: no fingerprint is in the list twice, in memory or on disk, so that the
entry a loop finds first is all there is of a device. `WindowInv` adds what a connection has proved when it is past a
check (`ConnOK`): its fingerprint was invited once it is past the handshake, and
trusted, or revoked since, once it is past the trust check. `PhoneInv` adds, for a
`Pair` nothing interfered with (`PairOK`), that the PC either trusts the phone or
has an open window and a connection of the phone that is still going to ask for
it, and that a `Pair` which failed has left nothing of the kind.

**Ipc.** `AnswerInv`: a handler that has not ended has sent no final response and
its channel is open. A step ends a handler with a response, ends it because the
client is gone, or lets it go on (`EndKeeps`, `GoesOn`). `ChannelInv`: what a broadcast
has still to send on are subscribers, which its lock keeps from leaving, and no
subscriber's channel is closed.

**Dial.** `DialInv` says what it means for the call that the target stayed what it
was (`SteadyInv`): an address that was dialled in vain is not the target's, after the
resolve the stored one is, and it is the one redialled, so the call never gets past
the redial.

**DirectSetup.** `SetupInv`: the inbox that a run made has one timer, which outlasts
the run (`Outlasts`), for before the first run of a side an inbox has one timer and no
inbox has none (`OneTimer`). That a new inbox is not one that is still read is a
counting argument over the numbers in `Box` (`NewBoxFree`).

**HubClip.** `ClipInv`: a packet on the way is a part the sender made of its text,
what is collected are such parts under their numbers (`Gathered`), and an answer on
the way is one the receiver gave. A collection with as many parts as the text has
is all of them, and joined they are the text (`JoinRight`, from `PartsFit` and
`PiecesFollow`, which do the arithmetic of the sizes).

**HubManager.** `ManagerInv`: a hub that was picked has no interface yet, and one
that is being dropped is not in use and stays backed off until it is gone, which is
why it is not picked again while its `DropHub` is under way. That fill picks no
more than it needs is `PickedRight`.

**Loops.** A loop of the code is a recursive function over a range of numbers in the
model (`Kept`, `Join`, `Dedup`, `Picked`). The induction theorems of the library have
an operator as parameter, which the provers cannot instantiate; `PairProofs` and
`HubProofs` therefore argue from the least number (`Least`): the recursion has a
solution (`Recursion`), and the first round that broke what every round keeps cannot
exist (`RoundsKeep`).

Model-checked only: liveness and `NoStandstill` (which uses `ENABLED`), and of
`Transfer` `PartialIsPrefix` and `NoFalseReject`, for a disk that works, whose invariant would have to follow
every chunk on the connection to its place in the source file.

## 7. Where documentation and code differ

`outbox_drop` refutes `DroppedOnlyWhenHopeless`: any error other than
"unreachable" takes a send off the queue, so one that is being retried when the
daemon is told to stop, or whose connection breaks half-way, is dropped, although
"retrying will not help" (`internal/daemon/queue.go:167`) is not true of it.

The following statements are defined in the modules too and do not hold. To see
the counterexample, name the property in the module's configuration in place of
its invariants.

- `LastPeerPaired` (`DeviceStore`): a send that ends after its device was revoked
  makes it the last-used peer again (`send.go:325`), against "don't leave sends
  defaulting to a revoked peer" (`internal/config/config.go:361`).
- `DefaultGoesToLastPeer` (`DeviceStore`): the default is turned into a name and
  looked up again (`ipc_handler.go:282`); another device may have that name by then.
- `OnePerWindow` (`PairWindow`): two connections that overlap both pair in one
  window, against "admits a single inbound connection" (`pairing.go:16`). The
  counterexample needs a second fingerprint in `Fp`.
- `OkMeansPinned` (`PhonePair`): the PC answers a Hello before it looks at its
  window; when the window ends, or the PC stops or fails to save, in between, the
  phone keeps a PC that never pinned it, against "here a Hello must pass, or the
  peer is dropped again" (`core/core.go:160`). The undo of a `Pair` that fails also
  forgets a PC that had been paired before.
- `RevocationIsImmediate` (`PairWindow`): a session admitted before a revocation
  goes on, against "Revocation is immediate" (README).
- `MoveIsRecovered` (`Dial`): a device whose old address now belongs to another
  paired device is reported as a mismatch (`send.go:172`), without the mDNS
  recovery that "recovers a same-network IP change" (`send.go:79`).
- `CompleteMeansPaired` (`Ipc`): a window that expires is answered with "pairing
  complete" (`ipc_handler.go:302`).
- `NeverOverwrites` (`Receiver`) with a path in `Foreign`: a file that another
  program creates between the choice of the name and the rename is replaced
  (`receive.go:487`), against "Never overwrites" (README).

Two more follow from the models without a definition of their own:

- with Reticulum on, `startRNS` returns before it starts the runner when `rns.Open` fails
  (`rns.go:39`), while `queueAll` still queues: the sends wait until the next start,
  against "retries them, also without Reticulum" (`daemon.go:111`). `QueueDrains`
  presupposes a runner for this reason;
- the wake loop looks the address up once per round (`send.go:150`) and then dials
  without a deadline: while a dial of the old address hangs, a new one is not taken up,
  and `wakeTimeout` may pass, against "Without this we'd keep dialing the stale IP"
  (`send.go:140`). `DialReturns` only says that the call returns once the dial does.

## 8. What is left out

Abstractions that matter when reading the results:

- A hash is its content, a fingerprint prefix is the fingerprint.
- A crash is that of the process; writes that had returned are on disk. The
  sidecar is written in one step and its errors are ignored, as in the code. A
  failing `Close` is part of a failing rename. Names that themselves end in
  `.adrop-part` or `.meta` are left out.
- Directories have depth one. The manifest is built in one step: a file that changes
  between its `Lstat` and its hash, or between two files, is not told apart from one
  that changes after.
- `announceWhenUp` looks at its hub and marks it in one step: only a whole backoff in
  between could put another state in its place.
- `SetupHears` is about the inbox a run made while it is the only run of its side. An
  accepter may find an inbox that candidates made which overtook the offer; its timer
  began with them and may end it under the run. A repeated offer starts a second run
  on the same inbox, and the first to end drops it for both. Signals that come later
  then go to a new inbox that nobody reads, and the setup times out.
- A short clip whose acknowledgement is lost goes out twice, and an item removed while
  a pass holds it still goes out: the code does this, `TakenOnce` and
  `QueueIsWhatWaits` do not speak of it.
- `Outbox` leaves out the number of tries and the reason shown; `Dial` takes
  whether a direct channel or a wake is available as a choice and has one wake at
  a time at the relay, where others show as delay; `Ipc` groups the
  commands by how they answer and leaves out blocking writes to the socket;
  `TapPair` has one caller of `ConfirmPair` at a time on a side.

- Reticulum delivers a packet of a paired device unchanged, or not at all. The
  signature, age and trust checks of `Node.receive` only drop packets, as does its
  full inbox.

Not modelled, and why:

- user interfaces, the command line, the operating system's clipboard and
  notifications: calls without state of their own, over operations modelled here;
- the encodings (frames of `internal/proto`, pairing URI, HDLC framing): conversions
  without state, which unit tests cover; the modules see the decoded message or a
  malformed one;
- ICE and QUIC: libraries, which appear as success or failure of a setup;
- `config.json`, read once at the start; the list of nearby devices, which only the
  user interface shows; the round trip time of a ping.
