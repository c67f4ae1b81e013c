# TLA+ models of the tss party coordination and transport

These modules model the parts of `src/` where several goroutines and several hosts
interact:
- how a keysign party is formed, by a leader or without one (`src/p2p/party_coordinator.go`, `src/p2p/peer_status.go`);
- how streams are framed, kept and released (`src/p2p/stream_helper.go`);
- how the TSS message transport files streams and hands messages to sessions (`src/p2p/communication.go`);
- how `KeySign` races the join party against a signature received from elsewhere (`src/tss/keysign.go`).

## The system and how its parts interact

| Part | Source | Role |
|---|---|---|
| StreamMgr | `p2p/stream_helper.go` | Collects the libp2p streams used for a message id, or under `"UNKNOWN"`. `ReleaseStream` closes them and gives back their `JOINPARTYSIZE` memory. |
| Framing | `p2p/stream_helper.go` | A 4-byte little-endian length header followed by the payload. Reads are capped at `MaxPayload`. |
| PeerStatus | `p2p/peer_status.go` | Per session and node: who answered, the stream of each counted request, `reqCount`, the `notify`/`newFound` channels and the leader's response. |
| PartyCoordinator (leader mode) | `p2p/party_coordinator.go` | The **leader** counts member requests until `threshold` have arrived, or until it times out. It then writes the list of online peers to every stored stream. Each **member** retries its request to the leader every 500 ms and waits `timeout+5s` for the list. |
| PartyCoordinator (leaderless) | `p2p/party_coordinator.go` | `JoinPartyWithRetry`: every peer sends requests to the peers it has not heard from until its timeout, then a last round to the online ones. |
| KeySign race | `tss/keysign.go` | The waiter for a broadcast signature races the join party and the signing itself. Both report on the buffered `sigChan`. |
| Communication | `p2p/communication.go` | The TSS message transport: broadcasts go out on one stream per peer and message, inbound streams are read and handed to the session that subscribed the topic. |
| Leader election | not in `src/` | `LeaderNode(msgID, height, peers)` is called but is not part of the sources. |

One keysign goes like this:
- `KeySign` subscribes its channel to the Communication's topics.
- It calls `JoinPartyWithLeader`. The elected leader runs `joinPartyLeader`; every other node runs `joinPartyMember`.
- A member's requests reach the leader's `HandleStreamWithLeader`. That handler reserves memory, calls `updatePeer`, answers `"request received"` and hands the stream to the leader's StreamMgr.
- The leader's decision goes out through `sendResponseToAll` → `sendMsgToPeerWithStream` to each stored stream. On the member, the listener goroutine of `sendMsgToPeer` reads it and calls `processRespMsg`, which stores it and signals `notify`.
- The signing messages travel through the Communication: `writeToStream` to each peer, `handleStream` → `readFromStream` → the subscriber's channel.
- When the session ends, `KeySign` cancels its subscriptions and calls `ReleaseStream(msgID)` on both the coordinator and the communication.

## Modules

- **`StreamMgr.tla`** models the StreamMgr.
  - `unusedStreams[n][k]` is a *bag* of stream ends, because `AddStream` appends duplicates. A stream's multiplicity is how often it will be closed.
  - `closed`, `reserved` and `freed` are bags that count closes, reservations and memory releases per end.
  - `AddStream` is a value operator, applied inside the callers' actions. `ReleaseStream(n,k)` is one action: it empties both taken slices, gives back one reservation per leader-protocol copy, and closes every copy.
- **`Framing.tla`** models `WriteStreamWithBuffer` and `ReadStreamWithBuffer` as operators on byte sequences.
  - `PutUint32` keeps the four low bytes of the length, which is the `uint32` conversion. `Uint32` is a fold over the header.
  - `ReadFrame` covers the three error returns (header, too long, short read) and the payload.
  - `OnWire(m)` is what a reader may find after `m` was written: the whole frame, or a frame cut short by a reset.
  - `FrameRoundTrip` compares the operators with a recursive reference encoding.
- **`PeerStatus.tla`** models PeerStatus as a record value, with the methods as operators:
  - `NewPeerStatus` and `UpdatePeer`. UpdatePeer covers three cases: the leaderless branch, the leader branch with its quorum cap, and the repeated request.
  - `Online` and `Offline` (`getPeersStatus`) and `CoordinationDone`.
  - `StoredStreams`: what `sendResponseToAll`'s `Range` visits.
- **`Communication.tla`** models one node's transport, with its StreamMgr, two sessions and their channels. It EXTENDS StreamMgr and Framing.
  - Each stream end `e` has a goroutine whose place is `ph[e]`, and `mp[e]` records whether it holds a `MaxPayload` reservation.
  - Inbound: `HandleStream` makes the reservation, or fails and returns. `ReadFromStream` reads a frame through `ReadFrame`; a read error or a JSON error goes to `ReadError`, and a message goes to `Delivered` (filed under its session, the subscriber looked up). `Deliver` is the channel send, made after the lock is released. `Quiescent` is the end of a run: every session released, and every goroutine ended or blocked on a full channel.
  - Outbound: `OpenStream` and `WriteStream` are `writeToStream` for a session's broadcast. They may run after the session has returned.
  - Sessions: `SetSubscribe`, `Validate`, `Consume`, `Finish`, `CancelSubscribe` and `ReleaseSession`, in the order of `KeySign` (keysign.go 147-224).
  - `Validate` is `KeySign`'s checks after the subscriptions (lines 162-191). A failed check returns at once, so the deferred cancel and release run with no broadcast issued. Only a session that signs (`signed`) starts the broadcast goroutines, which may still run after it returns.
  - `intact[e]` records whether the payload read from `e` is the one its peer wrote.
- **`JoinPartyLeader.tla`** models one session of the leader-directed protocol. It EXTENDS PeerStatus and StreamMgr.
  - `lpc` is the leader's main routine. `LeaderStart`, `LeaderWake`, `LeaderDecide`, `LeaderRange`, `LeaderSend`, `LeaderFinish` and `LeaderRelease` follow `joinPartyLeader`, then `sendResponseToAll`, then `KeySign`'s release.
  - `LeaderHandle(sid)` is `HandleStreamWithLeader` up to `processReqMsg`'s lookup of the group under `joinPartyGroupLock` (`found`). `ProcessReqMsg(sid)` is the rest of `processReqMsg`, after the lock is released: `updatePeer` on the group it found, and `notify` when the party formed. `LeaderAck(sid)` is the rest of the handler: the written answer and `AddStream`. The leader's main routine may run between any two of these steps, as it can in the code. For example, it may remove the group between the lookup and `updatePeer`.
  - `mpc` and `sender` are a member's main routine and its request goroutine: `MemberStart`, `SenderOpen`, `SenderReadAck`, `SenderStop`, `MemberWake`, `MemberFinish` and `MemberRelease`.
  - `Listener(sid)` is the listening goroutine of `sendMsgToPeer`, followed by `processRespMsg` (the operator `ProcessRespMsg`).
  - A request stream is `<<member, attempt>>`, and `st[sid]` records its phase.
  - `st[sid].out` is the sequence of frames the leader wrote on the stream, and `rd` counts how many the member has taken off it.
  - `SenderReadAck` takes the first frame. Like the fresh `bufio.Reader` of `ReadStreamWithBuffer`, it also takes, and drops, every frame queued behind it.
  - Faults are bounded by `MaxFaults` and limited to `ResetPhases`. There are two kinds:
    - `Reset(sid)` is a read or write that fails on the stream;
    - the `"orphan"` disjunct of `SenderOpen` is an open that finished after the 4 s context expired.
- **`JoinPartyLeaderAbstract.tla`** is what the leader-directed session promises, with no streams. The leader decides once, on at most `threshold` members that joined plus itself, and the decision is a success exactly on a quorum. A member returns "leader not ready", or the decision; it succeeds only if the decision succeeded and lists it.
- **`JoinPartyRetry.tla`** models one session of the leaderless protocol on every node.
  - `pc` is `JoinPartyWithRetry`: `CreateGroup`, then `Snapshot` (the `getPeersStatus` at line 632), `FinalRound` and `ReturnCall`.
  - `spc` and `targets` are the sender goroutine: `SenderTop`, one `SendRequest` per target, `SenderSleep`.
  - `WaiterTimeout` is the waiter: nothing signals `notify`, so the timeout is its only way out.
  - `wire` holds the requests in flight. `HandleStream` is the protocol handler, and `LoseRequest` is a failed read.
  - `Patient` disables the timeout (an unbounded wait). `Lossy` allows lost requests.
- **`JoinPartyAbstract.tla`** is what `JoinPartyWithRetry` promises its caller. Every call returns a set of peers that joined, itself included, and the error is nil exactly when the set is every expected peer.
- **`KeySignRace.tla`** models one node's `KeySign`.
  - The waiter (`wpc`) is `waitForSignatures`. The producer (`ppc`) is `generateSignature`, whose join party is reduced to the `select` of the node's own wait loop: `LeaderSigCase` and `LeaderLoopExit` for the leader, `MemberNotified`, `MemberTimedOut` and `MemberSigCase` for a member.
  - `sigChan` is a sequence bounded by `SigChanCap` (2). A send is enabled only while the channel has room, so a send that would block is a step that never becomes enabled.
  - `KeySignReturn` is `wg.Wait`, `close(sigChan)`, the outcome rule `Outcome` (lines 216-224) and the deferred release.
  - What the leader decided, and whether `SignMessage` and `BroadcastSignature` succeed, are nondeterministic inputs.
  - A nil error from the join party always comes with a list that holds the node: `joinPartyMember` returns nil only on a Success decision, which lists it (`SuccessIsQuorum`), and the leader lists itself. So `generateSignature`'s `isKeySignMember` check (lines 67-76) always passes, and its other branch is left out.
  - `WaitForSignature` is not under `src/`, so it is modelled from spec 4.5: it returns a verified signature, times out, or stops when it reads the producer's sentinel.
- **`MCCommunication.tla`** and **`MCJoinPartyLeader.tla`** instantiate the modules above for TLC. JoinPartyRetry and KeySignRace take their constants straight from their cfg files.

Two refinements are checked: `JoinPartyRetry` implements `JoinPartyAbstract`, and `JoinPartyLeader` implements `JoinPartyLeaderAbstract`. Each is an `INSTANCE ... WITH` that maps the detailed state to the abstract state, checked as a PROPERTY.

### Time

The model has no clock.
- The leader may time out whenever it is waiting.
- A member waits `timeout+5s`, so its timeout is only enabled once the leader has returned (or never started) and no response to it is still on the wire (`LeaderReturned`, `ResponseOnWire`).
- A node may also be offline from the start (`Init`), and then it never takes part.
- In the leaderless protocol the waiter's timeout may fire at any time unless `Patient`.

### Fairness

`FairSpec` puts weak fairness on every non-fault action. This is justified because:
- every goroutine the code starts runs until it blocks;
- every timeout the code sets eventually fires.

Faults (resets, late opens, lost requests) get no fairness: they may happen but never have to. Whether a node calls `JoinPartyWithRetry` at all is its caller's choice, so `CreateGroup` is fair only in `AllCallSpec`, which states spec 8's assumption that every peer takes part. Communication is checked for safety only.

## Runs

| Run | cfg | Bounds | Checks | Expect |
|---|---|---|---|---|
| comm_streams | `MCCommunication.cfg` | 1 node, 2 sessions, 2 topics, 2 inbound streams and 1 outbound stream per session, channel capacity 1, messages of up to 3 bytes with `MaxPayload` 2 | `CloseAtMostOnce`, `DeliveredIntact` | pass |
| comm_blocked_send | `CommBlockedSend.cfg` | as above | `ReservationsReturned` | violation |
| leader_no_fault | `JPLNoFault.cfg` | 2 members, threshold 1, 2 attempts, no faults | `TypeOK`, `EveryoneReturns`, `ImplementsLeaderAbstract` (FairSpec) | pass |
| leader_faults_quorum | `JPLFaults3.cfg` | 3 members, threshold 2, 1 attempt, 1 fault, member symmetry | `SuccessIsQuorum` | pass |
| leader_response_overtakes_ack | `JPLReorder.cfg` | 2 members, no faults | `AckBeforeDecision` | violation |
| leader_response_read_ahead | `JPLReadAhead.cfg` | 2 members, no faults | `NoFrameDropped` | violation |
| leader_double_release | `JPLDoubleRelease.cfg` | 2 members, no faults | `NoOverRelease` | violation |
| leader_stream_leak | `JPLLeak.cfg` | 2 members, no faults | `SessionStreamsClosed` | violation |
| keysign_race | `KSRace.cfg` | both roles, every select order | `KeySignReturns` (FairSpec) | pass |
| keysign_registry_leak | `KSRRegistryReleased.cfg` | as above | `RegistryReleased` | violation |
| retry_refines | `JPRRefines.cfg` | 2 nodes, lossy, timeouts fire | `NewFoundNeverFull`, `ImplementsAbstract` (FairSpec) | pass |
| retry_peers_learn | `JPRLearn.cfg` | 2 nodes, every node calls, no loss, no timeout | `PeersLearnEachOther` (AllCallSpec) | violation |

**Why these bounds are enough:**
- Two attempts per member are what it takes for a retry to meet the stream stored by the first attempt.
- The 3-member run has one attempt per member, because a second attempt makes the state space too large to finish in minutes. Retries cannot change what the leader counts: `updatePeer` counts a peer once, as the 2-member runs show.
- Threshold 1 with two members makes one of them a late joiner.
- Three members with threshold 2 allow a quorum, a late joiner and an offline peer in one session.
- One fault is enough to lose an acknowledgement or a response.
- Two leaderless nodes already show a request arriving before the snapshot, lost requests and timeouts on either side. Three nodes did not finish in 20 minutes.
- In the Communication, two sessions share one StreamMgr and the `"UNKNOWN"` key. Two inbound streams can race for one channel of capacity 1, so a send can block after the session has stopped reading. Each session has a broadcast stream, so the two releases interleave with writes filed late under either id.
- `MaxPayload` is scaled down to 2 bytes so that messages at, and one byte over, the limit are enumerated. The `uint32` wrap of the header is not reached: it needs a message of 2^32 bytes.

**What the runs show:**
- The quorum decision is sound: any member that goes on to sign holds a list of exactly threshold+1 nodes that contains itself.
- With a reliable transport every routine returns, and the leader-directed session implements its abstract promise.
  - Checking that refinement showed that a failed decision can reach a member it does not list. The leader takes its snapshot of the online peers (line 575) before its `Range` over the stored streams, so a request handled in between is answered with a list that lacks the member. The member then returns `JoinTimeout`, which is harmless. The abstract spec therefore asks that a member be listed only in a successful decision.
- The leaderless protocol keeps its promise even with lost requests, and no handler blocks on `newFound`.
- In the Communication, both sessions take and delete the shared `"UNKNOWN"` slice, and no stream is closed twice. A message reaches a subscriber only as the peer wrote it: a frame cut short or over `MaxPayload` is refused.
- The violations are the findings in `PROJECT.json`:
  - the leader's decision can overtake its "request received" on the stream, because `processReqMsg` wakes the leader before the handler writes its answer; the member then takes the decision for the answer and retries;
  - when the answer and the decision have both arrived, the member's read of the answer drops the decision (`bufio.Reader` read-ahead);
  - the leader's request stream is added to the StreamMgr twice, so its memory is freed twice;
  - streams handled after the release are never closed;
  - a reader that looked up a session's channel before the session cancelled its subscription blocks forever on the full channel, holding its `MaxPayload` reservation (communication.go:189). The channel's capacity is set in the keysign package, outside `src/`. With any finite capacity, one message more than it holds is enough;
  - a member that loses the race leaves its `peersGroup` entry behind (party_coordinator.go:511);
  - in `JoinPartyWithRetry` the offline peers are read once, after the session is registered (line 632). A peer whose request arrived in between is never sent a request while the node waits, so even with every peer calling and an unbounded wait the peers do not all learn of each other, contrary to spec 8.
- In KeySignRace, two sentinels and a capacity of 2 mean no send blocks, so `KeySign` always returns. With capacity 1 it can hang.

## Not modelled, and the plan

Hazards known and not yet checked by a run (see `hazards` in `PROJECT.json`):
- The Communication's failed reservations leak streams (communication.go:146). The model contains the path, but the project is at its limit of runs.
- An open that finishes after the 4 s context expired leaks its stream (party_coordinator.go:382). The leak run has no faults, so its trace shows only the stale handler.
- The leader's loop keeps waiting after it has swallowed the race-lost sentinel (party_coordinator.go:565). In KeySignRace the loop may always leave by its timeout, so that the loop ends is assumed from the timer, not shown. The delay is a matter of time, which the models do not measure.
- The leaderless waiter's only exit is its timeout (party_coordinator.go:654). `ImplementsAbstract` holds whether or not the call ends early, so no property tells the two apart.
- An oversized message is refused by the reader and so lost (stream_helper.go:144). `DeliveredIntact` allows that.
- After a counted stream is reset, the member retries and misses the decision (peer_status.go:107). The liveness run with two attempts and one fault takes over 11 minutes, and still over 9 minutes with resets only. The three-member safety run with two attempts does not finish in 15 minutes. So `leader_no_fault` keeps the retries without faults, and `leader_faults_quorum` keeps the fault with one attempt.
- If the member's listener cannot unmarshal the leader's response, it files the stream a second time (party_coordinator.go:425). Only a malformed frame takes that path, and the model's leader writes only the frames of the protocol.
- `peersGroup` is keyed by message id alone, so a second session with the same id would take over the first's entry (party_coordinator.go:238). Whether ids can repeat depends on `requestToMsgId`, which is not under `src/`.
- In the monero notifier, `verifySignature` shadows its `err`, so the wallet's error is lost (notifier.go:55). The notifier is not modelled (see below).

`ImplementsLeaderAbstract` checks two hazards:
- the gap in `processReqMsg` between the lookup and `updatePeer` (party_coordinator.go:101);
- a request acknowledged after the quorum formed (peer_status.go:104).

In both cases the member never returns a success the decision does not give it. That such a member returns at all (`EveryoneReturns`) rests on its own timeout, which `MemberWake` always allows once the leader has returned.

Further work:
1. The peersGroup registry over several concurrent message ids. Today each module has one message id per node.
2. Runs that combine retries with stream resets, once the leader model is reduced further (see peer_status.go:107 above).

Left out for good:
- host, DHT and bootstrap setup, connectivity checks and `Stop`, which are pure I/O;
- the message and request types, which are plain data;
- leader election, which is not in `src/` (the elected leader is a constant);
- the monero signature notifier (`monero_multi_sig/keysign/notifier.go`). `ProcessSignature` checks a candidate with up to `MoneroWalletRetry` wallet calls and puts it on a channel of capacity 1. Whether it blocks depends on who calls it and who reads the channel, and neither the caller (the notifier manager and the monero KeySign) nor the wallet client is under `src/` or described by the spec. A model of it would be a model of invented callers. It is also not the waiter of the TSS `KeySign`, whose `SignatureNotifier` is modelled in KeySignRace from the spec.
