# Verification of IncomUdon Native Rust

TLA+ models of the IncomUdon client (the Rust workspace under `src/`), the TLC
runs that check them on small instances, and TLAPS proofs of what matters most
for every value of the constants.

## 1. The system

IncomUdon is a push-to-talk voice client. One relay, reached over UDP, forwards
the packets of a channel's members.

| Component | State | Operations | Meets |
|---|---|---|---|
| Relay session (`crates/incomudon-transport`) | two bounded channels, a shared `running` flag, the worker's sequence number, audio sequence number and nonce | `connect`, `send`, `send_control`, `send_pcm_frame`, `try_next_event`, `disconnect`/`Drop`; the worker loop | its owner through the channels and the flag; the relay through a socket |
| Capture (`crates/incomudon-audio`, `desktop_audio.rs`) | the assembler's phase and partial frame, a bounded channel | the device's input callback; discard and take by the UI | the UI thread through the channel |
| Playback (same files) | a bounded sample buffer under a mutex, the output callback's phase | push by the UI; the device's output callback | the UI thread through the mutex |
| `FrameQueue` (`crates/incomudon-audio`) | a bounded queue and a drop count | `push_latest`, `pop` | nobody yet |
| Profile store (`crates/incomudon-core`, `profile_storage.rs`) | the store in memory, the file | load at the start, the two save buttons | connect, PTT and playback, which read the active profile |
| Desktop control (`main.rs`) | the session slot, `ptt_active`, the window's labels | press, release, connect, disconnect, a 10 ms timer | everything above, all on the UI thread |
| Protocol, crypto | none | encode, decode, derive, seal, open | the worker |
| Platform | none | traits nobody implements | - |

What is hard here:

- *two threads per session*: the owner and the worker share two channels and a
  flag, and `disconnect` joins the worker while both channels may be full;
- *two device callbacks* that run while the UI thread empties, fills or reads
  the same queues;
- *everything is bounded and lossy*: commands, events, frames and samples are
  dropped when a queue is full, and every socket call may fail;
- *counters that wrap*: a 16-bit sequence number and a 64-bit nonce that starts
  at random;
- *one UI thread* that owns the session, the button, the timer and the labels,
  is stopped by a join, and meets a worker that goes on between any two of its
  calls, over sessions opened one after the other;
- *lengths taken from the network*, used as bounds of slices;
- *a key that everybody derives for himself* from a password typed in any of
  several notations, and a network that damages, repeats and misdirects;
- *a file* that is truncated before it is written.

What makes each component correct:

- session: the relay sees one Join, the accepted commands in their order, at
  most once each, and one final Leave; numbers order the packets; nonces do not
  repeat; the worker ends only when asked, and `disconnect` always returns;
- capture: resampling is exact; speech goes out in order, once; what lay in the
  channel when PTT was pressed is not transmitted;
- playback, `FrameQueue`: the newest samples survive, in order, and the losses
  are counted;
- profile store: the settings in use are valid whatever was found or refused,
  and what was reported saved is what the file holds;
- desktop control: never two workers; audio announced by its CodecConfig and
  PttOn, except after a reconnect with the button held, and then only while it is
  held; no talk left open but by a loss; labels that agree with the session there
  is; mute-self that mutes oneself;
- protocol: nothing sent is misread, nothing read is lost, both ends compute the
  same additional data;
- crypto: whoever has the secret hears, and nobody else; what is played as a
  sealed frame was spoken by the sender it is credited to.

`PROJECT.json` lists under `hazards` each place where this could go wrong, with the
properties that would catch it. Where a property permits what the code does, it
is not listed, and the hazard's note says so (section 6).

## 2. The modules

| Module | Models |
|---|---|
| `RelayStream` | abstract: what a session promises the relay, without threads or queues |
| `RelaySession` | the session: owner and worker interleaved, channels, flag, counters, socket errors; implements `RelayStream` |
| `RelaySessionProofs` | theorems about `RelaySession` |
| `Capture` | input callback, assembler, capture channel, PTT and timer |
| `LatestWindow` | abstract: a bounded queue that forgets the oldest, and counts |
| `FrameQueue`, `Playback` | the two queues that implement `LatestWindow` |
| `CaptureProofs`, `AudioQueueProofs` | theorems about these |
| `ProfileStorage`, `MCProfileStorage` | memory, file, saves, crashes; the files found at the start |
| `ProfileStorageProofs` | theorems about `ProfileStorage` |
| `WorkerClock`, `WorkerClockProofs` | the time the worker's loop takes |
| `PushToTalk`, `MCPushToTalk`, `PushToTalkProofs` | the UI thread of `main.rs` over successive sessions; composes `RelayStream` |
| `PacketLayout` | operators: headers and packets as bytes, and back |
| `PacketCodec`, `MCPacketCodec`, `PacketCodecProofs` | a datagram sent or received, through those operators |
| `SecureMedia`, `MCSecureMedia`, `SecureMediaProofs` | speech from client to client with symbolic ciphers; uses `PacketLayout` |

### RelaySession

`pc` is where the worker is in `run_worker`: `start` (Connected and Join), `loop`
(the `while` condition), `recv` (`recv_timeout`), `drain` (`try_recv`), `check`,
`keepalive`, `read` (`socket.recv`), `leave`, `done`. `handle` is where the owner
is: `open`, inside `disconnect` (`swapped` after the swap of the flag, `joining`
after the push of Disconnect), `closed`.

A step is an access to something shared. Taking a command and handling it is one
step: between the two the handler touches only the socket and counters that are
the worker's own. Two events are offered in one step at the start, where the
channel is empty and holds at least two, and at the end, where the owner is
inside `disconnect` and reads nothing; so no reading can come between.
`SendPacket` is `send_packet`: the socket takes the packet or reports an error,
and the outcome is offered to the event channel, which drops it when full.

A packet carries its kind, the command it comes from, and the numbers stamped on
it; the history variables `accepted`, `settled`, `issued`, `frames` and `wire`
are read by no guard and exist for the properties. Time is not modelled here: a
keepalive may fall due at any pass. It is in `WorkerClock`.

### WorkerClock

The same places of the worker's loop, without commands and events but with
clocks: time passes, one unit at a step, only where the worker waits
(`recv_timeout`, `socket.recv`) or works through commands, and in each place at most
its limit. The clocks (`age` since the last keepalive, `delay` since
a command was accepted, `waited` since `disconnect` was entered) are relative, so
time needs no bound. Of the commands in the channel one is followed (`owed`), any
one: `Accept` puts it there, behind others or before them, `RecvEnds` may receive
it or one before it, `Drain` takes it, and the drain ends only without it. The
limit of each wait is an assumption about time and is not itself checked: what is
checked is what the order of the loop makes of the limits. `DrainTime` is an
assumption, not a constant of the code: the inner loop drains until the channel
is empty, and takes as long as its owner goes on filling it. `Disconnect` is the
owner's swap of the flag and its push, which may not fit (`queued`).

### Capture

The callback is modelled sample by sample (`HearSample` is the loop body of
`push_interleaved_f32`), then frame by frame (`OfferFrame` is one `try_send`),
and the UI thread's press in its steps: `Press`, `Discard` (one `try_recv` of the
loop at a time), `Request` (CodecConfig and PttOn accepted, or not). The early
returns of `ptt_pressed` change nothing here and have no step. A frame is known
by the numbers of its first and last device sample.

### FrameQueue and Playback

Items are numbered as they are pushed. Both implement `LatestWindow` under the
mapping `first <- framesIn - Len(frames) + 1` (in `Playback`, `pushed` and
`samples`). In `Playback` the output callback holds the mutex from `OutputBegins`
to `OutputEnds`, so a push waits.

### ProfileStorage

`Start` is `load_profile_store`: a file that loads is restored, and whatever the
file is, it may not be read or found (`FallBack`: an error of `read_to_string`, no
configuration directory, a path that does not seem to exist), which gives the
defaults and leaves the file alone, until a save replaces it. `SaveProfile` and `SaveRelay` are the handlers of
the two buttons up to the truncation inside `fs::write`, `FinishSave` is the rest
of it, and `Stop` is a crash or an exit at any moment. Names, bitrates and
endpoints are abstracted to what validation distinguishes; the window's fields
are an input of the save.

### PushToTalk

Every handler of `main.rs` runs on the UI thread to its end, so one handler is
never cut by another; but the worker runs between any two of its uses of the
session's channels, and there a handler is cut into steps. `ui` says where the
UI thread is: `Press`, `SendCodecConfig`, `SendPttOn` are `on_ptt_pressed`;
`Disconnect` and `DisconnectEnds` are `on_disconnect_relay` before and after the
join (and the same at the end of `main`, up to `gone`); `TimerFires`, `SendFrame`,
`FramesEnd`, `HandleEvent`, `TimerEnds` are one tick of the timer. `Release`,
`Connect` and `SaveProfile` meet a channel at most once and are one step.

The session is known by what `RelaySession` is proved to promise: the steps on the
command channel and on the relay's side are those of `RelayStream`
(`Link!Accept`, `Link!Settle`, ...), the event channel is added. A new session
resets the stream; nobody reads the events of one that is out of the slot, so
they are forgotten when it leaves it. Events that the labels do not tell apart
are one (`Notice`, `Other`). The
branch of the timer for `Stopped` has no step, since a session that is still in
the slot does not stop (`StopsOnlyWhenAsked`). Captured frames come from nowhere
here: the timer may find up to `FramesPerTick` of them (`Capture` says which).

`asked` is what the session was asked for, in the order of acceptance. A frame is
an `OldFrame` when the session it goes to is not the one that accepted the talk's
PttOn: `ptt_active` survives a disconnect, and the code does send them.
`AudioIsAnnounced` does not forbid them; it says which talk they are of, that its
press has not ended, and that they never come after a PTT control of the new
session. `talk`, `refused`, `relayTalker`,
`missed`, `renamed` and `misheard` are history for the properties.

### PacketLayout and PacketCodec

Operators on sequences of bytes, one for each function of the protocol crate.
Identifiers, sequence numbers and nonces stay in base 256, as `to_be_bytes` lays
them out; only `header_len` is calculated with. `PacketCodec` is what
`send_packet` and `run_worker` do with them: a packet is encoded and put on the
wire, or any datagram comes in, and it is decoded or rejected. The order of the
checks in `Refusal` is the code's.

### SecureMedia

Clients with any mode, channel and password; a network that keeps every datagram
for ever (so it repeats, reorders and misdirects at will), may lose what is
spoken, and damages one field or cuts the end off, each datagram once at most. Ciphers are symbolic: a
digest is the text it was made from, a key the pair (secret, channel), and a
sealed text opens under the key, nonce and additional data it was sealed with
and no other. `NormalizePassword` tells apart what the code tells apart: blank,
digits, text; marks and blanks around it. `DecodesPcm` is `decode_pcm` on what
`PacketLayout`'s `Refusal` lets through. The desktop client itself never sets a
password and has no notation to choose; the transport crate takes one.

## 3. The runs

| Run | Shows | Bounds |
|---|---|---|
| `session` | `ImplementsStream`, `StopsOnlyWhenAsked`, `EventsAreFramed`, `OneOrderedStream`, `NonceNeverReused` with all five kinds of command | both channels hold 2, 2 commands, 1 keepalive: both channels overflow, every pair of commands is cut off at every place; moduli of 2 with up to 5 packets and 2 frames: every counter wraps. Numbers less than a wrap apart are then adjacent ones only: that larger gaps, left by failed sends, order packets too rests on the theorem `StreamIsOrdered` |
| `session_live` | `DisconnectReturns`, `DisconnectProgresses`, `AcceptedIsSettled` | a command channel of 1, so that Disconnect is lost whenever a command waits |
| `capture` | `RateIsExact`, `StaleFramesAreDropped`, `SpokenOrder` | rates 2 and 3, frames of 2 samples, channel of 2, 15 samples (5 frames), 2 presses: overflow, partial frames and two discards |
| `capture_stale` | violated: "Drops stale microphone frames" | as `capture` |
| `frame_queue` | `QueueImplementsWindow` | capacity 3, 8 pushes |
| `playback` | `ImplementsWindow`, `SpeechMovesOn` | one pair of rates, 2 and 5 (`SpeechMovesOn` is neither checked nor proved for others), frames of 3 samples, 2 frames of room, 5 frames pushed |
| `profiles` | `MemoryIsUsable`, `ReportedIsOnDisk`, `KeptSurvives` | files of up to 2 of 4 profiles, valid or not, active index 0 to 2, both versions; any number of saves and of restarts, those that cannot read the file included |
| `profiles_save` | violated: "in one operation" | as `profiles` |
| `ptt` | `OneWorker`, `AudioIsAnnounced`, `StuckTalkIsLoss`, `TalkerIsCurrent`, `LabelsMatchSession`, `MuteIsOneself` | 2 senders (symmetric), 2 sessions of 3 commands and 2 keepalives or datagrams of any kind, command channel of 1, event channel of 2, 1 frame a tick: the channel is full before CodecConfig, between it and PttOn, and at PttOff; a button held over a reconnect; events lost to the full channel, a talker left by the first session, a profile changed at any moment. Three commands are too few for a second talk in one session, of which the theorems speak |
| `worker_clock` | `KeepaliveInTime`, `CommandIsPrompt`, `DisconnectIsPrompt` | an interval of 10, waits of 1, 2 and 4 units; time itself unbounded |
| `codec` | `SentIsRead`, `ReadEncodesBack`, `AadIsOnTheWire` | every length the code compares with and its neighbours, header lengths up to 257, all versions, types and flags that matter, other bytes all different |
| `media` | `GroupHears`, `SealedIsGenuine`, `SealedNeverPlayedAsIs`, `NeverInTheClear` | 2 clients, 2 channels, 5 notations of 3 secrets, all modes; 1 frame each, 1 damage; header lengths 12, 14, 16, 17, 27, 28, 29, 44 (each side of every length the decoders compare with), cuts of 1 and 17 bytes (within the tag, and past it) |

The bounds in guards are `MaxCalls`, `MaxKeepalives` (RelaySession), `MaxHeard`,
`MaxPresses` (Capture), `MaxPushes` (FrameQueue), `MaxFrames` (Playback),
`MaxSessions`, `MaxCalls`, `MaxTurns` (PushToTalk; the last two of one session), `MaxFrames`, `MaxDamages` (SecureMedia); `ProfileStorage` has none
but its initial files, `PacketCodec` none but its inputs, `WorkerClock` none. In
`PushToTalk` a press waits for room for three commands, so that the bound of
`MaxCalls` never looks like a full channel to a handler; a frame or a release that
would exceed it is not taken. Queues of two are enough for the
order of two items and their loss to differ; the counters' moduli are small so
that the wrap is inside the bound.

### What the violated runs show

- `capture_stale`: the callback has completed a frame, the user presses PTT, the
  UI thread finds the channel empty and requests talk, the callback offers the
  frame, the next tick transmits it. What does hold is `StaleFramesAreDropped`:
  nothing that lay *in the channel* at the press is transmitted.
- `profiles_save`: restored settings, a save that truncates the file, a crash;
  the next start finds a file that does not parse and uses the defaults.

## 4. Fairness

- RelaySession: weak fairness of the worker's own steps, since none of its calls
  blocks for ever (`recv_timeout` 1 ms, `socket.recv` 100 ms, `try_send` never),
  and of the owner's steps inside `disconnect`, which is straight-line code whose
  only wait is the join. The relay, the user and the reading of events get none.
  `ReadTimeout` belongs to the fair steps: the poll interval runs out unless a
  datagram or an error comes first.
- Playback: the output device goes on calling back (weak fairness of the begin
  and the end of a callback) and each call asks for data (strong fairness of
  `OutputSample`, which the lock enables again and again). The relay gets none.

`PushToTalk` states no fairness. What the timer must achieve eventually is to read
the events; the loop that does so has no bound of its own, and whether it ends is
a matter of rates, not of the order of steps: in the model it would end by the
bound `MaxTurns`, and a liveness property would show the bound.

## 5. The proofs

All theorems hold for every value of the constants that the named assumption of
the module allows (`SessionAssumption`, `CaptureAssumption`,
`FrameQueueAssumption`, `PlaybackAssumption`, `StorageAssumption`,
`ClockAssumption`, `CodecAssumption`, `ControlAssumption`, `MediaAssumption`); nothing else is assumed.

`RelaySessionProofs`:

- `TypeCorrect`: `TypeOK`, inductive as it stands.
- `WorkerStopsOnlyWhenAsked`: `StopsOnlyWhenAsked`, through two parts that are
  inductive only together: `QueueInv` (the command channel holds exactly the
  unsettled commands in their order, then at most one Disconnect, which only an
  owner inside `disconnect` can have put there) and `FlagInv` (the flag is up while
  the handle is open, and the worker is past its loop only if the handle is not).
- `StreamIsOrdered` and `NoncesAreFresh`: `OneOrderedStream` says nothing of the
  counter that stamps the next packet, so it cannot be inductive. `StampInv` adds
  that every number on the wire is `Behind` the counter by as many as were handed
  out since; `NonceInv` and `NoncesInOrder` do the same for the nonce. Both rest on
  `NumbersOfStep`: a step hands out no number, or a packet number, or also an
  audio number and a nonce, and what it sends bears exactly these. A send that
  fails hands out its numbers all the same, which is why distances are counted in
  numbers handed out and not in packets.
- `EventsFramed`: `EventsAreFramed`, with the addition that nothing precedes the
  first event (`EventInv`).
- `SessionIsStream`: `Spec => Stream!Spec`. `StreamStep` maps each step: the worker's
  first and last are Join and Leave, a taken command is Settle (by `QueueInv`, through
  the lemma `Oldest`, it is the next accepted one), the swap of the flag is Close
  (so by `FlagInv` no Leave comes before it), and the remaining steps stutter.
- `SessionKeepsPromise`: what that stream amounts to for the relay
  (`RelayStream!Promise`, a formula about what was sent and no longer about steps):
  Join first, Leave last and only when asked for, the commands in the order of
  acceptance, once each, with the kind of packet they ask for. Inductive over the
  six steps of the stream (`KeptInSilence`, `KeptWithOwn`, `KeptWithCommand`), given
  `QueueInv` and `FlagInv`.
- `DisconnectGetsOn` and `WaitIsBounded`: the part of `DisconnectReturns` that needs no
  fairness. `StepsLeft`, which is at most the command capacity and five, never
  grows once the flag is cleared, and every step of the worker makes it smaller:
  the worker is not sent round its loop again, since by `FlagInv` both looks at the
  flag find it down and nobody can submit. What remains to be trusted to TLC is
  that the worker has a step to take and takes it.

`CaptureProofs`:

- `TypeCorrect`: `TypeOK`, inductive as it stands.
- `ResamplerIsExact`: `PhaseInv`, i.e. rate times samples heard = device rate times
  samples made + phase, with the phase below the device rate.
- `FramesStayInOrder`: `OrderInv`, the order of everything between the assembler
  and the session: the samples being assembled, the complete frames, the channel,
  what was sent. Each step moves a frame one place downstream or drops it.
- `StaleNeverSent`: `StaleInv` on top of it (once a press has found the channel
  empty, no stale frame is in it). It needs the order as well: a frame the
  callback still holds is later than every stale one, hence not one of them.

`AudioQueueProofs`, about both queues:

- `QueueIsWindow`, `BufferIsWindow`: `Spec => LatestWindow!Spec` under the mapping, by
  the invariant that the queue holds consecutive numbers up to the newest
  (`QueueInv`, `WindowInv`); `QueueTypeCorrect`, `TypeCorrect` by the same invariant.
- `QueueKeepsPromise`, `BufferKeepsPromise`: what the abstract queue amounts to for
  its user (`LatestWindow!Promise`): every item waits, came out in order and once, or
  is counted as lost.

`ProfileStorageProofs`: `TypeCorrect`, `MemoryStaysUsable`, `ReportedStaysOnDisk` and
`KeptSettingsSurvive`, through one invariant that relates memory, file and what was
reported in every place of a save, torn files and unreadable ones included.

`WorkerClockProofs`, for any interval and waits; `ClocksCount`, that no wait takes
more than its limit, is the model's own bookkeeping and only a lemma:

- `KeepalivesAreInTime`: the bound alone is not inductive. `AgeInv` says for every
  place of the loop how far past the interval the clock can be there: in the read,
  by the time spent in it; in each later wait, by the waits before it and the time
  spent; a keepalive was found not yet due one pass ago.
- `CommandsArePrompt`: `CommandInv` says for every place how long the command can
  have been in the channel: through the read, in `loop` and `recv` no longer than
  that, in the drain by the time spent there. It rests on `recv_timeout` returning
  at once when something is queued and on the drain ending only when nothing is.
- `DisconnectsArePrompt`: `WaitInv` says the same of the time since the flag was
  cleared: whoever passes a look at the flag has waited nothing.

`PacketCodecProofs`, about every packet and every datagram there is (no bound on
lengths):

- `TypeCorrect`: every byte of a decoded packet lies inside the datagram, because
  `Refusal` compared the lengths first (lemmas on `DecodeHeader`, `Decode`).
- `SentPacketsAreRead`, `ReadPacketsEncodeBack`, `AadStaysOnTheWire`: `CodecInv` says
  that `got` is the decoding of `wire`, and `wire` the encoding of `sent`; the rest is
  sequence arithmetic, in lemmas on where each part of an encoding starts and ends.
- `AadTellsPacketsApart`: two secured packets with the same additional data have the
  same header and security header. It is what lets authentication of those 28
  bytes stand for authentication of the packet's fields.

`PushToTalkProofs`, for any senders, capacities, frames per tick and bounds. Almost
all rest on `UiInv` (where the UI thread may be, with which flags: a press in
progress has the button down and `ptt_active` clear, frames are sent only with it
set, only a press that was accepted and has not ended leaves it set):

- `OnlyOneWorker`: `OneWorker` with `UiInv`.
- `UnannouncedAudioIsHeldOver` (`AudioIsAnnounced`): `UiInv` says that `ptt_active` is
  set only while the press lasts whose PttOn some session accepted; `AskedInv` adds where a press and a talk stand in what was
  asked: the last command is the CodecConfig before a PttOn, a PttOn or a frame
  while the talk is the session's own, nothing but old frames while it is not.
- `OnlyLossLeavesATalk`: `EndedInv`, with the button up and no PttOff refused every
  PttOn has a PttOff behind it.
- `TalkerStaysCurrent`: `TalkerInv`, that the label, the events still to be read and
  the relay's last word are in step: the last Grant or Release among those events
  names the relay's talker, or, if there is none, the label does. It needs
  `LabelsAreRight` for the label a new session finds.
- `LabelsAreRight` with `UiInv`; `MuteMutesOneself` with `RenamedInv`.

`SecureMediaProofs`, for any clients, secrets, passwords, channels, header lengths,
cuts and damages:

- `SealedFramesAreGenuine`, `SealedNeverSoundsAsIs`: what was played as a sealed frame,
  and what was played at all, says nothing of the datagrams still to come. `NetInv`
  does: everything in the network was sent as it is, or is one damage away from
  something that was. `HeardInv` is the same of what was played. The rest is what
  can be read from a datagram one damage away: if the additional data and the key
  agree with the sealed ones, its sender and frame do (`AadTells`, `SameKey`,
  `SameDigest`: digests of different texts differ, so no two secrets share a key);
  and no single damage moves sealed bytes into a payload of a frame's length.
- `TheGroupHears`: clients with the same secret, whatever their notations of it, on
  the same channel compute the same key and additional data.
- `NoSpeechInTheClear`: under either encryption no datagram carries speech unsealed.

Only model-checked: the liveness properties (`DisconnectReturns`,
`AcceptedIsSettled`, `SpeechMovesOn`). That what is violated is violated is shown by
TLC's traces.

## 6. What is not modelled, and what is left

Not modelled: resolution of the relay's address (an outcome of `Connect`), layout
and wording, the platform traits (nothing implements them), sample values and
channel mixing, opening the audio devices (an outcome of `Press`), the ciphers
and digests themselves (libraries). A poisoned mutex needs a panic that the
modelled code does not contain.

Known limits of what is modelled:

- `DrainTime` (WorkerClock) bounds what the code does not: an owner that submits
  commands faster than they are sent keeps the worker in its inner loop.
- What the code does and a user would mind, modelled and permitted by the
  properties: unannounced frames after a reconnect with the button held; a refused
  PttOff that is never sent again (`StuckTalkIsLoss`: `refused`); a talker left on
  display by a Grant or Release that did not fit the event channel
  (`TalkerIsCurrent`: `missed`); another user muted after the profile got a new
  sender while connected (`MuteIsOneself`: `renamed`); the user's file overwritten
  by a save after a start that could not read it; numbers spent on frames that
  AES-GCM v1 drops; a talk's first frame with samples from before the press, since
  the assembler keeps its partial frame over a release. The properties show that
  these are the only ways to such an outcome, not that they do not happen. None of
  them contradicts a doc or a comment, so none is a finding.
- `RateIsExact` is about devices from 8 kHz up.
- `NonceNeverReused` is about one session; two sessions under the same key start at
  random nonces, which nothing keeps apart.
- Blanks around a password that is not digits are part of it, for the code and for
  `GroupHears`.
- `SecureMedia` claims nothing of freshness: `decode_pcm` plays a frame as often as
  it comes, and no doc promises otherwise.
- `SecureMedia` has one fault a datagram. Two chosen to match, a `header_len` too
  short for a security header and a cut of exactly the bytes this moves from
  header to payload, would leave a sealed text of a frame's length that
  `decode_pcm` takes for a plain frame; the theorems do not speak of it.
- A full capture channel keeps its old frames and refuses the new ones (`OfferFrame`),
  while `docs/architecture.md` has stale frames discarded and `FrameQueue` does so.
  `Capture` models what the code does; the press, which empties the channel, keeps
  those frames off the air (`StaleFramesAreDropped`).
- `PushToTalk` and `Capture` are composed in the reader's head: which frames the
  timer finds is `Capture`'s matter, what the session is asked in between is
  `PushToTalk`'s.

Left to do: `resolve_relay` once it does more than filter and sort.

## 7. Running it

`tlc -workers 2 -config RelaySession.cfg RelaySession` and so on for each `.cfg` (the
`ProfileStorage` ones with `MCProfileStorage`, `PacketCodec.cfg` with
`MCPacketCodec`, `SecureMedia.cfg` with `MCSecureMedia`, `PushToTalk.cfg` with
`MCPushToTalk`); `tlapm RelaySessionProofs.tla`
(and the other `*Proofs` modules) for the proofs.
