----------------------------- MODULE PushToTalk -----------------------------
(***************************************************************************)
(* The desktop client of apps/desktop/src/main.rs: the PTT button, Connect *)
(* and Disconnect, the 10 ms timer and the labels of the window, over any  *)
(* number of relay sessions, one after the other.                          *)
(*                                                                         *)
(* Every handler runs on the UI thread, to its end; ui is where it is.  It *)
(* meets a session's worker in two places, the command channel and the     *)
(* event channel, so a handler is cut into steps at its uses of them.  The *)
(* session is known by what RelayStream promises of it: the steps on its   *)
(* commands and on what the relay is sent are that module's.  It promises  *)
(* to leave only when asked, so Stopped is offered when nobody reads it    *)
(* any more, and the branch of the timer that handles it has no step.      *)
(***************************************************************************)
EXTENDS Integers, Sequences, FiniteSets

CONSTANTS
  Senders,           \* sender IDs
  NoOne,             \* the label "No active speaker"
  CommandCapacity,   \* of the command channel, 64 in the code
  EventCapacity,     \* of the event channel, 128 in the code
  FramesPerTick,     \* frames the timer takes at most, 4 in the code
  MaxSessions,       \* bound: sessions opened
  MaxCalls,          \* bound: commands accepted by one session
  MaxTurns           \* bound: keepalives and datagrams of one session

ASSUME ControlAssumption ==
  /\ NoOne \notin Senders
  /\ CommandCapacity \in Nat \ {0}
  /\ EventCapacity \in Nat \ {0, 1}
  /\ FramesPerTick \in Nat
  /\ MaxSessions \in Nat
  /\ MaxCalls \in Nat \ {0}
  /\ MaxTurns \in Nat

VARIABLES
  ui,           \* the handler the UI thread is in, or "idle"
  held,         \* the PTT button is down
  pttActive,    \* ptt_active
  budget,       \* frames this run of the timer may still take
  sessions,     \* sessions opened so far
  slot,         \* the number of the session in the shared slot, 0 if none
  phase, closing, accepted, settled, keepalives, stream,  \* its RelayStream
  asked,        \* what each accepted command asks for
  events,       \* its event channel
  heard,        \* datagrams it received
  status,       \* connection-status
  talker,       \* active-talker
  profile,      \* sender_id and mute_self_id of the active profile
  opened,       \* config.sender_id of the session
  talk,         \* history: the session that accepted the PttOn of the last
                \* press, 0 if none has
  refused,      \* history: its last PttOff was refused
  relayTalker,  \* history: the talker as the worker last received it
  missed,       \* history: a Grant or Release did not fit the event channel
  renamed,      \* history: the profile's sender has differed from opened
  misheard      \* history: a frame was muted, or not, against opened

link == <<phase, closing, accepted, settled, keepalives, stream>>
calls == <<link, asked>>
slots == <<sessions, slot, opened>>
button == <<held, pttActive, talk, refused>>
display == <<status, talker>>
inbox == <<events, heard, relayTalker, missed>>
store == <<profile, renamed, misheard>>
vars == <<ui, budget, slots, calls, button, display, inbox, store>>

Link == INSTANCE RelayStream WITH
  Ops <- {"Control", "Pcm"}, MaxKeepalives <- MaxTurns

-----------------------------------------------------------------------------
(* Values and helpers *)

\* OldFrame is a frame of a talk that an earlier session was asked for.
Ask == {"CodecConfig", "PttOn", "PttOff", "Frame", "OldFrame"}

Status == {"Disconnected", "Connecting", "Connected", "Requesting talk",
           "Notice"}                  \* Notice: any refusal or error

\* What the labels tell apart: Notice is an IoError, a ReceiveRejected or a
\* Deny, Other an event that shows nothing, as Sent does.
Event == [kind : {"Connected", "Notice", "Release", "Other"}, sender : {NoOne}]
         \union [kind : {"Grant", "PcmReceived"}, sender : Senders]

Notification(kind) == [kind |-> kind, sender |-> NoOne]

Shows(e) == e.kind \in {"Grant", "Release"}

\* The channel grown instead of bounded.
OfferedUnbounded(es) == events \o es

\* send_event, of several in a row: those that do not fit are lost.
Offered(es) ==
  LET all == events \o es
  IN  IF Len(all) <= EventCapacity THEN all ELSE SubSeq(all, 1, EventCapacity)

\* The handlers' match on session.as_ref(), and then try_send.
CanSubmit == slot # 0 /\ Len(accepted) - settled < CommandCapacity

Submit(op, what) ==
  /\ Link!Accept(op)
  /\ asked' = Append(asked, what)

Notice == status' = "Notice" /\ UNCHANGED talker

Goto(from, to) == ui = from /\ ui' = to

-----------------------------------------------------------------------------
(* The PTT button *)

\* on_ptt_pressed.  It ends early when the client only receives, when the
\* profile's codec is not PCM, and when there is no audio device.
Press ==
  /\ ui = "idle"
  /\ ~held
  /\ Len(accepted) + 3 <= MaxCalls
  /\ held' = TRUE
  /\ \/ ui' = "idle" /\ (UNCHANGED display \/ Notice)
     \/ ui' = "config" /\ UNCHANGED display
  /\ talk' = 0
  /\ UNCHANGED <<pttActive, refused, budget, slots, calls, inbox, store>>

\* send_pcm_codec_config
SendCodecConfig ==
  /\ \/ /\ Goto("config", "ptt_on")
        /\ CanSubmit
        /\ Submit("Control", "CodecConfig")
        /\ UNCHANGED display
     \/ /\ Goto("config", "idle")
        /\ ~CanSubmit
        /\ Notice
        /\ UNCHANGED calls
  /\ UNCHANGED <<budget, slots, button, inbox, store>>

\* send_ptt_control(PttOn)
SendPttOn ==
  /\ Goto("ptt_on", "idle")
  /\ \/ /\ CanSubmit
        /\ Submit("Control", "PttOn")
        /\ pttActive' = TRUE
        /\ talk' = slot
        /\ status' = "Requesting talk"
        /\ UNCHANGED talker
     \/ /\ ~CanSubmit
        /\ Notice
        /\ UNCHANGED <<calls, pttActive, talk>>
  /\ UNCHANGED <<held, refused, budget, slots, inbox, store>>

\* A release that looks at the session first.
KeepPtt == pttActive' = (pttActive /\ ~CanSubmit)

ClearPtt == pttActive' = FALSE

\* PttOff sent for an active talk only, asked after the flag is cleared.
NoEndTalk == UNCHANGED calls

EndTalk == Submit("Control", "PttOff")

\* on_ptt_released
Release ==
  /\ ui = "idle"
  /\ held
  /\ held' = FALSE
  /\ ClearPtt
  /\ \/ /\ CanSubmit
        /\ EndTalk
        /\ refused' = FALSE
        /\ status' = "Connected"
        /\ UNCHANGED talker
     \/ /\ slot # 0 /\ ~CanSubmit
        /\ refused' = TRUE
        /\ Notice
        /\ UNCHANGED calls
     \/ /\ slot = 0
        /\ UNCHANGED <<refused, display, calls>>
  /\ UNCHANGED <<ui, talk, budget, slots, inbox, store>>

-----------------------------------------------------------------------------
(* Connect, disconnect, the end of the program, the save button *)

NewSession ==
  /\ phase' = "fresh"
  /\ closing' = FALSE
  /\ accepted' = <<>>
  /\ settled' = 0
  /\ keepalives' = 0
  /\ stream' = <<>>
  /\ asked' = <<>>

\* No session's events, and nothing noted of them.
NewInbox ==
  /\ events' = <<>>
  /\ heard' = 0
  /\ relayTalker' = NoOne
  /\ missed' = FALSE
  /\ renamed' = FALSE
  /\ misheard' = FALSE

\* on_connect_relay: "Already connected"; an invalid relay, one that does not
\* resolve, or a socket that fails; or a session for the active profile.
Connect ==
  /\ ui = "idle"
  /\ \/ /\ Notice
        /\ UNCHANGED <<slots, calls, refused, inbox, renamed, misheard>>
     \/ /\ slot = 0
        /\ sessions < MaxSessions
        /\ sessions' = sessions + 1
        /\ slot' = sessions'
        /\ opened' = profile.sender
        /\ NewSession
        /\ NewInbox
        /\ status' = "Connecting"
        /\ refused' = FALSE
        /\ UNCHANGED talker
  /\ UNCHANGED <<ui, held, pttActive, talk, budget, profile>>

\* on_disconnect_relay, and the end of main: the slot is emptied and the
\* session's disconnect() entered.  Nobody reads its events any more.
Disconnect(to) ==
  /\ Goto("idle", to)
  /\ slot' = 0
  /\ \/ slot # 0 /\ Link!Close
     \/ slot = 0 /\ UNCHANGED link
  /\ NewInbox
  /\ UNCHANGED <<budget, sessions, opened, asked, button, display, profile>>

\* A disconnect() that does not join the worker.
NotJoined == TRUE

\* disconnect() returns when the worker has left.
Joined == phase = "left"

\* Neither label reset.
KeepLabels == UNCHANGED display

ShowDisconnected == status' = "Disconnected" /\ talker' = NoOne

DisconnectEnds ==
  /\ Joined
  /\ \/ Goto("joining", "idle") /\ ShowDisconnected
     \/ Goto("quitting", "gone") /\ UNCHANGED display
  /\ UNCHANGED <<budget, slots, calls, button, inbox, store>>

\* The store's active profile is replaced (ProfileStorage says how).
SaveProfile ==
  /\ ui = "idle"
  /\ \E s \in Senders, m \in BOOLEAN :
       /\ profile' = [sender |-> s, mute |-> m]
       /\ renamed' = (renamed \/ (slot # 0 /\ s # opened))
  /\ UNCHANGED <<ui, budget, slots, calls, button, display, inbox, misheard>>

-----------------------------------------------------------------------------
(* The timer *)

TimerFires ==
  /\ ui = "idle"
  /\ ui' = IF pttActive THEN "send" ELSE "drain"
  /\ budget' = IF pttActive THEN FramesPerTick ELSE 0
  /\ UNCHANGED <<slots, calls, button, display, inbox, store>>

\* A captured frame is offered to the session, if there is one; a frame that
\* is refused is forgotten.
SendFrame ==
  /\ ui = "send"
  /\ budget > 0
  /\ budget' = budget - 1
  /\ \/ /\ CanSubmit
        /\ Submit("Pcm", IF talk = slot THEN "Frame" ELSE "OldFrame")
     \/ /\ ~CanSubmit
        /\ UNCHANGED calls
  /\ UNCHANGED <<ui, slots, button, display, inbox, store>>

\* No frame has been captured, or four have been taken.
FramesEnd ==
  /\ Goto("send", "drain")
  /\ budget' = 0
  /\ UNCHANGED <<slots, calls, button, display, inbox, store>>

\* Mute-self taken for mute.
MutesAll(s) == profile.mute

\* The frame is not queued for playback.
Mutes(s) == profile.mute /\ s = profile.sender

\* update_talker_from_packet that leaves the talker on a Release.
ShownStale(e) == IF e.kind = "Grant" THEN e.sender ELSE talker

\* The talker after that event.
Shown(e) ==
  CASE e.kind = "Grant" -> e.sender
    [] e.kind = "Release" -> NoOne
    [] OTHER -> talker

\* One turn of the while loop: apply_relay_event, or a frame to play.  The Sent
\* of a Leave, the one that would change the label, comes when nobody reads.
HandleEvent ==
  /\ ui = "drain"
  /\ slot # 0
  /\ events # <<>>
  /\ LET e == Head(events) IN
       /\ status' = CASE e.kind = "Connected" -> "Connected"
                      [] e.kind = "Notice" -> "Notice"
                      [] OTHER -> status
       /\ talker' = Shown(e)
       /\ misheard' = (misheard \/
            (/\ e.kind = "PcmReceived"
             /\ Mutes(e.sender) # (profile.mute /\ e.sender = opened)))
  /\ events' = Tail(events)
  /\ UNCHANGED <<ui, budget, slots, calls, button, heard,
                 relayTalker, missed, profile, renamed>>

TimerEnds ==
  /\ Goto("drain", "idle")
  /\ slot = 0 \/ events = <<>>
  /\ UNCHANGED <<budget, slots, calls, button, display, inbox, store>>

-----------------------------------------------------------------------------
(* The session's worker *)

\* What the worker says of what it sent.
Outcome ==
  Notification(IF stream' = stream THEN "Notice" ELSE "Other")

WorkerOffers(es) ==
  /\ events' = IF slot = 0 THEN events ELSE Offered(es)
  /\ UNCHANGED <<ui, budget, slots, asked, button, display,
                 heard, relayTalker, missed, store>>

WorkerJoins ==
  /\ Link!Join
  /\ WorkerOffers(<<Notification("Connected"), Outcome>>)

WorkerSends ==
  /\ \/ Link!Settle
     \/ heard + keepalives < MaxTurns /\ Link!Keepalive
  /\ WorkerOffers(<<Outcome>>)

WorkerLeaves ==
  /\ Link!Leave
  /\ WorkerOffers(<<>>)

\* A datagram of the relay's, while somebody may read the event.
WorkerReceives ==
  /\ slot # 0
  /\ phase = "joined"
  /\ heard + keepalives < MaxTurns
  /\ heard' = heard + 1
  /\ \E e \in Event :
       /\ e.kind # "Connected"
       /\ events' = Offered(<<e>>)
       /\ relayTalker' = IF Shows(e) THEN e.sender ELSE relayTalker
       /\ missed' = (missed \/ (Shows(e) /\ events' = events))
  /\ UNCHANGED <<ui, budget, slots, calls, button, display, store>>

-----------------------------------------------------------------------------

\* The window opens: no session, as after the end of one.
Init ==
  /\ ui = "idle"
  /\ held = FALSE
  /\ pttActive = FALSE
  /\ budget = 0
  /\ sessions = 0
  /\ slot = 0
  /\ phase = "left"
  /\ closing = TRUE
  /\ accepted = <<>>
  /\ settled = 0
  /\ keepalives = 0
  /\ stream = <<>>
  /\ asked = <<>>
  /\ events = <<>>
  /\ heard = 0
  /\ status = "Disconnected"
  /\ talker = NoOne
  /\ profile \in [sender : Senders, mute : BOOLEAN]
  /\ opened \in Senders
  /\ talk = 0
  /\ refused = FALSE
  /\ relayTalker = NoOne
  /\ missed = FALSE
  /\ renamed = FALSE
  /\ misheard = FALSE

\* The rest of a handler that has begun.
Handler ==
  \/ SendCodecConfig
  \/ SendPttOn
  \/ DisconnectEnds
  \/ SendFrame
  \/ FramesEnd
  \/ HandleEvent
  \/ TimerEnds

User ==
  \/ Press
  \/ Release
  \/ Connect
  \/ Disconnect("joining")
  \/ Disconnect("quitting")
  \/ SaveProfile

Worker ==
  \/ WorkerJoins
  \/ WorkerSends
  \/ WorkerLeaves
  \/ WorkerReceives

\* The program has ended.
Over == ui = "gone" /\ UNCHANGED vars

Next == User \/ TimerFires \/ Handler \/ Worker \/ Over

Spec == Init /\ [][Next]_vars

-----------------------------------------------------------------------------
(* Properties *)

Ui == {"idle", "config", "ptt_on", "send", "drain", "joining", "quitting", "gone"}

\* Every variable keeps to its type.
TypeOK ==
  /\ ui \in Ui
  /\ held \in BOOLEAN
  /\ pttActive \in BOOLEAN
  /\ budget \in 0 .. FramesPerTick
  /\ sessions \in 0 .. MaxSessions
  /\ slot \in 0 .. MaxSessions
  /\ phase \in {"fresh", "joined", "left"}
  /\ closing \in BOOLEAN
  /\ accepted \in Seq([op : {"Control", "Pcm"}, id : Nat \ {0}])
  /\ Len(accepted) <= MaxCalls
  /\ settled \in 0 .. Len(accepted)
  /\ keepalives \in 0 .. MaxTurns
  /\ stream \in Seq([kind : {"Join", "Leave", "Keepalive", "Control", "Audio"}, id : Nat])
  /\ asked \in Seq(Ask)
  /\ Len(asked) = Len(accepted)
  /\ events \in Seq(Event)
  /\ Len(events) <= EventCapacity
  /\ heard \in 0 .. MaxTurns
  /\ status \in Status
  /\ talker \in Senders \union {NoOne}
  /\ profile \in [sender : Senders, mute : BOOLEAN]
  /\ opened \in Senders
  /\ talk \in 0 .. MaxSessions
  /\ refused \in BOOLEAN
  /\ relayTalker \in Senders \union {NoOne}
  /\ missed \in BOOLEAN
  /\ renamed \in BOOLEAN
  /\ misheard \in BOOLEAN

\* The client never has two workers, nor one without a handle to stop it: a
\* worker runs just while its session is in the slot, or while the UI thread
\* waits in disconnect() for it to leave; when the program is gone, so is the
\* last worker, its Leave behind it (on_connect_relay, on_disconnect_relay, the
\* end of main).
OneWorker ==
  /\ slot # 0 => slot = sessions /\ ~closing /\ phase # "left"
  /\ slot = 0 => closing
  /\ (slot = 0 /\ ui \notin {"joining", "quitting"}) => phase = "left"

PttControl == {"PttOn", "PttOff"}

\* What a session is asked for makes sense to the relay: each PttOn comes right
\* after a CodecConfig, and each frame of a talk this session accepted follows
\* its PttOn with nothing but frames in between, however full the channel was
\* and whenever the timer fired (on_ptt_pressed, the timer).  Frames that the
\* session has no PttOn for the code does send, since on_disconnect_relay leaves
\* ptt_active set; of these the property says that they are of a talk which an
\* earlier session accepted, at a press whose button is still down, and that
\* they end before the session's first PTT control, be it refused or not.
AudioIsAnnounced ==
  /\ \A j \in 1 .. Len(asked) :
       /\ asked[j] = "PttOn" => j > 1 /\ asked[j - 1] = "CodecConfig"
       /\ asked[j] = "Frame" => j > 1 /\ asked[j - 1] \in {"PttOn", "Frame"}
       /\ asked[j] = "OldFrame" => \A i \in 1 .. j - 1 : asked[i] = "OldFrame"
  /\ pttActive => held /\ talk # 0

SentIds == {stream[i].id : i \in 1 .. Len(stream)}

\* The relay last heard a PttOn, the k-th command of the session.
RelayHolds(k) ==
  /\ k \in SentIds
  /\ asked[k] = "PttOn"
  /\ \A j \in k + 1 .. Len(asked) :
       (asked[j] \in PttControl) => j \notin SentIds

\* A relay is left believing in a talk whose button is up only because the
\* PttOff was refused by the full channel (on_ptt_released does not retry), has
\* not been handled yet, or was lost by the socket.
StuckTalkIsLoss ==
  (slot # 0 /\ ~held) =>
    \A k \in 1 .. Len(asked) :
      RelayHolds(k) =>
        \/ refused
        \/ \E j \in k + 1 .. Len(asked) : asked[j] = "PttOff"

\* The active talker on display is what the relay last said, as soon as the
\* Grants and Releases received have been read, unless one did not fit the
\* event channel; and nothing an earlier session heard is ever shown
\* (update_talker_from_packet, on_disconnect_relay).
TalkerIsCurrent ==
  (/\ slot # 0
   /\ ~missed
   /\ \A i \in 1 .. Len(events) : ~Shows(events[i])) => talker = relayTalker

\* Unless the user is inside Disconnect, the window shows a live status only
\* over a session, and "Disconnected" and no talker only without one: a late
\* release, an event of the old session or a refused press cannot revive it.
LabelsMatchSession ==
  /\ slot # 0 => status # "Disconnected"
  /\ (slot = 0 /\ ui \notin {"joining", "quitting", "gone"}) =>
       status \in {"Disconnected", "Notice"} /\ talker = NoOne

\* Mute-self mutes just the frames that bear the sender ID the session was
\* opened with, until the profile in the store is given another one: it is the
\* store that the timer asks.
MuteIsOneself == misheard => renamed

=============================================================================
