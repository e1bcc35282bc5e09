--------------------------- MODULE ProfileStorage ---------------------------
(***************************************************************************)
(* The profile store of the desktop client: the copy in memory that the    *)
(* connect and PTT handlers use (ProfileStore of crates/incomudon-core),   *)
(* the file it is kept in (apps/desktop/src/profile_storage.rs), and the   *)
(* two save buttons, with crashes at any moment.                           *)
(*                                                                         *)
(* Texts are abstracted to what validation tells apart: a name is empty, or *)
(* one of two that differ in case only, or another; a bitrate is absent,   *)
(* zero or positive; a relay endpoint is one of two good ones, or bad.     *)
(***************************************************************************)
EXTENDS Integers, Sequences

Names == {"", "home", "HOME", "away"}
Codecs == {"Opus", "Pcm"}              \* Codec2 is treated as Opus is
Bitrates == {"none", "zero", "positive"}
Relays == {"local", "remote", "bad"}
Profile == [name : Names, codec : Codecs, bitrate : Bitrates]

CONSTANTS
  Torn,           \* a file that is not a whole store
  Absent,         \* no file at all
  FoundProfiles   \* bound: the profiles a file found at the start may hold

\* Version 2 is any other than PROFILE_STORE_VERSION.
Store == [version : {1, 2}, active : 0 .. 2, relay : Relays,
          profiles : UNION {[1 .. n -> Profile] : n \in 0 .. 2}]

ASSUME StorageAssumption ==
  /\ FoundProfiles \subseteq Profile
  /\ Torn \notin Store /\ Absent \notin Store /\ Torn # Absent

VARIABLES
  app,      \* "down", "up", or "writing": inside fs::write
  memory,   \* the ProfileStore behind the mutex
  disk,     \* the file: a store, Torn or Absent
  status,   \* profile-save-status
  kept      \* history: the store last restored or reported saved, or Absent

vars == <<app, memory, disk, status, kept>>

-----------------------------------------------------------------------------
(* Validation *)

\* eq_ignore_ascii_case, on Names
Folded(name) == IF name = "HOME" THEN "home" ELSE name

ValidProfile(p) ==
  /\ p.name # ""
  /\ p.bitrate = IF p.codec = "Pcm" THEN "none" ELSE "positive"

\* ProfileStore::validate.  active counts from 0.
ValidStore(s) ==
  /\ s.version = 1
  /\ s.relay # "bad"
  /\ s.active < Len(s.profiles)
  /\ \A i \in 1 .. Len(s.profiles) :
       /\ ValidProfile(s.profiles[i])
       /\ \A j \in 1 .. i - 1 :
            Folded(s.profiles[j].name) # Folded(s.profiles[i].name)

Default ==
  [version |-> 1, active |-> 0, relay |-> "local",
   profiles |-> <<[name |-> "home", codec |-> "Opus", bitrate |-> "positive"]>>]

\* profile_from_window, before it validates: the bitrate field is ignored
\* under PCM, and a zero counts as none.
FromWindow(name, codec, bitrate) ==
  [name |-> name, codec |-> codec,
   bitrate |-> IF codec = "Pcm" \/ bitrate = "zero" THEN "none" ELSE bitrate]

-----------------------------------------------------------------------------
(* Starting and stopping *)

\* A file that does not parse taken for a store.
RestoredUnparsed(file) == IF file = Absent THEN Default ELSE file

\* A file that parses taken as it is.
RestoredUnchecked(file) == IF file \in {Torn, Absent} THEN Default ELSE file

\* load_from_path of a file that can be read, with the defaults for one that is
\* missing, does not parse or does not validate.
Restored(file) ==
  IF file \notin {Torn, Absent} /\ ValidStore(file) THEN file ELSE Default

\* No configuration directory, no file, or one that cannot be read, which may be
\* whole, or does not load: the defaults, with the file as it was.
FallBack ==
  /\ memory' = Default
  /\ status' \in {"Using defaults", "Unsaved default profile"}
  /\ UNCHANGED kept

\* load_profile_store
Start ==
  /\ app = "down"
  /\ app' = "up"
  /\ \/ /\ Restored(disk) = disk
        /\ memory' = disk
        /\ kept' = disk
        /\ status' = "Profile restored"
     \/ FallBack
  /\ UNCHANGED disk

\* The window is closed, or the process dies, whatever it was doing.
Stop ==
  /\ app # "down"
  /\ app' = "down"
  /\ memory' = Default
  /\ status' = ""
  /\ UNCHANGED <<disk, kept>>

-----------------------------------------------------------------------------
(* The save buttons *)

\* The error not shown.
Unreported == UNCHANGED status

NotSaved == status' = "Not saved"

\* save_to_path, up to the truncation of the file in fs::write.  No directory,
\* no permission: the file is as it was.
BeginSave ==
  \/ /\ NotSaved
     /\ UNCHANGED <<app, disk>>
  \/ /\ disk' = Torn
     /\ app' = "writing"
     /\ UNCHANGED status

\* The other half of fs::write; a full disk leaves the file torn.
FinishSave ==
  /\ app = "writing"
  /\ app' = "up"
  /\ \/ /\ disk' = memory
        /\ kept' = memory
        /\ status' = "Saved"
     \/ /\ NotSaved
        /\ UNCHANGED <<disk, kept>>
  /\ UNCHANGED memory

\* The early return after a failed replace forgotten, and with it the check.
SaveAnyway(next) == BeginSave

\* The handlers return early if replace_active or replace_relay report an
\* invalid store, with the replacement already made.
SaveIfValid(next) ==
  \/ ValidStore(next) /\ BeginSave
  \/ ~ValidStore(next) /\ NotSaved /\ UNCHANGED <<app, disk>>

\* profile_from_window validates, and replace_active once more.
SaveProfile(p) ==
  /\ app = "up"
  /\ UNCHANGED kept
  /\ \/ /\ ~ValidProfile(p)
        /\ NotSaved
        /\ UNCHANGED <<app, memory, disk>>
     \/ /\ ValidProfile(p)
        /\ memory' = [memory EXCEPT !.profiles[memory.active + 1] = p]
        /\ SaveIfValid(memory')

SaveRelay(relay) ==
  /\ app = "up"
  /\ UNCHANGED kept
  /\ \/ /\ relay = "bad"
        /\ NotSaved
        /\ UNCHANGED <<app, memory, disk>>
     \/ /\ relay # "bad"
        /\ memory' = [memory EXCEPT !.relay = relay]
        /\ SaveIfValid(memory')

-----------------------------------------------------------------------------

\* The client was never run, or left a file behind, or somebody edited it.
Init ==
  /\ app = "down"
  /\ memory = Default
  /\ disk \in {Torn, Absent} \union
       [version : {1, 2}, active : 0 .. 2, relay : {"remote", "bad"},
        profiles : UNION {[1 .. n -> FoundProfiles] : n \in 0 .. 2}]
  /\ status = ""
  /\ kept = Absent

Next ==
  \/ Start
  \/ Stop
  \/ FinishSave
  \/ \E name \in Names, codec \in Codecs, bitrate \in {"zero", "positive"} :
       SaveProfile(FromWindow(name, codec, bitrate))
  \/ \E relay \in Relays : SaveRelay(relay)

Spec == Init /\ [][Next]_vars

-----------------------------------------------------------------------------
(* Properties *)

\* Every variable keeps to its type.
TypeOK ==
  /\ app \in {"down", "up", "writing"}
  /\ memory \in Store
  /\ disk \in Store \union {Torn, Absent}
  /\ status \in {"", "Profile restored", "Using defaults",
               "Unsaved default profile", "Saved", "Not saved"}
  /\ kept \in Store \union {Absent}

\* Whatever file was found, and however many saves were refused half way, the
\* running client has an active profile and a relay that validate: active()
\* indexes inside the list, and connect and PTT never use a half-made setting.
\* Only the names may clash.
MemoryIsUsable ==
  app # "down" =>
    /\ memory.active < Len(memory.profiles)
    /\ \A i \in 1 .. Len(memory.profiles) : ValidProfile(memory.profiles[i])
    /\ memory.relay # "bad"

\* While the window says that the settings were restored or saved, the file
\* loads, and gives just what the client is using.
ReportedIsOnDisk ==
  (app = "up" /\ status \in {"Saved", "Profile restored"}) =>
    Restored(disk) = memory

\* What was restored or reported saved is what the file still gives, even after
\* saves that were refused and starts that could not read it, unless a later
\* save tore it.
KeptSurvives == kept # Absent => (disk = Torn \/ Restored(disk) = kept)

\* main.rs: "The save button persists a complete, validated profile in one
\* operation".  Then whenever no save is under way, even after a crash, the
\* next start restores what was last restored or reported saved.
SaveIsOneOperation ==
  (kept # Absent /\ app # "writing") => Restored(disk) = kept

=============================================================================
