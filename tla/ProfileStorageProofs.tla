------------------------ MODULE ProfileStorageProofs ------------------------
(***************************************************************************)
(* Theorems about ProfileStorage, for files that hold any profiles.        *)
(***************************************************************************)
EXTENDS ProfileStorage, TLAPS

Usable(s) ==
  /\ s.active < Len(s.profiles)
  /\ \A i \in 1 .. Len(s.profiles) : ValidProfile(s.profiles[i])
  /\ s.relay # "bad"

\* The store in memory is usable, even before it is read, and what is being
\* written is a store that will be restored.
SaveInv ==
  /\ Usable(memory)
  /\ app = "writing" => ValidStore(memory) /\ disk = Torn
  /\ ReportedIsOnDisk
  /\ KeptSurvives

\* The two marks are no stores.
LEMMA MarksAreNoStores ==
  /\ Torn \notin Store
  /\ Absent \notin Store
  /\ Torn # Absent
BY StorageAssumption

\* The profiles of a store are a sequence.
LEMMA ProfilesAreASequence ==
  ASSUME NEW s \in Store
  PROVE  /\ s.profiles \in Seq(Profile)
         /\ Len(s.profiles) \in 0 .. 2
         /\ DOMAIN s.profiles = 1 .. Len(s.profiles)
<1>1. PICK n \in 0 .. 2 : s.profiles \in [1 .. n -> Profile]
  BY DEF Store
<1>2. s.profiles \in Seq(Profile) /\ Len(s.profiles) = n
  BY <1>1
<1> QED
  BY <1>1, <1>2

LEMMA DefaultIsAStore == Default \in Store /\ ValidStore(Default) /\ Usable(Default)
<1> DEFINE p == [name |-> "home", codec |-> "Opus", bitrate |-> "positive"]
<1>1. p \in Profile /\ ValidProfile(p)
  BY DEF Profile, Names, Codecs, Bitrates, ValidProfile
<1>2. Default.profiles = <<p>>
  BY DEF Default
<1> HIDE DEF p
<1>3. <<p>> \in [1 .. 1 -> Profile] /\ Len(<<p>>) = 1 /\ <<p>>[1] = p
  BY <1>1
<1>4. <<p>> \in UNION {[1 .. n -> Profile] : n \in 0 .. 2}
  BY <1>3
<1>5. Default \in Store
  BY <1>2, <1>4 DEF Default, Store, Relays
<1>6. Default.active = 0 /\ Default.relay = "local" /\ Default.version = 1
  BY DEF Default
<1> QED
  BY <1>1, <1>2, <1>3, <1>5, <1>6 DEF ValidStore, Usable

\* A store that validates is usable.
LEMMA ValidIsUsable == ASSUME NEW s, ValidStore(s) PROVE Usable(s)
BY DEF ValidStore, Usable

\* Whatever is on the disk, what is restored is a store that validates.
LEMMA RestoredIsValid ==
  ASSUME NEW file \in Store \union {Torn, Absent}
  PROVE  Restored(file) \in Store /\ ValidStore(Restored(file))
BY DefaultIsAStore DEF Restored

\* A store that validates is restored as it was saved.
LEMMA ValidIsRestored ==
  ASSUME NEW s \in Store, ValidStore(s)
  PROVE  Restored(s) = s
BY MarksAreNoStores DEF Restored

\* Replacing the active profile leaves a store.
LEMMA ReplacedProfile ==
  ASSUME NEW s \in Store, Usable(s), NEW p \in Profile, ValidProfile(p),
         NEW t, t = [s EXCEPT !.profiles[s.active + 1] = p]
  PROVE  t \in Store /\ Usable(t)
<1> DEFINE ps == [s.profiles EXCEPT ![s.active + 1] = p]
<1>1. PICK n \in 0 .. 2 : s.profiles \in [1 .. n -> Profile]
  BY DEF Store
<1>2. Len(s.profiles) = n
  BY <1>1
<1>3. s.active \in 0 .. 2 /\ s.active < n
  BY <1>2 DEF Store, Usable
<1>4. ps \in [1 .. n -> Profile]
  BY <1>1
<1>5. Len(ps) = n
  BY <1>4
<1>6. t.profiles = ps /\ t.active = s.active /\ t.relay = s.relay
       /\ t.version = s.version /\ t = [version |-> t.version,
            active |-> t.active, relay |-> t.relay, profiles |-> t.profiles]
  BY DEF Store
<1>7. \A i \in 1 .. n : ValidProfile(ps[i])
  BY <1>1, <1>2 DEF Usable
<1> HIDE DEF ps
<1>8. t \in Store
  BY <1>4, <1>6 DEF Store
<1> QED
  BY <1>2, <1>3, <1>5, <1>6, <1>7, <1>8 DEF Usable

\* Replacing the relay leaves a store.
LEMMA ReplacedRelay ==
  ASSUME NEW s \in Store, Usable(s), NEW relay \in Relays, relay # "bad",
         NEW t, t = [s EXCEPT !.relay = relay]
  PROVE  t \in Store /\ Usable(t)
BY DEF Store, Usable

LEMMA WindowProfile ==
  ASSUME NEW name \in Names, NEW codec \in Codecs, NEW bitrate \in {"zero", "positive"}
  PROVE  FromWindow(name, codec, bitrate) \in Profile
BY DEF FromWindow, Profile, Bitrates

\* A file found at the start is a store or one of the marks.
LEMMA FoundIsAStore == Init => disk \in Store \union {Torn, Absent}
<1> SUFFICES ASSUME Init, disk \notin {Torn, Absent} PROVE disk \in Store
  OBVIOUS
<1>1. disk \in [version : {1, 2}, active : 0 .. 2, relay : {"remote", "bad"},
        profiles : UNION {[1 .. n -> FoundProfiles] : n \in 0 .. 2}]
  BY DEF Init
<1>2. PICK n \in 0 .. 2 : disk.profiles \in [1 .. n -> FoundProfiles]
  BY <1>1
<1>3. disk.profiles \in [1 .. n -> Profile]
  BY <1>2, StorageAssumption
<1>4. disk.profiles \in UNION {[1 .. k -> Profile] : k \in 0 .. 2}
  BY <1>3
<1> QED
  BY <1>1, <1>4 DEF Store, Relays

-----------------------------------------------------------------------------

LEMMA InitHolds == Init => TypeOK /\ SaveInv
BY DefaultIsAStore, FoundIsAStore
   DEF Init, TypeOK, SaveInv, ReportedIsOnDisk, KeptSurvives

\* The two ends of a save that did not go through.
LEMMA SaveIfValidStep ==
  ASSUME TypeOK, SaveInv, app = "up", UNCHANGED kept,
         memory' \in Store, Usable(memory'), NEW t, t = memory', SaveIfValid(t)
  PROVE  TypeOK' /\ SaveInv'
<1>1. CASE NotSaved /\ UNCHANGED <<app, disk>>
  BY <1>1 DEF TypeOK, SaveInv, NotSaved, ReportedIsOnDisk, KeptSurvives
<1>2. CASE ValidStore(t) /\ disk' = Torn /\ app' = "writing" /\ UNCHANGED status
  BY <1>2 DEF TypeOK, SaveInv, ReportedIsOnDisk, KeptSurvives
<1> QED
  BY <1>1, <1>2 DEF SaveIfValid, BeginSave

LEMMA StepHolds == TypeOK /\ SaveInv /\ [Next]_vars => TypeOK' /\ SaveInv'
<1> SUFFICES ASSUME TypeOK, SaveInv, [Next]_vars PROVE TypeOK' /\ SaveInv'
  OBVIOUS
<1>1. CASE Start
  <2>1. disk \in Store \union {Torn, Absent}
    BY DEF TypeOK
  <2>2. app' = "up" /\ UNCHANGED disk
    BY <1>1 DEF Start
  <2>3. CASE /\ Restored(disk) = disk
             /\ memory' = disk
             /\ kept' = disk
             /\ status' = "Profile restored"
    <3>1. memory' \in Store /\ ValidStore(memory') /\ Usable(memory')
      BY <2>1, <2>3, RestoredIsValid, ValidIsUsable
    <3>2. TypeOK'
      BY <2>1, <2>2, <2>3, <3>1 DEF TypeOK
    <3> QED
      BY <2>2, <2>3, <3>1, <3>2 DEF SaveInv, ReportedIsOnDisk, KeptSurvives
  <2>4. CASE FallBack
    BY <2>1, <2>2, <2>4, DefaultIsAStore
       DEF FallBack, TypeOK, SaveInv, ReportedIsOnDisk, KeptSurvives
  <2> QED
    BY <1>1, <2>3, <2>4 DEF Start
<1>2. CASE Stop
  BY <1>2, DefaultIsAStore
     DEF Stop, TypeOK, SaveInv, ReportedIsOnDisk, KeptSurvives
<1>3. CASE FinishSave
  <2>1. memory \in Store /\ ValidStore(memory) /\ Usable(memory)
    BY <1>3 DEF FinishSave, TypeOK, SaveInv
  <2>2. Restored(memory) = memory
    BY <2>1, ValidIsRestored
  <2>3. TypeOK'
    BY <1>3, <2>1 DEF FinishSave, NotSaved, TypeOK
  <2> QED
    BY <1>3, <2>1, <2>2, <2>3
       DEF FinishSave, NotSaved, SaveInv, ReportedIsOnDisk, KeptSurvives
<1>4. ASSUME NEW name \in Names, NEW codec \in Codecs,
             NEW bitrate \in {"zero", "positive"},
             SaveProfile(FromWindow(name, codec, bitrate))
      PROVE  TypeOK' /\ SaveInv'
  <2> DEFINE p == FromWindow(name, codec, bitrate)
  <2>1. p \in Profile
    BY WindowProfile
  <2> HIDE DEF p
  <2>2. SaveProfile(p)
    BY <1>4 DEF p
  <2>3. CASE ~ValidProfile(p)
    BY <2>2, <2>3
       DEF SaveProfile, NotSaved, TypeOK, SaveInv, ReportedIsOnDisk, KeptSurvives
  <2>4. CASE ValidProfile(p)
    <3>1. memory' \in Store /\ Usable(memory')
      BY <2>1, <2>2, <2>4, ReplacedProfile DEF SaveProfile, TypeOK, SaveInv
    <3>2. SaveIfValid(memory') /\ app = "up" /\ UNCHANGED kept
      BY <2>2, <2>4 DEF SaveProfile
    <3> QED
      BY <3>1, <3>2, SaveIfValidStep
  <2> QED
    BY <2>3, <2>4
<1>5. ASSUME NEW relay \in Relays, SaveRelay(relay)
      PROVE  TypeOK' /\ SaveInv'
  <2>1. CASE relay = "bad"
    BY <1>5, <2>1
       DEF SaveRelay, NotSaved, TypeOK, SaveInv, ReportedIsOnDisk, KeptSurvives
  <2>2. CASE relay # "bad"
    <3>1. memory' \in Store /\ Usable(memory')
      BY <1>5, <2>2, ReplacedRelay DEF SaveRelay, TypeOK, SaveInv
    <3>2. SaveIfValid(memory') /\ app = "up" /\ UNCHANGED kept
      BY <1>5, <2>2 DEF SaveRelay
    <3> QED
      BY <3>1, <3>2, SaveIfValidStep
  <2> QED
    BY <2>1, <2>2
<1>6. CASE UNCHANGED vars
  BY <1>6 DEF vars, TypeOK, SaveInv, ReportedIsOnDisk, KeptSurvives
<1> QED
  BY <1>1, <1>2, <1>3, <1>4, <1>5, <1>6 DEF Next

-----------------------------------------------------------------------------

\* Every variable keeps to its type, whatever is found, saved or torn.
THEOREM TypeCorrect == Spec => []TypeOK
BY InitHolds, StepHolds, PTL DEF Spec

\* The running client never has a half-made profile or relay in use.
THEOREM MemoryStaysUsable == Spec => []MemoryIsUsable
<1>1. SaveInv => MemoryIsUsable
  BY DEF SaveInv, Usable, MemoryIsUsable
<1> QED
  BY <1>1, InitHolds, StepHolds, PTL DEF Spec

\* What the window says was saved or restored is what the next start finds.
THEOREM ReportedStaysOnDisk == Spec => []ReportedIsOnDisk
<1>1. SaveInv => ReportedIsOnDisk
  BY DEF SaveInv
<1> QED
  BY <1>1, InitHolds, StepHolds, PTL DEF Spec

\* Saved settings survive refused saves and crashes, but for a torn file.
THEOREM KeptSettingsSurvive == Spec => []KeptSurvives
<1>1. SaveInv => KeptSurvives
  BY DEF SaveInv
<1> QED
  BY <1>1, InitHolds, StepHolds, PTL DEF Spec

=============================================================================
