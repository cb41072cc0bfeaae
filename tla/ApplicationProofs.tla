-------------------------- MODULE ApplicationProofs --------------------------
(***************************************************************************)
(* Theorems about Application for every set of windows, devices, profiles  *)
(* and character sets, and every bound.                                    *)
(***************************************************************************)
EXTENDS Application, TLAPS

USE CharsetAssumption, NameAssumption, OrderAssumption, SettingsAssumption, BoundAssumption

-----------------------------------------------------------------------------
(* What an attempt to configure or open the port may change.               *)

\* The part of a window that no attempt touches.
SameSettings(s, t) ==
  /\ t.exists = s.exists /\ t.dialog = s.dialog
  /\ t.strDevice = s.strDevice /\ t.requested = s.requested
  /\ t.strCharset = s.strCharset /\ t.charset = s.charset
  /\ t.mCurrentProfile = s.mCurrentProfile

\* Nothing has been reported, or it is what the status bar says.
Tells(s, t) ==
  \/ t.reported = "error" /\ t.mSerialErrorPending /\ t.status = "error"
  \/ /\ t.reported = s.reported /\ t.status = s.status
     /\ t.mSerialErrorPending = s.mSerialErrorPending

LEMMA BegunType ==
  ASSUME NEW s \in Window
  PROVE  /\ Begun(s) \in Window
         /\ SameSettings(s, Begun(s)) /\ Begun(s).port = s.port
         /\ Begun(s).attempts = 0 /\ Begun(s).reported = "nothing"
         /\ Begun(s).status = s.status
         /\ Begun(s).mSerialErrorPending = s.mSerialErrorPending
  BY DEF Window, Begun, SameSettings

LEMMA FailureType ==
  ASSUME NEW s \in Window
  PROVE  /\ slotSerialSettingsFailed(s) \in Window
         /\ SameSettings(s, slotSerialSettingsFailed(s))
         /\ slotSerialSettingsFailed(s).port = s.port
         /\ slotSerialSettingsFailed(s).attempts = s.attempts
         /\ slotSerialSettingsFailed(s).reported = "error"
         /\ slotSerialSettingsFailed(s).mSerialErrorPending
         /\ slotSerialSettingsFailed(s).status = "error"
  BY DEF Window, slotSerialSettingsFailed, SameSettings

LEMMA AttemptType ==
  ASSUME NEW s \in Window
  PROVE  /\ Attempted(s) \in Window
         /\ SameSettings(s, Attempted(s))
         /\ Attempted(s).port = s.port
         /\ Attempted(s).attempts = s.attempts + 1
         /\ Attempted(s).reported = s.reported
         /\ Attempted(s).mSerialErrorPending = s.mSerialErrorPending
         /\ Attempted(s).status = s.status
  BY DEF Window, Attempted, SameSettings

LEMMA FailedType ==
  ASSUME NEW s \in Window
  PROVE  /\ Failed(s) \in Window
         /\ SameSettings(s, Failed(s)) /\ Tells(s, Failed(s))
         /\ Failed(s).port = s.port /\ Failed(s).attempts = s.attempts + 1
  <1>1. PICK t \in Window : t = Attempted(s)
    BY AttemptType
  <1>2. SameSettings(s, t) /\ t.port = s.port /\ t.attempts = s.attempts + 1
    BY <1>1, AttemptType
  <1>3. Failed(s) = slotSerialSettingsFailed(t)
    BY <1>1 DEF Failed
  <1>4. QED BY <1>2, <1>3, FailureType DEF SameSettings, Tells

LEMMA ConfiguredType ==
  ASSUME NEW s \in Window, NEW t \in Configured(s)
  PROVE  /\ t \in Window /\ SameSettings(s, t) /\ Tells(s, t)
         /\ t.port = s.port /\ t.attempts = s.attempts + 1
  <1>1. /\ Attempted(s) \in Window
        /\ SameSettings(s, Attempted(s)) /\ Tells(s, Attempted(s))
        /\ Attempted(s).port = s.port /\ Attempted(s).attempts = s.attempts + 1
    BY AttemptType DEF Tells
  <1>2. CASE t = Attempted(s)
    BY <1>1, <1>2
  <1>3. CASE t = Failed(s)
    BY <1>3, FailedType
  <1>4. QED BY <1>2, <1>3 DEF Configured

LEMMA OpenedType ==
  ASSUME NEW s \in Window, NEW t \in Opened(s)
  PROVE  /\ t \in Window /\ SameSettings(s, t) /\ Tells(s, t)
         /\ t.port \in {Missing, s.requested} /\ t.attempts = s.attempts + 1
  <1> DEFINE there == [s EXCEPT !.port = s.requested]
             gone  == [s EXCEPT !.port = Missing]
  <1>1. /\ there \in Window /\ SameSettings(s, there) /\ Tells(s, there)
        /\ there.port = s.requested /\ there.attempts = s.attempts
        /\ there.reported = s.reported /\ there.status = s.status
        /\ there.mSerialErrorPending = s.mSerialErrorPending
    BY DEF Window, SameSettings, Tells
  <1>2. /\ gone \in Window /\ SameSettings(s, gone)
        /\ gone.port = Missing /\ gone.attempts = s.attempts
        /\ gone.reported = s.reported /\ gone.status = s.status
        /\ gone.mSerialErrorPending = s.mSerialErrorPending
    BY DEF Window, SameSettings
  <1>3. CASE t \in Configured(there)
    <2> HIDE DEF there
    <2>1. /\ t \in Window /\ SameSettings(there, t) /\ Tells(there, t)
          /\ t.port = there.port /\ t.attempts = there.attempts + 1
      BY <1>1, <1>3, ConfiguredType
    <2>2. QED BY <1>1, <2>1 DEF SameSettings, Tells
  <1>4. CASE t = Failed(gone)
    <2> HIDE DEF gone
    <2>1. /\ t \in Window /\ SameSettings(gone, t) /\ Tells(gone, t)
          /\ t.port = gone.port /\ t.attempts = gone.attempts + 1
      BY <1>2, <1>4, FailedType
    <2>2. QED BY <1>2, <2>1 DEF SameSettings, Tells
  <1>5. QED BY <1>3, <1>4 DEF Opened

-----------------------------------------------------------------------------
(* The inductive invariant, window by window.                              *)

\* Until the dialog is accepted, showing it has attempted nothing.
AttemptedOnce(s) == s.attempts <= 1 /\ (s.dialog => s.attempts = 0)

ErrorStays(s) ==
  /\ s.reported = "error" => s.mSerialErrorPending /\ s.status = "error"
  /\ s.status = "error" => s.reported = "error"
  /\ s.mSerialErrorPending \/ ~s.dialog => s.status # "opening"

DeviceInForce(s) ==
  s.exists => /\ s.strDevice \in Devices
              /\ s.requested = s.strDevice
              /\ s.port \in {Missing, s.strDevice}

CharsetInForce(s, loaded) ==
  s.exists => s.charset \in loaded \cup {Standard} /\ s.strCharset = s.charset

WindowInv(s, loaded) ==
  AttemptedOnce(s) /\ ErrorStays(s) /\ DeviceInForce(s) /\ CharsetInForce(s, loaded)

Inv == TypeOK /\ \A w \in Windows : WindowInv(win[w], registry)

LEMMA RequestedType ==
  ASSUME NEW s \in Window
  PROVE  /\ Requested(s) \in Window
         /\ Requested(s).exists = s.exists /\ Requested(s).dialog = s.dialog
         /\ Requested(s).strDevice = s.strDevice /\ Requested(s).requested = s.strDevice
         /\ Requested(s).strCharset = s.strCharset /\ Requested(s).charset = s.charset
         /\ Requested(s).mCurrentProfile = s.mCurrentProfile
         /\ Requested(s).port = s.port /\ Requested(s).attempts = s.attempts
         /\ Requested(s).reported = s.reported /\ Requested(s).status = s.status
         /\ Requested(s).mSerialErrorPending = s.mSerialErrorPending
  BY DEF Window, Requested

LEMMA SaidType ==
  ASSUME NEW s \in Window
  PROVE  /\ Said(s) \in Window
         /\ SameSettings(s, Said(s))
         /\ Said(s).port = s.port /\ Said(s).attempts = s.attempts
         /\ Said(s).reported = s.reported
         /\ Said(s).mSerialErrorPending = s.mSerialErrorPending
         /\ Said(s).status = IF s.mSerialErrorPending THEN s.status ELSE "message"
  BY DEF Window, Said, SameSettings

LEMMA WithCharsetType ==
  ASSUME NEW s \in Window, NEW key, NEW loaded \in SUBSET Customs
  PROVE  LET t == WithCharset(s, key, loaded)
         IN  /\ t \in Window
             /\ t.charset \in loaded \cup {Standard} /\ t.strCharset = t.charset
             /\ t.exists = s.exists /\ t.dialog = s.dialog
             /\ t.strDevice = s.strDevice /\ t.requested = s.requested /\ t.port = s.port
             /\ t.attempts = s.attempts /\ t.reported = s.reported /\ t.status = s.status
             /\ t.mSerialErrorPending = s.mSerialErrorPending
             /\ t.mCurrentProfile = s.mCurrentProfile
  <1>1. Resolved(key, loaded) \in loaded \cup {Standard}
    BY DEF Resolved
  <1>2. Resolved(key, loaded) \in Charsets
    BY <1>1 DEF Charsets
  <1>3. QED BY <1>1, <1>2 DEF Window, WithCharset

\* applyConnectionSettings() is one attempt for the device the window shows.
LEMMA ConnectedType ==
  ASSUME NEW s \in Window, NEW t \in Connected(s), s.strDevice \in Devices
  PROVE  /\ t \in Window /\ Tells(s, t) /\ t.attempts = s.attempts + 1
         /\ t.requested = s.strDevice /\ t.port \in {Missing, s.strDevice}
         /\ t.exists = s.exists /\ t.dialog = s.dialog /\ t.strDevice = s.strDevice
         /\ t.mCurrentProfile = s.mCurrentProfile
  <1> DEFINE closed == [s EXCEPT !.port = Missing]
  <1>1. /\ closed \in Window /\ closed.strDevice = s.strDevice
        /\ SameSettings(s, closed) /\ closed.attempts = s.attempts
        /\ closed.reported = s.reported /\ closed.status = s.status
        /\ closed.mSerialErrorPending = s.mSerialErrorPending
    BY DEF Window, SameSettings
  <1> HIDE DEF closed
  <1>2. t \in Opened(Requested(closed))
    BY DEF Connected, closed
  <1>3. /\ t \in Window /\ SameSettings(Requested(closed), t) /\ Tells(Requested(closed), t)
        /\ t.port \in {Missing, Requested(closed).requested}
        /\ t.attempts = Requested(closed).attempts + 1
    BY <1>1, <1>2, RequestedType, OpenedType
  <1>4. QED BY <1>1, <1>3, RequestedType DEF SameSettings, Tells

\* loadProfile() leaves a window that satisfies the invariant, whatever it was.
LEMMA LoadedType ==
  ASSUME registry' \in SUBSET Customs, NEW s \in Window, NEW stored \in Stored, NEW name \in Names,
         s.attempts = 0, s.reported = "nothing", ~s.dialog, NEW t \in Loaded(s, stored, name)
  PROVE  t \in Window /\ WindowInv(t, registry') /\ t.exists = s.exists
  <1> DEFINE read == [s EXCEPT !.strDevice = stored.device, !.mCurrentProfile = name,
                               !.mSerialErrorPending = FALSE]
  <1>1. /\ read \in Window /\ read.strDevice = stored.device /\ stored.device \in Devices
        /\ read.attempts = 0 /\ read.reported = "nothing" /\ ~read.mSerialErrorPending
        /\ ~read.dialog /\ read.exists = s.exists
    BY DEF Window, Stored
  <1> HIDE DEF read
  <1>2. PICK connected \in Connected(read) :
          t = Said(WithCharset(connected, stored.charset, registry'))
    BY DEF Loaded, read
  <1>3. /\ connected \in Window /\ Tells(read, connected) /\ connected.attempts = 1
        /\ connected.requested = stored.device
        /\ connected.port \in {Missing, stored.device}
        /\ connected.strDevice = stored.device
        /\ connected.exists = s.exists /\ ~connected.dialog
    BY <1>1, <1>2, ConnectedType
  <1> DEFINE chosen == WithCharset(connected, stored.charset, registry')
  <1>4. /\ chosen \in Window
        /\ chosen.charset \in registry' \cup {Standard} /\ chosen.strCharset = chosen.charset
        /\ chosen.exists = s.exists /\ ~chosen.dialog
        /\ chosen.strDevice = stored.device /\ chosen.requested = stored.device
        /\ chosen.port \in {Missing, stored.device} /\ chosen.attempts = 1
        /\ chosen.reported = connected.reported /\ chosen.status = connected.status
        /\ chosen.mSerialErrorPending = connected.mSerialErrorPending
    BY <1>3, WithCharsetType
  <1> HIDE DEF chosen
  <1>5. t = Said(chosen)
    BY <1>2 DEF chosen
  <1>6. /\ t \in Window /\ SameSettings(chosen, t) /\ t.port = chosen.port
        /\ t.attempts = 1 /\ t.reported = connected.reported
        /\ t.mSerialErrorPending = connected.mSerialErrorPending
        /\ t.status = IF connected.mSerialErrorPending THEN connected.status ELSE "message"
    BY <1>4, <1>5, SaidType
  <1>7. ErrorStays(t)
    BY <1>1, <1>3, <1>6 DEF ErrorStays, Tells
  <1>8. QED
    BY <1>1, <1>4, <1>6, <1>7
       DEF WindowInv, AttemptedOnce, DeviceInForce, CharsetInForce, SameSettings

\* A reload of the registry leaves the other windows with a character set there is.
LEMMA ReconciledInv ==
  ASSUME NEW s \in Window, NEW old, NEW loaded \in SUBSET Customs, WindowInv(s, old)
  PROVE  Reconciled(s, loaded) \in Window /\ WindowInv(Reconciled(s, loaded), loaded)
  <1>1. CASE s.exists /\ s.charset # Standard /\ s.charset \notin loaded
    <2> DEFINE t == [s EXCEPT !.charset = Standard, !.strCharset = Standard]
    <2>1. /\ t \in Window /\ t.exists = s.exists /\ t.dialog = s.dialog
          /\ t.strDevice = s.strDevice /\ t.requested = s.requested /\ t.port = s.port
          /\ t.attempts = s.attempts /\ t.reported = s.reported /\ t.status = s.status
          /\ t.mSerialErrorPending = s.mSerialErrorPending
          /\ t.charset = Standard /\ t.strCharset = Standard
      BY DEF Window, Charsets
    <2> HIDE DEF t
    <2>2. Reconciled(s, loaded) = t
      BY <1>1 DEF Reconciled, t
    <2>3. QED
      BY <2>1, <2>2
         DEF WindowInv, AttemptedOnce, ErrorStays, DeviceInForce, CharsetInForce
  <1>2. CASE ~(s.exists /\ s.charset # Standard /\ s.charset \notin loaded)
    BY <1>2 DEF Reconciled, WindowInv, CharsetInForce
  <1>3. QED BY <1>1, <1>2

LEMMA AllWindowsInv ==
  ASSUME Inv, NEW w \in Windows, NEW loaded \in SUBSET Customs
  PROVE  /\ AllWindows(w, loaded) \in [Windows -> Window]
         /\ \A v \in Windows : WindowInv(AllWindows(w, loaded)[v], loaded)
  BY ReconciledInv DEF Inv, TypeOK, AllWindows

LEMMA FreshType == Fresh \in Window /\ \A loaded : WindowInv(Fresh, loaded)
  BY DEF Fresh, Window, Charsets, WindowInv, AttemptedOnce, ErrorStays, DeviceInForce,
         CharsetInForce

LEMMA InitInv == Init => Inv
  BY FreshType DEF Init, Inv, TypeOK

-----------------------------------------------------------------------------
(* Actions on one window: the others keep what they have.                  *)

LEMMA OneWindow ==
  ASSUME Inv, NEW w \in Windows, NEW t \in Window, WindowInv(t, registry),
         win' = [win EXCEPT ![w] = t], UNCHANGED registry
  PROVE  /\ win' \in [Windows -> Window]
         /\ \A v \in Windows : WindowInv(win'[v], registry')
  BY DEF Inv, TypeOK

LEMMA BoundedType == ASSUME Inv, Bounded PROVE actions' \in 0 .. MaxActions
  BY DEF Inv, TypeOK, Bounded

LEMMA closeEventInv == ASSUME Inv, NEW w \in Windows, closeEvent(w) PROVE Inv'
  <1>1. /\ win' \in [Windows -> Window]
        /\ \A v \in Windows : WindowInv(win'[v], registry')
    BY FreshType, OneWindow DEF closeEvent
  <1>2. QED BY <1>1, BoundedType DEF closeEvent, Acts, Inv, TypeOK

LEMMA loadProfileInv ==
  ASSUME Inv, NEW w \in Windows, NEW name \in Names, loadProfile(w, name) PROVE Inv'
  <1>1. actions' \in 0 .. MaxActions /\ UNCHANGED <<profiles, seeded, registry, files>>
    BY BoundedType DEF loadProfile, Acts
  <1>2. CASE profiles[name] = NoProfile
    BY <1>1, <1>2 DEF loadProfile, Inv, TypeOK
  <1>3. CASE profiles[name] # NoProfile
    <2>1. profiles[name] \in Stored /\ win[w] \in Window /\ ~win[w].dialog
      BY <1>3 DEF Inv, TypeOK, loadProfile, Acts, Idle
    <2>2. PICK s \in Loaded(Begun(win[w]), profiles[name], name) : win' = [win EXCEPT ![w] = s]
      BY <1>3 DEF loadProfile
    <2>3. s \in Window /\ WindowInv(s, registry)
      <3>1. /\ Begun(win[w]) \in Window /\ Begun(win[w]).attempts = 0
            /\ Begun(win[w]).reported = "nothing" /\ ~Begun(win[w]).dialog
        BY <2>1, BegunType DEF SameSettings
      <3>2. registry' = registry /\ registry \in SUBSET Customs
        BY <1>1 DEF Inv, TypeOK
      <3>3. QED BY <2>1, <2>2, <3>1, <3>2, LoadedType
    <2>4. QED BY <1>1, <1>3, <2>2, <2>3, OneWindow DEF loadProfile, Inv, TypeOK
  <1>4. QED BY <1>2, <1>3

LEMMA StoredType ==
  ASSUME Inv, NEW name \in Names, NEW settings \in Stored, SaveProfile(name, settings)
  PROVE  profiles' \in [Names -> Stored \cup {NoProfile}] /\ LastProfile' \in Names
  BY DEF Inv, TypeOK, SaveProfile

LEMMA slotSaveProfileInv ==
  ASSUME Inv, NEW w \in Windows, NEW name \in Names, slotSaveProfile(w, name) PROVE Inv'
  <1> DEFINE t == [Begun(win[w]) EXCEPT !.mCurrentProfile = name, !.status = "message"]
  <1>1. win[w] \in Window /\ WindowInv(win[w], registry) /\ win[w].exists
    BY DEF Inv, TypeOK, slotSaveProfile, Acts
  <1>2. SettingsOf(win[w]) \in Stored
    BY <1>1 DEF SettingsOf, Stored, Window, WindowInv, DeviceInForce, CharsetInForce, Charsets
  <1>3. /\ t \in Window /\ t.exists = win[w].exists
        /\ t.strDevice = win[w].strDevice /\ t.requested = win[w].requested
        /\ t.strCharset = win[w].strCharset /\ t.charset = win[w].charset
        /\ t.port = win[w].port /\ t.attempts = 0 /\ t.reported = "nothing" /\ t.status = "message"
    BY <1>1 DEF Window, Begun
  <1> HIDE DEF t
  <1>4. WindowInv(t, registry)
    BY <1>1, <1>3 DEF WindowInv, AttemptedOnce, ErrorStays, DeviceInForce, CharsetInForce
  <1>5. win' = [win EXCEPT ![w] = t] /\ UNCHANGED registry
    BY DEF slotSaveProfile, Inv, TypeOK, t
  <1>6. /\ win' \in [Windows -> Window]
        /\ \A v \in Windows : WindowInv(win'[v], registry')
    BY <1>3, <1>4, <1>5, OneWindow
  <1>7. QED
    BY <1>2, <1>6, BoundedType, StoredType DEF slotSaveProfile, Acts, Inv, TypeOK

LEMMA slotDeleteProfileInv ==
  ASSUME Inv, NEW w \in Windows, NEW name \in Names, slotDeleteProfile(w, name) PROVE Inv'
  <1> DEFINE current == win[w].mCurrentProfile
             left == IF current = name THEN Missing ELSE current
             t == [Begun(win[w]) EXCEPT !.mCurrentProfile = left, !.status = "message"]
  <1>1. win[w] \in Window /\ WindowInv(win[w], registry)
    BY DEF Inv, TypeOK
  <1>2. /\ t \in Window /\ t.exists = win[w].exists
        /\ t.strDevice = win[w].strDevice /\ t.requested = win[w].requested
        /\ t.strCharset = win[w].strCharset /\ t.charset = win[w].charset
        /\ t.port = win[w].port /\ t.attempts = 0 /\ t.reported = "nothing" /\ t.status = "message"
    <2>1. left \in Names \cup {Missing}
      BY <1>1 DEF Window
    <2> HIDE DEF left
    <2>2. QED BY <1>1, <2>1 DEF Window, Begun
  <1> HIDE DEF t
  <1>3. WindowInv(t, registry)
    BY <1>1, <1>2 DEF WindowInv, AttemptedOnce, ErrorStays, DeviceInForce, CharsetInForce
  <1>4. win' = [win EXCEPT ![w] = t] /\ UNCHANGED registry
    BY DEF slotDeleteProfile, Inv, TypeOK, t
  <1>5. /\ win' \in [Windows -> Window]
        /\ \A v \in Windows : WindowInv(win'[v], registry')
    BY <1>2, <1>3, <1>4, OneWindow
  <1>6. QED BY <1>5, BoundedType DEF slotDeleteProfile, Acts, Inv, TypeOK

-----------------------------------------------------------------------------
(* The settings dialog.                                                    *)

LEMMA ShowPreferencesInv ==
  ASSUME Inv, NEW w \in Windows, ShowPreferences(w) PROVE Inv'
  <1> DEFINE others == AllWindows(w, files)
             t == [Begun(others[w]) EXCEPT !.dialog = TRUE, !.status = "opening",
                                           !.mSerialErrorPending = FALSE]
  <1>1. files \in SUBSET Customs
    BY DEF Inv, TypeOK
  <1>2. others \in [Windows -> Window] /\ \A v \in Windows : WindowInv(others[v], files)
    BY <1>1, AllWindowsInv
  <1>3. win' = [others EXCEPT ![w] = t] /\ registry' = files
    BY DEF ShowPreferences, AllWindows
  <1> HIDE DEF others
  <1>4. /\ t \in Window /\ t.exists = others[w].exists /\ t.dialog
        /\ t.strDevice = others[w].strDevice /\ t.requested = others[w].requested
        /\ t.strCharset = others[w].strCharset /\ t.charset = others[w].charset
        /\ t.port = others[w].port /\ t.attempts = 0 /\ t.reported = "nothing"
        /\ ~t.mSerialErrorPending /\ t.status = "opening"
    <2>1. PICK begun \in Window : begun = Begun(others[w])
      BY <1>2, BegunType
    <2>2. /\ SameSettings(others[w], begun) /\ begun.port = others[w].port
          /\ begun.attempts = 0 /\ begun.reported = "nothing"
      BY <1>2, <2>1, BegunType
    <2>3. QED BY <2>1, <2>2 DEF Window, SameSettings
  <1> HIDE DEF t
  <1>5. WindowInv(others[w], files)
    BY <1>2
  <1>6. WindowInv(t, files)
    BY <1>4, <1>5 DEF WindowInv, AttemptedOnce, ErrorStays, DeviceInForce, CharsetInForce
  <1>7. win' \in [Windows -> Window] /\ \A v \in Windows : WindowInv(win'[v], registry')
    BY <1>2, <1>3, <1>4, <1>6
  <1>8. QED BY <1>1, <1>3, <1>7, BoundedType DEF ShowPreferences, Acts, Inv, TypeOK

LEMMA RejectedInv == ASSUME Inv, NEW w \in Windows, Rejected(w) PROVE Inv'
  <1> DEFINE left == [win[w] EXCEPT !.dialog = FALSE]
  <1>1. win[w] \in Window /\ WindowInv(win[w], registry)
    BY DEF Inv, TypeOK
  <1>2. /\ left \in Window /\ left.exists = win[w].exists /\ ~left.dialog
        /\ left.strDevice = win[w].strDevice /\ left.requested = win[w].requested
        /\ left.strCharset = win[w].strCharset /\ left.charset = win[w].charset
        /\ left.port = win[w].port /\ left.attempts = win[w].attempts
        /\ left.reported = win[w].reported /\ left.status = win[w].status
        /\ left.mSerialErrorPending = win[w].mSerialErrorPending
    BY <1>1 DEF Window
  <1>3. win' = [win EXCEPT ![w] = Said(left)] /\ UNCHANGED registry
    BY DEF Rejected, Inv, TypeOK
  <1> HIDE DEF left
  <1>4. Said(left) \in Window /\ WindowInv(Said(left), registry)
    BY <1>1, <1>2, SaidType
       DEF SameSettings, WindowInv, AttemptedOnce, ErrorStays, DeviceInForce, CharsetInForce
  <1>5. win' \in [Windows -> Window] /\ \A v \in Windows : WindowInv(win'[v], registry')
    BY <1>3, <1>4, OneWindow
  <1>6. QED BY <1>5 DEF Rejected, Inv, TypeOK

\* applyConfiguration() has used at most one attempt; a stored request has used none.
LEMMA AppliedType ==
  ASSUME NEW s \in Window, s.strDevice \in Devices, s.attempts = 0,
         s.exists => s.port \in {Missing, s.requested}, NEW applied \in Applied(s)
  PROVE  LET t == applied.state
         IN  /\ t \in Window /\ Tells(s, t)
             /\ t.attempts <= 1 /\ (applied.storedOnly => t.attempts = 0)
             /\ (t.exists => /\ t.requested = t.strDevice
                             /\ t.port \in {Missing, t.strDevice})
             /\ t.exists = s.exists /\ t.dialog = s.dialog /\ t.strDevice = s.strDevice
             /\ t.strCharset = s.strCharset /\ t.charset = s.charset
  <1>1. CASE s.port = Missing
    BY <1>1, RequestedType DEF Applied, Tells
  <1>2. CASE s.port # Missing /\ s.port # s.strDevice
    <2>1. applied.state \in Opened(Requested(s)) /\ applied.storedOnly = FALSE
      BY <1>2 DEF Applied
    <2>2. QED BY <2>1, RequestedType, OpenedType DEF SameSettings, Tells
  <1>3. CASE s.port # Missing /\ s.port = s.strDevice
    <2>1. applied.state \in Configured(s) \cup {s} /\ applied.storedOnly = FALSE
      BY <1>3 DEF Applied
    <2>2. CASE applied.state = s
      BY <1>3, <2>1, <2>2 DEF Tells
    <2>3. CASE applied.state \in Configured(s)
      BY <1>3, <2>1, <2>3, ConfiguredType DEF SameSettings
    <2>4. QED BY <2>1, <2>2, <2>3
  <1>4. QED BY <1>1, <1>2, <1>3

\* A second attempt is made only if the first call made none.
LEMMA ReopenedType ==
  ASSUME NEW s \in Window, s.strDevice \in Devices, s.attempts = 0, ~s.dialog,
         s.exists => s.port \in {Missing, s.requested},
         NEW applied \in Applied(s), NEW t \in Reopened(applied)
  PROVE  /\ t \in Window /\ AttemptedOnce(t) /\ DeviceInForce(t) /\ Tells(s, t)
         /\ t.exists = s.exists /\ t.dialog = s.dialog
         /\ t.strCharset = s.strCharset /\ t.charset = s.charset
  <1> DEFINE stored == applied.state
  <1>1. /\ stored \in Window /\ Tells(s, stored)
        /\ stored.attempts <= 1 /\ (applied.storedOnly => stored.attempts = 0)
        /\ (stored.exists => /\ stored.requested = stored.strDevice
                             /\ stored.port \in {Missing, stored.strDevice})
        /\ stored.exists = s.exists /\ stored.dialog = s.dialog
        /\ stored.strDevice = s.strDevice
        /\ stored.strCharset = s.strCharset /\ stored.charset = s.charset
    BY AppliedType
  <1>2. CASE ~MustOpen(applied)
    <2>1. t = stored
      BY <1>2 DEF Reopened
    <2> HIDE DEF stored
    <2>2. QED BY <1>1, <2>1 DEF AttemptedOnce, DeviceInForce
  <1>3. CASE MustOpen(applied)
    <2>1. t \in Opened(stored) /\ stored.attempts = 0
      BY <1>1, <1>3 DEF Reopened, MustOpen
    <2> HIDE DEF stored
    <2>2. /\ t \in Window /\ SameSettings(stored, t) /\ Tells(stored, t)
          /\ t.port \in {Missing, stored.requested} /\ t.attempts = 1
      BY <1>1, <2>1, OpenedType
    <2>3. QED BY <1>1, <2>2 DEF SameSettings, Tells, AttemptedOnce, DeviceInForce
  <1>4. QED BY <1>2, <1>3

LEMMA AcceptedInv ==
  ASSUME Inv, NEW w \in Windows, NEW device \in Devices, NEW key \in registry \cup {Standard},
         Accepted(w, device, key)
  PROVE  Inv'
  <1> DEFINE form == [win[w] EXCEPT !.dialog = FALSE, !.strDevice = device,
                                    !.mSerialErrorPending = FALSE,
                                    !.reported = IF @ = "error" THEN "dropped" ELSE @]
             chosen == WithCharset(form, key, registry)
  <1>1. win[w] \in Window /\ WindowInv(win[w], registry) /\ registry \in SUBSET Customs
    BY DEF Inv, TypeOK
  <1>2. /\ form \in Window /\ form.exists = win[w].exists /\ ~form.dialog
        /\ form.strDevice = device /\ form.requested = win[w].requested
        /\ form.port = win[w].port /\ form.attempts = 0 /\ form.reported # "error"
        /\ ~form.mSerialErrorPending
    <2>1. win[w].dialog
      BY DEF Accepted
    <2>2. QED BY <1>1, <2>1 DEF Window, WindowInv, AttemptedOnce
  <1>3. PICK applied \in Applied(chosen) :
          \E s \in Reopened(applied) : win' = [win EXCEPT ![w] = Said(s)]
    BY DEF Accepted
  <1>s. PICK s \in Reopened(applied) : win' = [win EXCEPT ![w] = Said(s)]
    BY <1>3
  <1> HIDE DEF form
  <1>4. /\ chosen \in Window /\ chosen.exists = form.exists /\ ~chosen.dialog
        /\ chosen.strDevice = device /\ chosen.requested = form.requested
        /\ chosen.port = form.port /\ chosen.attempts = 0 /\ chosen.reported # "error"
        /\ ~chosen.mSerialErrorPending
        /\ chosen.charset \in registry \cup {Standard} /\ chosen.strCharset = chosen.charset
    BY <1>1, <1>2, WithCharsetType
  <1> HIDE DEF chosen
  <1>5. chosen.exists => chosen.port \in {Missing, chosen.requested}
    BY <1>1, <1>2, <1>4 DEF WindowInv, DeviceInForce
  <1>6. /\ s \in Window /\ AttemptedOnce(s) /\ DeviceInForce(s) /\ Tells(chosen, s)
        /\ ~s.dialog /\ s.strCharset = chosen.strCharset /\ s.charset = chosen.charset
    BY <1>4, <1>5, ReopenedType
  <1>7. /\ Said(s) \in Window /\ SameSettings(s, Said(s))
        /\ Said(s).port = s.port /\ Said(s).attempts = s.attempts
        /\ Said(s).reported = s.reported
        /\ Said(s).mSerialErrorPending = s.mSerialErrorPending
        /\ Said(s).status = IF s.mSerialErrorPending THEN s.status ELSE "message"
    BY <1>6, SaidType
  <1>8. WindowInv(Said(s), registry)
    <2>1. ErrorStays(Said(s))
      BY <1>4, <1>6, <1>7 DEF ErrorStays, Tells
    <2>2. QED
      BY <1>4, <1>6, <1>7, <2>1
         DEF WindowInv, AttemptedOnce, DeviceInForce, CharsetInForce, SameSettings
  <1>9. /\ win' \in [Windows -> Window]
        /\ \A v \in Windows : WindowInv(win'[v], registry')
    BY <1>s, <1>7, <1>8, OneWindow DEF Accepted
  <1>10. /\ profiles' \in [Names -> Stored \cup {NoProfile}]
         /\ LastProfile' \in Names \cup {Missing}
    <2>1. CASE win[w].mCurrentProfile = Missing
      BY <2>1 DEF Accepted, Inv, TypeOK
    <2>2. CASE win[w].mCurrentProfile # Missing
      <3>1. win[w].mCurrentProfile \in Names
        BY <1>1, <2>2 DEF Window
      <3>2. [device |-> device, charset |-> key] \in Stored
        BY <1>1 DEF Stored, Charsets
      <3>3. SaveProfile(win[w].mCurrentProfile, [device |-> device, charset |-> key])
        BY <2>2 DEF Accepted
      <3>4. QED BY <3>1, <3>2, <3>3, StoredType
    <2>3. QED BY <2>1, <2>2
  <1>11. QED BY <1>9, <1>10 DEF Accepted, Inv, TypeOK

-----------------------------------------------------------------------------
(* The world around, and the constructor.                                  *)

LEMMA PortErrorInv == ASSUME Inv, NEW w \in Windows, PortError(w) PROVE Inv'
  <1> DEFINE t == slotSerialSettingsFailed(win[w])
  <1>1. win[w] \in Window /\ WindowInv(win[w], registry)
    BY DEF Inv, TypeOK
  <1>2. /\ t \in Window /\ SameSettings(win[w], t) /\ t.port = win[w].port
        /\ t.attempts = win[w].attempts /\ t.reported = "error" /\ t.mSerialErrorPending
        /\ t.status = "error"
    BY <1>1, FailureType
  <1>3. win' = [win EXCEPT ![w] = t] /\ UNCHANGED registry
    BY DEF PortError
  <1> HIDE DEF t
  <1>4. WindowInv(t, registry)
    BY <1>1, <1>2
       DEF SameSettings, WindowInv, AttemptedOnce, ErrorStays, DeviceInForce, CharsetInForce
  <1>5. win' \in [Windows -> Window] /\ \A v \in Windows : WindowInv(win'[v], registry')
    BY <1>2, <1>3, <1>4, OneWindow
  <1>6. QED BY <1>5, BoundedType DEF PortError, Inv, TypeOK

LEMMA ChangeFilesInv == ASSUME Inv, ChangeFiles PROVE Inv'
  BY BoundedType DEF ChangeFiles, Inv, TypeOK

\* After seedBuiltinProfiles() and initProfiles() there is a profile to start with.
LEMMA StartStoreType ==
  ASSUME Inv
  PROVE  /\ StartStore \in [Names -> Stored \cup {NoProfile}]
         /\ ProfileNames(StartStore) # {}
  <1>1. Preset \in Stored /\ Legacy \in Stored /\ NoProfile \notin Stored
    BY DEF Settings, Stored, NoProfile
  <1>2. SeededStore \in [Names -> Stored \cup {NoProfile}]
    BY <1>1 DEF SeededStore, Inv, TypeOK
  <1> HIDE DEF SeededStore
  <1>3. CASE ProfileNames(SeededStore) = {}
    <2>1. StartStore = [SeededStore EXCEPT ![Default] = Legacy]
      BY <1>3 DEF StartStore
    <2>2. StartStore \in [Names -> Stored \cup {NoProfile}] /\ StartStore[Default] = Legacy
      BY <1>1, <1>2, <2>1
    <2>3. Default \in ProfileNames(StartStore)
      BY <1>1, <2>2 DEF ProfileNames
    <2>4. QED BY <2>2, <2>3
  <1>4. CASE ProfileNames(SeededStore) # {}
    BY <1>2, <1>4 DEF StartStore
  <1>5. QED BY <1>3, <1>4

LEMMA StartNameType ==
  ASSUME NEW last, NEW names \in SUBSET Names, NEW name \in StartNames(last, names)
  PROVE  name \in names
  BY DEF StartNames, FirstNames

LEMMA KomportAppInv == ASSUME Inv, NEW w \in Windows, KomportApp(w) PROVE Inv'
  <1> DEFINE last  == IF ProfileNames(SeededStore) = {} THEN Default ELSE LastProfile
             fresh == [Fresh EXCEPT !.exists = TRUE]
  <1>0. PICK first \in StartNames(last, ProfileNames(StartStore)) :
          /\ LastProfile' = IF StartStore[first] = NoProfile THEN last ELSE first
          /\ \E s \in LoadedAtStart(fresh, first) :
               win' = [AllWindows(w, files) EXCEPT ![w] = s]
    BY DEF KomportApp
  <1>1. /\ StartStore \in [Names -> Stored \cup {NoProfile}]
        /\ first \in Names /\ StartStore[first] # NoProfile
    <2>1. ProfileNames(StartStore) \in SUBSET Names
      BY DEF ProfileNames
    <2>2. first \in ProfileNames(StartStore)
      BY <1>0, <2>1, StartNameType
    <2>3. QED BY <2>2, StartStoreType DEF ProfileNames
  <1>2. /\ registry' = files /\ files' = files /\ files \in SUBSET Customs
        /\ profiles' = StartStore /\ seeded' \subseteq Builtins
        /\ LastProfile' \in Names
    BY <1>0, <1>1 DEF KomportApp, Inv, TypeOK
  <1>3. PICK s \in LoadedAtStart(fresh, first) : win' = [AllWindows(w, files) EXCEPT ![w] = s]
    BY <1>0
  <1>4. StartStore[first] \in Stored /\ s \in Loaded(fresh, StartStore[first], first)
    BY <1>1, <1>3 DEF LoadedAtStart
  <1>5. /\ fresh \in Window /\ fresh.attempts = 0 /\ fresh.reported = "nothing" /\ ~fresh.dialog
    BY DEF Fresh, Window, Charsets
  <1> HIDE DEF fresh, last, StartStore
  <1>6. s \in Window /\ WindowInv(s, registry')
    BY <1>1, <1>2, <1>4, <1>5, LoadedType
  <1>7. /\ AllWindows(w, files) \in [Windows -> Window]
        /\ \A v \in Windows : WindowInv(AllWindows(w, files)[v], files)
    BY <1>2, AllWindowsInv
  <1>8. win' \in [Windows -> Window] /\ \A v \in Windows : WindowInv(win'[v], registry')
    BY <1>2, <1>3, <1>6, <1>7
  <1>9. QED BY <1>1, <1>2, <1>8, BoundedType DEF KomportApp, Inv, TypeOK

-----------------------------------------------------------------------------
(* The theorems.                                                           *)

LEMMA NextInv == Inv /\ [Next]_vars => Inv'
  <1> SUFFICES ASSUME Inv, [Next]_vars PROVE Inv'
    OBVIOUS
  <1>1. CASE UNCHANGED vars
    BY <1>1 DEF vars, Inv, TypeOK
  <1>2. ASSUME NEW w \in Windows, WindowActs(w) PROVE Inv'
    BY <1>2, KomportAppInv, closeEventInv, loadProfileInv, slotSaveProfileInv,
       slotDeleteProfileInv DEF WindowActs
  <1>3. ASSUME NEW w \in Windows, Preferences(w) PROVE Inv'
    BY <1>3, ShowPreferencesInv, RejectedInv, AcceptedInv DEF Preferences
  <1>4. ASSUME NEW w \in Windows, PortError(w) PROVE Inv'
    BY <1>4, PortErrorInv
  <1>5. CASE ChangeFiles
    BY <1>5, ChangeFilesInv
  <1>6. QED BY <1>1, <1>2, <1>3, <1>4, <1>5 DEF Next

\* The inductive invariant: what each window shows, uses and has reported belongs
\* together, whatever the other windows do.
THEOREM Invariance == Spec => []Inv
  BY InitInv, NextInv, PTL DEF Spec

\* The windows, the stored profiles and the registry stay well typed: no window ever
\* stores a profile without a device, and none uses a character set nobody knows.
THEOREM TypeCorrect == Spec => []TypeOK
  <1>1. Inv => TypeOK
    BY DEF Inv
  <1>2. QED BY <1>1, Invariance, PTL

\* komport.cpp:814-824, 1337-1342: for any number of windows and profiles, no message
\* covers an error reported since the last action began, or since its dialog was
\* accepted, and no older error stays on the status bar.
THEOREM ErrorsAreShown == Spec => []ErrorIsShown
  <1>1. Inv => ErrorIsShown
    BY DEF Inv, WindowInv, ErrorStays, ErrorIsShown
  <1>2. QED BY <1>1, Invariance, PTL

\* komport.cpp:1314-1322: no user action opens or configures the port twice.
THEOREM OneAttempt == Spec => []OneAttemptPerAction
  <1>1. Inv => OneAttemptPerAction
    BY DEF Inv, WindowInv, AttemptedOnce, OneAttemptPerAction
  <1>2. QED BY <1>1, Invariance, PTL

\* komport.cpp:708-741, 800-810: no reload leaves any window with a character set
\* that is gone.
THEOREM CharsetsAgree == Spec => []CharsetAgrees
  <1>1. Inv => CharsetAgrees
    BY DEF Inv, WindowInv, CharsetInForce, CharsetAgrees
  <1>2. QED BY <1>1, Invariance, PTL

\* komport.cpp:593-597, 651-704: what a window shows is what its port was asked for,
\* from its constructor on.
THEOREM ShownInForce == Spec => []ShownIsInForce
  <1>1. Inv => ShownIsInForce
    BY DEF Inv, TypeOK, WindowInv, DeviceInForce, ShownIsInForce
  <1>2. QED BY <1>1, Invariance, PTL
=============================================================================
