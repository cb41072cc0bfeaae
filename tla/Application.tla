---------------------------- MODULE Application ----------------------------
(***************************************************************************)
(* The application's windows (komport/komport.cpp): each has a connection  *)
(* and settings of its own, and all of them share the profiles in          *)
(* QSettings and the registry of custom character sets                     *)
(* (komport/komportcharset.cpp).                                           *)
(*                                                                         *)
(* One action is one slot or constructor, with every call it makes; the    *)
(* settings dialog is two, for a port may fail while it is open.  Of the   *)
(* settings the device and the character set are kept: the port is a       *)
(* matter of the first and the registry of the second.  The transport is   *)
(* reduced to what its callers can see of an attempt; KomportSerial models *)
(* it.                                                                     *)
(***************************************************************************)
EXTENDS Naturals, FiniteSets

CONSTANTS
  Windows,
  Devices,
  Standard,      \* the built-in character set that is the default
  Customs,       \* character sets that have a file of their own
  Names,         \* profile names
  Order,         \* where a name comes in case-insensitive order
  Default,       \* the profile that settings older than profiles become
  Builtins,      \* the profiles that the program brings along
  Missing,       \* no profile, no key, no device
  Legacy,        \* the settings older than profiles, or their defaults
  Preset,        \* the settings of a profile that the program brings along
  MaxActions     \* bound: what users do, and what happens to ports and files

Charsets == Customs \cup {Standard}
Settings == [device : Devices, charset : Charsets]

\* A profile that was stored by an older version has no charset.
Stored == [device : Devices, charset : Charsets \cup {Missing}]
NoProfile == [device |-> Missing, charset |-> Missing]

ASSUME CharsetAssumption == Standard \notin Customs /\ Missing \notin Charsets \cup Devices
ASSUME NameAssumption ==
  Default \in Names \ Builtins /\ Builtins \subseteq Names /\ Missing \notin Names
ASSUME OrderAssumption == Order \in [Names -> Nat]
ASSUME SettingsAssumption == Legacy \in Settings /\ Preset \in Settings
ASSUME BoundAssumption    == MaxActions \in Nat

VARIABLES
  win,           \* the windows
  profiles,      \* the stored profiles
  LastProfile,
  seeded,        \* SeededProfileNames
  registry,      \* custom character sets that are loaded
  files,         \* custom character sets that are on disk
  actions        \* how many of those there have been

vars == <<win, profiles, LastProfile, seeded, registry, files, actions>>

\* A window before its constructor: QStrings are empty, the emulation is Standard.
\* attempts and reported are history: how often the last action tried to open or
\* configure the port, and whether an error has been reported since it began
\* ("dropped" if the dialog was accepted after it).
Fresh ==
  [exists |-> FALSE, dialog |-> FALSE,
   strDevice |-> Missing, strCharset |-> Missing, charset |-> Standard,
   mCurrentProfile |-> Missing,
   requested |-> Missing, port |-> Missing,
   mSerialErrorPending |-> FALSE, status |-> "message",
   attempts |-> 0, reported |-> "nothing"]

ProfileNames(store) == {name \in Names : store[name] # NoProfile}

Init ==
  /\ win = [w \in Windows |-> Fresh]
  /\ profiles \in [Names -> Stored \cup {NoProfile}]
  /\ LastProfile \in Names \cup {Missing}
  /\ seeded \in SUBSET Builtins
  /\ registry = {}
  /\ files \in SUBSET Customs
  /\ actions = 0

-----------------------------------------------------------------------------
(* What happens inside an action: functions from a window to windows.      *)

Begun(s) == [s EXCEPT !.attempts = 0, !.reported = "nothing"]

slotSerialSettingsFailed(s) ==
  [s EXCEPT !.mSerialErrorPending = TRUE, !.status = "error", !.reported = "error"]

Attempted(s) == [s EXCEPT !.attempts = @ + 1]

Failed(s) == slotSerialSettingsFailed(Attempted(s))

\* The transport applies settings to a port.  A refused setting is reported when all
\* are applied; an error of the port where it is raised, and again at that point.
\* A second report leaves the window as the first did.
Configured(s) == {Attempted(s), Failed(s)}

\* open(): the port is opened and configured, or it is not there.
Opened(s) ==
  Configured([s EXCEPT !.port = s.requested])
    \cup {Failed([s EXCEPT !.port = Missing])}

Requested(s) == [s EXCEPT !.requested = s.strDevice]

\* applyConfiguration(): on a live port a changed device is an attempt to open it,
\* anything else configures it or is a no-op; a closed port stores the request.
Applied(s) ==
  IF s.port = Missing THEN {[state |-> Requested(s), storedOnly |-> TRUE]}
  ELSE [state : IF s.port # s.strDevice THEN Opened(Requested(s))
                ELSE Configured(s) \cup {s},
        storedOnly : {FALSE}]

\* applyConnectionSettings(): close, store, open.
Connected(s) == Opened(Requested([s EXCEPT !.port = Missing]))

\* The message an action ends with.  Mutant: it is shown whatever happened.
AlwaysSaid(s) == [s EXCEPT !.status = "message"]

Said(s) == IF s.mSerialErrorPending THEN s ELSE [s EXCEPT !.status = "message"]

\* resolveSettingsKey().  Mutant: a key that means nothing is passed on.
Unresolved(key, loaded) == key

Resolved(key, loaded) == IF key \in loaded THEN key ELSE Standard

WithCharset(s, key, loaded) ==
  [s EXCEPT !.strCharset = Resolved(key, loaded), !.charset = Resolved(key, loaded)]

\* loadProfile(), for a profile that exists.
Loaded(s, stored, name) ==
  LET read  == [s EXCEPT !.strDevice = stored.device, !.mCurrentProfile = name,
                         !.mSerialErrorPending = FALSE]
  IN  {Said(WithCharset(connected, stored.charset, registry')) : connected \in Connected(read)}

\* reconcileCharsetSelectionAfterReload()
Reconciled(s, loaded) ==
  IF s.exists /\ s.charset # Standard /\ s.charset \notin loaded
  THEN [s EXCEPT !.charset = Standard, !.strCharset = Standard] ELSE s

\* Mutant: only the window that reloads the registry is reconciled.
OwnWindow(w, loaded) == [v \in Windows |-> IF v = w THEN Reconciled(win[v], loaded) ELSE win[v]]

AllWindows(w, loaded) == [v \in Windows |-> Reconciled(win[v], loaded)]

\* saveProfile()
SaveProfile(name, settings) ==
  /\ profiles' = [profiles EXCEPT ![name] = settings]
  /\ LastProfile' = name

SettingsOf(s) == [device |-> s.strDevice, charset |-> s.strCharset]

-----------------------------------------------------------------------------
(* Windows come and go.                                                    *)

Bounded == actions < MaxActions /\ actions' = actions + 1

\* No dialog is open: it would block every window.
Idle == \A w \in Windows : ~win[w].dialog

Acts(w) == Bounded /\ Idle /\ win[w].exists

\* seedBuiltinProfiles()
SeededStore ==
  [name \in Names |-> IF name \in Builtins \ seeded /\ profiles[name] = NoProfile
                      THEN Preset ELSE profiles[name]]

\* initProfiles(): a store without profiles gets one of the older settings.
StartStore ==
  IF ProfileNames(SeededStore) = {} THEN [SeededStore EXCEPT ![Default] = Legacy] ELSE SeededStore

\* names.first() after a sort that ignores case: any of those that differ in it only.
FirstNames(names) == {name \in names : \A other \in names : Order[name] <= Order[other]}

\* Mutant: the last profile is loaded even if it has been deleted.
AnyLastName(last, names) == IF last = Missing THEN FirstNames(names) ELSE {last}

StartNames(last, names) == IF last \in names THEN {last} ELSE FirstNames(names)

\* loadProfile() does nothing for a name that has no profile.
LoadedAtStart(s, name) ==
  IF StartStore[name] = NoProfile THEN {s} ELSE Loaded(s, StartStore[name], name)

KomportApp(w) ==
  /\ Bounded /\ Idle /\ ~win[w].exists
  /\ registry' = files
  /\ seeded' = seeded \cup {name \in Builtins : profiles[name] = NoProfile}
  /\ profiles' = StartStore
  /\ LET last == IF ProfileNames(SeededStore) = {} THEN Default ELSE LastProfile
     IN  \E name \in StartNames(last, ProfileNames(StartStore)) :
           /\ LastProfile' = IF StartStore[name] = NoProfile THEN last ELSE name
           /\ \E s \in LoadedAtStart([Fresh EXCEPT !.exists = TRUE], name) :
                win' = [AllWindows(w, files) EXCEPT ![w] = s]
  /\ UNCHANGED files

closeEvent(w) ==
  /\ Acts(w)
  /\ win' = [win EXCEPT ![w] = Fresh]
  /\ UNCHANGED <<profiles, LastProfile, seeded, registry, files>>

-----------------------------------------------------------------------------
(* Profiles.  The combo box of a window may still offer deleted ones.      *)

loadProfile(w, name) ==
  /\ Acts(w)
  /\ UNCHANGED <<profiles, seeded, registry, files>>
  /\ IF profiles[name] = NoProfile
     THEN UNCHANGED <<win, LastProfile>>
     ELSE /\ LastProfile' = name
          /\ \E s \in Loaded(Begun(win[w]), profiles[name], name) : win' = [win EXCEPT ![w] = s]

slotSaveProfile(w, name) ==
  /\ Acts(w)
  /\ SaveProfile(name, SettingsOf(win[w]))
  /\ win' = [win EXCEPT ![w] = [Begun(@) EXCEPT !.mCurrentProfile = name, !.status = "message"]]
  /\ UNCHANGED <<seeded, registry, files>>

slotDeleteProfile(w, name) ==
  /\ Acts(w)
  /\ profiles[name] # NoProfile
  /\ profiles' = [profiles EXCEPT ![name] = NoProfile]
  /\ LET current == win[w].mCurrentProfile
     IN  win' = [win EXCEPT ![w] = [Begun(@) EXCEPT
                   !.mCurrentProfile = IF current = name THEN Missing ELSE current,
                   !.status = "message"]]
  /\ UNCHANGED <<LastProfile, seeded, registry, files>>

-----------------------------------------------------------------------------
(* slotShowPreferences(): up to the dialog, and what the dialog is left by.*)

ShowPreferences(w) ==
  /\ Acts(w)
  /\ registry' = files
  /\ win' = [AllWindows(w, files) EXCEPT ![w] =
               [Begun(@) EXCEPT !.dialog = TRUE, !.status = "opening",
                                !.mSerialErrorPending = FALSE]]
  /\ UNCHANGED <<profiles, LastProfile, seeded, files>>

Rejected(w) ==
  /\ win[w].dialog
  /\ win' = [win EXCEPT ![w] = Said([@ EXCEPT !.dialog = FALSE])]
  /\ UNCHANGED <<profiles, LastProfile, seeded, registry, files, actions>>

\* Mutant: a second attempt after a live change of device has failed.
WheneverClosed(applied) == applied.state.port = Missing

MustOpen(applied) == applied.state.port = Missing /\ applied.storedOnly

Reopened(applied) == IF MustOpen(applied) THEN Opened(applied.state) ELSE {applied.state}

\* Before it applies anything the dialog's acceptance resets mSerialErrorPending
\* again: an error that arrived while the dialog was open holds nothing back now.
Accepted(w, device, key) ==
  LET form == [win[w] EXCEPT !.dialog = FALSE, !.strDevice = device,
                             !.mSerialErrorPending = FALSE,
                             !.reported = IF @ = "error" THEN "dropped" ELSE @]
      name == win[w].mCurrentProfile
  IN  /\ win[w].dialog
      /\ \E applied \in Applied(WithCharset(form, key, registry)) :
           \E s \in Reopened(applied) : win' = [win EXCEPT ![w] = Said(s)]
      /\ IF name = Missing THEN UNCHANGED <<profiles, LastProfile>>
         ELSE SaveProfile(name, [device |-> device, charset |-> key])
      /\ UNCHANGED <<seeded, registry, files, actions>>

-----------------------------------------------------------------------------
(* The world around.                                                       *)

\* An open port reports an error of its own accord.
PortError(w) ==
  /\ Bounded
  /\ win[w].port # Missing
  /\ win' = [win EXCEPT ![w] = slotSerialSettingsFailed(@)]
  /\ UNCHANGED <<profiles, LastProfile, seeded, registry, files>>

ChangeFiles ==
  /\ Bounded
  /\ files' \in SUBSET Customs \ {files}
  /\ UNCHANGED <<win, profiles, LastProfile, seeded, registry>>

WindowActs(w) ==
  \/ KomportApp(w) \/ closeEvent(w)
  \/ \E name \in Names :
       loadProfile(w, name) \/ slotSaveProfile(w, name) \/ slotDeleteProfile(w, name)

Preferences(w) ==
  \/ ShowPreferences(w) \/ Rejected(w)
  \/ \E device \in Devices, key \in registry \cup {Standard} : Accepted(w, device, key)

Next == (\E w \in Windows : WindowActs(w) \/ Preferences(w) \/ PortError(w)) \/ ChangeFiles

Spec == Init /\ [][Next]_vars

-----------------------------------------------------------------------------
(* Properties.                                                             *)

Window ==
  [exists : BOOLEAN, dialog : BOOLEAN,
   strDevice : Devices \cup {Missing}, strCharset : Charsets \cup {Missing}, charset : Charsets,
   mCurrentProfile : Names \cup {Missing},
   requested : Devices \cup {Missing}, port : Devices \cup {Missing},
   mSerialErrorPending : BOOLEAN, status : {"message", "error", "opening"},
   attempts : Nat, reported : {"nothing", "error", "dropped"}]

TypeOK ==
  /\ win \in [Windows -> Window]
  /\ profiles \in [Names -> Stored \cup {NoProfile}]
  /\ LastProfile \in Names \cup {Missing}
  /\ seeded \subseteq Builtins
  /\ registry \subseteq Customs /\ files \subseteq Customs
  /\ actions \in 0 .. MaxActions

\* komport.cpp:814-824, 1337-1342: the status bar shows an error exactly when one has
\* been reported since the window's last action began: by the action's own attempt,
\* while the dialog was open, or by the port since.  No closing message covers it,
\* and no older error keeps an action's message back.  Except that an accepted
\* dialog drops what was reported while it was open (DialogErrorIsShown).
ErrorIsShown ==
  \A w \in Windows :
    /\ win[w].status = "error" <=> win[w].reported = "error"
    /\ ~win[w].dialog => win[w].status # "opening"

\* komport.cpp:1201-1206: "an error reported while the modal dialog itself is still
\* open [...] also survives to be seen, rather than getting [...] overwritten by this
\* method's own trailing "Ready."".
DialogErrorIsShown ==
  \A w \in Windows : win[w].reported # "nothing" => win[w].status = "error"

\* komport.cpp:1314-1322: one user action opens or configures the port at most once,
\* whatever became of the attempt and however the action began.
OneAttemptPerAction == \A w \in Windows : win[w].attempts <= 1

\* komport.cpp:708-741, 800-810: whichever window reloads the registry, no window's
\* emulation uses a character set that is gone, and what a window would store is
\* what it uses.
CharsetAgrees ==
  \A w \in Windows :
    win[w].exists => /\ win[w].charset \in registry \cup {Standard}
                     /\ win[w].strCharset = win[w].charset

\* komport.cpp:593-597, 651-704: every window has loaded a profile when it appears,
\* and the device it shows is the one its transport was asked for and has open.
ShownIsInForce ==
  \A w \in Windows :
    win[w].exists =>
      /\ win[w].strDevice # Missing
      /\ win[w].requested = win[w].strDevice
      /\ win[w].port \in {Missing, win[w].strDevice}
=============================================================================
