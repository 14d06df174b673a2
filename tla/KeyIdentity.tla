----------------------------- MODULE KeyIdentity -----------------------------
(***************************************************************************)
(* The Bluetooth identities of the HID remotes (enter_remote.c and, with   *)
(* the same code, rvmc_remote.c).  The bt service keeps root keys and      *)
(* bonds in RAM and loads and saves them in one keys file, which each app  *)
(* replaces by its own while it runs.  Before that,                        *)
(* enter_remote_ensure_own_identity gives the app's file root keys of its  *)
(* own.  The bt service and the hosts are outside the repository.          *)
(***************************************************************************)
EXTENDS Naturals

CONSTANTS
    Apps,       \* the HID remotes
    Hosts,      \* computers that pair
    RootKeys,   \* root security keys; bounds how often fresh ones are made
    Legacy,     \* legacy_root_keys, which the service boots with
    NoFile,     \* a keys file that is missing or cannot be read
    Faults      \* what may go wrong: "save", "noDefault"

Default == "default"
Profiles == Apps \cup {Default}
KeysFile == [keys : RootKeys, bonds : SUBSET Hosts]

ASSUME IdentityAssumption ==
    /\ Default \notin Apps
    /\ Legacy \in RootKeys
    /\ NoFile \notin KeysFile
    /\ Faults \subseteq {"save", "noDefault"}

VARIABLES
    file,       \* the keys file of each profile
    ram,        \* bt service: the root keys and bonds in use
    path,       \* bt service: the profile whose file it loads and saves
    serving,    \* the profile advertised and connected to
    app, pc,    \* the app that runs, if any, and where it is
    paired,     \* each host: the profiles it is paired with, and their keys
    intact      \* history: the default file is there, and no save has failed

service == <<ram, path, serving>>
vars == <<file, service, app, pc, paired, intact>>

\* The Flipper's own file is there unless "noDefault"; an app's may be absent,
\* its own, or left by an older version, with the root keys of the default one.
\* The default file is taken to have kept its root keys since then: were there
\* older ones, two apps might have inherited them, which Healthy cannot see.
Init ==
    /\ file \in [Profiles -> {NoFile} \cup [keys : RootKeys, bonds : {{}}]]
    /\ file[Default] = NoFile => "noDefault" \in Faults
    /\ \A a, b \in Apps : a # b /\ file[a] # NoFile /\ file[b] # NoFile
          => \/ file[a].keys # file[b].keys \/ file[a].keys = Legacy
             \/ file[Default] # NoFile /\ file[a].keys = file[Default].keys
    /\ ram = IF file[Default] = NoFile THEN [keys |-> Legacy, bonds |-> {}]
                                       ELSE file[Default]
    /\ path = Default /\ serving = Default
    /\ app = Default /\ pc = "idle"
    /\ paired = [h \in Hosts |-> {}]
    /\ intact = (file[Default] # NoFile)

\* Root keys drawn at random are new.
Used ==
    {Legacy, ram.keys}
    \cup {file[p].keys : p \in {q \in Profiles : file[q] # NoFile}}
    \cup {x[2] : x \in UNION {paired[h] : h \in Hosts}}
-----------------------------------------------------------------------------
(* The app: enter_remote_bt_start.                                         *)

Launch(a) ==
    /\ pc = "idle"
    /\ app' = a /\ pc' = "ensure"
    /\ UNCHANGED <<file, service, paired, intact>>

\* Mutant: any file that can be read is kept.
HealthyIfReadable(f) == f # NoFile

\* Mutant: no file is kept.
NeverHealthy(f) == FALSE

\* The file is kept if it can be read and has neither the keys of the default
\* file nor the legacy ones.
Healthy(f) ==
    /\ f # NoFile
    /\ file[Default] # NoFile => f.keys # file[Default].keys
    /\ f.keys # Legacy

KeepIdentity ==
    /\ pc = "ensure" /\ Healthy(file[app])
    /\ pc' = "setPath"
    /\ UNCHANGED <<file, service, app, paired, intact>>

ReplaceIdentity(k) ==
    /\ pc = "ensure" /\ ~Healthy(file[app])
    /\ k \notin Used
    /\ file' = [file EXCEPT ![app] = [keys |-> k, bonds |-> {}]]
    /\ pc' = "setPath"
    /\ UNCHANGED <<service, app, paired, intact>>

\* The error is logged; the old file is left or lost.
ReplaceFails ==
    /\ "save" \in Faults
    /\ pc = "ensure" /\ ~Healthy(file[app])
    /\ file' \in {file, [file EXCEPT ![app] = NoFile]}
    /\ pc' = "setPath" /\ intact' = FALSE
    /\ UNCHANGED <<service, app, paired>>

\* bt_disconnect, then the keys file of the app.
SetPath ==
    /\ pc = "setPath"
    /\ path' = app /\ pc' = "start"
    /\ UNCHANGED <<file, ram, serving, app, paired, intact>>

\* Mutant: what was read is not checked.
LoadUnchecked(p) == ram' = file[p]

\* bt service: a file it cannot load leaves what is in RAM.
Load(p) == ram' = IF file[p] = NoFile THEN ram ELSE file[p]

\* Mutant: the profile starts with what is in RAM.
StartUnloaded ==
    /\ pc = "start"
    /\ serving' = app /\ pc' = "running"
    /\ UNCHANGED <<file, ram, path, app, paired, intact>>

StartProfile ==
    /\ pc = "start"
    /\ Load(path)
    /\ serving' = app /\ pc' = "running"
    /\ UNCHANGED <<file, path, app, paired, intact>>

(* enter_remote_bt_stop.                                                   *)

\* bt_disconnect, then the default keys file.
SetDefaultPath ==
    /\ pc = "running"
    /\ path' = Default /\ pc' = "restore"
    /\ UNCHANGED <<file, ram, serving, app, paired, intact>>

RestoreDefault ==
    /\ pc = "restore"
    /\ Load(path)
    /\ serving' = Default /\ app' = Default /\ pc' = "idle"
    /\ UNCHANGED <<file, path, paired, intact>>
-----------------------------------------------------------------------------
(* The hosts and the bt service.                                           *)

\* Between bt_disconnect and the start of the other profile nobody connects.
Advertised == pc \notin {"start", "restore"}

\* A new pairing replaces the host's earlier one with this profile; the
\* service saves what it has in RAM.
Pair(h) ==
    /\ Advertised
    /\ ram' = [ram EXCEPT !.bonds = @ \cup {h}]
    /\ \/ file' = [file EXCEPT ![path] = ram'] /\ UNCHANGED intact
       \/ /\ "save" \in Faults /\ intact' = FALSE
          /\ file' \in {file, [file EXCEPT ![path] = NoFile]}
    /\ paired' = [paired EXCEPT ![h] =
          {x \in @ : x[1] # serving} \cup {<<serving, ram.keys>>}]
    /\ UNCHANGED <<path, serving, app, pc>>

\* The Flipper restarts, at any moment: while it writes a new file, too.  (In the
\* middle of the service's own save: that is a save that fails, then a restart.)
Restart ==
    /\ \/ file' = file
       \/ /\ pc = "ensure" /\ ~Healthy(file[app])
          /\ file' = [file EXCEPT ![app] = NoFile]
    /\ ram' = IF file[Default] = NoFile THEN [keys |-> Legacy, bonds |-> {}]
                                        ELSE file[Default]
    /\ path' = Default /\ serving' = Default
    /\ app' = Default /\ pc' = "idle"
    /\ UNCHANGED <<paired, intact>>

AppStep ==
    \/ \E a \in Apps : Launch(a)
    \/ KeepIdentity \/ ReplaceFails
    \/ \E k \in RootKeys : ReplaceIdentity(k)
    \/ SetPath \/ StartProfile \/ SetDefaultPath \/ RestoreDefault

Next == AppStep \/ (\E h \in Hosts : Pair(h)) \/ Restart

Spec == Init /\ [][Next]_vars
-----------------------------------------------------------------------------
TypeOK ==
    /\ file \in [Profiles -> KeysFile \cup {NoFile}]
    /\ ram \in KeysFile
    /\ path \in Profiles /\ serving \in Profiles /\ app \in Profiles
    /\ pc \in {"idle", "ensure", "setPath", "start", "running", "restore"}
    /\ (pc = "idle") = (app = Default)
    /\ paired \in [Hosts -> SUBSET (Profiles \X RootKeys)]

\* An identity of its own, once an app's file holds one, is only ever lost with
\* the file: no launch, pairing, failed save, restart or other app replaces or
\* overwrites the root keys of a healthy file, with or without a default file.
\* (It would be overwritten by a pairing that saves what another profile left
\* in RAM.  A file that is lost may well come back with other keys: README,
\* Limits.)
IdentityIsStable ==
    [][ \A a \in Apps : Healthy(file[a]) /\ file'[a] # NoFile
            => file'[a].keys = file[a].keys ]_vars

\* "both pairings coexist" (README): a host never knows two profiles of the
\* Flipper by the same root keys.
PairingsCoexist ==
    \A h \in Hosts : \A x, y \in paired[h] : x[1] # y[1] => x[2] # y[2]

\* They do in whatever order a host pairs with them and wherever the Flipper
\* restarts, as long as no save fails and the default file is there.
PairingsApart == intact => PairingsCoexist

\* An app serves with root keys of its own: not those of the default profile, nor
\* the legacy ones.
ServesOwnKeys ==
    serving \in Apps =>
        /\ ram.keys # Legacy
        /\ file[Default] # NoFile => ram.keys # file[Default].keys

\* It does under the same condition: what older versions left is repaired before
\* the app is advertised, in whatever order apps run and files are replaced.
OwnIdentity == intact => ServesOwnKeys

\* And a pairing that a host remembers is still good: the profile it paired with
\* serves with the same root keys and knows the host, across restarts and
\* other apps.
PairingsSurvive ==
    intact /\ Advertised =>
        \A h \in Hosts, k \in RootKeys :
            <<serving, k>> \in paired[h] => ram.keys = k /\ h \in ram.bonds
=============================================================================
