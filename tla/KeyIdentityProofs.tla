-------------------------- MODULE KeyIdentityProofs --------------------------
(* Proofs about KeyIdentity, for any apps, hosts and supply of root keys.  *)
EXTENDS KeyIdentity, TLAPS

USE IdentityAssumption

\* Who serves, from which file, at each point of an app's life.
PathInv ==
    /\ pc \in {"idle", "ensure", "setPath", "start"} <=> serving = Default
    /\ pc \in {"running", "restore"} => serving = app
    /\ pc \in {"idle", "ensure", "setPath", "restore"} <=> path = Default
    /\ pc \in {"start", "running"} => path = app
    /\ pc # "idle" => app \in Apps

TypeInv == TypeOK /\ PathInv

\* The keys file a step writes is a keys file.
LEMMA FileType ==
    ASSUME TypeOK, NEW p \in Profiles, NEW f \in KeysFile \cup {NoFile},
           file' = [file EXCEPT ![p] = f]
    PROVE  file' \in [Profiles -> KeysFile \cup {NoFile}]
  BY DEF TypeOK

LEMMA LoadType ==
    ASSUME TypeOK, NEW p \in Profiles, Load(p)
    PROVE  ram' \in KeysFile
  BY DEF TypeOK, Load

LEMMA InitType == Init => TypeInv
  BY DEF Init, TypeInv, TypeOK, PathInv, Profiles, KeysFile

LEMMA NextType == TypeInv /\ [Next]_vars => TypeInv'
<1> SUFFICES ASSUME TypeInv, [Next]_vars PROVE TypeInv'
  OBVIOUS
<1> USE FileType, LoadType DEF TypeInv, TypeOK, PathInv, Profiles, service
<1>1. ASSUME NEW a \in Apps, Launch(a) PROVE TypeInv'
  BY <1>1 DEF Launch
<1>2. CASE KeepIdentity
  BY <1>2 DEF KeepIdentity
<1>3. CASE ReplaceFails
  BY <1>3 DEF ReplaceFails
<1>4. ASSUME NEW k \in RootKeys, ReplaceIdentity(k) PROVE TypeInv'
  <2>1. [keys |-> k, bonds |-> {}] \in KeysFile
    BY DEF KeysFile
  <2> QED
    BY <1>4, <2>1 DEF ReplaceIdentity
<1>5. CASE SetPath
  BY <1>5 DEF SetPath
<1>6. CASE StartProfile
  BY <1>6 DEF StartProfile
<1>7. CASE SetDefaultPath
  BY <1>7 DEF SetDefaultPath
<1>8. CASE RestoreDefault
  BY <1>8 DEF RestoreDefault
<1>9. ASSUME NEW h \in Hosts, Pair(h) PROVE TypeInv'
  <2>1. ram' \in KeysFile
    BY <1>9 DEF Pair, KeysFile
  <2>2. file' \in [Profiles -> KeysFile \cup {NoFile}]
    BY <1>9, <2>1 DEF Pair
  <2>3. paired' \in [Hosts -> SUBSET (Profiles \X RootKeys)]
    BY <1>9 DEF Pair, KeysFile
  <2> QED
    BY <1>9, <2>1, <2>2, <2>3 DEF Pair
<1>10. CASE Restart
  <2>1. ram' \in KeysFile
    BY <1>10 DEF Restart, KeysFile
  <2> QED
    BY <1>10, <2>1 DEF Restart
<1>11. CASE UNCHANGED vars
  BY <1>11 DEF vars
<1> QED
  BY <1>1, <1>2, <1>3, <1>4, <1>5, <1>6, <1>7, <1>8, <1>9, <1>10, <1>11
  DEF Next, AppStep
-----------------------------------------------------------------------------
\* Type correctness: the files and the service's RAM hold root keys and bonds,
\* and an app runs exactly when the service is not idle.
THEOREM TypeCorrect == Spec => []TypeOK
<1>1. TypeInv => TypeOK
  BY DEF TypeInv
<1> QED
  BY InitType, NextType, <1>1, PTL DEF Spec

\* What a pairing saves are the root keys of the profile's file, if it has one.
ServesFromFile ==
    Advertised /\ file[serving] # NoFile => ram.keys = file[serving].keys

LEMMA FromFile == Spec => []ServesFromFile
<1>1. Init => ServesFromFile
  BY DEF Init, ServesFromFile
<1>2. TypeInv /\ ServesFromFile /\ [Next]_vars => ServesFromFile'
  <2> SUFFICES ASSUME TypeInv, ServesFromFile, [Next]_vars
               PROVE  ServesFromFile'
    OBVIOUS
  <2> USE DEF TypeInv, TypeOK, PathInv, Profiles, service, ServesFromFile,
      Advertised
  <2>1. ASSUME NEW a \in Apps, Launch(a) PROVE ServesFromFile'
    BY <2>1 DEF Launch
  <2>2. CASE KeepIdentity \/ SetPath \/ SetDefaultPath
    BY <2>2 DEF KeepIdentity, SetPath, SetDefaultPath
  <2>3. CASE ReplaceFails
    BY <2>3 DEF ReplaceFails
  <2>4. ASSUME NEW k \in RootKeys, ReplaceIdentity(k) PROVE ServesFromFile'
    BY <2>4 DEF ReplaceIdentity
  <2>5. CASE StartProfile \/ RestoreDefault
    BY <2>5 DEF StartProfile, RestoreDefault, Load
  <2>6. ASSUME NEW h \in Hosts, Pair(h) PROVE ServesFromFile'
    <3>1. ram'.keys = ram.keys
      BY <2>6 DEF Pair, KeysFile
    <3> QED
      BY <2>6, <3>1 DEF Pair
  <2>7. CASE Restart
    BY <2>7 DEF Restart
  <2>8. CASE UNCHANGED vars
    BY <2>8 DEF vars
  <2> QED
    BY <2>1, <2>2, <2>3, <2>4, <2>5, <2>6, <2>7, <2>8 DEF Next, AppStep
<1> QED
  BY InitType, NextType, <1>1, <1>2, PTL DEF Spec
\* The root keys of a healthy file of an app never change, whichever save fails
\* and even if the default file is missing: a new identity is only made for a
\* file that is not healthy, and a pairing saves the keys the file has.
THEOREM StableIdentity == Spec => IdentityIsStable
<1> DEFINE Kept == \A a \in Apps : Healthy(file[a]) /\ file'[a] # NoFile
                       => file'[a].keys = file[a].keys
<1>1. TypeInv /\ ServesFromFile /\ [Next]_vars => Kept
  <2> SUFFICES ASSUME TypeInv, ServesFromFile, [Next]_vars,
                      NEW a \in Apps, Healthy(file[a]), file'[a] # NoFile
               PROVE  file'[a].keys = file[a].keys
    OBVIOUS
  <2> USE DEF TypeInv, TypeOK, PathInv, Profiles, service
  <2>1. CASE UNCHANGED file
    BY <2>1
  <2>2. ASSUME NEW k \in RootKeys, ReplaceIdentity(k) PROVE a # app
    BY <2>2 DEF ReplaceIdentity
  <2>3. CASE ReplaceFails
    BY <2>3 DEF ReplaceFails
  <2>4. ASSUME NEW h \in Hosts, Pair(h) PROVE file'[a].keys = file[a].keys
    <3>1. path = serving /\ ram'.keys = ram.keys
      BY <2>4 DEF Pair, Advertised, KeysFile
    <3>2. CASE a = serving
      <4>1. ram.keys = file[a].keys
        BY <2>4, <3>2 DEF Pair, Healthy, ServesFromFile
      <4> QED
        BY <2>4, <3>1, <3>2, <4>1 DEF Pair
    <3>3. CASE a # serving
      BY <2>4, <3>1, <3>3 DEF Pair
    <3> QED
      BY <3>2, <3>3
  <2>5. CASE Restart
    BY <2>5 DEF Restart
  <2>6. CASE UNCHANGED vars
    BY <2>1, <2>6 DEF vars
  <2> QED
    BY <2>1, <2>2, <2>3, <2>4, <2>5, <2>6
    DEF Next, AppStep, Launch, KeepIdentity, SetPath, StartProfile,
        SetDefaultPath, RestoreDefault, ReplaceIdentity
<1>2. Spec => []TypeInv
  BY InitType, NextType, PTL DEF Spec
<1> QED
  BY <1>1, <1>2, FromFile, PTL DEF Spec, IdentityIsStable
-----------------------------------------------------------------------------
(* Pairings, as long as no save has failed and the default file is there.  *)

PairedInv ==
    \A h \in Hosts : \A x \in paired[h] :
        /\ file[x[1]] # NoFile
        /\ file[x[1]].keys = x[2] /\ h \in file[x[1]].bonds
        /\ x[1] \in Apps => Healthy(file[x[1]])

\* Healthy files differ from the default one and from each other, and a file
\* that has pairings is healthy, so it is never replaced.
HealthInv ==
    /\ file[Default] # NoFile
    /\ \A a, b \in Apps : a # b /\ Healthy(file[a]) /\ Healthy(file[b])
          => file[a].keys # file[b].keys
    /\ pc \in {"setPath", "start", "running", "restore"} => Healthy(file[app])
    /\ ram = file[serving]
    /\ PairedInv

LEMMA InitHealth ==
    ASSUME Init, intact
    PROVE  HealthInv
  BY DEF Init, HealthInv, PairedInv, Healthy, Advertised

\* Replacing one unhealthy file of an app by new root keys.
LEMMA ReplaceHealth ==
    ASSUME TypeInv, HealthInv, NEW k \in RootKeys, ReplaceIdentity(k)
    PROVE  HealthInv'
<1> USE DEF TypeInv, TypeOK, PathInv, Profiles, ReplaceIdentity, service
<1>1. /\ app \in Apps /\ file'[app].keys = k /\ file'[app] # NoFile
      /\ \A p \in Profiles \ {app} : file'[p] = file[p]
  BY DEF KeysFile
<1>2. \A p \in Profiles : file[p] # NoFile => file[p].keys # k
  BY DEF Used
<1>3. /\ file'[Default] = file[Default] /\ Healthy(file[app])'
      /\ \A a \in Apps \ {app} : Healthy(file[a])' <=> Healthy(file[a])
  BY <1>1, <1>2 DEF Healthy, HealthInv, Used
<1>4. \A a, b \in Apps : a # b /\ Healthy(file[a])' /\ Healthy(file[b])'
         => file'[a].keys # file'[b].keys
  BY <1>1, <1>2, <1>3 DEF HealthInv, Healthy
<1>5. PairedInv'
  <2>1. ASSUME NEW h \in Hosts, NEW x \in paired[h]
        PROVE  x[1] \in Profiles /\ x[1] # app
    BY <1>1 DEF HealthInv, PairedInv
  <2> QED
    BY <1>1, <1>3, <2>1 DEF HealthInv, PairedInv
<1> QED
  BY <1>1, <1>3, <1>4, <1>5 DEF HealthInv, Advertised

\* A pairing changes the bonds of one file.
LEMMA PairHealth ==
    ASSUME intact', TypeInv, HealthInv, NEW h \in Hosts, Pair(h)
    PROVE  HealthInv'
<1> USE DEF TypeInv, TypeOK, PathInv, Profiles
<1>1. /\ path = serving /\ path \in Profiles /\ ram = file[path]
      /\ ram'.keys = ram.keys /\ ram'.bonds = ram.bonds \cup {h}
      /\ file' = [file EXCEPT ![path] = ram']
  BY DEF Pair, Advertised, HealthInv, KeysFile
<1>2. ram' # NoFile
  BY <1>1 DEF KeysFile, Pair
<1>3. \A p \in Profiles :
         /\ file'[p] = NoFile <=> file[p] = NoFile
         /\ file'[p].keys = file[p].keys
         /\ file[p].bonds \subseteq file'[p].bonds
  BY <1>1, <1>2
<1>4. \A p \in Profiles : Healthy(file[p])' <=> Healthy(file[p])
  BY <1>3 DEF Healthy
<1>5. PairedInv'
  <2>1. ASSUME NEW g \in Hosts, NEW x \in paired'[g]
        PROVE  \/ x \in paired[g]
               \/ g = h /\ x = <<serving, ram.keys>>
    BY DEF Pair
  <2>2. ASSUME NEW g \in Hosts, NEW x \in paired[g]
        PROVE  /\ file'[x[1]] # NoFile
               /\ file'[x[1]].keys = x[2] /\ g \in file'[x[1]].bonds
               /\ x[1] \in Apps => Healthy(file[x[1]])'
    BY <1>3, <1>4 DEF HealthInv, PairedInv
  <2>3. /\ file'[serving] # NoFile /\ file'[serving].keys = ram.keys
        /\ h \in file'[serving].bonds
    BY <1>1, <1>2
  <2>4. serving \in Apps => Healthy(file[serving])'
    <3>1. serving' = serving /\ (serving \in Apps => Healthy(file[serving]))
      BY DEF HealthInv, Pair
    <3> QED
      BY <1>1, <1>4, <3>1
  <2>5. ASSUME NEW g \in Hosts, NEW x \in paired'[g]
        PROVE  /\ file'[x[1]] # NoFile
               /\ file'[x[1]].keys = x[2] /\ g \in file'[x[1]].bonds
               /\ x[1] \in Apps => Healthy(file[x[1]])'
    <3>1. CASE x \in paired[g]
      BY <2>2, <3>1
    <3>2. CASE g = h /\ x = <<serving, ram.keys>>
      <4>1. x[1] = serving /\ x[2] = ram.keys /\ serving' = serving
        BY <3>2 DEF Pair
      <4> QED
        BY <2>3, <2>4, <3>2, <4>1 DEF Healthy
    <3> QED
      BY <2>1, <3>1, <3>2
  <2> QED
    BY <2>5 DEF PairedInv
<1>6. ram' = file'[serving']
  BY <1>1 DEF Pair
<1>7. \A a, b \in Apps : a # b /\ Healthy(file[a])' /\ Healthy(file[b])'
         => file'[a].keys # file'[b].keys
  BY <1>3, <1>4 DEF HealthInv
<1>8. /\ file'[Default] # NoFile
      /\ pc' \in {"setPath", "start", "running", "restore"} => Healthy(file[app])'
  BY <1>3, <1>4 DEF HealthInv, Pair
<1> QED
  BY <1>5, <1>6, <1>7, <1>8 DEF HealthInv

LEMMA NextHealth ==
    ASSUME intact', TypeInv, HealthInv, [Next]_vars
    PROVE  HealthInv'
<1> USE DEF TypeInv, TypeOK, PathInv, Profiles, HealthInv, PairedInv, Healthy,
    Advertised, service
<1>1. ASSUME NEW a \in Apps, Launch(a) PROVE HealthInv'
  BY <1>1 DEF Launch
<1>2. CASE KeepIdentity
  BY <1>2 DEF KeepIdentity
<1>3. CASE ReplaceFails
  BY <1>3 DEF ReplaceFails
<1>4. CASE SetPath \/ SetDefaultPath
  BY <1>4 DEF SetPath, SetDefaultPath
<1>5. CASE StartProfile \/ RestoreDefault
  BY <1>5 DEF StartProfile, RestoreDefault, Load
<1>6. CASE Restart
  BY <1>6 DEF Restart
<1>7. CASE UNCHANGED vars
  BY <1>7 DEF vars
<1> QED
  BY <1>1, <1>2, <1>3, <1>4, <1>5, <1>6, <1>7, ReplaceHealth, PairHealth
  DEF Next, AppStep

LEMMA HealthImplies ==
    ASSUME TypeInv, HealthInv
    PROVE  PairingsCoexist /\ OwnIdentity /\ PairingsSurvive
<1>1. PairingsCoexist
  <2> SUFFICES ASSUME NEW h \in Hosts, NEW x \in paired[h], NEW y \in paired[h],
                      x[1] # y[1]
               PROVE  x[2] # y[2]
    BY DEF PairingsCoexist
  <2>1. x[1] \in Profiles /\ y[1] \in Profiles
    BY DEF TypeInv, TypeOK
  <2> QED
    BY <2>1 DEF HealthInv, PairedInv, Healthy, Profiles
<1>2. OwnIdentity
  BY DEF TypeInv, TypeOK, PathInv, Profiles, HealthInv, Healthy, OwnIdentity,
         ServesOwnKeys, Advertised
<1>3. PairingsSurvive
  BY DEF HealthInv, PairedInv, PairingsSurvive, TypeInv, TypeOK
<1> QED
  BY <1>1, <1>2, <1>3

\* What was intact before a step is what can be intact after it.
LEMMA IntactBefore == [Next]_vars /\ intact' => intact
  BY DEF Next, AppStep, vars, Launch, KeepIdentity, ReplaceFails, ReplaceIdentity,
     SetPath, StartProfile, SetDefaultPath, RestoreDefault, Pair, Restart

LEMMA IntactHealthy == Spec => [](TypeInv /\ (intact => HealthInv))
<1>1. Init => TypeInv /\ (intact => HealthInv)
  BY InitType, InitHealth
<1>2. TypeInv /\ (intact => HealthInv) /\ [Next]_vars
      => (TypeInv /\ (intact => HealthInv))'
  BY NextType, NextHealth, IntactBefore
<1> QED
  BY <1>1, <1>2, PTL DEF Spec

\* A host never knows two profiles by the same root keys, in whatever order it
\* pairs with them and wherever the Flipper restarts.
THEOREM IdentitiesApart == Spec => []PairingsApart
<1>1. TypeInv /\ (intact => HealthInv) => PairingsApart
  BY HealthImplies DEF PairingsApart
<1> QED
  BY IntactHealthy, <1>1, PTL

\* An app never serves with the default profile's identity or the legacy one.
THEOREM ServesAsItself == Spec => []OwnIdentity
<1>1. TypeInv /\ (intact => HealthInv) => OwnIdentity
  BY HealthImplies DEF OwnIdentity
<1> QED
  BY IntactHealthy, <1>1, PTL

\* A pairing stays good across restarts and other apps.
THEOREM PairingsStayGood == Spec => []PairingsSurvive
<1>1. TypeInv /\ (intact => HealthInv) => PairingsSurvive
  BY HealthImplies DEF PairingsSurvive
<1> QED
  BY IntactHealthy, <1>1, PTL
=============================================================================
