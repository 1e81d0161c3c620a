--------------------------- MODULE KeyFilesProofs --------------------------
(***************************************************************************)
(* Proofs about the key file and the pepper, for an operator who rules the *)
(* faults of FaultKinds out: however many processes, customers and keys,   *)
(* and wherever a process is killed, no key that is in use leaves the file *)
(* and every process holds the pepper the rows were made with.             *)
(***************************************************************************)
EXTENDS KeyFiles, TLAPS

Saving(s) == server[s].pc \in {"write", "replace"}
Loaded(s) == server[s].pc \in {"pepper", "pepperWrite", "up"}

\* Starts and writes exclude each other.
OneAtATime ==
  \A s, t \in Servers : Starting(s) /\ Starting(t) => s = t

\* The file is whole; before the first one is written nothing depends on it.
FileWhole ==
  /\ keystore # None => keystore \in KeySet /\ keystore.active \in keystore.keks
  /\ keystore = None => Enrolled = {} /\ \A s \in Servers : ~Loaded(s)

\* What a process wraps under is in the file; the maintainer holds all of it.
CopiesCovered ==
  \A s \in Servers : Loaded(s) =>
    /\ keystore \in KeySet
    /\ server[s].keys.active \in keystore.keks
    /\ s = Maintainer => server[s].keys = keystore

\* What is about to be written covers every profile and every process.
SaveCovers ==
  \A s \in Servers : Saving(s) =>
    /\ server[s].keys.active \in server[s].keys.keks
    /\ server[s].next = "pepper" => keystore = None
    /\ server[s].next = "up" => s = Maintainer /\ keystore \in KeySet
    /\ \A c \in Enrolled : profile[c].kek \in server[s].keys.keks
    /\ \A t \in Servers : Loaded(t) =>
         server[t].keys.active \in server[s].keys.keks
    /\ server[s].pc = "replace" => tmp \in {server[s].keys}

\* The pepper is written once.
PepperHeld ==
  /\ \A s \in Servers : Up(s) \/ (Saving(s) /\ server[s].next = "up") =>
       server[s].pepper = pepperFile /\ pepperFile # None
  /\ \A s \in Servers : server[s].pc = "pepperWrite" =>
       pepperFile = None /\ server[s].pepper \in Peppers
  /\ \A c \in Enrolled :
       /\ pepperFile # None
       /\ profile[c].hash = pepperFile /\ profile[c].shard = pepperFile

IInv ==
  /\ TypeOK
  /\ OneAtATime
  /\ FileWhole
  /\ CopiesCovered
  /\ SaveCovers
  /\ KeysSurvive
  /\ PepperHeld

-----------------------------------------------------------------------------
\* The updates of a process's record that the actions make.
LEMMA ServerUpdates ==
  ASSUME NEW r \in Server,
         NEW pc \in {"down", "write", "replace", "pepper", "pepperWrite", "up"},
         NEW next \in {"pepper", "up"}, NEW keys \in KeySet,
         NEW pepper \in Peppers \cup {None, Empty}
  PROVE  /\ r.keys \in KeySet /\ r.next \in {"pepper", "up"}
         /\ r.pepper \in Peppers \cup {None, Empty}
         /\ [r EXCEPT !.pc = pc] \in Server
         /\ [r EXCEPT !.pc = pc, !.keys = keys] \in Server
         /\ [r EXCEPT !.pc = pc, !.next = next, !.keys = keys] \in Server
         /\ [r EXCEPT !.pc = pc, !.next = next, !.pepper = pepper] \in Server
         /\ [r EXCEPT !.pc = pc, !.pepper = pepper] \in Server
         /\ [r EXCEPT !.pc = pc, !.next = next] \in Server
         /\ Down \in Server
BY DEF Server, Down, NoKeys, KeySet

\* It holds before the first start.
LEMMA InitIInv == Init => IInv
<1> SUFFICES ASSUME Init PROVE IInv
  OBVIOUS
<1>1. \A s \in Servers : server[s] = Down /\ Down.pc = "down"
  BY DEF Init, Down
<1>2. Enrolled = {}
  BY DEF Init, Enrolled
<1>3. Down \in Server
  BY DEF Server, Down, NoKeys, KeySet
<1>4. TypeOK
  BY <1>3 DEF Init, TypeOK, File
<1>5. OneAtATime /\ CopiesCovered /\ SaveCovers
  BY <1>1 DEF OneAtATime, CopiesCovered, SaveCovers, Starting, Loaded, Saving
<1>6. FileWhole
  BY <1>1, <1>2, KeyFilesAssumption DEF Init, FileWhole, Loaded, KeySet
<1>7. KeysSurvive /\ PepperHeld
  BY <1>1, <1>2 DEF KeysSurvive, PepperHeld, Up, Saving
<1> QED
  BY <1>4, <1>5, <1>6, <1>7 DEF IInv

\* Every step keeps the types.
LEMMA NextTypeOK ==
  ASSUME Faults = {}, IInv, Next
  PROVE  TypeOK'
<1>a. TypeOK
  BY DEF IInv
<1> USE <1>a DEF TypeOK
<1>0. ASSUME NEW s \in Servers
      PROVE  /\ server[s] \in Server
             /\ server[s].keys \in KeySet /\ server[s].next \in {"pepper", "up"}
             /\ server[s].pepper \in Peppers \cup {None, Empty}
  BY DEF Server
<1>1. ASSUME NEW s \in Servers, Load(s) PROVE TypeOK'
  <2>1. server' = [server EXCEPT ![s] =
                 [server[s] EXCEPT !.pc = "pepper", !.keys = keystore]]
    BY <1>1 DEF Load
  <2>2. [server[s] EXCEPT !.pc = "pepper", !.keys = keystore] \in Server
    BY <1>1, <1>0, ServerUpdates, Zenon DEF Load
  <2> QED
    BY <1>1, <1>0, <2>1, <2>2 DEF Load, File
<1>2. ASSUME NEW s \in Servers, WriteTmp(s) PROVE TypeOK'
  <2>1. server' = [server EXCEPT ![s] = [server[s] EXCEPT !.pc = "replace"]]
    BY <1>2 DEF WriteTmp
  <2>2. [server[s] EXCEPT !.pc = "replace"] \in Server
    BY <1>2, <1>0, ServerUpdates, Zenon DEF WriteTmp
  <2> QED
    BY <1>2, <1>0, <2>1, <2>2 DEF WriteTmp, File
<1>3. ASSUME NEW s \in Servers, Replace(s) PROVE TypeOK'
  <2>1. server' = [server EXCEPT ![s] =
                   [server[s] EXCEPT !.pc = server[s].next]]
    BY <1>3 DEF Replace
  <2>2. [server[s] EXCEPT !.pc = server[s].next] \in Server
    <3>1. server[s].next \in {"down", "write", "replace", "pepper",
                                "pepperWrite", "up"}
      BY <1>0
    <3> QED
      BY <1>0, <3>1 DEF Server
  <2> QED
    BY <1>3, <1>0, <2>1, <2>2 DEF Replace, File
<1>4. ASSUME NEW s \in Servers, ReadPepper(s) PROVE TypeOK'
  <2>1. server' = [server EXCEPT ![s] =
         [server[s] EXCEPT !.pc = "up", !.next = "up", !.pepper = pepperFile]]
    BY <1>4 DEF ReadPepper
  <2>2. [server[s] EXCEPT !.pc = "up", !.next = "up",
                             !.pepper = pepperFile] \in Server
    BY <1>0 DEF Server
  <2> QED
    BY <1>4, <1>0, <2>1, <2>2 DEF ReadPepper, File
<1>5. ASSUME NEW s \in Servers, WritePepper(s) PROVE TypeOK'
  <2>1. server' = [server EXCEPT ![s] =
                   [server[s] EXCEPT !.pc = "up", !.next = "up"]]
    BY <1>5 DEF WritePepper
  <2>2. [server[s] EXCEPT !.pc = "up", !.next = "up"] \in Server
    BY <1>5, <1>0, ServerUpdates, Zenon DEF WritePepper
  <2> QED
    BY <1>5, <1>0, <2>1, <2>2 DEF WritePepper, File
<1>6. ASSUME NEW s \in Servers, Initialise(s) PROVE TypeOK'
  <2>1. PICK k \in Keks :
          /\ madeKeks' = madeKeks \cup {k}
          /\ server' = [server EXCEPT ![s] =
               [server[s] EXCEPT !.pc = "write", !.next = "pepper",
               !.keys = [keks |-> {k}, active |-> k]]]
    BY <1>6 DEF Initialise
  <2>2. [keks |-> {k}, active |-> k] \in KeySet
    BY <1>0 DEF KeySet
  <2> DEFINE new == [server[s] EXCEPT !.pc = "write", !.next = "pepper",
                       !.keys = [keks |-> {k}, active |-> k]]
  <2>3. new \in Server
    BY <1>0, <2>2, ServerUpdates
  <2> HIDE DEF new
  <2> QED
    BY <1>6, <2>1, <2>3 DEF Initialise, new
<1>7. ASSUME NEW s \in Servers, Rotate(s) PROVE TypeOK'
  <2>1. PICK k \in Keks :
          /\ madeKeks' = madeKeks \cup {k}
          /\ server' = [server EXCEPT ![s].pc = "write", ![s].next = "up",
               ![s].keys = [keks |-> server[s].keys.keks \cup {k},
                            active |-> k]]
    BY <1>7, Zenon DEF Rotate
  <2> DEFINE keys == [keks |-> server[s].keys.keks \cup {k}, active |-> k]
             new == [server[s] EXCEPT !.pc = "write", !.next = "up",
                                         !.keys = keys]
  <2>2. keys \in KeySet
    BY <1>0 DEF KeySet
  <2>3. server' = [server EXCEPT ![s].pc = "write", ![s].next = "up",
                                 ![s].keys = keys]
    BY <2>1
  <2> HIDE DEF keys
  <2>4. server' = [server EXCEPT ![s] = new]
    BY <2>3
  <2>5. new \in Server
    BY <1>0, <2>2 DEF Server
  <2> HIDE DEF new
  <2>6. UNCHANGED <<keystore, tmp, pepperFile, profile, madePeppers>>
    BY <1>7 DEF Rotate
  <2> QED
    BY <2>1, <2>4, <2>5, <2>6
<1>8. ASSUME NEW s \in Servers, MakePepper(s) PROVE TypeOK'
  <2>1. PICK p \in Peppers :
          /\ madePeppers' = madePeppers \cup {p}
          /\ server' = [server EXCEPT ![s] =
               [server[s] EXCEPT !.pc = "pepperWrite", !.pepper = p]]
    BY <1>8 DEF MakePepper
  <2>2. [server[s] EXCEPT !.pc = "pepperWrite", !.pepper = p] \in Server
    BY <1>0, ServerUpdates
  <2> QED
    BY <1>8, <2>1, <2>2 DEF MakePepper
<1>9. ASSUME NEW s \in Servers, NEW k \in Keks, Destroy(s, k) PROVE TypeOK'
  <2> DEFINE keys == [server[s].keys EXCEPT !.keks = @ \ {k}]
             new == [server[s] EXCEPT !.pc = "write", !.next = "up",
                                         !.keys = keys]
  <2>1. server' = [server EXCEPT ![s] = new]
    BY <1>9 DEF Destroy
  <2>2. keys \in KeySet
    BY <1>0 DEF KeySet
  <2>3. new \in Server
    BY <1>0, <2>2, ServerUpdates
  <2> HIDE DEF new
  <2>4. UNCHANGED <<keystore, tmp, pepperFile, profile, madeKeks, madePeppers>>
    BY <1>9 DEF Destroy
  <2> QED
    BY <2>1, <2>3, <2>4
<1>10. ASSUME NEW s \in Servers, SaveFails(s) PROVE TypeOK'
  <2>1. [server[s] EXCEPT !.pc = "up"] \in Server
    BY <1>0 DEF Server
  <2>2. Down \in Server
    BY <1>0, ServerUpdates
  <2> QED
    BY <1>10, <2>1, <2>2 DEF SaveFails, File
<1>11. ASSUME NEW s \in Servers, Crash(s) PROVE TypeOK'
  <2>1. Down \in Server
    BY <1>0, ServerUpdates
  <2> QED
    BY <1>11, <2>1 DEF Crash, TornFile, File
<1>12. ASSUME NEW s \in Servers, NEW c \in Customers, Enroll(s, c)
      PROVE  TypeOK'
  <2>0. server[s].keys.active \in Keks /\ server[s].pepper # None
    BY <1>12, <1>0
    DEF Enroll, Up, Loaded, IInv, CopiesCovered, PepperHeld, KeySet
  <2>1. [kek |-> server[s].keys.active, hash |-> server[s].pepper,
         shard |-> pepperFile] \in Profile
    BY <1>12, <1>0, <2>0 DEF Enroll, Profile
  <2> QED
    BY <1>12, <2>1 DEF Enroll
<1>13. ASSUME NEW s \in Servers, NEW c \in Customers, Rewrap(s, c)
      PROVE  TypeOK'
  <2>1. server[s].keys.active \in Keks
    BY <1>13, <1>0 DEF Rewrap, Up, Loaded, IInv, CopiesCovered, KeySet
  <2>2. [profile[c] EXCEPT !.kek = server[s].keys.active] \in Profile
    BY <1>13, <2>1 DEF Rewrap, Enrolled, Profile
  <2> QED
    BY <1>13, <2>2 DEF Rewrap
<1> QED
  BY <1>1, <1>2, <1>3, <1>4, <1>5, <1>6, <1>7, <1>8, <1>9, <1>10, <1>11, <1>12,
     <1>13 DEF Next

\* Every step keeps the invariant: each action, conjunct by conjunct.
LEMMA NextIInv ==
  ASSUME Faults = {}, IInv, Next
  PROVE  IInv'
<1>0. TypeOK'
  BY NextTypeOK
<1> USE KeyFilesAssumption
<1> USE DEF IInv, TypeOK, KeySet, File, Server, Profile, Down, NoKeys
<1>1. ASSUME NEW s \in Servers, Load(s) PROVE IInv'
  <2> USE DEF Load
  <2>2. OneAtATime'
    BY <1>1 DEF OneAtATime, Alone, Starting
  <2>3. FileWhole'
    BY <1>1 DEF FileWhole, CopiesCovered, SaveCovers, OneAtATime, Starting,
      Saving, Loaded, Up, Enrolled
  <2>4. CopiesCovered'
    BY <1>1 DEF CopiesCovered, FileWhole, SaveCovers, OneAtATime, Alone,
      Starting, Saving, Loaded, Up, Enrolled
  <2>5. SaveCovers'
    BY <1>1 DEF SaveCovers, FileWhole, CopiesCovered, KeysSurvive, OneAtATime,
      Alone, Starting, Saving, Loaded, Up, Enrolled
  <2>6. KeysSurvive'
    BY <1>1 DEF KeysSurvive, SaveCovers, CopiesCovered, FileWhole, Saving,
      Loaded, Up, Enrolled
  <2>7. PepperHeld'
    BY <1>1 DEF PepperHeld, FileWhole, OneAtATime, Alone, Starting, Saving,
      Loaded, Up, Enrolled
  <2> HIDE DEF TypeOK
  <2> QED BY <1>0, <2>2, <2>3, <2>4, <2>5, <2>6, <2>7
<1>2. ASSUME NEW s \in Servers, Initialise(s) PROVE IInv'
  <2> USE DEF Initialise
  <2>2. OneAtATime'
    BY <1>2 DEF OneAtATime, Alone, Starting
  <2>3. FileWhole'
    BY <1>2 DEF FileWhole, CopiesCovered, SaveCovers, OneAtATime, Starting,
      Saving, Loaded, Up, Enrolled
  <2>4. CopiesCovered'
    BY <1>2 DEF CopiesCovered, FileWhole, SaveCovers, OneAtATime, Alone,
      Starting, Saving, Loaded, Up, Enrolled
  <2>5. SaveCovers'
    BY <1>2 DEF SaveCovers, FileWhole, CopiesCovered, KeysSurvive, OneAtATime,
      Alone, Starting, Saving, Loaded, Up, Enrolled
  <2>6. KeysSurvive'
    BY <1>2 DEF KeysSurvive, SaveCovers, CopiesCovered, FileWhole, Saving,
      Loaded, Up, Enrolled
  <2>7. PepperHeld'
    BY <1>2 DEF PepperHeld, FileWhole, OneAtATime, Alone, Starting, Saving,
      Loaded, Up, Enrolled
  <2> HIDE DEF TypeOK
  <2> QED BY <1>0, <2>2, <2>3, <2>4, <2>5, <2>6, <2>7
<1>3. ASSUME NEW s \in Servers, WriteTmp(s) PROVE IInv'
  <2> USE DEF WriteTmp
  <2>2. OneAtATime'
    BY <1>3 DEF OneAtATime, Alone, Starting
  <2>3. FileWhole'
    BY <1>3 DEF FileWhole, CopiesCovered, SaveCovers, OneAtATime, Starting,
      Saving, Loaded, Up, Enrolled
  <2>4. CopiesCovered'
    BY <1>3 DEF CopiesCovered, FileWhole, SaveCovers, OneAtATime, Alone,
      Starting, Saving, Loaded, Up, Enrolled
  <2>5. SaveCovers'
    BY <1>3 DEF SaveCovers, FileWhole, CopiesCovered, KeysSurvive, OneAtATime,
      Alone, Starting, Saving, Loaded, Up, Enrolled
  <2>6. KeysSurvive'
    BY <1>3 DEF KeysSurvive, SaveCovers, CopiesCovered, FileWhole, Saving,
      Loaded, Up, Enrolled
  <2>7. PepperHeld'
    BY <1>3 DEF PepperHeld, FileWhole, OneAtATime, Alone, Starting, Saving,
      Loaded, Up, Enrolled
  <2> HIDE DEF TypeOK
  <2> QED BY <1>0, <2>2, <2>3, <2>4, <2>5, <2>6, <2>7
<1>4. ASSUME NEW s \in Servers, Replace(s) PROVE IInv'
  <2> USE DEF Replace
  <2>2. OneAtATime'
    BY <1>4 DEF OneAtATime, Alone, Starting
  <2>3. FileWhole'
    BY <1>4 DEF FileWhole, CopiesCovered, SaveCovers, OneAtATime, Starting,
      Saving, Loaded, Up, Enrolled
  <2>4. CopiesCovered'
    BY <1>4 DEF CopiesCovered, FileWhole, SaveCovers, OneAtATime, Alone,
      Starting, Saving, Loaded, Up, Enrolled
  <2>5. SaveCovers'
    BY <1>4 DEF SaveCovers, FileWhole, CopiesCovered, KeysSurvive, OneAtATime,
      Alone, Starting, Saving, Loaded, Up, Enrolled
  <2>6. KeysSurvive'
    BY <1>4 DEF KeysSurvive, SaveCovers, CopiesCovered, FileWhole, Saving,
      Loaded, Up, Enrolled
  <2>7. PepperHeld'
    BY <1>4 DEF PepperHeld, FileWhole, OneAtATime, Alone, Starting, Saving,
      Loaded, Up, Enrolled
  <2> HIDE DEF TypeOK
  <2> QED BY <1>0, <2>2, <2>3, <2>4, <2>5, <2>6, <2>7
<1>5. ASSUME NEW s \in Servers, SaveFails(s) PROVE IInv'
  <2> USE DEF SaveFails
  <2>2. OneAtATime'
    BY <1>5 DEF OneAtATime, Alone, Starting
  <2>3. FileWhole'
    BY <1>5 DEF FileWhole, CopiesCovered, SaveCovers, OneAtATime, Starting,
      Saving, Loaded, Up, Enrolled
  <2>4. CopiesCovered'
    BY <1>5 DEF CopiesCovered, FileWhole, SaveCovers, OneAtATime, Alone,
      Starting, Saving, Loaded, Up, Enrolled
  <2>5. SaveCovers'
    BY <1>5 DEF SaveCovers, FileWhole, CopiesCovered, KeysSurvive, OneAtATime,
      Alone, Starting, Saving, Loaded, Up, Enrolled
  <2>6. KeysSurvive'
    BY <1>5 DEF KeysSurvive, SaveCovers, CopiesCovered, FileWhole, Saving,
      Loaded, Up, Enrolled
  <2>a. server' = [server EXCEPT ![s] = Down] /\ Down.pc = "down"
    BY <1>5
  <2>7. PepperHeld'
    BY <1>5, <2>a DEF PepperHeld, Saving, Up, Enrolled
  <2> HIDE DEF TypeOK
  <2> QED BY <1>0, <2>2, <2>3, <2>4, <2>5, <2>6, <2>7
<1>6. ASSUME NEW s \in Servers, ReadPepper(s) PROVE IInv'
  <2> USE DEF ReadPepper
  <2>2. OneAtATime'
    BY <1>6 DEF OneAtATime, Alone, Starting
  <2>3. FileWhole'
    BY <1>6 DEF FileWhole, CopiesCovered, SaveCovers, OneAtATime, Starting,
      Saving, Loaded, Up, Enrolled
  <2>4. CopiesCovered'
    BY <1>6 DEF CopiesCovered, FileWhole, SaveCovers, OneAtATime, Alone,
      Starting, Saving, Loaded, Up, Enrolled
  <2>5. SaveCovers'
    BY <1>6 DEF SaveCovers, FileWhole, CopiesCovered, KeysSurvive, OneAtATime,
      Alone, Starting, Saving, Loaded, Up, Enrolled
  <2>6. KeysSurvive'
    BY <1>6 DEF KeysSurvive, SaveCovers, CopiesCovered, FileWhole, Saving,
      Loaded, Up, Enrolled
  <2>7. PepperHeld'
    BY <1>6 DEF PepperHeld, FileWhole, OneAtATime, Alone, Starting, Saving,
      Loaded, Up, Enrolled
  <2> HIDE DEF TypeOK
  <2> QED BY <1>0, <2>2, <2>3, <2>4, <2>5, <2>6, <2>7
<1>7. ASSUME NEW s \in Servers, MakePepper(s) PROVE IInv'
  <2> USE DEF MakePepper
  <2>2. OneAtATime'
    BY <1>7 DEF OneAtATime, Alone, Starting
  <2>3. FileWhole'
    BY <1>7 DEF FileWhole, CopiesCovered, SaveCovers, OneAtATime, Starting,
      Saving, Loaded, Up, Enrolled
  <2>4. CopiesCovered'
    BY <1>7 DEF CopiesCovered, FileWhole, SaveCovers, OneAtATime, Alone,
      Starting, Saving, Loaded, Up, Enrolled
  <2>5. SaveCovers'
    BY <1>7 DEF SaveCovers, FileWhole, CopiesCovered, KeysSurvive, OneAtATime,
      Alone, Starting, Saving, Loaded, Up, Enrolled
  <2>6. KeysSurvive'
    BY <1>7 DEF KeysSurvive, SaveCovers, CopiesCovered, FileWhole, Saving,
      Loaded, Up, Enrolled
  <2>7. PepperHeld'
    BY <1>7 DEF PepperHeld, FileWhole, OneAtATime, Alone, Starting, Saving,
      Loaded, Up, Enrolled
  <2> HIDE DEF TypeOK
  <2> QED BY <1>0, <2>2, <2>3, <2>4, <2>5, <2>6, <2>7
<1>8. ASSUME NEW s \in Servers, WritePepper(s) PROVE IInv'
  <2> USE DEF WritePepper
  <2>2. OneAtATime'
    BY <1>8 DEF OneAtATime, Alone, Starting
  <2>3. FileWhole'
    BY <1>8 DEF FileWhole, CopiesCovered, SaveCovers, OneAtATime, Starting,
      Saving, Loaded, Up, Enrolled
  <2>4. CopiesCovered'
    BY <1>8 DEF CopiesCovered, FileWhole, SaveCovers, OneAtATime, Alone,
      Starting, Saving, Loaded, Up, Enrolled
  <2>5. SaveCovers'
    BY <1>8 DEF SaveCovers, FileWhole, CopiesCovered, KeysSurvive, OneAtATime,
      Alone, Starting, Saving, Loaded, Up, Enrolled
  <2>6. KeysSurvive'
    BY <1>8 DEF KeysSurvive, SaveCovers, CopiesCovered, FileWhole, Saving,
      Loaded, Up, Enrolled
  <2>7. PepperHeld'
    BY <1>8 DEF PepperHeld, FileWhole, OneAtATime, Alone, Starting, Saving,
      Loaded, Up, Enrolled
  <2> HIDE DEF TypeOK
  <2> QED BY <1>0, <2>2, <2>3, <2>4, <2>5, <2>6, <2>7
<1>9. ASSUME NEW s \in Servers, Crash(s) PROVE IInv'
  <2> USE DEF Crash, TornFile
  <2>2. OneAtATime'
    BY <1>9 DEF OneAtATime, Alone, Starting
  <2>3. FileWhole'
    BY <1>9 DEF FileWhole, CopiesCovered, SaveCovers, OneAtATime, Starting,
      Saving, Loaded, Up, Enrolled
  <2>4. CopiesCovered'
    BY <1>9 DEF CopiesCovered, FileWhole, SaveCovers, OneAtATime, Alone,
      Starting, Saving, Loaded, Up, Enrolled
  <2>5. SaveCovers'
    BY <1>9 DEF SaveCovers, FileWhole, CopiesCovered, KeysSurvive, OneAtATime,
      Alone, Starting, Saving, Loaded, Up, Enrolled
  <2>6. KeysSurvive'
    BY <1>9 DEF KeysSurvive, SaveCovers, CopiesCovered, FileWhole, Saving,
      Loaded, Up, Enrolled
  <2>7. PepperHeld'
    BY <1>9 DEF PepperHeld, FileWhole, OneAtATime, Alone, Starting, Saving,
      Loaded, Up, Enrolled
  <2> HIDE DEF TypeOK
  <2> QED BY <1>0, <2>2, <2>3, <2>4, <2>5, <2>6, <2>7
<1>10. ASSUME NEW s \in Servers, Rotate(s) PROVE IInv'
  <2> USE DEF Rotate
  <2>2. OneAtATime'
    BY <1>10 DEF OneAtATime, Alone, Starting
  <2>3. FileWhole'
    BY <1>10 DEF FileWhole, CopiesCovered, SaveCovers, OneAtATime, Starting,
      Saving, Loaded, Up, Enrolled
  <2>4. CopiesCovered'
    BY <1>10 DEF CopiesCovered, FileWhole, SaveCovers, OneAtATime, Alone,
      Starting, Saving, Loaded, Up, Enrolled
  <2>5. SaveCovers'
    BY <1>10 DEF SaveCovers, FileWhole, CopiesCovered, KeysSurvive, OneAtATime,
      Alone, Starting, Saving, Loaded, Up, Enrolled
  <2>6. KeysSurvive'
    BY <1>10 DEF KeysSurvive, SaveCovers, CopiesCovered, FileWhole, Saving,
      Loaded, Up, Enrolled
  <2>7. PepperHeld'
    BY <1>10 DEF PepperHeld, FileWhole, OneAtATime, Alone, Starting, Saving,
      Loaded, Up, Enrolled
  <2> HIDE DEF TypeOK
  <2> QED BY <1>0, <2>2, <2>3, <2>4, <2>5, <2>6, <2>7
<1>11. ASSUME NEW s \in Servers, NEW k \in Keks, Destroy(s, k) PROVE IInv'
  <2> USE DEF Destroy, Destroyable
  <2>2. OneAtATime'
    BY <1>11 DEF OneAtATime, Alone, Starting
  <2>3. FileWhole'
    BY <1>11 DEF FileWhole, CopiesCovered, SaveCovers, OneAtATime, Starting,
      Saving, Loaded, Up, Enrolled
  <2>4. CopiesCovered'
    BY <1>11 DEF CopiesCovered, FileWhole, SaveCovers, OneAtATime, Alone,
      Starting, Saving, Loaded, Up, Enrolled
  <2>5. SaveCovers'
    BY <1>11 DEF SaveCovers, FileWhole, CopiesCovered, KeysSurvive, OneAtATime,
      Alone, Starting, Saving, Loaded, Up, Enrolled
  <2>6. KeysSurvive'
    BY <1>11 DEF KeysSurvive, SaveCovers, CopiesCovered, FileWhole, Saving,
      Loaded, Up, Enrolled
  <2>7. PepperHeld'
    BY <1>11 DEF PepperHeld, FileWhole, OneAtATime, Alone, Starting, Saving,
      Loaded, Up, Enrolled
  <2> HIDE DEF TypeOK
  <2> QED BY <1>0, <2>2, <2>3, <2>4, <2>5, <2>6, <2>7
<1>12. ASSUME NEW s \in Servers, NEW c \in Customers, Enroll(s, c) PROVE IInv'
  <2> USE DEF Enroll
  <2>2. OneAtATime'
    BY <1>12 DEF OneAtATime, Alone, Starting
  <2>3. FileWhole'
    BY <1>12 DEF FileWhole, CopiesCovered, SaveCovers, OneAtATime, Starting,
      Saving, Loaded, Up, Enrolled
  <2>4. CopiesCovered'
    BY <1>12 DEF CopiesCovered, FileWhole, SaveCovers, OneAtATime, Alone,
      Starting, Saving, Loaded, Up, Enrolled
  <2>5. SaveCovers'
    BY <1>12 DEF SaveCovers, FileWhole, CopiesCovered, KeysSurvive, OneAtATime,
      Alone, Starting, Saving, Loaded, Up, Enrolled
  <2>6. KeysSurvive'
    BY <1>12 DEF KeysSurvive, SaveCovers, CopiesCovered, FileWhole, Saving,
      Loaded, Up, Enrolled
  <2>7. PepperHeld'
    BY <1>12 DEF PepperHeld, FileWhole, OneAtATime, Alone, Starting, Saving,
      Loaded, Up, Enrolled
  <2> HIDE DEF TypeOK
  <2> QED BY <1>0, <2>2, <2>3, <2>4, <2>5, <2>6, <2>7
<1>13. ASSUME NEW s \in Servers, NEW c \in Customers, Rewrap(s, c) PROVE IInv'
  <2> USE DEF Rewrap
  <2>2. OneAtATime'
    BY <1>13 DEF OneAtATime, Alone, Starting
  <2>3. FileWhole'
    BY <1>13 DEF FileWhole, CopiesCovered, SaveCovers, OneAtATime, Starting,
      Saving, Loaded, Up, Enrolled
  <2>4. CopiesCovered'
    BY <1>13 DEF CopiesCovered, FileWhole, SaveCovers, OneAtATime, Alone,
      Starting, Saving, Loaded, Up, Enrolled
  <2>5. SaveCovers'
    BY <1>13 DEF SaveCovers, FileWhole, CopiesCovered, KeysSurvive, OneAtATime,
      Alone, Starting, Saving, Loaded, Up, Enrolled
  <2>6. KeysSurvive'
    BY <1>13 DEF KeysSurvive, SaveCovers, CopiesCovered, FileWhole, Saving,
      Loaded, Up, Enrolled
  <2>7. PepperHeld'
    BY <1>13 DEF PepperHeld, FileWhole, OneAtATime, Alone, Starting, Saving,
      Loaded, Up, Enrolled
  <2> HIDE DEF TypeOK
  <2> QED BY <1>0, <2>2, <2>3, <2>4, <2>5, <2>6, <2>7
<1> HIDE DEF IInv, TypeOK
<1> QED BY <1>1, <1>2, <1>3, <1>4, <1>5, <1>6, <1>7, <1>8, <1>9, <1>10, <1>11,
    <1>12, <1>13
DEF Next

\* A step that changes nothing keeps it too.
LEMMA StutterIInv ==
  ASSUME IInv, UNCHANGED vars
  PROVE  IInv'
BY DEF IInv, vars, TypeOK, OneAtATime, FileWhole, CopiesCovered, SaveCovers,
       KeysSurvive, PepperHeld, Starting, Saving, Loaded, Up, Enrolled

LEMMA InvariantHolds == Faults = {} /\ Spec => []IInv
<1> SUFFICES ASSUME Faults = {} PROVE Spec => []IInv
  OBVIOUS
<1>1. IInv /\ [Next]_vars => IInv'
  BY NextIInv, StutterIInv
<1> QED
  BY <1>1, InitIInv, PTL DEF Spec

(***************************************************************************)
(* A process killed in its first start, in a rotation or in a destruction  *)
(* never takes the key of a profile with it: for every number of           *)
(* processes, customers and keys the file on disk opens every profile.     *)
(***************************************************************************)
THEOREM KeysAreNeverLost == Faults = {} /\ Spec => []KeysSurvive
<1>1. IInv => KeysSurvive
  BY DEF IInv
<1> QED
  BY <1>1, InvariantHolds, PTL

(***************************************************************************)
(* Every running process verifies every credential and searches the shard  *)
(* its customer enrolled in, though the pepper is read at different times. *)
(***************************************************************************)
THEOREM PepperIsNeverSplit == Faults = {} /\ Spec => []PepperIsShared
<1>1. IInv => PepperIsShared
  BY DEF IInv, PepperHeld, PepperIsShared
<1> QED
  BY <1>1, InvariantHolds, PTL
=============================================================================
