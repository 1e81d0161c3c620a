----------------------------- MODULE KeyFiles -----------------------------
(***************************************************************************)
(* The two secrets on disk, and the processes that hold copies of them:    *)
(* the key file (SoftwareKms) and the shard pepper (resolve_pepper), from  *)
(* the first start on, through rotation, destruction and crashes.          *)
(*                                                                         *)
(* A process serves one request at a time; the steps here are those at     *)
(* which it can be killed or another process can come in between.  The     *)
(* profiles are reduced to what ties them to the secrets.                  *)
(***************************************************************************)
EXTENDS Naturals, FiniteSets

CONSTANTS
  Servers,
  Maintainer,    \* the process that rotates, rewraps and destroys
  Customers,
  Keks,          \* bound: KEKs that are ever made
  Peppers,       \* bound: peppers that are ever made
  Faults,        \* what the operator does not rule out: a subset of FaultKinds
  None, Torn,    \* no file; a file written in part
  Empty          \* the pepper of a file that was opened and not written

\* Two processes start or write at once; a process goes on though a write failed;
\* a KEK is destroyed while a process still wraps under it.
FaultKinds == {"overlap", "goesOn", "stale"}

\* What the key file holds.
KeySet == [keks : SUBSET Keks, active : Keks \cup {None}]

ASSUME KeyFilesAssumption ==
  /\ Maintainer \in Servers
  /\ Faults \subseteq FaultKinds
  /\ None \notin Keks \cup Peppers \cup KeySet
  /\ Torn \notin KeySet
  /\ Empty \notin Peppers \cup {None}

VARIABLES
  keystore,      \* keystore.json
  tmp,           \* keystore.tmp
  pepperFile,    \* shard_pepper.key
  server,        \* each process: where it is and what it holds
  profile,       \* each customer: the secrets their rows depend on
  madeKeks, madePeppers   \* history: secrets are random, hence never repeated

vars == <<keystore, tmp, pepperFile, server, profile, madeKeks, madePeppers>>

File == KeySet \cup {None, Torn}
NoKeys == [keks |-> {}, active |-> None]

\* next: where the process goes when the key file is written.
Server ==
  [pc : {"down", "write", "replace", "pepper", "pepperWrite", "up"},
   next : {"pepper", "up"},
   keys : KeySet, pepper : Peppers \cup {None, Empty}]
Down == [pc |-> "down", next |-> "pepper", keys |-> NoKeys, pepper |-> None]

\* kek wraps the data key; hash and shard are keyed with the pepper.
Profile ==
  [kek : Keks, hash : Peppers \cup {Empty}, shard : Peppers \cup {Empty}]

Init ==
  /\ keystore = None
  /\ tmp = None
  /\ pepperFile = None
  /\ server = [s \in Servers |-> Down]
  /\ profile = [c \in Customers |-> None]
  /\ madeKeks = {}
  /\ madePeppers = {}

Up(s) == server[s].pc = "up"
Starting(s) == server[s].pc \notin {"down", "up"}
Enrolled == {c \in Customers : profile[c] # None}

\* Nobody else is starting or writing.
Alone(s) ==
  \A t \in Servers \ {s} : Starting(t) => "overlap" \in Faults

-----------------------------------------------------------------------------
(***************************************************************************)
(* SoftwareKms._load_or_initialise; a torn file cannot be loaded.          *)
(***************************************************************************)
Load(s) ==
  /\ server[s].pc = "down"
  /\ Alone(s)
  /\ keystore \in KeySet
  /\ keystore.active \in keystore.keks
  /\ server' = [server EXCEPT ![s].pc = "pepper", ![s].keys = keystore]
  /\ UNCHANGED <<keystore, tmp, pepperFile, profile, madeKeks, madePeppers>>

Initialise(s) ==
  /\ server[s].pc = "down"
  /\ Alone(s)
  /\ keystore = None
  /\ \E k \in Keks \ madeKeks :
       /\ server' = [server EXCEPT ![s].pc = "write", ![s].next = "pepper",
                       ![s].keys = [keks |-> {k}, active |-> k]]
       /\ madeKeks' = madeKeks \cup {k}
  /\ UNCHANGED <<keystore, tmp, pepperFile, profile, madePeppers>>

(***************************************************************************)
(* SoftwareKms._save: the file is written under another name and renamed.  *)
(***************************************************************************)
WriteTmp(s) ==
  /\ server[s].pc = "write"
  /\ tmp' = server[s].keys
  /\ server' = [server EXCEPT ![s].pc = "replace"]
  /\ UNCHANGED <<keystore, pepperFile, profile, madeKeks, madePeppers>>

Replace(s) ==
  /\ server[s].pc = "replace"
  /\ tmp # None
  /\ keystore' = tmp
  /\ tmp' = None
  /\ server' = [server EXCEPT ![s].pc = server[s].next]
  /\ UNCHANGED <<pepperFile, profile, madeKeks, madePeppers>>

\* The call raises and the process ends, unless its caller goes on with what it
\* holds in memory.
SaveFails(s) ==
  /\ server[s].pc \in {"write", "replace"}
  /\ tmp' \in {tmp, Torn}
  /\ \/ server' = [server EXCEPT ![s] = Down]
     \/ /\ "goesOn" \in Faults /\ server[s].next = "up"
        /\ server' = [server EXCEPT ![s].pc = "up"]
  /\ UNCHANGED <<keystore, pepperFile, profile, madeKeks, madePeppers>>

(***************************************************************************)
(* Settings.resolve_pepper, called while the services are built.           *)
(***************************************************************************)
ReadPepper(s) ==
  /\ server[s].pc = "pepper"
  /\ pepperFile # None
  /\ server' = [server EXCEPT ![s].pc = "up", ![s].next = "up",
                              ![s].pepper = pepperFile]
  /\ UNCHANGED <<keystore, tmp, pepperFile, profile, madeKeks, madePeppers>>

MakePepper(s) ==
  /\ server[s].pc = "pepper"
  /\ pepperFile = None
  /\ \E p \in Peppers \ madePeppers :
       /\ server' = [server EXCEPT ![s].pc = "pepperWrite", ![s].pepper = p]
       /\ madePeppers' = madePeppers \cup {p}
  /\ UNCHANGED <<keystore, tmp, pepperFile, profile, madeKeks>>

\* A slip: the pepper is used and never written.
KeepPepperInMemory(s) ==
  /\ server[s].pc = "pepperWrite"
  /\ server' = [server EXCEPT ![s].pc = "up", ![s].next = "up"]
  /\ UNCHANGED <<keystore, tmp, pepperFile, profile, madeKeks, madePeppers>>

WritePepper(s) ==
  /\ server[s].pc = "pepperWrite"
  /\ pepperFile' = server[s].pepper
  /\ server' = [server EXCEPT ![s].pc = "up", ![s].next = "up"]
  /\ UNCHANGED <<keystore, tmp, profile, madeKeks, madePeppers>>

(***************************************************************************)
(* Killed at any point; a file being written is left as it is.             *)
(***************************************************************************)
TornFile == tmp' \in {tmp, Torn} /\ UNCHANGED keystore

Crash(s) ==
  /\ server[s].pc # "down"
  /\ server' = [server EXCEPT ![s] = Down]
  /\ IF server[s].pc = "write" THEN TornFile ELSE UNCHANGED <<keystore, tmp>>
  /\ IF server[s].pc = "pepperWrite"
     THEN pepperFile' \in {pepperFile, Empty}
     ELSE UNCHANGED pepperFile
  /\ UNCHANGED <<profile, madeKeks, madePeppers>>

-----------------------------------------------------------------------------
(***************************************************************************)
(* What uses the secrets.  CredentialService holds the pepper it was built *)
(* with; shard keys are made with the pepper of the file.                  *)
(***************************************************************************)
Enroll(s, c) ==
  /\ Up(s)
  /\ profile[c] = None
  /\ pepperFile # None
  /\ profile' = [profile EXCEPT ![c] =
       [kek |-> server[s].keys.active, hash |-> server[s].pepper,
        shard |-> pepperFile]]
  /\ UNCHANGED <<keystore, tmp, pepperFile, server, madeKeks, madePeppers>>

Rewrap(s, c) ==
  /\ s = Maintainer
  /\ Up(s)
  /\ c \in Enrolled
  /\ profile[c].kek \in server[s].keys.keks
  /\ profile[c].kek # server[s].keys.active
  /\ profile' = [profile EXCEPT ![c].kek = server[s].keys.active]
  /\ UNCHANGED <<keystore, tmp, pepperFile, server, madeKeks, madePeppers>>

\* A slip: the retired KEKs are not kept.
RotateForgetting(s) ==
  /\ s = Maintainer
  /\ Up(s)
  /\ Alone(s)
  /\ \E k \in Keks \ madeKeks :
       /\ server' = [server EXCEPT ![s].pc = "write", ![s].next = "up",
                       ![s].keys = [keks |-> {k}, active |-> k]]
       /\ madeKeks' = madeKeks \cup {k}
  /\ UNCHANGED <<keystore, tmp, pepperFile, profile, madePeppers>>

Rotate(s) ==
  /\ s = Maintainer
  /\ Up(s)
  /\ Alone(s)
  /\ \E k \in Keks \ madeKeks :
       /\ server' = [server EXCEPT ![s].pc = "write", ![s].next = "up",
                       ![s].keys = [keks |-> server[s].keys.keks \cup {k},
                                     active |-> k]]
       /\ madeKeks' = madeKeks \cup {k}
  /\ UNCHANGED <<keystore, tmp, pepperFile, profile, madePeppers>>

\* Not under a profile (retired_keks), nor, if the operator restarted them
\* after the rotation, what a running process wraps under.
Destroyable(s, k) ==
  /\ k \in server[s].keys.keks
  /\ k # server[s].keys.active
  /\ \A c \in Enrolled : profile[c].kek # k
  /\ \A t \in Servers :
       server[t].pc # "down" /\ server[t].keys.active = k => "stale" \in Faults

Destroy(s, k) ==
  /\ s = Maintainer
  /\ Up(s)
  /\ Alone(s)
  /\ Destroyable(s, k)
  /\ server' = [server EXCEPT ![s].pc = "write", ![s].next = "up",
                              ![s].keys.keks = @ \ {k}]
  /\ UNCHANGED <<keystore, tmp, pepperFile, profile, madeKeks, madePeppers>>

Next ==
  \E s \in Servers :
    \/ Load(s) \/ Initialise(s) \/ WriteTmp(s) \/ Replace(s) \/ SaveFails(s)
    \/ ReadPepper(s) \/ MakePepper(s) \/ WritePepper(s) \/ Crash(s)
    \/ Rotate(s)
    \/ \E k \in Keks : Destroy(s, k)
    \/ \E c \in Customers : Enroll(s, c) \/ Rewrap(s, c)

Spec == Init /\ [][Next]_vars

-----------------------------------------------------------------------------
TypeOK ==
  /\ keystore \in File
  /\ tmp \in File
  /\ pepperFile \in Peppers \cup {None, Empty}
  /\ server \in [Servers -> Server]
  /\ profile \in [Customers -> Profile \cup {None}]
  /\ madeKeks \subseteq Keks
  /\ madePeppers \subseteq Peppers

(***************************************************************************)
(* "Existing wrapped DEKs stay readable" (rotate_kek): at every moment the *)
(* key file holds the KEK of every profile, so that a process started now  *)
(* can open them all, wherever the one before it was killed.               *)
(***************************************************************************)
KeysSurvive ==
  \A c \in Enrolled : keystore \in KeySet /\ profile[c].kek \in keystore.keks

(***************************************************************************)
(* A credential verifies in every running process and a pay code leads to  *)
(* the shard its owner enrolled in, after crashes in the first start too.  *)
(***************************************************************************)
PepperIsShared ==
  \A c \in Enrolled :
    /\ pepperFile = profile[c].shard
    /\ \A s \in Servers : Up(s) => server[s].pepper = profile[c].hash
=============================================================================
