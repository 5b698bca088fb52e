------------------------------ MODULE Session ------------------------------
(***************************************************************************)
(* Sessions of a user over the storage of a browser: registering, linking, *)
(* restoring, recovering and destroying them (src/src/session.ts,          *)
(* src/src/index.ts, src/src/filesystem.ts, src/src/repository.ts and the  *)
(* auth components base.ts, wnfs.ts and fission-base.ts), in several tabs  *)
(* that may be closed at any await.                                        *)
(*                                                                         *)
(* A tab keeps the repositories of UCANs and CIDs in memory, reads them    *)
(* when it opens and writes each as a whole.  Calls that change storage in *)
(* several steps are given by the list of their writes: the action Write   *)
(* makes the next one.  Keys, DIDs and versions of file systems are        *)
(* numbers; a UCAN has an audience, the DID that its chain of proofs began *)
(* with, and an expiry.  The keystore and the storage component share one  *)
(* database.                                                               *)
(*                                                                         *)
(* Left out: sessions by capabilities (module Capabilities); what happens  *)
(* inside of a file system (modules FileSystem, Publishing).               *)
(***************************************************************************)
EXTENDS Naturals, Sequences, SequencesExt, FiniteSets

CONSTANTS
  Tabs,         \* tabs of one browser
  Users,        \* user names
  Abroad,       \* the user who has an account and a file system on another device
  Legacies,     \* possible users of an older program on this device (None: there was none)
  MaxCalls,     \* bound: number of calls by the app
  MaxOpens,     \* bound: how often a tab is opened
  MaxUpgrades,  \* bound: how often the program gets a new version
  None

(* Times are in millions of seconds, Date.now() in milliseconds. *)
Now == 1700
DateNow == Now * 1000
ThousandYears == 31104
Week == 1

(* A UCAN, a version of a file system, and what is kept of a session. *)
Ucan == [rsc : {"*"}, aud : Nat, exp : (Now + 1)..(Now + ThousandYears), root : Nat]
Version == [key : Nat, n : Nat]
Info == [type : {"webCrypto"}, user : Users]

(* What a tab does in several writes. *)
Tasks == {"migrate", "session", "load", "register", "link", "recover", "publish", "destroy"}

ASSUME SessionAssumption ==
  /\ Abroad \in Users /\ Legacies \subseteq (Users \ {Abroad}) \union {None}
  /\ MaxCalls \in Nat /\ MaxOpens \in Nat /\ MaxUpgrades \in Nat
  /\ None \notin Users \union Nat \union Tasks \union Ucan \union Version \union Info
                 \union Seq(Ucan) \union Seq(Version)

VARIABLES
  legacy,   \* the user in the databases that an older program has left, or None
  store,    \* storage: account UCAN, session, UCANs, CID log, migrated version
  keys,     \* keystore: the write key, and a read key for each account DID
  account,  \* server: the DID of each account
  root,     \* server: the data root of each account, None when empty
  tab,      \* the tabs
  fresh,    \* the last number given to a key or a version
  version,  \* version of the program
  calls, opens,
  harm      \* history: what has happened that the code has no answer to

vars == <<legacy, store, keys, account, root, tab, fresh, version, calls, opens, harm>>

ForeignDID == 1   \* another device of Abroad
LegacyDID == 2    \* the write key that the older program left
ForeignRoot == [key |-> ForeignDID, n |-> 0]

-----------------------------------------------------------------------------
(* UCANs. *)
(* Mutant: the proof is forgotten. *)
BuildUnproved(agent, proof) ==
  [rsc |-> "*", aud |-> agent, exp |-> Now + ThousandYears, root |-> agent]

(* A file system UCAN, by the agent for the agent, with a proof or none. *)
BuildUcan(agent, proof) ==
  [rsc |-> "*", aud |-> agent,
   exp |-> IF proof = None \/ proof.exp > Now + ThousandYears THEN Now + ThousandYears ELSE proof.exp,
   root |-> IF proof = None THEN agent ELSE proof.root]

(* The account UCAN that a device of the account delegates. *)
Delegated(did, audience) == [rsc |-> "*", aud |-> audience, exp |-> Now + ThousandYears, root |-> did]

HasSelfAuthorisedFsUcan(ucans) ==
  \E u \in Range(ucans) : ~(u.exp < DateNow + Week) /\ u.rsc = "*"

(* toDictionary keeps the last UCAN of a resource. *)
GetByKey(ucans, rsc) ==
  LET those == {i \in DOMAIN ucans : ucans[i].rsc = rsc}
  IN IF those = {} THEN None ELSE ucans[Max(those)]

LookupFilesystemUcan(ucans) == GetByKey(ucans, "*")

-----------------------------------------------------------------------------
(* Writes. *)
Set(name, value) == [to |-> name, value |-> value]
StoreKey(did, key) == [to |-> "key", did |-> did, value |-> key]
Add(repo, item) == [to |-> "add", repo |-> repo, value |-> item]
ClearStore == [to |-> "clear"]
Update(user, value) == [to |-> "root", user |-> user, value |-> value]

Provide(type, user) == Set("session", [type |-> type, user |-> user])

Blank == [ucan |-> None, session |-> None, ucans |-> None, log |-> None, migrated |-> 0]
NoKeys == [agent |-> None, read |-> [d \in {} |-> None]]
Items(stored) == IF stored = None THEN << >> ELSE stored

Closed == [pc |-> "closed", task |-> None, writes |-> << >>, ucans |-> << >>, log |-> << >>,
           user |-> None, session |-> None, fs |-> None, load |-> None]

Init ==
  /\ legacy \in Legacies
  /\ store = Blank /\ keys = NoKeys
  /\ account = [u \in Users |-> CASE u = Abroad -> ForeignDID [] u = legacy -> LegacyDID [] OTHER -> None]
  /\ root = [u \in Users |-> CASE u = Abroad -> ForeignRoot
                                [] u = legacy -> [key |-> LegacyDID, n |-> 0]
                                [] OTHER -> None]
  /\ tab = [t \in Tabs |-> Closed]
  /\ fresh = LegacyDID /\ version = 1 /\ calls = 0 /\ opens = 0 /\ harm = {}

Become(t, tb) == tab' = [tab EXCEPT ![t] = tb]
Idle(tb) == [tb EXCEPT !.pc = "idle", !.task = None, !.writes = << >>, !.user = None, !.load = None]
Running(t, task, writes) ==
  Become(t, [tab[t] EXCEPT !.pc = "writes", !.task = task, !.writes = writes])

(* Those calls whose writes are of use only together. *)
Delicate(t) == tab[t].task \in {"link", "recover", "destroy"}

Others(t) == {s \in Tabs \ {t} : tab[s].pc # "closed"}

(* The app calls: another open tab is not told what this one changes. *)
Server == UNCHANGED <<legacy, account, root, version>>
AppCalls(t) ==
  /\ tab[t].pc = "idle" /\ calls < MaxCalls /\ calls' = calls + 1
Alters(t) == harm' = IF Others(t) = {} THEN harm ELSE harm \union {"tabs"}

-----------------------------------------------------------------------------
(* Opening.  RSAKeyStore.init makes the keys that are not there. *)
Open(t) ==
  /\ tab[t].pc = "closed" /\ opens < MaxOpens /\ opens' = opens + 1
  /\ IF keys.agent = None THEN fresh' = fresh + 1 /\ keys' = [keys EXCEPT !.agent = fresh']
     ELSE UNCHANGED <<fresh, keys>>
  /\ Become(t, [Closed EXCEPT !.pc = "migrate", !.ucans = Items(store.ucans), !.log = Items(store.log)])
  /\ harm' = IF \E s \in Tabs : Delicate(s) THEN harm \union {"tabs"} ELSE harm
  /\ Server /\ UNCHANGED <<store, calls>>

(* Mutant: the session is stored before the keys. *)
MigrationTurned(user) ==
  <<Provide("webCrypto", user), Set("agent", LegacyDID), StoreKey(LegacyDID, LegacyDID)>>

(* What is taken over from the old databases, which stay as they are. *)
Migration(user) ==
  <<Set("agent", LegacyDID), StoreKey(LegacyDID, LegacyDID), Provide("webCrypto", user)>>

(* The old databases are looked into, and never made. *)
Inherited == IF legacy = None THEN << >> ELSE Migration(legacy)

(* ensureBackwardsCompatibility, once for each version. *)
Migrate(t) ==
  /\ tab[t].pc = "migrate"
  /\ IF store.migrated >= version THEN Become(t, [tab[t] EXCEPT !.pc = "restore"]) /\ UNCHANGED harm
     ELSE /\ Running(t, "migrate",
               Inherited \o <<Set("migrated", version)>>)
          /\ harm' = IF legacy # None /\ (Others(t) # {} \/ store.ucan # None
                          \/ store.session \notin {None, Provide("webCrypto", legacy).value})
                     THEN harm \union {"upgrade"} ELSE harm
  /\ Server /\ UNCHANGED <<store, keys, fresh, calls, opens>>

(* What assemble and auth.session() find in storage. *)
SessionInfo == store.session

(* assemble restores a session if there is one; auth.session() does too.   *)
Restore(t) ==
  /\ tab[t].pc = "restore" \/ (tab[t].session = None /\ AppCalls(t))
  /\ tab[t].pc = "restore" => UNCHANGED calls
  /\ IF SessionInfo = None THEN Become(t, Idle(tab[t]))
     ELSE Become(t, [tab[t] EXCEPT !.pc = "session", !.user = SessionInfo.user])
  /\ Server /\ UNCHANGED <<store, keys, fresh, opens, harm>>

(* wnfs.session: the agent authorises itself. *)
SelfAuthorise(t) ==
  /\ tab[t].pc = "session"
  /\ IF HasSelfAuthorisedFsUcan(tab[t].ucans) THEN Running(t, "session", << >>)
     ELSE IF keys.agent = None THEN Become(t, Idle(tab[t]))
     ELSE Running(t, "session", <<Add("ucans", BuildUcan(keys.agent, store.ucan))>>)
  /\ Server /\ UNCHANGED <<store, keys, fresh, calls, opens, harm>>

(* The server is asked for a data root; DNS never is. *)
LookupRoot(user) == root[user]

(* The version to load: the data root's, unless the log has a newer one. *)
Chosen(log, dataCid) ==
  CASE dataCid = None -> IF log = << >> THEN None ELSE Last(log)
    [] dataCid \in Range(log) -> Last(log)
    [] OTHER -> dataCid

IsNewer(log, dataCid) == dataCid # None /\ log # << >> /\ dataCid \notin Range(log)

LoadFileSystem(t) ==
  /\ tab[t].pc = "load"
  /\ LET dataCid == LookupRoot(tab[t].user)
         logged == IsNewer(tab[t].log, dataCid)
     IN /\ Become(t, [tab[t] EXCEPT !.load = Chosen(tab[t].log, dataCid),
                        !.pc = IF logged THEN "writes" ELSE "open",
                        !.task = IF logged THEN "load" ELSE @,
                        !.writes = IF logged THEN <<Add("log", dataCid)>> ELSE @])
  /\ Server /\ UNCHANGED <<store, keys, fresh, calls, opens, harm>>

(* Offline, the data root is out of reach after all retries, or its version *)
(* is not supported: the session is not made.                               *)
LoadFails(t) ==
  /\ tab[t].pc = "load"
  /\ Become(t, Idle(tab[t]))
  /\ Server /\ UNCHANGED <<store, keys, fresh, calls, opens, harm>>

(* The DID of an account, as it stands in DNS. *)
LookupDid(user) == account[user]
Did(t) == LookupDid(tab[t].user)

HasKey(did) == did \in DOMAIN keys.read
RetrieveKey(did) == keys.read[did]

(* new Session. *)
Made(t, fs) == Become(t, [Idle(tab[t]) EXCEPT !.session = tab[t].user, !.fs = fs])

(* Mutant: the session is made all the same. *)
OpenedAnyway(t, v) == Made(t, IF HasKey(Did(t)) THEN v.key ELSE None)

(* FileSystem.fromCID throws if the key is missing or of something else. *)
Opened(t, v) ==
  IF HasKey(Did(t)) /\ RetrieveKey(Did(t)) = v.key
  THEN Made(t, v.key)
  ELSE Become(t, Idle(tab[t]))

OpenExisting(t) ==
  /\ tab[t].pc = "open" /\ tab[t].load # None
  /\ Opened(t, tab[t].load)
  /\ Server /\ UNCHANGED <<store, keys, fresh, calls, opens, harm>>

InUse(user) ==
  \/ root[user] # None \/ store.log # None
  \/ \E s \in Tabs : tab[s].session = user

WithKey(did, key) == [d \in DOMAIN keys.read \union {did} |-> IF d = did THEN key ELSE keys.read[d]]

(* FileSystem.empty stores the key it has generated. *)
MakeNew(t) ==
  /\ tab[t].pc = "open" /\ tab[t].load = None
  /\ fresh' = fresh + 1
  /\ keys' = [keys EXCEPT !.read = WithKey(Did(t), fresh')]
  /\ Made(t, fresh')
  /\ harm' = IF InUse(tab[t].user) THEN harm \union {"twice"} ELSE harm
  /\ Server /\ UNCHANGED <<store, calls, opens>>

-----------------------------------------------------------------------------
(* The server makes an account for the DID that asks, if the name and the  *)
(* DID have none.                                                          *)
CreateAccount(user) ==
  /\ keys.agent # None /\ account[user] = None /\ keys.agent \notin Range(account)
  /\ account' = [account EXCEPT ![user] = keys.agent]

(* Calls of the app. *)
Register(t, user) ==
  /\ AppCalls(t) /\ Alters(t)
  /\ tab[t].session = None /\ store.session = None
  /\ CreateAccount(user)
  /\ Running(t, "register", <<Provide("webCrypto", user)>>)
  /\ UNCHANGED <<legacy, store, keys, root, fresh, version, opens>>

(* Mutant: the UCAN that was delegated is not kept. *)
LinkDeviceBriefly(user, ucan, key, agent) ==
  <<StoreKey(ucan.root, key), Add("ucans", BuildUcan(agent, ucan)), Provide("webCrypto", user)>>

(* linkDevice, with the read key and the UCAN of another device. *)
LinkDevice(user, ucan, key, agent) ==
  <<Set("ucan", ucan), StoreKey(ucan.root, key), Add("ucans", BuildUcan(agent, ucan)),
    Provide("webCrypto", user)>>

Link(t) ==
  /\ AppCalls(t) /\ Alters(t)
  /\ tab[t].session = None /\ store.session = None /\ keys.agent # None
  /\ LET ucan == Delegated(account[Abroad], keys.agent)
     IN Running(t, "link", LinkDevice(Abroad, ucan, root[Abroad].key, keys.agent))
  /\ Server /\ UNCHANGED <<store, keys, fresh, opens>>

(* recoverFileSystem: another account's file system under a new user name. *)
Recover(t, old, new) ==
  /\ AppCalls(t) /\ Alters(t)
  /\ tab[t].session = None /\ store.session = None
  /\ CreateAccount(new)
  /\ LET rootCID == LookupRoot(old)
     IN Running(t, "recover",
          <<Provide("webCrypto", new)>>
          \o IF rootCID = None THEN << >>
             ELSE <<Update(new, rootCID), StoreKey(keys.agent, rootCID.key)>>)
  /\ UNCHANGED <<legacy, store, keys, root, fresh, version, opens>>

(* A change to the file system is published: logged, then the data root.   *)
(* The server takes a UCAN of this agent that goes back to the account.    *)
Publish(t) ==
  /\ AppCalls(t) /\ tab[t].fs # None
  /\ LET u == LookupFilesystemUcan(tab[t].ucans)
         v == [key |-> tab[t].fs, n |-> fresh + 1]
     IN /\ u # None
        /\ Running(t, "publish",
             <<Add("log", v)>>
             \o IF u.aud = keys.agent /\ u.root = account[tab[t].session]
                THEN <<Update(tab[t].session, v)>> ELSE << >>)
  /\ fresh' = fresh + 1
  /\ Server /\ UNCHANGED <<store, keys, opens, harm>>

Destroy(t) ==
  /\ AppCalls(t) /\ Alters(t) /\ tab[t].session # None
  /\ Running(t, "destroy",
       <<Set("ucan", None), Set("log", None), Set("session", None), Set("ucans", None), ClearStore>>)
  /\ Server /\ UNCHANGED <<store, keys, fresh, opens>>

-----------------------------------------------------------------------------
(* Repository.add: the whole of what is in memory is written. *)
WholeCache(t, w) == Append(tab[t][w.repo], w.value)

(* The next write of what a tab does. *)
Write(t) ==
  /\ tab[t].pc = "writes" /\ tab[t].writes # << >>
  /\ LET w == Head(tab[t].writes)
         next == [tab[t] EXCEPT !.writes = Tail(@)]
     IN CASE w.to = "add" ->
               /\ store' = [store EXCEPT ![w.repo] = WholeCache(t, w)]
               /\ Become(t, [next EXCEPT ![w.repo] = WholeCache(t, w)])
               /\ UNCHANGED <<keys, root>>
          [] w.to = "key" ->
               /\ keys' = [keys EXCEPT !.read = WithKey(w.did, w.value)]
               /\ Become(t, next) /\ UNCHANGED <<store, root>>
          [] w.to = "agent" ->
               /\ keys' = [keys EXCEPT !.agent = w.value]
               /\ Become(t, next) /\ UNCHANGED <<store, root>>
          [] w.to = "clear" ->
               /\ keys' = NoKeys /\ store' = Blank
               /\ Become(t, next) /\ UNCHANGED root
          [] w.to = "root" ->
               /\ root' = [root EXCEPT ![w.user] = w.value]
               /\ Become(t, next) /\ UNCHANGED <<store, keys>>
          [] OTHER ->
               /\ store' = [store EXCEPT ![w.to] = w.value]
               /\ Become(t, next) /\ UNCHANGED <<keys, root>>
  /\ UNCHANGED <<legacy, account, fresh, version, calls, opens, harm>>

(* All is written. *)
Written(t) ==
  /\ tab[t].pc = "writes" /\ tab[t].writes = << >>
  /\ Become(t, CASE tab[t].task = "migrate" -> [tab[t] EXCEPT !.pc = "restore", !.task = None]
                 [] tab[t].task = "session" -> [tab[t] EXCEPT !.pc = "load", !.task = None]
                 [] tab[t].task = "load" -> [tab[t] EXCEPT !.pc = "open", !.task = None]
                 [] tab[t].task = "destroy" -> [Idle(tab[t]) EXCEPT !.session = None, !.fs = None]
                 [] OTHER -> Idle(tab[t]))
  /\ harm' = IF tab[t].task = "destroy" THEN harm \ {"cut"} ELSE harm
  /\ Server /\ UNCHANGED <<store, keys, fresh, calls, opens>>

(* The tab is closed, whatever it does. *)
Close(t) ==
  /\ tab[t].pc # "closed"
  /\ Become(t, Closed)
  /\ harm' = IF Delicate(t) THEN harm \union {"cut"} ELSE harm
  /\ Server /\ UNCHANGED <<store, keys, fresh, calls, opens>>

(* The program is released anew, for tabs that open from now on. *)
Upgrade ==
  /\ version <= MaxUpgrades /\ version' = version + 1
  /\ \A t \in Tabs : tab[t].pc = "closed"
  /\ UNCHANGED <<legacy, store, keys, account, root, tab, fresh, calls, opens, harm>>

Next ==
  \/ \E t \in Tabs :
       \/ Open(t) \/ Migrate(t) \/ Restore(t) \/ SelfAuthorise(t)
       \/ LoadFileSystem(t) \/ LoadFails(t) \/ OpenExisting(t) \/ MakeNew(t)
       \/ Link(t) \/ Publish(t) \/ Destroy(t)
       \/ \E user \in Users : Register(t, user) \/ Recover(t, Abroad, user)
       \/ Write(t) \/ Written(t) \/ Close(t)
  \/ Upgrade

Spec == Init /\ [][Next]_vars

-----------------------------------------------------------------------------
(* Every variable has its type; a tab with a file system has a session. *)
TypeOK ==
  /\ store.session \in [type : {"webCrypto"}, user : Users] \union {None}
  /\ store.migrated \in 0..version /\ version \in 1..(MaxUpgrades + 1)
  /\ keys.agent \in 1..fresh \union {None} /\ Range(keys.read) \subseteq 1..fresh
  /\ \A u \in Users : account[u] \in 1..fresh \union {None}
  /\ \A t \in Tabs :
       /\ tab[t].pc \in {"closed", "migrate", "restore", "session", "writes", "load", "open", "idle"}
       /\ (tab[t].fs # None) = (tab[t].session # None)
       /\ tab[t].session # None => account[tab[t].session] # None
       /\ tab[t].writes # << >> => tab[t].pc = "writes"
       /\ tab[t].pc = "open" => tab[t].user # None
       /\ \A u \in Range(tab[t].ucans) : u.exp > Now
  /\ calls \in 0..MaxCalls /\ opens \in 0..MaxOpens

Midway == \E t \in Tabs : Delicate(t) \/ tab[t].task = "migrate"
Calm == harm = {} /\ ~Midway

(* Closed at whatever moment, the page opens again: the version that would  *)
(* then be loaded for the stored session can be read with the key that is   *)
(* stored for its account (wnfs.session, loadFileSystem, RootKey.store,     *)
(* ensureBackwardsCompatibility).                                           *)
StoredSessionLoads ==
  Calm /\ store.session # None =>
    LET user == store.session.user
        v == Chosen(Items(store.log), root[user])
    IN v # None => HasKey(account[user]) /\ keys.read[account[user]] = v.key

(* The UCAN that a file system finds for its changes is by this device and  *)
(* goes back to the account of its session, whatever was in the repository  *)
(* before (wnfs.session, Repo.lookupFilesystemUcan).                        *)
UcanOfSession ==
  Calm => \A t \in Tabs : tab[t].session # None =>
    LET u == LookupFilesystemUcan(tab[t].ucans)
    IN u # None /\ u.aud = keys.agent /\ u.root = account[tab[t].session]

(* canDelegateAccount, on this device. *)
RootIssuer == IF store.ucan = None THEN keys.agent ELSE store.ucan.root
CanDelegateAccount(user) == HasKey(account[user]) /\ account[user] = RootIssuer

(* A device with a session can link others to its account, and what it      *)
(* hands them is the key that its own file system is read with              *)
(* (wnfs.canDelegateAccount, wnfs.delegateAccount).                         *)
SessionCanDelegate ==
  Calm => \A t \in Tabs : tab[t].session # None =>
    CanDelegateAccount(tab[t].session) /\ keys.read[account[tab[t].session]] = tab[t].fs
=============================================================================
