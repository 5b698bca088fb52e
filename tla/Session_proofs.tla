--------------------------- MODULE Session_proofs ---------------------------
(***************************************************************************)
(* Proofs about Session, for any number of tabs, users, calls, openings    *)
(* and releases of the program: the types, that the stored session can be  *)
(* loaded, that the UCAN for its changes is this device's, and that it can *)
(* link other devices.                                                     *)
(***************************************************************************)
EXTENDS Session, FiniteSetTheorems, TLAPS

-----------------------------------------------------------------------------
(* THE INVARIANT *)
Steps == {"closed", "migrate", "restore", "session", "writes", "load", "open", "idle"}

(* The fields of a tab. *)
IsTab(tb) ==
  tb = [pc |-> tb.pc, task |-> tb.task, writes |-> tb.writes, ucans |-> tb.ucans, log |-> tb.log,
        user |-> tb.user, session |-> tb.session, fs |-> tb.fs, load |-> tb.load]

(* The writes there are. *)
WriteRecord ==
  [to : {"clear"}] \union [to : {"ucan"}, value : Ucan \union {None}]
  \union [to : {"session"}, value : Info \union {None}] \union [to : {"log", "ucans"}, value : {None}]
  \union [to : {"migrated", "agent"}, value : Nat] \union [to : {"key"}, did : Nat, value : Nat]
  \union [to : {"add"}, repo : {"ucans"}, value : Ucan]
  \union [to : {"add"}, repo : {"log"}, value : Version]
  \union [to : {"root"}, user : Users, value : Version]

(* Two users have a key that never changes. *)
KeyFits(user, key) == (user = Abroad => key = ForeignDID) /\ (user = legacy => key = LegacyDID)
HasAccount(user) == account[user] # None

GoodWrite(w) ==
  CASE w.to = "session" -> w.value # None => HasAccount(w.value.user)
    [] w.to = "migrated" -> w.value \in 1..version
    [] w.to = "agent" -> w.value = LegacyDID /\ legacy # None
    [] w.to = "key" -> w.did \in 1..fresh /\ w.value = IF w.did = LegacyDID THEN LegacyDID ELSE ForeignDID
    [] w.to = "root" -> HasAccount(w.user) /\ KeyFits(w.user, w.value.key)
    [] OTHER -> TRUE

(* A tab that is about to make a session. *)
Starts(tb) == tb.pc \in {"session", "load", "open"} \/ tb.task \in {"session", "load"}
Opening(tb) == tb.pc = "open" \/ tb.task = "load"

TabTyped(tb) ==
  /\ IsTab(tb) /\ tb.pc \in Steps
  /\ tb.task \in Tasks \union {None} /\ ((tb.pc = "writes") <=> (tb.task # None))
  /\ tb.writes \in Seq(WriteRecord) /\ (tb.pc # "writes" => tb.writes = << >>)
  /\ \A i \in DOMAIN tb.writes : GoodWrite(tb.writes[i])
  /\ tb.ucans \in Seq(Ucan) /\ tb.log \in Seq(Version)
  /\ IF tb.session = None THEN tb.fs = None
     ELSE tb.session \in Users /\ HasAccount(tb.session) /\ tb.fs \in Nat /\ KeyFits(tb.session, tb.fs)
  /\ tb.session # None => tb.pc = "idle" \/ (tb.pc = "writes" /\ tb.task \in {"publish", "destroy"})
  /\ Starts(tb) => tb.user \in Users /\ HasAccount(tb.user)
  /\ Opening(tb) => tb.load \in Version \union {None} /\ (tb.user \in {Abroad, legacy} => tb.load # None)
  /\ tb.pc = "closed" => tb = Closed

IsStore ==
  /\ store = [ucan |-> store.ucan, session |-> store.session, ucans |-> store.ucans,
              log |-> store.log, migrated |-> store.migrated]
  /\ store.ucan \in Ucan \union {None}
  /\ store.session \in Info \union {None}
  /\ store.session # None => HasAccount(store.session.user)
  /\ store.ucans \in Seq(Ucan) \union {None} /\ store.log \in Seq(Version) \union {None}
  /\ store.migrated \in 0..version

IsKeys ==
  /\ keys = [agent |-> keys.agent, read |-> keys.read]
  /\ keys.read = [d \in DOMAIN keys.read |-> keys.read[d]]
  /\ keys.agent # None => keys.agent \in 3..fresh \/ (legacy # None /\ keys.agent = LegacyDID)
  /\ \A d \in DOMAIN keys.read :
       /\ d \in 1..fresh /\ keys.read[d] \in 1..fresh
       /\ d \in {ForeignDID, LegacyDID} => keys.read[d] = d

IsServer ==
  /\ account = [u \in Users |-> account[u]]
  /\ account[Abroad] = ForeignDID /\ (legacy # None => account[legacy] = LegacyDID)
  /\ \A u \in Users \ {Abroad, legacy} : HasAccount(u) => account[u] \in 3..fresh
  /\ root = [u \in Users |-> root[u]]
  /\ \A u \in Users : root[u] # None => root[u] \in Version /\ HasAccount(u) /\ KeyFits(u, root[u].key)
  /\ root[Abroad] # None /\ (legacy # None => root[legacy] # None)

Typed ==
  /\ legacy \in Legacies /\ version \in 1..(MaxUpgrades + 1)
  /\ calls \in 0..MaxCalls /\ opens \in 0..MaxOpens
  /\ fresh \in Nat /\ fresh >= LegacyDID
  /\ IsStore /\ IsKeys /\ IsServer
  /\ tab = [t \in Tabs |-> tab[t]]
  /\ \A t \in Tabs : TabTyped(tab[t])

-----------------------------------------------------------------------------
Owner == IF store.session = None THEN None ELSE store.session.user
HasRead(user, key) == HasKey(account[user]) /\ RetrieveKey(account[user]) = key
Good(u, user) == u.aud = keys.agent /\ u.root = account[user]
GoodLast(list, user) == list # << >> /\ Good(Last(list), user)

(* The lists of writes of the delicate tasks, and how far each has come. *)
Wiping == <<Set("ucan", None), Set("log", None), Set("session", None), Set("ucans", None), ClearStore>>
Wipes(tb) ==
  \/ tb.writes \in {Wiping, Tail(Wiping), Tail(Tail(Wiping)), Tail(Tail(Tail(Wiping))),
                    Tail(Tail(Tail(Tail(Wiping))))}
  \/ tb.writes = << >> /\ store = Blank /\ keys = NoKeys

Inheriting(tb) == tb.task = "migrate" /\ tb.writes # << >> /\ legacy # None
Inheritance == <<Set("agent", LegacyDID), StoreKey(LegacyDID, LegacyDID), Provide("webCrypto", legacy),
                 Set("migrated", version)>>
Inherits(tb) ==
  /\ store.migrated < version /\ store.ucan = None /\ Owner \in {None, legacy}
  /\ \/ tb.writes = Inheritance
     \/ tb.writes = Tail(Inheritance) /\ keys.agent = LegacyDID
     \/ tb.writes = Tail(Tail(Inheritance)) /\ keys.agent = LegacyDID /\ HasKey(LegacyDID)
     \/ tb.writes = Tail(Tail(Tail(Inheritance)))

Links(tb) ==
  LET ucan == Delegated(ForeignDID, keys.agent)
      list == LinkDevice(Abroad, ucan, ForeignDID, keys.agent)
  IN /\ keys.agent # None /\ store.log = None
     /\ \/ tb.writes = list /\ Owner = None
        \/ tb.writes = Tail(list) /\ Owner = None /\ store.ucan = ucan
        \/ /\ tb.writes \in {Tail(Tail(list)), Tail(Tail(Tail(list)))}
           /\ Owner = None /\ store.ucan = ucan /\ HasKey(ForeignDID)
        \/ tb.writes = << >> /\ Owner = Abroad

Recovers(tb) ==
  \E user \in Users \ {Abroad, legacy}, v \in Version :
    LET list == <<Provide("webCrypto", user), Update(user, v), StoreKey(keys.agent, v.key)>>
    IN /\ keys.agent # None /\ keys.agent # LegacyDID /\ account[user] = keys.agent
       /\ store.log = None /\ store.ucan = None /\ v.key = ForeignDID
       /\ \/ tb.writes = list /\ Owner = None /\ root[user] = None
          \/ tb.writes = Tail(list) /\ Owner = user /\ root[user] = None
          \/ tb.writes = Tail(Tail(list)) /\ Owner = user /\ root[user] = v
          \/ tb.writes = << >> /\ Owner = user /\ root[user] = v /\ HasRead(user, v.key)

Registers(tb) ==
  \/ tb.writes = << >>
  \/ /\ Owner = None /\ keys.agent # None
     /\ \E user \in Users : /\ tb.writes = <<Provide("webCrypto", user)>>
                            /\ account[user] = keys.agent /\ root[user] = None

Publishes(tb) ==
  /\ tb.session # None
  /\ \/ tb.writes = << >>
     \/ \E v \in Version :
          /\ v.key = tb.fs
          /\ tb.writes \in {<<Add("log", v), Update(tb.session, v)>>, <<Add("log", v)>>, <<Update(tb.session, v)>>}

(* The writes of a tab, where the stored session stands to it as it should. *)
WritesSettled(tb) ==
  CASE tb.task = "session" ->
         \/ tb.writes = << >> /\ GoodLast(tb.ucans, Owner)
         \/ \E u \in Ucan : tb.writes = <<Add("ucans", u)>> /\ Good(u, Owner)
    [] tb.task = "load" ->
         \/ tb.writes = << >>
         \/ \E v \in Version : /\ tb.writes = <<Add("log", v)>>
                               /\ root[Owner] # None /\ HasRead(Owner, v.key)
    [] tb.task = "register" -> Registers(tb)
    [] tb.task = "publish" -> Publishes(tb)
    [] tb.task = "link" -> Links(tb)
    [] tb.task = "recover" -> Recovers(tb)
    [] tb.task = "migrate" ->
         IF legacy = None THEN tb.writes \in {<<Set("migrated", version)>>, << >>}
         ELSE tb.writes = << >> \/ Inherits(tb)
    [] OTHER -> TRUE

TabSettled(tb) ==
  /\ tb.session # None => /\ tb.session = Owner /\ HasRead(Owner, tb.fs)
                          /\ GoodLast(tb.ucans, Owner)
  /\ Starts(tb) => tb.user = Owner
  /\ tb.pc \in {"load", "open"} \/ tb.task = "load" => GoodLast(tb.ucans, Owner)
  /\ WritesSettled(tb)

Doing(task) == \E t \in Tabs : tab[t].task = task

Ready ==
  /\ keys.agent # None /\ account[Owner] = RootIssuer
  /\ root[Owner] # None => HasRead(Owner, root[Owner].key) \/ Doing("recover")
  /\ store.log # None => store.log # << >> /\ HasRead(Owner, Last(store.log).key)

StoreSettled ==
  /\ Owner # None => Ready
  /\ Owner = None => store.log = None /\ (store.ucan = None \/ Doing("link"))

Apart ==
  \A s, t \in Tabs : s # t =>
    /\ ~(tab[s].task = "register" /\ tab[t].task = "register")
    /\ Inheriting(tab[t]) => tab[s].pc \in {"closed", "migrate"}

Settled == StoreSettled /\ Apart /\ \A t \in Tabs : TabSettled(tab[t])

Alone ==
  \A t \in Tabs :
    /\ Delicate(t) => Others(t) = {}
    /\ tab[t].task = "destroy" => Wipes(tab[t])

SessionInv ==
  /\ Typed
  /\ harm \subseteq {"cut"} => Alone
  /\ harm = {} /\ ~Doing("destroy") => Settled

-----------------------------------------------------------------------------
(* LISTS *)
LEMMA Pairs ==
  ASSUME NEW a, NEW b, NEW S
  PROVE  /\ Head(<<a>>) = a /\ Tail(<<a>>) = << >>
         /\ Head(<<a, b>>) = a /\ Tail(<<a, b>>) = <<b>>
         /\ <<a>> # << >> /\ <<a, b>> # << >>
         /\ << >> \in Seq(S) /\ (a \in S => <<a>> \in Seq(S)) /\ (a \in S /\ b \in S => <<a, b>> \in Seq(S))
         /\ << >> \o <<a>> = <<a>> /\ <<a>> \o << >> = <<a>>
OBVIOUS

LEMMA Longer ==
  ASSUME NEW a, NEW b, NEW c, NEW d, NEW e
  PROVE  /\ Head(<<a, b, c>>) = a /\ Tail(<<a, b, c>>) = <<b, c>>
         /\ Head(<<a, b, c, d>>) = a /\ Tail(<<a, b, c, d>>) = <<b, c, d>>
         /\ Head(<<a, b, c, d, e>>) = a /\ Tail(<<a, b, c, d, e>>) = <<b, c, d, e>>
         /\ <<a, b, c>> # << >> /\ <<a, b, c, d>> # << >> /\ <<a, b, c, d, e>> # << >>
OBVIOUS

LEMMA InSeq ==
  ASSUME NEW S, NEW a \in S, NEW b \in S, NEW c \in S, NEW d \in S, NEW e \in S
  PROVE  <<a, b, c>> \in Seq(S) /\ <<a, b, c, d>> \in Seq(S) /\ <<a, b, c, d, e>> \in Seq(S)
OBVIOUS

LEMMA Spelt ==
  ASSUME NEW S, NEW r \in Seq(S)
  PROVE  /\ Len(r) = 2 => r = <<r[1], r[2]>>
         /\ Len(r) = 3 => r = <<r[1], r[2], r[3]>>
         /\ Len(r) = 4 => r = <<r[1], r[2], r[3], r[4]>>
OBVIOUS

LEMMA Joined ==
  ASSUME NEW S, NEW p \in Seq(S), NEW q \in Seq(S)
  PROVE  /\ p \o q \in Seq(S) /\ Len(p \o q) = Len(p) + Len(q)
         /\ \A i \in 1..Len(p) : (p \o q)[i] = p[i]
         /\ \A i \in 1..Len(q) : (p \o q)[Len(p) + i] = q[i]
OBVIOUS

(* The lists of writes that are put together. *)
LEMMA Lists ==
  ASSUME NEW a, NEW b, NEW c
  PROVE  <<a>> \o <<b>> = <<a, b>> /\ <<a>> \o <<b, c>> = <<a, b, c>>
<1> DEFINE S == {a, b, c}
<1>1. <<a>> \in Seq(S) /\ <<b>> \in Seq(S) /\ <<b, c>> \in Seq(S)
  OBVIOUS
<1> HIDE DEF S
<1>2. <<a>> \o <<b>> = <<a, b>>
  <2>1. PICK p, q, r : p = <<a>> /\ q = <<b>> /\ r = p \o q /\ p \in Seq(S) /\ q \in Seq(S)
    BY <1>1
  <2>2. r \in Seq(S) /\ Len(r) = Len(p) + Len(q) /\ \A i \in 1..Len(p) : r[i] = p[i]
    BY <2>1, Joined
  <2>3. \A i \in 1..Len(q) : r[Len(p) + i] = q[i]
    BY <2>1, Joined
  <2>4. Len(p) = 1 /\ Len(q) = 1 /\ p[1] = a /\ q[1] = b
    BY <2>1
  <2>5. Len(r) = 2 /\ r[1] = a /\ r[2] = b
    BY <2>2, <2>3, <2>4
  <2>6. r = <<a, b>>
    BY <2>2, <2>5, Spelt
  <2> QED
    BY <2>1, <2>6
<1>3. <<a>> \o <<b, c>> = <<a, b, c>>
  <2>1. PICK p, q, r : p = <<a>> /\ q = <<b, c>> /\ r = p \o q /\ p \in Seq(S) /\ q \in Seq(S)
    BY <1>1
  <2>2. r \in Seq(S) /\ Len(r) = Len(p) + Len(q) /\ \A i \in 1..Len(p) : r[i] = p[i]
    BY <2>1, Joined
  <2>3. \A i \in 1..Len(q) : r[Len(p) + i] = q[i]
    BY <2>1, Joined
  <2>4. Len(p) = 1 /\ Len(q) = 2 /\ p[1] = a /\ q[1] = b /\ q[2] = c
    BY <2>1
  <2>5. Len(r) = 3 /\ r[1] = a /\ r[2] = b /\ r[3] = c
    BY <2>2, <2>3, <2>4
  <2>6. r = <<a, b, c>>
    BY <2>2, <2>5, Spelt
  <2> QED
    BY <2>1, <2>6
<1> QED
  BY <1>2, <1>3

LEMMA ListOfFour ==
  ASSUME NEW a, NEW b, NEW c, NEW d
  PROVE  <<a, b, c>> \o <<d>> = <<a, b, c, d>>
<1> DEFINE S == {a, b, c, d}
<1>0. <<d>> \in Seq(S) /\ <<a, b, c>> \in Seq(S)
  OBVIOUS
<1> HIDE DEF S
<1>1. PICK p, q, r : p = <<a, b, c>> /\ q = <<d>> /\ r = p \o q /\ p \in Seq(S) /\ q \in Seq(S)
  BY <1>0
<1>2. r \in Seq(S) /\ Len(r) = Len(p) + Len(q) /\ \A i \in 1..Len(p) : r[i] = p[i]
  BY <1>1, Joined
<1>3. \A i \in 1..Len(q) : r[Len(p) + i] = q[i]
  BY <1>1, Joined
<1>4. Len(p) = 3 /\ Len(q) = 1 /\ p[1] = a /\ p[2] = b /\ p[3] = c /\ q[1] = d
  BY <1>1
<1>5. Len(r) = 4 /\ r[1] = a /\ r[2] = b /\ r[3] = c /\ r[4] = d
  BY <1>2, <1>3, <1>4
<1>6. r = <<a, b, c, d>>
  BY <1>2, <1>5, Spelt
<1> QED
  BY <1>1, <1>6

LEMMA TailIn ==
  ASSUME NEW S, NEW list \in Seq(S), list # << >>
  PROVE  /\ Head(list) \in S /\ 1 \in DOMAIN list /\ Head(list) = list[1] /\ Tail(list) \in Seq(S)
         /\ \A i \in DOMAIN Tail(list) : i + 1 \in DOMAIN list /\ Tail(list)[i] = list[i + 1]
OBVIOUS

LEMMA LastIn ==
  ASSUME NEW S, NEW list \in Seq(S), list # << >>
  PROVE  /\ Last(list) \in S /\ Len(list) \in DOMAIN list /\ Last(list) = list[Len(list)]
         /\ \A i \in DOMAIN list : i \in Nat /\ i <= Len(list)
BY DEF Last

LEMMA Appended ==
  ASSUME NEW S, NEW list \in Seq(S), NEW x \in S
  PROVE  Append(list, x) \in Seq(S) /\ Append(list, x) # << >> /\ Last(Append(list, x)) = x
BY DEF Last

-----------------------------------------------------------------------------
(* UCANS *)
LEMMA NoneApart ==
  /\ None \notin Users /\ None \notin Nat /\ None \notin Ucan /\ None \notin Version /\ None \notin Info
  /\ None \notin Seq(Ucan) /\ None \notin Seq(Version) /\ None \notin Tasks
BY SessionAssumption

LEMMA NoTask == \A task \in Tasks : task # None
BY NoneApart

LEMMA LastIsMax ==
  ASSUME NEW S, NEW n \in S, \A i \in S : i \in Nat /\ i <= n, n \in Nat
  PROVE  Max(S) = n
<1>1. \E x \in S : \A y \in S : x >= y
  OBVIOUS
<1>2. Max(S) \in S /\ \A y \in S : Max(S) >= y
  BY <1>1 DEF Max
<1>3. PICK m \in S : m = Max(S) /\ m >= n
  BY <1>2
<1>4. m \in Nat /\ m <= n
  BY <1>3
<1> QED
  BY <1>3, <1>4

LEMMA Between ==
  ASSUME NEW x
  PROVE  x \in (Now + 1)..(Now + ThousandYears) <=> x \in Nat /\ x > Now /\ x <= Now + ThousandYears
<1>1. \A a, b \in Nat : x \in (a + 1)..(a + b) <=> x \in Nat /\ x > a /\ x <= a + b
  OBVIOUS
<1>2. Now \in Nat /\ ThousandYears \in Nat
  BY DEF Now, ThousandYears
<1> QED
  BY <1>1, <1>2

LEMMA UcanFields ==
  ASSUME NEW u \in Ucan
  PROVE  /\ u.rsc = "*" /\ u.aud \in Nat /\ u.root \in Nat
         /\ u.exp \in Nat /\ u.exp > Now /\ u.exp <= Now + ThousandYears
<1>1. u.rsc \in {"*"} /\ u.aud \in Nat /\ u.root \in Nat /\ u.exp \in (Now + 1)..(Now + ThousandYears)
  BY DEF Ucan
<1> QED
  BY <1>1, Between

(* The UCAN for changes is the last one. *)
LEMMA LookupIsLast ==
  ASSUME NEW ucans \in Seq(Ucan), ucans # << >>
  PROVE  LookupFilesystemUcan(ucans) = Last(ucans)
<1> DEFINE those == {i \in DOMAIN ucans : ucans[i].rsc = "*"}
<1>1. those = DOMAIN ucans
  <2>1. \A i \in DOMAIN ucans : ucans[i] \in Ucan
    OBVIOUS
  <2> QED
    BY <2>1, UcanFields
<1>2. /\ Last(ucans) = ucans[Len(ucans)] /\ Len(ucans) \in those /\ Len(ucans) \in Nat
      /\ \A i \in those : i \in Nat /\ i <= Len(ucans)
  BY <1>1, LastIn
<1> HIDE DEF those
<1>3. Max(those) = Len(ucans) /\ those # {}
  BY <1>2, LastIsMax
<1> QED
  BY <1>2, <1>3 DEF LookupFilesystemUcan, GetByKey, those

(* Dates are in milliseconds, expiries in seconds: every UCAN is too old.   *)
LEMMA NeverSelfAuthorised ==
  ASSUME NEW ucans \in Seq(Ucan)
  PROVE  ~HasSelfAuthorisedFsUcan(ucans)
<1>1. \A u \in Ucan : u.exp < DateNow + Week
  <2> SUFFICES ASSUME NEW u \in Ucan PROVE u.exp < DateNow + Week
    OBVIOUS
  <2>1. u.exp \in Nat /\ u.exp <= 1700 + 31104
    BY UcanFields DEF Now, ThousandYears
  <2> QED
    BY <2>1 DEF DateNow, Now, Week
<1>2. Range(ucans) \subseteq Ucan
  BY DEF Range
<1> QED
  BY <1>1, <1>2 DEF HasSelfAuthorisedFsUcan

LEMMA BuiltUcan ==
  ASSUME NEW agent \in Nat, NEW proof \in Ucan \union {None}
  PROVE  /\ BuildUcan(agent, proof) \in Ucan /\ BuildUcan(agent, proof).aud = agent
         /\ BuildUcan(agent, proof).root = IF proof = None THEN agent ELSE proof.root
<1>1. CASE proof = None
  BY <1>1 DEF BuildUcan, Ucan, Now, ThousandYears
<1>2. CASE proof # None
  <2>1. /\ proof.exp \in Nat /\ proof.exp > Now /\ proof.exp <= Now + ThousandYears
        /\ proof.root \in Nat
    BY <1>2, UcanFields
  <2>2. PICK x : x = IF proof = None \/ proof.exp > Now + ThousandYears THEN Now + ThousandYears ELSE proof.exp
    OBVIOUS
  <2>3. x \in (Now + 1)..(Now + ThousandYears)
    <3>1. proof.exp \in (Now + 1)..(Now + ThousandYears)
      BY <2>1, Between
    <3>2. Now + ThousandYears \in (Now + 1)..(Now + ThousandYears)
      BY DEF Now, ThousandYears
    <3> QED
      BY <2>2, <3>1, <3>2
  <2>4. BuildUcan(agent, proof) = [rsc |-> "*", aud |-> agent, exp |-> x, root |-> proof.root]
    BY <1>2, <2>2 DEF BuildUcan
  <2> QED
    BY <1>2, <2>1, <2>3, <2>4 DEF Ucan
<1> QED
  BY <1>1, <1>2

LEMMA DelegatedUcan ==
  ASSUME NEW did \in Nat, NEW audience \in Nat
  PROVE  /\ Delegated(did, audience) \in Ucan
         /\ Delegated(did, audience).root = did /\ Delegated(did, audience).aud = audience
BY DEF Delegated, Ucan, Now, ThousandYears

-----------------------------------------------------------------------------
(* TYPES *)
LEMMA Records ==
  /\ ClearStore \in WriteRecord /\ Set("log", None) \in WriteRecord /\ Set("ucans", None) \in WriteRecord
  /\ \A u \in Ucan \union {None} : Set("ucan", u) \in WriteRecord
  /\ \A i \in Info \union {None} : Set("session", i) \in WriteRecord
  /\ \A n \in Nat : Set("migrated", n) \in WriteRecord /\ Set("agent", n) \in WriteRecord
  /\ \A d, k \in Nat : StoreKey(d, k) \in WriteRecord
  /\ \A u \in Ucan : Add("ucans", u) \in WriteRecord
  /\ \A v \in Version : Add("log", v) \in WriteRecord
  /\ \A u \in Users, v \in Version : Update(u, v) \in WriteRecord
BY DEF WriteRecord, ClearStore, Set, StoreKey, Add, Update

LEMMA Provided ==
  ASSUME NEW user \in Users
  PROVE  /\ Provide("webCrypto", user) \in WriteRecord
         /\ Provide("webCrypto", user).to = "session"
         /\ Provide("webCrypto", user).value \in Info /\ Provide("webCrypto", user).value # None
         /\ Provide("webCrypto", user).value.user = user
<1>1. [type |-> "webCrypto", user |-> user] \in Info
  BY DEF Info
<1> QED
  BY <1>1, NoneApart, Records DEF Provide, Set

LEMMA WriteCases ==
  ASSUME NEW w \in WriteRecord
  PROVE  \/ w.to = "clear"
         \/ w.to = "ucan" /\ w.value \in Ucan \union {None}
         \/ w.to = "session" /\ w.value \in Info \union {None}
         \/ w.to \in {"log", "ucans"} /\ w.value = None
         \/ w.to \in {"migrated", "agent"} /\ w.value \in Nat
         \/ w.to = "key" /\ w.did \in Nat /\ w.value \in Nat
         \/ w.to = "add" /\ w.repo = "ucans" /\ w.value \in Ucan
         \/ w.to = "add" /\ w.repo = "log" /\ w.value \in Version
         \/ w.to = "root" /\ w.user \in Users /\ w.value \in Version
BY DEF WriteRecord

(* What only grows. *)
Grown ==
  /\ legacy' = legacy /\ version' \in Nat /\ version <= version' /\ fresh' \in Nat /\ fresh <= fresh'
  /\ \A u \in Users : HasAccount(u) => HasAccount(u)'

LEMMA WriteStays ==
  ASSUME NEW w \in WriteRecord, GoodWrite(w), Grown, version \in Nat, fresh \in Nat
  PROVE  GoodWrite(w)'
<1>1. CASE w.to = "clear"
  BY <1>1 DEF GoodWrite
<1>2. CASE w.to = "session" /\ w.value \in Info \union {None}
  <2>1. w.value # None => HasAccount(w.value.user) /\ w.value.user \in Users
    BY <1>2 DEF GoodWrite, Info
  <2> QED
    BY <1>2, <2>1 DEF GoodWrite, Grown
<1>3. CASE w.to \in {"migrated", "agent"}
  BY <1>3 DEF GoodWrite, Grown
<1>4. CASE w.to = "key" /\ w.did \in Nat
  BY <1>4 DEF GoodWrite, Grown
<1>5. CASE w.to = "root" /\ w.user \in Users
  BY <1>5 DEF GoodWrite, Grown, KeyFits
<1>6. CASE w.to \in {"ucan", "log", "ucans", "add"}
  BY <1>6 DEF GoodWrite
<1> QED
  BY <1>1, <1>2, <1>3, <1>4, <1>5, <1>6, WriteCases

LEMMA TabStays ==
  ASSUME NEW p, TabTyped(p), Grown, version \in Nat, fresh \in Nat
  PROVE  TabTyped(p)'
<1>1. \A i \in DOMAIN p.writes : p.writes[i] \in WriteRecord
  BY DEF TabTyped
<1>2. \A i \in DOMAIN p.writes : GoodWrite(p.writes[i])'
  <2> SUFFICES ASSUME NEW i \in DOMAIN p.writes PROVE GoodWrite(p.writes[i])'
    OBVIOUS
  <2>1. PICK w \in WriteRecord : w = p.writes[i]
    BY <1>1
  <2>2. GoodWrite(w)
    BY <2>1 DEF TabTyped
  <2>3. GoodWrite(w)'
    BY <2>2, WriteStays
  <2> QED
    BY <2>1, <2>3
<1>3. p.session # None => HasAccount(p.session)' /\ KeyFits(p.session, p.fs)'
  BY DEF TabTyped, Grown, KeyFits
<1>4. Starts(p) => p.user \in Users /\ HasAccount(p.user)'
  BY DEF TabTyped, Grown
<1>5. legacy' = legacy
  BY DEF Grown
<1> QED
  BY <1>2, <1>3, <1>4, <1>5 DEF TabTyped

(* A step of one tab keeps the types, if it does so for what it changes.    *)
LEMMA TypedStep ==
  ASSUME Typed, NEW t \in Tabs, NEW q, tab' = [tab EXCEPT ![t] = q], TabTyped(q)', Grown,
         version' = version, calls' \in 0..MaxCalls, opens' \in 0..MaxOpens,
         IsStore', IsKeys', IsServer'
  PROVE  Typed'
<1>1. tab' = [s \in Tabs |-> tab'[s]] /\ tab'[t] = q /\ \A s \in Tabs \ {t} : tab'[s] = tab[s]
  BY DEF Typed
<1>2. ASSUME NEW s \in Tabs PROVE TabTyped(tab[s])'
  <2>1. CASE s = t
    BY <1>1, <2>1 DEF TabTyped, IsTab
  <2>2. CASE s # t
    <3>1. PICK p : p = tab[s]
      OBVIOUS
    <3>2. TabTyped(p)'
      BY <3>1, TabStays DEF Typed
    <3>3. tab'[s] = p
      BY <1>1, <2>2, <3>1
    <3> QED
      BY <3>2, <3>3
  <2> QED
    BY <2>1, <2>2
<1>3. /\ legacy' \in Legacies /\ version' \in 1..(MaxUpgrades + 1)
      /\ fresh' \in Nat /\ fresh' >= LegacyDID
  BY DEF Typed, Grown, LegacyDID
<1> QED
  BY <1>1, <1>2, <1>3 DEF Typed

LEMMA StoreStays == ASSUME IsStore, Grown, store' = store, version \in Nat PROVE IsStore'
<1>1. store.session # None => store.session.user \in Users
  BY DEF IsStore, Info
<1> QED
  BY <1>1 DEF IsStore, Grown

LEMMA KeysStay == ASSUME IsKeys, Grown, keys' = keys, fresh \in Nat PROVE IsKeys'
BY DEF IsKeys, Grown

LEMMA ServerStays == ASSUME IsServer, Grown, account' = account, root' = root, fresh \in Nat PROVE IsServer'
<1>1. legacy' = legacy
  BY DEF Grown
<1>2. \A u \in Users \ {Abroad, legacy} : HasAccount(u) => account[u] \in 3..fresh'
  BY DEF IsServer, Grown
<1> QED
  BY <1>1, <1>2 DEF IsServer, HasAccount, KeyFits

LEMMA ClosedTyped == TabTyped(Closed)
<1>1. /\ IsTab(Closed) /\ Closed.pc = "closed" /\ Closed.task = None /\ Closed.writes = << >>
      /\ Closed.ucans = << >> /\ Closed.log = << >> /\ Closed.session = None /\ Closed.fs = None
  BY DEF IsTab, Closed
<1>2. ~Starts(Closed) /\ ~Opening(Closed)
  BY <1>1, NoTask DEF Starts, Opening, Tasks
<1>3. << >> \in Seq(WriteRecord) /\ << >> \in Seq(Ucan) /\ << >> \in Seq(Version)
  OBVIOUS
<1> QED
  BY <1>1, <1>2, <1>3 DEF TabTyped, Steps

LEMMA IdleTyped ==
  ASSUME NEW p, TabTyped(p)
  PROVE  /\ TabTyped(Idle(p)) /\ Idle(p).pc = "idle" /\ Idle(p).task = None
         /\ Idle(p).session = p.session /\ Idle(p).fs = p.fs /\ Idle(p).ucans = p.ucans
<1>1. IsTab(p) /\ p.ucans \in Seq(Ucan) /\ p.log \in Seq(Version)
  BY DEF TabTyped
<1>2. PICK q : q = Idle(p)
  OBVIOUS
<1>3. /\ IsTab(q) /\ q.pc = "idle" /\ q.task = None /\ q.writes = << >>
      /\ q.ucans = p.ucans /\ q.log = p.log /\ q.session = p.session /\ q.fs = p.fs
  BY <1>1, <1>2 DEF IsTab, Idle
<1>4. ~Starts(q) /\ ~Opening(q)
  BY <1>3, NoTask DEF Starts, Opening, Tasks
<1>5. << >> \in Seq(WriteRecord)
  OBVIOUS
<1>6. TabTyped(q)
  BY <1>3, <1>4, <1>5 DEF TabTyped, Steps
<1> QED
  BY <1>2, <1>3, <1>6

(* A step that changes no more than a tab and its counters. *)
Quiet == UNCHANGED <<legacy, store, keys, account, root, fresh, version>>

LEMMA QuietTyped ==
  ASSUME Typed, Quiet, NEW t \in Tabs, NEW q, tab' = [tab EXCEPT ![t] = q], TabTyped(q),
         calls' \in 0..MaxCalls, opens' \in 0..MaxOpens
  PROVE  Typed'
<1>1. Grown /\ version \in Nat /\ fresh \in Nat
  BY DEF Grown, Quiet, Typed, HasAccount
<1>2. TabTyped(q)' /\ version' = version
  BY <1>1, TabStays DEF Quiet
<1>3. IsStore' /\ IsKeys' /\ IsServer'
  BY <1>1, StoreStays, KeysStay, ServerStays DEF Quiet, Typed
<1> QED
  BY <1>1, <1>2, <1>3, TypedStep

LEMMA RunningTyped ==
  ASSUME NEW p, TabTyped(p), NEW task \in Tasks \ {"load"}, NEW list \in Seq(WriteRecord),
         \A i \in DOMAIN list : GoodWrite(list[i]),
         task = "session" => p.user \in Users /\ HasAccount(p.user),
         p.session # None => task \in {"publish", "destroy"},
         NEW q, q = [p EXCEPT !.pc = "writes", !.task = task, !.writes = list]
  PROVE  /\ TabTyped(q) /\ IsTab(q) /\ q.pc = "writes" /\ q.task = task /\ q.writes = list
         /\ q.ucans = p.ucans /\ q.log = p.log /\ q.user = p.user /\ q.session = p.session /\ q.fs = p.fs
<1>1. IsTab(p)
  BY DEF TabTyped
<1>2. /\ IsTab(q) /\ q.pc = "writes" /\ q.task = task /\ q.writes = list
      /\ q.ucans = p.ucans /\ q.log = p.log /\ q.user = p.user /\ q.session = p.session /\ q.fs = p.fs
  BY <1>1 DEF IsTab
<1>3. task # None /\ ~Opening(q) /\ (Starts(q) => task = "session")
  BY <1>2, NoTask DEF Starts, Opening
<1>4. TabTyped(q)
  BY <1>2, <1>3 DEF TabTyped, Steps
<1> QED
  BY <1>2, <1>4

LEMMA GoodLists ==
  /\ \A a : GoodWrite(a) => \A i \in DOMAIN <<a>> : GoodWrite(<<a>>[i])
  /\ \A a, b : GoodWrite(a) /\ GoodWrite(b) => \A i \in DOMAIN <<a, b>> : GoodWrite(<<a, b>>[i])
  /\ \A a, b, c, d : GoodWrite(a) /\ GoodWrite(b) /\ GoodWrite(c) /\ GoodWrite(d) =>
       \A i \in DOMAIN <<a, b, c, d>> : GoodWrite(<<a, b, c, d>>[i])
  /\ \A a, b, c, d, e : GoodWrite(a) /\ GoodWrite(b) /\ GoodWrite(c) /\ GoodWrite(d) /\ GoodWrite(e) =>
       \A i \in DOMAIN <<a, b, c, d, e>> : GoodWrite(<<a, b, c, d, e>>[i])
OBVIOUS

(* The writes that are always right. *)
LEMMA GoodRecords ==
  /\ GoodWrite(ClearStore)
  /\ \A u : GoodWrite(Set("ucan", u))
  /\ GoodWrite(Set("session", None)) /\ GoodWrite(Set("log", None)) /\ GoodWrite(Set("ucans", None))
  /\ \A repo, x : GoodWrite(Add(repo, x))
  /\ version \in Nat \ {0} => GoodWrite(Set("migrated", version))
  /\ \A user \in Users : HasAccount(user) => GoodWrite(Provide("webCrypto", user))
  /\ legacy # None => GoodWrite(Set("agent", LegacyDID))
<1>1. GoodWrite(ClearStore)
  BY DEF GoodWrite, ClearStore
<1>2. ASSUME NEW u PROVE GoodWrite(Set("ucan", u))
  BY DEF GoodWrite, Set
<1>3. GoodWrite(Set("session", None)) /\ GoodWrite(Set("log", None)) /\ GoodWrite(Set("ucans", None))
  BY DEF GoodWrite, Set
<1>4. ASSUME NEW repo, NEW x PROVE GoodWrite(Add(repo, x))
  BY DEF GoodWrite, Add
<1>5. version \in Nat \ {0} => GoodWrite(Set("migrated", version))
  BY DEF GoodWrite, Set
<1>6. ASSUME NEW user \in Users, HasAccount(user) PROVE GoodWrite(Provide("webCrypto", user))
  BY <1>6, Provided DEF GoodWrite
<1>7. legacy # None => GoodWrite(Set("agent", LegacyDID))
  BY DEF GoodWrite, Set
<1> QED
  BY <1>1, <1>2, <1>3, <1>4, <1>5, <1>6, <1>7

LEMMA GoodKeys ==
  ASSUME NEW did \in 1..fresh
  PROVE  /\ did # LegacyDID => GoodWrite(StoreKey(did, ForeignDID))
         /\ did = LegacyDID => GoodWrite(StoreKey(did, LegacyDID))
BY DEF GoodWrite, StoreKey

LEMMA GoodUpdate ==
  ASSUME NEW user \in Users, NEW v \in Version, HasAccount(user), KeyFits(user, v.key)
  PROVE  GoodWrite(Update(user, v))
BY DEF GoodWrite, Update

(* What a migration writes. *)
LEMMA MigrationWrites ==
  Inherited \o <<Set("migrated", version)>> =
    IF legacy = None THEN <<Set("migrated", version)>> ELSE Inheritance
<1>1. PICK a, b, c, d : /\ a = Set("agent", LegacyDID) /\ b = StoreKey(LegacyDID, LegacyDID)
                        /\ c = Provide("webCrypto", legacy) /\ d = Set("migrated", version)
  OBVIOUS
<1>2. CASE legacy = None
  <2>1. Inherited = << >>
    BY <1>2 DEF Inherited
  <2> QED
    BY <1>1, <1>2, <2>1, Pairs
<1>3. CASE legacy # None
  <2>1. Inherited = <<a, b, c>> /\ Inheritance = <<a, b, c, d>>
    BY <1>1, <1>3 DEF Inherited, Migration, Inheritance
  <2>2. <<a, b, c>> \o <<d>> = <<a, b, c, d>>
    BY ListOfFour
  <2>3. Inherited \o <<Set("migrated", version)>> = <<a, b, c, d>>
    BY <1>1, <2>1, <2>2
  <2> QED
    BY <1>3, <2>1, <2>3
<1> QED
  BY <1>2, <1>3

LEMMA LegacyIsUser == ASSUME legacy \in Legacies, legacy # None PROVE legacy \in Users \ {Abroad}
BY SessionAssumption

LEMMA OpenTyped == ASSUME Typed, NEW t \in Tabs, Open(t) PROVE Typed'
<1>1. /\ legacy' = legacy /\ account' = account /\ root' = root /\ version' = version
      /\ store' = store /\ calls' = calls /\ opens' \in 0..MaxOpens
  BY SessionAssumption DEF Open, Server, Typed
<1>2. /\ fresh \in Nat /\ version \in Nat /\ fresh >= 2
  BY DEF Typed, LegacyDID
<1>3. \/ UNCHANGED <<fresh, keys>>
      \/ fresh' = fresh + 1 /\ keys' = [keys EXCEPT !.agent = fresh']
  BY DEF Open
<1>4. Grown
  BY <1>1, <1>2, <1>3 DEF Grown, HasAccount
<1>5. IsStore' /\ IsServer' /\ calls' \in 0..MaxCalls
  BY <1>1, <1>2, <1>4, StoreStays, ServerStays DEF Typed
<1>6. IsKeys'
  <2>1. CASE UNCHANGED <<fresh, keys>>
    BY <1>2, <1>4, <2>1, KeysStay DEF Typed
  <2>2. CASE fresh' = fresh + 1 /\ keys' = [keys EXCEPT !.agent = fresh']
    <3>1. keys' = [agent |-> fresh', read |-> keys.read]
      BY <2>2 DEF Typed, IsKeys
    <3>2. fresh' \in 3..fresh' /\ \A d \in 1..fresh : d \in 1..fresh'
      BY <1>2, <2>2
    <3> QED
      BY <3>1, <3>2 DEF Typed, IsKeys
  <2> QED
    BY <1>3, <2>1, <2>2
<1>7. PICK q : q = [Closed EXCEPT !.pc = "migrate", !.ucans = Items(store.ucans), !.log = Items(store.log)]
  OBVIOUS
<1>8. /\ IsTab(q) /\ q.pc = "migrate" /\ q.task = None /\ q.writes = << >> /\ q.session = None /\ q.fs = None
      /\ q.ucans = Items(store.ucans) /\ q.log = Items(store.log)
  BY <1>7 DEF IsTab, Closed
<1>9. q.ucans \in Seq(Ucan) /\ q.log \in Seq(Version) /\ q.writes \in Seq(WriteRecord)
  <2>1. << >> \in Seq(Ucan) /\ << >> \in Seq(Version) /\ << >> \in Seq(WriteRecord)
    OBVIOUS
  <2> QED
    BY <1>8, <2>1 DEF Items, Typed, IsStore
<1>10. ~Starts(q) /\ ~Opening(q)
  BY <1>8, NoTask DEF Starts, Opening, Tasks
<1>11. TabTyped(q)
  BY <1>8, <1>9, <1>10 DEF TabTyped, Steps
<1>12. TabTyped(q)' /\ tab' = [tab EXCEPT ![t] = q]
  BY <1>2, <1>4, <1>7, <1>11, TabStays DEF Open, Become
<1> QED
  BY <1>1, <1>4, <1>5, <1>6, <1>12, TypedStep

LEMMA MigrateTyped == ASSUME Typed, NEW t \in Tabs, Migrate(t) PROVE Typed'
<1>1. Quiet /\ calls' \in 0..MaxCalls /\ opens' \in 0..MaxOpens
  BY DEF Migrate, Quiet, Server, Typed
<1>2. PICK p : p = tab[t] /\ TabTyped(p) /\ p.pc = "migrate" /\ p.session = None
  BY DEF Migrate, Typed, TabTyped
<1>3. CASE tab' = [tab EXCEPT ![t] = [p EXCEPT !.pc = "restore"]]
  <2>1. PICK q : q = [p EXCEPT !.pc = "restore"]
    OBVIOUS
  <2>2. IsTab(p) /\ p.task = None
    BY <1>2 DEF TabTyped
  <2>3. /\ IsTab(q) /\ q.pc = "restore" /\ q.task = None /\ q.writes = p.writes
        /\ q.ucans = p.ucans /\ q.log = p.log /\ q.session = p.session /\ q.fs = p.fs
    BY <2>1, <2>2 DEF IsTab
  <2>4. ~Starts(q) /\ ~Opening(q)
    BY <2>3, NoTask DEF Starts, Opening, Tasks
  <2>5. TabTyped(q)
    BY <1>2, <2>3, <2>4 DEF TabTyped, Steps
  <2> QED
    BY <1>1, <1>3, <2>1, <2>5, QuietTyped
<1>4. CASE tab' = [tab EXCEPT ![t] = [p EXCEPT !.pc = "writes", !.task = "migrate",
                     !.writes = Inherited \o <<Set("migrated", version)>>]]
  <2>1. PICK list : list = Inherited \o <<Set("migrated", version)>>
    OBVIOUS
  <2>2. version \in Nat \ {0} /\ legacy \in Legacies /\ 2 \in 1..fresh
    BY DEF Typed, LegacyDID
  <2>3. Set("migrated", version) \in WriteRecord /\ GoodWrite(Set("migrated", version))
    BY <2>2, Records, GoodRecords
  <2>4. list \in Seq(WriteRecord) /\ \A i \in DOMAIN list : GoodWrite(list[i])
    <3>1. CASE legacy = None
      <4>1. PICK w : w = Set("migrated", version)
        OBVIOUS
      <4>2. list = <<w>> /\ w \in WriteRecord /\ GoodWrite(w)
        BY <2>1, <2>3, <3>1, <4>1, MigrationWrites
      <4> QED
        BY <4>2, GoodLists, Pairs
    <3>2. CASE legacy # None
      <4>1. legacy \in Users /\ HasAccount(legacy)
        BY <2>2, <3>2, LegacyIsUser, NoneApart DEF Typed, IsServer, HasAccount, LegacyDID
      <4>2. PICK a, b, c, d : /\ a = Set("agent", LegacyDID) /\ b = StoreKey(LegacyDID, LegacyDID)
                              /\ c = Provide("webCrypto", legacy) /\ d = Set("migrated", version)
        OBVIOUS
      <4>3. a \in WriteRecord /\ b \in WriteRecord /\ c \in WriteRecord /\ d \in WriteRecord
        BY <2>3, <4>1, <4>2, Records, Provided DEF LegacyDID
      <4>4. GoodWrite(a) /\ GoodWrite(b) /\ GoodWrite(c) /\ GoodWrite(d)
        BY <2>2, <2>3, <3>2, <4>1, <4>2, GoodRecords, GoodKeys DEF LegacyDID
      <4>5. list = <<a, b, c, d>>
        BY <2>1, <3>2, <4>2, MigrationWrites DEF Inheritance
      <4> QED
        BY <4>3, <4>4, <4>5, GoodLists, InSeq
    <3> QED
      BY <3>1, <3>2
  <2>5. PICK q : q = [p EXCEPT !.pc = "writes", !.task = "migrate", !.writes = list]
    OBVIOUS
  <2>6. TabTyped(q)
    BY <1>2, <2>4, <2>5, RunningTyped DEF Tasks
  <2> QED
    BY <1>1, <1>4, <2>1, <2>5, <2>6, QuietTyped
<1> QED
  BY <1>2, <1>3, <1>4 DEF Migrate, Become, Running

LEMMA RestoreTyped == ASSUME Typed, NEW t \in Tabs, Restore(t) PROVE Typed'
<1>1. Quiet /\ calls' \in 0..MaxCalls /\ opens' \in 0..MaxOpens
  BY SessionAssumption DEF Restore, Quiet, Server, Typed, AppCalls
<1>2. PICK p : p = tab[t] /\ TabTyped(p) /\ p.session = None /\ p.pc \in {"restore", "idle"}
  BY DEF Restore, Typed, AppCalls, TabTyped
<1>3. CASE tab' = [tab EXCEPT ![t] = Idle(p)]
  BY <1>1, <1>2, <1>3, IdleTyped, QuietTyped
<1>4. CASE store.session # None
           /\ tab' = [tab EXCEPT ![t] = [p EXCEPT !.pc = "session", !.user = store.session.user]]
  <2>1. PICK q : q = [p EXCEPT !.pc = "session", !.user = store.session.user]
    OBVIOUS
  <2>2. IsTab(p) /\ p.task = None /\ p.writes = << >>
    BY <1>2 DEF TabTyped
  <2>3. /\ IsTab(q) /\ q.pc = "session" /\ q.task = None /\ q.writes = << >> /\ q.user = store.session.user
        /\ q.ucans = p.ucans /\ q.log = p.log /\ q.session = None /\ q.fs = p.fs
    BY <1>2, <2>1, <2>2 DEF IsTab
  <2>4. q.user \in Users /\ HasAccount(q.user)
    BY <1>4, <2>3 DEF Typed, IsStore, Info
  <2>5. ~Opening(q)
    BY <2>3, NoTask DEF Opening, Tasks
  <2>6. TabTyped(q)
    BY <1>2, <2>2, <2>3, <2>4, <2>5 DEF TabTyped, Steps
  <2> QED
    BY <1>1, <1>4, <2>1, <2>6, QuietTyped
<1> QED
  BY <1>2, <1>3, <1>4 DEF Restore, Become, SessionInfo

LEMMA SelfAuthoriseTyped == ASSUME Typed, NEW t \in Tabs, SelfAuthorise(t) PROVE Typed'
<1>1. Quiet /\ calls' \in 0..MaxCalls /\ opens' \in 0..MaxOpens
  BY DEF SelfAuthorise, Quiet, Server, Typed
<1>2. PICK p : p = tab[t] /\ TabTyped(p) /\ p.pc = "session" /\ p.session = None
  BY DEF SelfAuthorise, Typed, TabTyped
<1>3. ~HasSelfAuthorisedFsUcan(p.ucans)
  BY <1>2, NeverSelfAuthorised DEF TabTyped
<1>4. CASE tab' = [tab EXCEPT ![t] = Idle(p)]
  BY <1>1, <1>2, <1>4, IdleTyped, QuietTyped
<1>5. CASE keys.agent # None /\ tab' = [tab EXCEPT ![t] = [p EXCEPT !.pc = "writes", !.task = "session",
                     !.writes = <<Add("ucans", BuildUcan(keys.agent, store.ucan))>>]]
  <2>1. keys.agent \in Nat /\ store.ucan \in Ucan \union {None}
    BY <1>5 DEF Typed, IsKeys, IsStore, LegacyDID
  <2>2. PICK w : w = Add("ucans", BuildUcan(keys.agent, store.ucan))
    OBVIOUS
  <2>3. w \in WriteRecord /\ GoodWrite(w)
    BY <2>1, <2>2, BuiltUcan, Records, GoodRecords
  <2>4. <<w>> \in Seq(WriteRecord) /\ \A i \in DOMAIN <<w>> : GoodWrite(<<w>>[i])
    BY <2>3, GoodLists
  <2>5. p.user \in Users /\ HasAccount(p.user)
    BY <1>2 DEF TabTyped, Starts
  <2>6. PICK q : q = [p EXCEPT !.pc = "writes", !.task = "session", !.writes = <<w>>]
    OBVIOUS
  <2>7. TabTyped(q)
    BY <1>2, <2>4, <2>5, <2>6, RunningTyped DEF Tasks
  <2> QED
    BY <1>1, <1>5, <2>2, <2>6, <2>7, QuietTyped
<1> QED
  BY <1>2, <1>3, <1>4, <1>5 DEF SelfAuthorise, Become, Running

(* The version that is loaded; a user of another program or device has one. *)
LEMMA ChosenTyped ==
  ASSUME NEW log \in Seq(Version), NEW dataCid \in Version \union {None}
  PROVE  /\ Chosen(log, dataCid) \in Version \union {None}
         /\ dataCid # None => Chosen(log, dataCid) # None
         /\ dataCid = None /\ log # << >> => Chosen(log, dataCid) = Last(log)
         /\ dataCid = None /\ log = << >> => Chosen(log, dataCid) = None
         /\ dataCid # None => Chosen(log, dataCid) \in {Last(log), dataCid}
<1>1. log # << >> => Last(log) \in Version
  BY LastIn
<1>2. dataCid \in Range(log) => log # << >>
  BY DEF Range
<1> QED
  BY <1>1, <1>2, NoneApart DEF Chosen

LEMMA LoadFileSystemTyped == ASSUME Typed, NEW t \in Tabs, LoadFileSystem(t) PROVE Typed'
<1>1. Quiet /\ calls' \in 0..MaxCalls /\ opens' \in 0..MaxOpens
  BY DEF LoadFileSystem, Quiet, Server, Typed
<1>2. PICK p : p = tab[t] /\ TabTyped(p) /\ p.pc = "load"
  BY DEF LoadFileSystem, Typed
<1>3. p.user \in Users /\ HasAccount(p.user) /\ IsTab(p) /\ p.task = None /\ p.writes = << >> /\ p.session = None
  BY <1>2 DEF TabTyped, Starts
<1>4. PICK cid : cid = root[p.user] /\ cid \in Version \union {None}
  BY <1>3 DEF Typed, IsServer
<1>5. PICK v : v = Chosen(p.log, cid) /\ v \in Version \union {None} /\ (cid # None => v # None)
  BY <1>2, <1>4, ChosenTyped DEF TabTyped
<1>6. p.user \in {Abroad, legacy} => v # None
  BY <1>3, <1>4, <1>5, LegacyIsUser, NoneApart DEF Typed, IsServer
<1>7. CASE IsNewer(p.log, cid) /\ tab' = [tab EXCEPT ![t] =
             [p EXCEPT !.load = v, !.pc = "writes", !.task = "load", !.writes = <<Add("log", cid)>>]]
  <2>1. PICK w : w = Add("log", cid)
    OBVIOUS
  <2>2. w \in WriteRecord /\ GoodWrite(w)
    BY <1>4, <1>7, <2>1, Records, GoodRecords DEF IsNewer
  <2>3. PICK q : q = [p EXCEPT !.load = v, !.pc = "writes", !.task = "load", !.writes = <<w>>]
    OBVIOUS
  <2>4. /\ IsTab(q) /\ q.pc = "writes" /\ q.task = "load" /\ q.writes = <<w>> /\ q.user = p.user
        /\ q.ucans = p.ucans /\ q.log = p.log /\ q.session = p.session /\ q.fs = p.fs /\ q.load = v
    BY <1>3, <2>3 DEF IsTab
  <2>5. q.writes \in Seq(WriteRecord) /\ \A i \in DOMAIN q.writes : GoodWrite(q.writes[i])
    BY <2>2, <2>4, GoodLists, Pairs
  <2>6. q.task \in Tasks /\ q.task # None
    BY <2>4, NoTask DEF Tasks
  <2>7. TabTyped(q)
    BY <1>2, <1>3, <1>5, <1>6, <2>4, <2>5, <2>6 DEF TabTyped, Steps
  <2> QED
    BY <1>1, <1>7, <2>1, <2>3, <2>7, QuietTyped
<1>8. CASE tab' = [tab EXCEPT ![t] = [p EXCEPT !.load = v, !.pc = "open"]]
  <2>1. PICK q : q = [p EXCEPT !.load = v, !.pc = "open"]
    OBVIOUS
  <2>2. /\ IsTab(q) /\ q.pc = "open" /\ q.task = None /\ q.writes = << >> /\ q.user = p.user
        /\ q.ucans = p.ucans /\ q.log = p.log /\ q.session = p.session /\ q.fs = p.fs /\ q.load = v
    BY <1>3, <2>1 DEF IsTab
  <2>3. TabTyped(q)
    BY <1>2, <1>3, <1>5, <1>6, <2>2 DEF TabTyped, Steps
  <2> QED
    BY <1>1, <1>8, <2>1, <2>3, QuietTyped
<1>9. tab' = [tab EXCEPT ![t] =
                [p EXCEPT !.load = v, !.pc = IF IsNewer(p.log, cid) THEN "writes" ELSE "open",
                          !.task = IF IsNewer(p.log, cid) THEN "load" ELSE p.task,
                          !.writes = IF IsNewer(p.log, cid) THEN <<Add("log", cid)>> ELSE p.writes]]
  <2>1. [p EXCEPT !.load = v, !.pc = IF IsNewer(p.log, cid) THEN "writes" ELSE "open",
                  !.task = IF IsNewer(p.log, cid) THEN "load" ELSE @,
                  !.writes = IF IsNewer(p.log, cid) THEN <<Add("log", cid)>> ELSE @]
         = [p EXCEPT !.load = v, !.pc = IF IsNewer(p.log, cid) THEN "writes" ELSE "open",
                     !.task = IF IsNewer(p.log, cid) THEN "load" ELSE p.task,
                     !.writes = IF IsNewer(p.log, cid) THEN <<Add("log", cid)>> ELSE p.writes]
    BY <1>3 DEF IsTab
  <2> QED
    BY <1>2, <1>4, <1>5, <2>1 DEF LoadFileSystem, Become, LookupRoot
<1>10. CASE ~IsNewer(p.log, cid)
  <2>1. [p EXCEPT !.load = v, !.pc = "open", !.task = p.task, !.writes = p.writes]
         = [p EXCEPT !.load = v, !.pc = "open"]
    BY <1>3 DEF IsTab
  <2> QED
    BY <1>8, <1>9, <1>10, <2>1
<1>11. CASE IsNewer(p.log, cid)
  BY <1>7, <1>9, <1>11
<1> QED
  BY <1>10, <1>11

(* Where a tab gives up, or only closes. *)
LEMMA GivesUpTyped ==
  ASSUME Typed, Quiet, NEW t \in Tabs, UNCHANGED <<calls, opens>>,
         tab' \in {[tab EXCEPT ![t] = Idle(tab[t])], [tab EXCEPT ![t] = Closed]}
  PROVE  Typed'
<1>1. calls' \in 0..MaxCalls /\ opens' \in 0..MaxOpens /\ TabTyped(tab[t])
  BY DEF Typed
<1>2. PICK p, q : p = tab[t] /\ q = Idle(p) /\ TabTyped(p)
  BY <1>1
<1>3. PICK c : c = Closed /\ TabTyped(c)
  BY ClosedTyped
<1>4. TabTyped(q)
  BY <1>2, IdleTyped
<1> QED
  BY <1>1, <1>2, <1>3, <1>4, QuietTyped

LEMMA QuietAlike ==
  ASSUME NEW t \in Tabs, LoadFails(t) \/ Close(t)
  PROVE  /\ Quiet /\ UNCHANGED <<calls, opens>>
         /\ tab' \in {[tab EXCEPT ![t] = Idle(tab[t])], [tab EXCEPT ![t] = Closed]}
BY DEF LoadFails, Close, Quiet, Server, Become

(* A session is made for the user the tab is about to open. *)
LEMMA MadeTyped ==
  ASSUME NEW p, TabTyped(p), Starts(p), p.session = None, NEW fs \in Nat, KeyFits(p.user, fs),
         NEW q, q = [Idle(p) EXCEPT !.session = p.user, !.fs = fs]
  PROVE  /\ TabTyped(q) /\ IsTab(q) /\ q.pc = "idle" /\ q.task = None /\ q.session = p.user
         /\ q.fs = fs /\ q.ucans = p.ucans
<1>1. PICK r : r = Idle(p)
  OBVIOUS
<1>2. /\ TabTyped(r) /\ r.pc = "idle" /\ r.task = None /\ r.session = None /\ r.ucans = p.ucans
  BY <1>1, IdleTyped
<1>3. IsTab(r) /\ p.user \in Users /\ HasAccount(p.user) /\ p.user # None /\ r.writes = << >>
  BY <1>2, NoneApart DEF TabTyped
<1>4. /\ IsTab(q) /\ q.pc = "idle" /\ q.task = None /\ q.session = p.user /\ q.fs = fs
      /\ q.ucans = r.ucans /\ q.log = r.log /\ q.writes = << >>
  BY <1>1, <1>2, <1>3 DEF IsTab
<1>5. ~Starts(q) /\ ~Opening(q)
  BY <1>4, NoTask DEF Starts, Opening, Tasks
<1>6. TabTyped(q)
  BY <1>2, <1>3, <1>4, <1>5 DEF TabTyped, Steps
<1> QED
  BY <1>2, <1>4, <1>6

LEMMA OpenExistingTyped == ASSUME Typed, NEW t \in Tabs, OpenExisting(t) PROVE Typed'
<1>1. Quiet /\ calls' \in 0..MaxCalls /\ opens' \in 0..MaxOpens /\ UNCHANGED <<calls, opens>>
  BY DEF OpenExisting, Quiet, Server, Typed
<1>2. PICK p : p = tab[t] /\ TabTyped(p) /\ p.pc = "open" /\ p.load # None
  BY DEF OpenExisting, Typed
<1>3. /\ Starts(p) /\ p.session = None /\ p.user \in Users /\ p.load \in Version
  BY <1>2 DEF TabTyped, Starts, Opening
<1>4. CASE tab' = [tab EXCEPT ![t] = Idle(tab[t])]
  BY <1>1, <1>4, GivesUpTyped
<1>5. CASE /\ HasKey(account[p.user]) /\ RetrieveKey(account[p.user]) = p.load.key
           /\ tab' = [tab EXCEPT ![t] = [Idle(p) EXCEPT !.session = p.user, !.fs = p.load.key]]
  <2>1. p.load.key \in Nat
    BY <1>3 DEF Version
  <2>2. KeyFits(p.user, p.load.key)
    <3>1. p.user = Abroad => p.load.key = ForeignDID
      BY <1>5 DEF Typed, IsServer, IsKeys, HasKey, RetrieveKey
    <3>2. p.user = legacy => p.load.key = LegacyDID
      BY <1>3, <1>5, NoneApart DEF Typed, IsServer, IsKeys, HasKey, RetrieveKey
    <3> QED
      BY <3>1, <3>2 DEF KeyFits
  <2>3. PICK q : q = [Idle(p) EXCEPT !.session = p.user, !.fs = p.load.key]
    OBVIOUS
  <2>4. TabTyped(q)
    BY <1>2, <1>3, <2>1, <2>2, <2>3, MadeTyped
  <2> QED
    BY <1>1, <1>5, <2>3, <2>4, QuietTyped
<1> QED
  BY <1>2, <1>4, <1>5 DEF OpenExisting, Opened, Made, Become, Did, LookupDid

LEMMA MakeNewTyped == ASSUME Typed, NEW t \in Tabs, MakeNew(t) PROVE Typed'
<1>1. /\ legacy' = legacy /\ account' = account /\ root' = root /\ version' = version
      /\ store' = store /\ calls' = calls /\ opens' = opens /\ fresh' = fresh + 1
  BY DEF MakeNew, Server
<1>2. /\ fresh \in Nat /\ version \in Nat /\ fresh >= 2 /\ calls' \in 0..MaxCalls /\ opens' \in 0..MaxOpens
  BY <1>1 DEF Typed, LegacyDID
<1>3. Grown
  BY <1>1, <1>2 DEF Grown, HasAccount
<1>4. IsStore' /\ IsServer'
  BY <1>1, <1>2, <1>3, StoreStays, ServerStays DEF Typed
<1>5. PICK p : p = tab[t] /\ TabTyped(p) /\ p.pc = "open" /\ p.load = None
  BY DEF MakeNew, Typed
<1>6. /\ Starts(p) /\ p.session = None /\ p.user \in Users /\ HasAccount(p.user)
      /\ p.user \notin {Abroad, legacy}
  BY <1>5 DEF TabTyped, Starts, Opening
<1>7. PICK did : did = account[p.user] /\ did \in 3..fresh
  BY <1>6 DEF Typed, IsServer
<1>8. IsKeys'
  <2>1. keys' = [keys EXCEPT !.read = WithKey(did, fresh')]
    BY <1>5, <1>7 DEF MakeNew, Did, LookupDid
  <2>2. keys' = [agent |-> keys.agent, read |-> WithKey(did, fresh')]
    BY <2>1 DEF Typed, IsKeys
  <2>3. /\ DOMAIN keys'.read = DOMAIN keys.read \union {did}
        /\ keys'.read = [d \in DOMAIN keys'.read |-> IF d = did THEN fresh' ELSE keys.read[d]]
    BY <2>2 DEF WithKey
  <2>4. \A d \in DOMAIN keys'.read :
          /\ d \in 1..fresh' /\ keys'.read[d] \in 1..fresh'
          /\ d \in {ForeignDID, LegacyDID} => keys'.read[d] = d
    <3> SUFFICES ASSUME NEW d \in DOMAIN keys'.read
                 PROVE  /\ d \in 1..fresh' /\ keys'.read[d] \in 1..fresh'
                        /\ d \in {ForeignDID, LegacyDID} => keys'.read[d] = d
      OBVIOUS
    <3>1. CASE d = did
      BY <1>1, <1>2, <1>7, <2>3, <3>1 DEF ForeignDID, LegacyDID
    <3>2. CASE d # did
      <4>1. d \in DOMAIN keys.read /\ keys'.read[d] = keys.read[d]
        BY <2>3, <3>2
      <4>2. /\ d \in 1..fresh /\ keys.read[d] \in 1..fresh
            /\ d \in {ForeignDID, LegacyDID} => keys.read[d] = d
        BY <4>1 DEF Typed, IsKeys
      <4> QED
        BY <1>1, <1>2, <4>1, <4>2
    <3> QED
      BY <3>1, <3>2
  <2>5. keys' = [agent |-> keys'.agent, read |-> keys'.read] /\ keys'.agent = keys.agent
    BY <2>2
  <2>6. keys.agent # None => keys.agent \in 3..fresh' \/ (legacy # None /\ keys.agent = LegacyDID)
    BY <1>1, <1>2 DEF Typed, IsKeys
  <2> QED
    BY <1>1, <2>3, <2>4, <2>5, <2>6 DEF IsKeys
<1>9. PICK k : k = fresh' /\ k \in Nat
  BY <1>1, <1>2
<1>10. PICK q : q = [Idle(p) EXCEPT !.session = p.user, !.fs = k]
  OBVIOUS
<1>11. KeyFits(p.user, k)
  BY <1>6 DEF KeyFits
<1>12. TabTyped(q)'
  BY <1>2, <1>3, <1>5, <1>6, <1>9, <1>10, <1>11, MadeTyped, TabStays
<1>13. tab' = [tab EXCEPT ![t] = q]
  BY <1>5, <1>9, <1>10 DEF MakeNew, Made, Become
<1> QED
  BY <1>1, <1>2, <1>3, <1>4, <1>8, <1>12, <1>13, TypedStep

(* An account is made for a new user, by a key that had none. *)
LEMMA CreateTyped ==
  ASSUME Typed, NEW user \in Users, CreateAccount(user),
         UNCHANGED <<legacy, store, keys, root, fresh, version>>
  PROVE  /\ Grown /\ version \in Nat /\ fresh \in Nat /\ IsStore' /\ IsKeys' /\ IsServer'
         /\ user \notin {Abroad, legacy} /\ keys.agent \in 3..fresh
         /\ account[user] = None /\ account'[user] = keys.agent
         /\ \A u \in Users \ {user} : account'[u] = account[u]
<1>1. /\ keys.agent # None /\ account[user] = None /\ keys.agent \notin Range(account)
      /\ account' = [account EXCEPT ![user] = keys.agent]
  BY DEF CreateAccount
<1>2. user \notin {Abroad, legacy}
  BY <1>1, NoneApart DEF Typed, IsServer, ForeignDID, LegacyDID
<1>3. keys.agent \in 3..fresh
  <2>1. CASE legacy # None /\ keys.agent = LegacyDID
    <3>1. legacy \in Users /\ account[legacy] = LegacyDID /\ account = [u \in Users |-> account[u]]
      BY <2>1, LegacyIsUser DEF Typed, IsServer
    <3>2. LegacyDID \in Range(account)
      BY <3>1 DEF Range
    <3> QED
      BY <1>1, <2>1, <3>2
  <2> QED
    BY <1>1, <2>1 DEF Typed, IsKeys
<1>4. /\ account'[user] = keys.agent /\ \A u \in Users \ {user} : account'[u] = account[u]
      /\ account' = [u \in Users |-> account'[u]]
  BY <1>1 DEF Typed, IsServer
<1>5. Grown /\ version \in Nat /\ fresh \in Nat
  BY <1>1, <1>4 DEF Grown, HasAccount, Typed
<1>6. IsStore' /\ IsKeys'
  BY <1>5, StoreStays, KeysStay DEF Typed
<1>7. IsServer'
  <2>1. \A u \in Users : root[u] # None => HasAccount(u)'
    BY <1>5 DEF Typed, IsServer, Grown
  <2>2. \A u \in Users \ {Abroad, legacy} : account'[u] # None => account'[u] \in 3..fresh
    BY <1>3, <1>4 DEF Typed, IsServer, HasAccount
  <2>3. account'[Abroad] = ForeignDID /\ (legacy # None => account'[legacy] = LegacyDID)
    BY <1>2, <1>4, LegacyIsUser, SessionAssumption DEF Typed, IsServer
  <2> QED
    BY <1>4, <2>1, <2>2, <2>3 DEF Typed, IsServer, HasAccount, KeyFits
<1> QED
  BY <1>1, <1>2, <1>3, <1>4, <1>5, <1>6, <1>7

(* As RunningTyped, in the state in which the account is made. *)
LEMMA RunningOnTyped ==
  ASSUME NEW p, TabTyped(p)', p.session = None, NEW task \in Tasks \ {"load", "session"}, NEW list \in Seq(WriteRecord),
         \A i \in DOMAIN list : GoodWrite(list[i])',
         NEW q, q = [p EXCEPT !.pc = "writes", !.task = task, !.writes = list]
  PROVE  TabTyped(q)'
<1>1. IsTab(p)
  BY DEF TabTyped
<1>2. /\ IsTab(q) /\ q.pc = "writes" /\ q.task = task /\ q.writes = list
      /\ q.ucans = p.ucans /\ q.log = p.log /\ q.user = p.user /\ q.session = p.session /\ q.fs = p.fs
  BY <1>1 DEF IsTab
<1>3. task # None /\ ~Opening(q) /\ ~Starts(q)
  BY <1>2, NoTask DEF Starts, Opening
<1> QED
  BY <1>2, <1>3 DEF TabTyped, Steps

LEMMA RegisterTyped == ASSUME Typed, NEW t \in Tabs, NEW user \in Users, Register(t, user) PROVE Typed'
<1>1. /\ UNCHANGED <<legacy, store, keys, root, fresh, version>> /\ CreateAccount(user)
      /\ opens' \in 0..MaxOpens /\ calls' \in 0..MaxCalls
  BY SessionAssumption DEF Register, AppCalls, Typed
<1>2. PICK p : p = tab[t] /\ TabTyped(p) /\ p.session = None
  BY DEF Typed, Register
<1>3. /\ Grown /\ version \in Nat /\ fresh \in Nat /\ IsStore' /\ IsKeys' /\ IsServer'
      /\ account'[user] # None
  BY <1>1, CreateTyped, NoneApart
<1>4. PICK w : w = Provide("webCrypto", user)
  OBVIOUS
<1>5. w \in WriteRecord /\ GoodWrite(w)'
  BY <1>3, <1>4, Provided DEF GoodWrite, HasAccount
<1>6. PICK q : q = [p EXCEPT !.pc = "writes", !.task = "register", !.writes = <<w>>]
  OBVIOUS
<1>7. <<w>> \in Seq(WriteRecord) /\ \A i \in DOMAIN <<w>> : GoodWrite(<<w>>[i])'
  BY <1>5
<1>8. TabTyped(q)'
  BY <1>2, <1>3, <1>6, <1>7, TabStays, RunningOnTyped DEF Tasks
<1>9. tab' = [tab EXCEPT ![t] = q]
  BY <1>2, <1>4, <1>6 DEF Register, Running, Become
<1> QED
  BY <1>1, <1>3, <1>8, <1>9, TypedStep

LEMMA LinkTyped == ASSUME Typed, NEW t \in Tabs, Link(t) PROVE Typed'
<1>1. Quiet /\ calls' \in 0..MaxCalls /\ opens' \in 0..MaxOpens
  BY SessionAssumption DEF Link, Quiet, Server, Typed, AppCalls
<1>2. PICK p : p = tab[t] /\ TabTyped(p) /\ p.session = None
  BY DEF Typed, Link
<1>3. /\ keys.agent \in Nat /\ account[Abroad] = 1 /\ root[Abroad].key = 1 /\ HasAccount(Abroad) /\ Abroad \in Users
      /\ 1 \in 1..fresh
  BY SessionAssumption, NoneApart
     DEF Link, Typed, IsKeys, IsServer, LegacyDID, ForeignDID, HasAccount, KeyFits
<1>4. PICK ucan : ucan = Delegated(1, keys.agent) /\ ucan \in Ucan /\ ucan.root = 1
  BY <1>3, DelegatedUcan
<1>5. PICK a, b, c, d : /\ a = Set("ucan", ucan) /\ b = StoreKey(1, 1)
                        /\ c = Add("ucans", BuildUcan(keys.agent, ucan)) /\ d = Provide("webCrypto", Abroad)
  OBVIOUS
<1>6. a \in WriteRecord /\ b \in WriteRecord /\ c \in WriteRecord /\ d \in WriteRecord
  BY <1>3, <1>4, <1>5, Records, BuiltUcan, Provided
<1>7. GoodWrite(a) /\ GoodWrite(b) /\ GoodWrite(c) /\ GoodWrite(d)
  BY <1>3, <1>5, GoodRecords, GoodKeys DEF ForeignDID, LegacyDID
<1>8. PICK list : list = <<a, b, c, d>>
  OBVIOUS
<1>9. list \in Seq(WriteRecord) /\ \A i \in DOMAIN list : GoodWrite(list[i])
  BY <1>6, <1>7, <1>8, GoodLists, InSeq
<1>10. PICK q : q = [p EXCEPT !.pc = "writes", !.task = "link", !.writes = list]
  OBVIOUS
<1>11. TabTyped(q)
  BY <1>2, <1>9, <1>10, RunningTyped DEF Tasks
<1>12. LinkDevice(Abroad, ucan, 1, keys.agent) = list
  BY <1>4, <1>5, <1>8 DEF LinkDevice
<1>13. tab' = [tab EXCEPT ![t] = q]
  BY <1>2, <1>3, <1>4, <1>10, <1>12 DEF Link, Running, Become
<1> QED
  BY <1>1, <1>11, <1>13, QuietTyped

LEMMA DestroyTyped == ASSUME Typed, NEW t \in Tabs, Destroy(t) PROVE Typed'
<1>1. Quiet /\ calls' \in 0..MaxCalls /\ opens' \in 0..MaxOpens
  BY SessionAssumption DEF Destroy, Quiet, Server, Typed, AppCalls
<1>2. PICK p : p = tab[t] /\ TabTyped(p)
  BY DEF Typed
<1>3. PICK a, b, c, d, e : /\ a = Set("ucan", None) /\ b = Set("log", None) /\ c = Set("session", None)
                           /\ d = Set("ucans", None) /\ e = ClearStore
  OBVIOUS
<1>4. /\ a \in WriteRecord /\ b \in WriteRecord /\ c \in WriteRecord /\ d \in WriteRecord /\ e \in WriteRecord
      /\ GoodWrite(a) /\ GoodWrite(b) /\ GoodWrite(c) /\ GoodWrite(d) /\ GoodWrite(e)
  BY <1>3, Records, GoodRecords
<1>5. PICK list : list = <<a, b, c, d, e>>
  OBVIOUS
<1>6. list \in Seq(WriteRecord) /\ \A i \in DOMAIN list : GoodWrite(list[i])
  BY <1>4, <1>5, GoodLists, InSeq
<1>7. PICK q : q = [p EXCEPT !.pc = "writes", !.task = "destroy", !.writes = list]
  OBVIOUS
<1>8. TabTyped(q)
  BY <1>2, <1>6, <1>7, RunningTyped DEF Tasks
<1>9. tab' = [tab EXCEPT ![t] = q]
  BY <1>2, <1>3, <1>5, <1>7 DEF Destroy, Running, Become
<1> QED
  BY <1>1, <1>8, <1>9, QuietTyped

LEMMA RecoverTyped == ASSUME Typed, NEW t \in Tabs, NEW new \in Users, Recover(t, Abroad, new) PROVE Typed'
<1>1. /\ UNCHANGED <<legacy, store, keys, root, fresh, version>> /\ CreateAccount(new)
      /\ opens' \in 0..MaxOpens /\ calls' \in 0..MaxCalls
  BY SessionAssumption DEF Recover, AppCalls, Typed
<1>2. PICK p : p = tab[t] /\ TabTyped(p) /\ p.session = None
  BY DEF Typed, Recover
<1>3. /\ Grown /\ version \in Nat /\ fresh \in Nat /\ IsStore' /\ IsKeys' /\ IsServer'
      /\ account'[new] # None /\ new \notin {Abroad, legacy} /\ keys.agent \in 3..fresh
  BY <1>1, CreateTyped, NoneApart
<1>4. PICK v \in Version : v = root[Abroad] /\ v # None /\ v.key = 1
  BY SessionAssumption, NoneApart DEF Typed, IsServer, KeyFits, ForeignDID
<1>5. PICK a, b, c : a = Provide("webCrypto", new) /\ b = Update(new, v) /\ c = StoreKey(keys.agent, v.key)
  OBVIOUS
<1>6. a \in WriteRecord /\ b \in WriteRecord /\ c \in WriteRecord
  BY <1>3, <1>4, <1>5, Provided, Records
<1>7. GoodWrite(a)'
  BY <1>3, <1>5, Provided DEF GoodWrite, HasAccount
<1>8. GoodWrite(b)'
  BY <1>1, <1>3, <1>4, <1>5 DEF GoodWrite, HasAccount, Update, KeyFits
<1>9. GoodWrite(c)'
  BY <1>1, <1>3, <1>4, <1>5 DEF GoodWrite, StoreKey, LegacyDID, ForeignDID
<1>10. PICK list : list = <<a, b, c>>
  OBVIOUS
<1>11. list \in Seq(WriteRecord)
  BY <1>6, <1>10, InSeq
<1>12. \A i \in DOMAIN list : GoodWrite(list[i])'
  BY <1>7, <1>8, <1>9, <1>10
<1>13. PICK q : q = [p EXCEPT !.pc = "writes", !.task = "recover", !.writes = list]
  OBVIOUS
<1>14. TabTyped(q)'
  BY <1>2, <1>3, <1>11, <1>12, <1>13, TabStays, RunningOnTyped DEF Tasks
<1>15. tab' = [tab EXCEPT ![t] = q]
  <2>1. <<a>> \o <<b, c>> = list
    BY <1>10, Lists
  <2>2. <<Provide("webCrypto", new)>> \o (IF v = None THEN << >> ELSE <<Update(new, v), StoreKey(keys.agent, v.key)>>)
         = list
    BY <1>4, <1>5, <2>1
  <2> QED
    BY <1>2, <1>4, <1>13, <2>2 DEF Recover, Running, Become, LookupRoot
<1> QED
  BY <1>1, <1>3, <1>14, <1>15, TypedStep

(* The writes of a publication: the log, and the data root with a UCAN that *)
(* the server takes.                                                        *)
LEMMA PublishWrites ==
  ASSUME Typed, NEW t \in Tabs, Publish(t), NEW p, p = tab[t]
  PROVE  \E v, list :
           /\ v \in Version /\ v.key = p.fs /\ v.n = fresh + 1
           /\ list \in {<<Add("log", v), Update(p.session, v)>>, <<Add("log", v)>>}
           /\ Running(t, "publish", list)
<1>1. TabTyped(p) /\ fresh \in Nat /\ p.fs # None
  BY DEF Typed, Publish
<1>2. p.fs \in Nat
  BY <1>1 DEF TabTyped
<1>3. PICK v : v = [key |-> p.fs, n |-> fresh + 1]
  OBVIOUS
<1>4. v \in Version /\ v.key = p.fs /\ v.n = fresh + 1
  BY <1>1, <1>2, <1>3 DEF Version
<1>5. PICK a, b : a = Add("log", v) /\ b = Update(p.session, v)
  OBVIOUS
<1>6. PICK u : u = LookupFilesystemUcan(p.ucans)
  OBVIOUS
<1>7. PICK list :
        /\ list = <<a>> \o IF u.aud = keys.agent /\ u.root = account[p.session] THEN <<b>> ELSE << >>
        /\ Running(t, "publish", list)
  BY <1>3, <1>5, <1>6 DEF Publish
<1>8. <<a>> \o <<b>> = <<a, b>> /\ <<a>> \o << >> = <<a>>
  BY Lists, Pairs
<1>9. list \in {<<a, b>>, <<a>>}
  BY <1>7, <1>8
<1> QED
  BY <1>4, <1>5, <1>7, <1>9

LEMMA PublishTyped == ASSUME Typed, NEW t \in Tabs, Publish(t) PROVE Typed'
<1>1. /\ legacy' = legacy /\ account' = account /\ root' = root /\ version' = version /\ keys' = keys
      /\ store' = store /\ calls' \in 0..MaxCalls /\ opens' \in 0..MaxOpens /\ fresh' = fresh + 1
  BY SessionAssumption DEF Publish, Server, AppCalls, Typed
<1>2. /\ fresh \in Nat /\ version \in Nat
  BY DEF Typed
<1>3. Grown
  BY <1>1, <1>2 DEF Grown, HasAccount
<1>4. IsStore' /\ IsServer' /\ IsKeys'
  BY <1>1, <1>2, <1>3, StoreStays, ServerStays, KeysStay DEF Typed
<1>5. PICK p : p = tab[t] /\ TabTyped(p) /\ p.fs # None
  BY DEF Publish, Typed
<1>6. p.session \in Users /\ HasAccount(p.session) /\ KeyFits(p.session, p.fs)
  BY <1>5 DEF TabTyped
<1>7. PICK v, list :
        /\ v \in Version /\ v.key = p.fs
        /\ list \in {<<Add("log", v), Update(p.session, v)>>, <<Add("log", v)>>}
        /\ Running(t, "publish", list)
  BY <1>5, PublishWrites
<1>8. PICK a, b : a = Add("log", v) /\ b = Update(p.session, v)
  OBVIOUS
<1>9. a \in WriteRecord /\ b \in WriteRecord /\ GoodWrite(a) /\ GoodWrite(b)
  BY <1>6, <1>7, <1>8, Records, GoodRecords, GoodUpdate
<1>10. list \in {<<a, b>>, <<a>>}
  BY <1>7, <1>8
<1>11. list \in Seq(WriteRecord) /\ \A i \in DOMAIN list : GoodWrite(list[i])
  <2>1. CASE list = <<a, b>>
    BY <1>9, <2>1, Pairs, GoodLists
  <2>2. CASE list = <<a>>
    BY <1>9, <2>2, Pairs, GoodLists
  <2> QED
    BY <1>10, <2>1, <2>2
<1>12. PICK q : q = [p EXCEPT !.pc = "writes", !.task = "publish", !.writes = list]
  OBVIOUS
<1>13. TabTyped(q)'
  BY <1>2, <1>3, <1>5, <1>11, <1>12, RunningTyped, TabStays DEF Tasks
<1>14. tab' = [tab EXCEPT ![t] = q]
  BY <1>5, <1>7, <1>12 DEF Running, Become
<1> QED
  BY <1>1, <1>3, <1>4, <1>13, <1>14, TypedStep

(* The tab after its next write. *)
LEMMA TailTyped ==
  ASSUME NEW p, TabTyped(p), p.writes # << >>, p.pc = "writes",
         NEW q, q = [p EXCEPT !.writes = Tail(@)]
  PROVE  /\ TabTyped(q) /\ IsTab(q) /\ q.writes = Tail(p.writes) /\ q.pc = p.pc /\ q.task = p.task
         /\ q.ucans = p.ucans /\ q.log = p.log /\ q.user = p.user /\ q.session = p.session /\ q.fs = p.fs
         /\ q.load = p.load /\ Head(p.writes) \in WriteRecord /\ GoodWrite(Head(p.writes))
<1>1. IsTab(p)
  BY DEF TabTyped
<1>2. /\ IsTab(q) /\ q.writes = Tail(p.writes) /\ q.pc = p.pc /\ q.task = p.task
      /\ q.ucans = p.ucans /\ q.log = p.log /\ q.user = p.user /\ q.session = p.session /\ q.fs = p.fs
      /\ q.load = p.load
  BY <1>1 DEF IsTab
<1>3. /\ Head(p.writes) \in WriteRecord /\ 1 \in DOMAIN p.writes /\ Head(p.writes) = p.writes[1]
      /\ Tail(p.writes) \in Seq(WriteRecord)
      /\ \A i \in DOMAIN Tail(p.writes) : i + 1 \in DOMAIN p.writes /\ Tail(p.writes)[i] = p.writes[i + 1]
  BY TailIn DEF TabTyped
<1>4. GoodWrite(Head(p.writes)) /\ \A i \in DOMAIN q.writes : GoodWrite(q.writes[i])
  BY <1>2, <1>3 DEF TabTyped
<1>5. Starts(q) <=> Starts(p)
  BY <1>2 DEF Starts
<1>6. Opening(q) <=> Opening(p)
  BY <1>2 DEF Opening
<1>7. TabTyped(q)
  BY <1>2, <1>3, <1>4, <1>5, <1>6 DEF TabTyped
<1> QED
  BY <1>2, <1>3, <1>4, <1>7

(* With what it has added to its repository. *)
LEMMA AddedTyped ==
  ASSUME NEW p, TabTyped(p), p.pc = "writes", NEW q,
         \/ \E x \in Ucan : q = [p EXCEPT !.ucans = Append(p.ucans, x)]
         \/ \E x \in Version : q = [p EXCEPT !.log = Append(p.log, x)]
  PROVE  /\ TabTyped(q) /\ IsTab(q) /\ q.writes = p.writes /\ q.pc = p.pc /\ q.task = p.task
         /\ q.user = p.user /\ q.session = p.session /\ q.fs = p.fs /\ q.load = p.load
<1>1. IsTab(p)
  BY DEF TabTyped
<1>2. /\ IsTab(q) /\ q.writes = p.writes /\ q.pc = p.pc /\ q.task = p.task
      /\ q.user = p.user /\ q.session = p.session /\ q.fs = p.fs /\ q.load = p.load
  BY <1>1 DEF IsTab
<1>3. q.ucans \in Seq(Ucan) /\ q.log \in Seq(Version)
  <2>1. CASE \E x \in Ucan : q = [p EXCEPT !.ucans = Append(p.ucans, x)]
    <3>1. PICK x \in Ucan : q = [p EXCEPT !.ucans = Append(p.ucans, x)]
      BY <2>1
    <3>2. q.ucans = Append(p.ucans, x) /\ q.log = p.log
      BY <1>1, <3>1 DEF IsTab
    <3> QED
      BY <3>1, <3>2, Appended DEF TabTyped
  <2>2. CASE \E x \in Version : q = [p EXCEPT !.log = Append(p.log, x)]
    <3>1. PICK x \in Version : q = [p EXCEPT !.log = Append(p.log, x)]
      BY <2>2
    <3>2. q.log = Append(p.log, x) /\ q.ucans = p.ucans
      BY <1>1, <3>1 DEF IsTab
    <3> QED
      BY <3>1, <3>2, Appended DEF TabTyped
  <2> QED
    BY <2>1, <2>2
<1>4. (Starts(q) <=> Starts(p)) /\ (Opening(q) <=> Opening(p)) /\ q.pc # "closed"
  BY <1>2 DEF Starts, Opening
<1>5. TabTyped(q)
  BY <1>2, <1>3, <1>4 DEF TabTyped
<1> QED
  BY <1>2, <1>5

LEMMA WriteTyped == ASSUME Typed, NEW t \in Tabs, Write(t) PROVE Typed'
<1>1. /\ legacy' = legacy /\ account' = account /\ fresh' = fresh /\ version' = version
      /\ calls' = calls /\ opens' = opens
  BY DEF Write
<1>2. /\ fresh \in Nat /\ version \in Nat /\ fresh >= 2 /\ calls' \in 0..MaxCalls /\ opens' \in 0..MaxOpens
  BY <1>1 DEF Typed, LegacyDID
<1>3. Grown
  BY <1>1, <1>2 DEF Grown, HasAccount
<1>4. PICK p : p = tab[t] /\ TabTyped(p) /\ p.pc = "writes" /\ p.writes # << >>
  BY DEF Write, Typed
<1>5. PICK q : q = [p EXCEPT !.writes = Tail(@)]
  OBVIOUS
<1>6. /\ TabTyped(q) /\ q.pc = "writes" /\ q.ucans = p.ucans /\ q.log = p.log
      /\ Head(p.writes) \in WriteRecord /\ GoodWrite(Head(p.writes))
  BY <1>4, <1>5, TailTyped
<1>7. PICK w \in WriteRecord : w = Head(p.writes) /\ GoodWrite(w)
  BY <1>6
<1>8. CASE w.to = "add"
  <2>1. /\ store' = [store EXCEPT ![w.repo] = Append(p[w.repo], w.value)] /\ UNCHANGED <<keys, root>>
        /\ tab' = [tab EXCEPT ![t] = [q EXCEPT ![w.repo] = Append(p[w.repo], w.value)]]
    BY <1>4, <1>5, <1>7, <1>8 DEF Write, WholeCache, Become
  <2>2. IsKeys' /\ IsServer'
    BY <1>1, <1>2, <1>3, <2>1, KeysStay, ServerStays DEF Typed
  <2>3. CASE w.repo = "ucans" /\ w.value \in Ucan
    <3>1. PICK list : list = Append(p.ucans, w.value) /\ list \in Seq(Ucan)
      BY <1>4, <2>3, Appended DEF TabTyped
    <3>2. store' = [store EXCEPT !.ucans = list] /\ p["ucans"] = p.ucans
      BY <2>1, <2>3, <3>1
    <3>3. IsStore'
      BY <1>1, <3>1, <3>2 DEF Typed, IsStore, HasAccount
    <3>4. PICK r : r = [q EXCEPT !.ucans = Append(q.ucans, w.value)] /\ TabTyped(r)
      BY <1>6, <2>3, AddedTyped
    <3>5. tab' = [tab EXCEPT ![t] = r]
      BY <1>6, <2>1, <2>3, <3>4
    <3> QED
      BY <1>1, <1>2, <1>3, <2>2, <3>3, <3>4, <3>5, TabStays, TypedStep
  <2>4. CASE w.repo = "log" /\ w.value \in Version
    <3>1. PICK list : list = Append(p.log, w.value) /\ list \in Seq(Version)
      BY <1>4, <2>4, Appended DEF TabTyped
    <3>2. store' = [store EXCEPT !.log = list] /\ p["log"] = p.log
      BY <2>1, <2>4, <3>1
    <3>3. IsStore'
      BY <1>1, <3>1, <3>2 DEF Typed, IsStore, HasAccount
    <3>4. PICK r : r = [q EXCEPT !.log = Append(q.log, w.value)] /\ TabTyped(r)
      BY <1>6, <2>4, AddedTyped
    <3>5. tab' = [tab EXCEPT ![t] = r]
      BY <1>6, <2>1, <2>4, <3>4
    <3> QED
      BY <1>1, <1>2, <1>3, <2>2, <3>3, <3>4, <3>5, TabStays, TypedStep
  <2> QED
    BY <1>8, <2>3, <2>4, WriteCases
<1>9. CASE w.to # "add"
  <2>1. tab' = [tab EXCEPT ![t] = q]
    BY <1>4, <1>5, <1>7, <1>9 DEF Write, Become
  <2>2. CASE w.to = "key"
    <3>1. keys' = [keys EXCEPT !.read = WithKey(w.did, w.value)] /\ UNCHANGED <<store, root>>
      BY <1>4, <1>7, <2>2 DEF Write
    <3>2. w.did \in 1..fresh /\ w.value \in 1..fresh /\ (w.did \in {ForeignDID, LegacyDID} => w.value = w.did)
      BY <1>2, <1>7, <2>2 DEF GoodWrite, ForeignDID, LegacyDID
    <3>3. keys' = [agent |-> keys.agent, read |-> WithKey(w.did, w.value)]
      BY <3>1 DEF Typed, IsKeys
    <3>4. /\ DOMAIN keys'.read = DOMAIN keys.read \union {w.did}
          /\ keys'.read = [d \in DOMAIN keys'.read |-> IF d = w.did THEN w.value ELSE keys.read[d]]
      BY <3>3 DEF WithKey
    <3>5. IsKeys'
      BY <1>1, <3>2, <3>3, <3>4 DEF Typed, IsKeys
    <3> QED
      BY <1>1, <1>2, <1>3, <1>6, <2>1, <3>1, <3>5, TabStays, StoreStays, ServerStays, TypedStep DEF Typed
  <2>3. CASE w.to = "agent"
    <3>1. keys' = [keys EXCEPT !.agent = w.value] /\ UNCHANGED <<store, root>>
      BY <1>4, <1>7, <2>3 DEF Write
    <3>2. w.value = LegacyDID /\ legacy # None
      BY <1>7, <2>3 DEF GoodWrite
    <3>3. keys' = [agent |-> LegacyDID, read |-> keys.read]
      BY <3>1, <3>2 DEF Typed, IsKeys
    <3>4. IsKeys'
      BY <1>1, <3>2, <3>3 DEF Typed, IsKeys
    <3> QED
      BY <1>1, <1>2, <1>3, <1>6, <2>1, <3>1, <3>4, TabStays, StoreStays, ServerStays, TypedStep DEF Typed
  <2>4. CASE w.to = "clear"
    <3>1. keys' = NoKeys /\ store' = Blank /\ UNCHANGED root
      BY <1>4, <1>7, <2>4 DEF Write
    <3>2. keys' = [agent |-> None, read |-> [d \in {} |-> None]]
      BY <3>1 DEF NoKeys
    <3>3. IsKeys'
      BY <3>2 DEF IsKeys
    <3>4. store' = [ucan |-> None, session |-> None, ucans |-> None, log |-> None, migrated |-> 0]
      BY <3>1 DEF Blank
    <3>5. IsStore'
      BY <1>1, <1>2, <3>4 DEF IsStore
    <3> QED
      BY <1>1, <1>2, <1>3, <1>6, <2>1, <3>1, <3>3, <3>5, TabStays, ServerStays, TypedStep DEF Typed
  <2>5. CASE w.to = "root"
    <3>1. root' = [root EXCEPT ![w.user] = w.value] /\ UNCHANGED <<store, keys>>
      BY <1>4, <1>7, <2>5 DEF Write
    <3>2. w.user \in Users /\ w.value \in Version /\ HasAccount(w.user) /\ KeyFits(w.user, w.value.key)
      BY <1>7, <2>5, WriteCases DEF GoodWrite
    <3>3. /\ root' = [u \in Users |-> root'[u]] /\ root'[w.user] = w.value /\ w.value # None
          /\ \A u \in Users \ {w.user} : root'[u] = root[u]
      BY <3>1, <3>2, NoneApart DEF Typed, IsServer
    <3>4. IsServer'
      <4>1. ASSUME NEW u \in Users, root'[u] # None
            PROVE  root'[u] \in Version /\ HasAccount(u)' /\ KeyFits(u, root[u].key)'
        <5>1. CASE u = w.user
          BY <1>1, <3>2, <3>3, <5>1 DEF HasAccount, KeyFits
        <5>2. CASE u # w.user
          BY <1>1, <3>3, <4>1, <5>2 DEF HasAccount, KeyFits, Typed, IsServer
        <5> QED
          BY <5>1, <5>2
      <4>2. root'[Abroad] # None /\ (legacy # None => root'[legacy] # None)
        BY <3>3, LegacyIsUser, SessionAssumption DEF Typed, IsServer
      <4> QED
        BY <1>1, <3>3, <4>1, <4>2 DEF Typed, IsServer, HasAccount
    <3> QED
      BY <1>1, <1>2, <1>3, <1>6, <2>1, <3>1, <3>4, TabStays, StoreStays, KeysStay, TypedStep DEF Typed
  <2>6. CASE w.to \in {"ucan", "session", "log", "ucans", "migrated"}
    <3>1. store' = [store EXCEPT ![w.to] = w.value] /\ UNCHANGED <<keys, root>>
      BY <1>4, <1>7, <2>6 DEF Write
    <3>2. IsStore'
      <4>1. CASE w.to = "ucan"
        BY <1>1, <3>1, <4>1, WriteCases DEF Typed, IsStore, HasAccount
      <4>2. CASE w.to = "session"
        <5>1. w.value \in Info \union {None} /\ (w.value # None => HasAccount(w.value.user))
          BY <1>7, <4>2, WriteCases DEF GoodWrite
        <5>2. store' = [store EXCEPT !.session = w.value]
          BY <3>1, <4>2
        <5> QED
          BY <1>1, <5>1, <5>2 DEF Typed, IsStore, HasAccount
      <4>3. CASE w.to \in {"log", "ucans"}
        BY <1>1, <3>1, <4>3, WriteCases DEF Typed, IsStore, HasAccount
      <4>4. CASE w.to = "migrated"
        <5>1. w.value \in 0..version
          BY <1>2, <1>7, <4>4 DEF GoodWrite
        <5>2. store' = [store EXCEPT !.migrated = w.value]
          BY <3>1, <4>4
        <5> QED
          BY <1>1, <5>1, <5>2 DEF Typed, IsStore, HasAccount
      <4> QED
        BY <2>6, <4>1, <4>2, <4>3, <4>4
    <3> QED
      BY <1>1, <1>2, <1>3, <1>6, <2>1, <3>1, <3>2, TabStays, KeysStay, ServerStays, TypedStep DEF Typed
  <2> QED
    BY <1>9, <2>2, <2>3, <2>4, <2>5, <2>6, WriteCases
<1> QED
  BY <1>8, <1>9

(* What a tab is when all is written. *)
Then(p) ==
  CASE p.task = "migrate" -> [p EXCEPT !.pc = "restore", !.task = None]
    [] p.task = "session" -> [p EXCEPT !.pc = "load", !.task = None]
    [] p.task = "load" -> [p EXCEPT !.pc = "open", !.task = None]
    [] p.task = "destroy" -> [Idle(p) EXCEPT !.session = None, !.fs = None]
    [] OTHER -> Idle(p)

LEMMA ThenTyped ==
  ASSUME NEW p, TabTyped(p), p.pc = "writes", p.writes = << >>, NEW q, q = Then(p)
  PROVE  /\ TabTyped(q) /\ IsTab(q) /\ q.task = None /\ q.writes = << >> /\ q.ucans = p.ucans
         /\ q.pc = (CASE p.task = "migrate" -> "restore" [] p.task = "session" -> "load"
                      [] p.task = "load" -> "open" [] OTHER -> "idle")
         /\ p.task \in {"session", "load"} => q.user = p.user /\ q.load = p.load
         /\ q.session = IF p.task = "destroy" THEN None ELSE p.session
         /\ q.fs = IF p.task = "destroy" THEN None ELSE p.fs
<1>1. IsTab(p)
  BY DEF TabTyped
<1>2. CASE p.task \in {"migrate", "session", "load"}
  <2>1. PICK pc : /\ pc \in {"restore", "load", "open"}
                  /\ pc = (CASE p.task = "migrate" -> "restore" [] p.task = "session" -> "load"
                             [] p.task = "load" -> "open" [] OTHER -> "idle")
    BY <1>2
  <2>2. q = [p EXCEPT !.pc = pc, !.task = None]
    BY <1>2, <2>1 DEF Then
  <2>3. /\ IsTab(q) /\ q.pc = pc /\ q.task = None /\ q.writes = << >>
        /\ q.ucans = p.ucans /\ q.log = p.log /\ q.user = p.user /\ q.session = p.session /\ q.fs = p.fs
        /\ q.load = p.load
    BY <1>1, <2>2 DEF IsTab
  <2>4. Starts(q) => p.task \in {"session", "load"}
    BY <1>2, <2>1, <2>3, NoTask DEF Starts, Tasks
  <2>5. Opening(q) => p.task = "load"
    BY <1>2, <2>1, <2>3, NoTask DEF Opening, Tasks
  <2>9. p.session = None
    BY <1>2 DEF TabTyped
  <2>6. Starts(q) => p.user \in Users /\ HasAccount(p.user)
    BY <2>4 DEF TabTyped, Starts
  <2>7. Opening(q) => p.load \in Version \union {None} /\ (p.user \in {Abroad, legacy} => p.load # None)
    BY <2>5 DEF TabTyped, Opening
  <2>8. TabTyped(q)
    BY <1>2, <2>1, <2>3, <2>6, <2>7, <2>9 DEF TabTyped, Steps
  <2> QED
    BY <1>2, <2>1, <2>3, <2>8
<1>3. CASE p.task \notin {"migrate", "session", "load"}
  <2>1. PICK r : r = Idle(p)
    OBVIOUS
  <2>2. /\ TabTyped(r) /\ r.pc = "idle" /\ r.task = None /\ r.session = p.session /\ r.fs = p.fs
        /\ r.ucans = p.ucans /\ IsTab(r) /\ r.writes = << >>
    <3>1. /\ TabTyped(r) /\ r.pc = "idle" /\ r.task = None /\ r.session = p.session /\ r.fs = p.fs
          /\ r.ucans = p.ucans
      BY <2>1, IdleTyped
    <3> QED
      BY <3>1 DEF TabTyped
  <2>3. CASE p.task = "destroy"
    <3>1. q = [r EXCEPT !.session = None, !.fs = None]
      BY <2>1, <2>3 DEF Then
    <3>2. /\ IsTab(q) /\ q.pc = "idle" /\ q.task = None /\ q.writes = << >> /\ q.session = None /\ q.fs = None
          /\ q.ucans = r.ucans /\ q.log = r.log
      BY <2>2, <3>1 DEF IsTab
    <3>3. ~Starts(q) /\ ~Opening(q)
      BY <3>2, NoTask DEF Starts, Opening, Tasks
    <3>4. TabTyped(q)
      BY <2>2, <3>2, <3>3 DEF TabTyped, Steps
    <3> QED
      BY <2>2, <2>3, <3>2, <3>4
  <2>4. CASE p.task # "destroy"
    BY <1>3, <2>1, <2>2, <2>4 DEF Then
  <2> QED
    BY <2>3, <2>4
<1> QED
  BY <1>2, <1>3

LEMMA WrittenTyped == ASSUME Typed, NEW t \in Tabs, Written(t) PROVE Typed'
<1>1. Quiet /\ calls' \in 0..MaxCalls /\ opens' \in 0..MaxOpens
  BY DEF Written, Quiet, Server, Typed
<1>2. PICK p : p = tab[t] /\ TabTyped(p) /\ p.pc = "writes" /\ p.writes = << >>
  BY DEF Written, Typed
<1>3. PICK q : q = Then(p)
  OBVIOUS
<1>4. tab' = [tab EXCEPT ![t] = q]
  BY <1>2, <1>3 DEF Written, Then, Become
<1>5. TabTyped(q)
  BY <1>2, <1>3, ThenTyped
<1> QED
  BY <1>1, <1>4, <1>5, QuietTyped

LEMMA UpgradeTyped == ASSUME Typed, Upgrade PROVE Typed'
<1>1. /\ UNCHANGED <<legacy, store, keys, account, root, tab, fresh, calls, opens>>
      /\ version' = version + 1 /\ version <= MaxUpgrades
  BY DEF Upgrade
<1>2. Grown /\ version \in Nat /\ fresh \in Nat /\ version' \in 1..(MaxUpgrades + 1)
  BY <1>1, SessionAssumption DEF Grown, HasAccount, Typed
<1>3. IsStore' /\ IsKeys' /\ IsServer'
  BY <1>1, <1>2, StoreStays, KeysStay, ServerStays DEF Typed
<1>4. ASSUME NEW s \in Tabs PROVE TabTyped(tab[s])'
  <2>1. PICK p : p = tab[s] /\ TabTyped(p)
    BY DEF Typed
  <2>2. TabTyped(p)' /\ tab'[s] = p
    BY <1>1, <1>2, <2>1, TabStays
  <2> QED
    BY <2>2
<1> QED
  BY <1>1, <1>2, <1>3, <1>4 DEF Typed

(* Every step is by a tab, or a release. *)
Step(t) ==
  \/ Open(t) \/ Migrate(t) \/ Restore(t) \/ SelfAuthorise(t)
  \/ LoadFileSystem(t) \/ LoadFails(t) \/ OpenExisting(t) \/ MakeNew(t)
  \/ Link(t) \/ Publish(t) \/ Destroy(t)
  \/ \E user \in Users : Register(t, user) \/ Recover(t, Abroad, user)
  \/ Write(t) \/ Written(t) \/ Close(t)

LEMMA NextCases == ASSUME Next PROVE (\E t \in Tabs : Step(t)) \/ Upgrade
BY DEF Next, Step

LEMMA TypedNext == ASSUME Typed, [Next]_vars PROVE Typed'
<1>1. ASSUME NEW t \in Tabs, Step(t) PROVE Typed'
  <2>1. CASE Open(t)
    BY <2>1, OpenTyped
  <2>2. CASE Migrate(t)
    BY <2>2, MigrateTyped
  <2>3. CASE Restore(t)
    BY <2>3, RestoreTyped
  <2>4. CASE SelfAuthorise(t)
    BY <2>4, SelfAuthoriseTyped
  <2>5. CASE LoadFileSystem(t)
    BY <2>5, LoadFileSystemTyped
  <2>6. CASE LoadFails(t) \/ Close(t)
    BY <2>6, QuietAlike, GivesUpTyped
  <2>7. CASE OpenExisting(t)
    BY <2>7, OpenExistingTyped
  <2>8. CASE MakeNew(t)
    BY <2>8, MakeNewTyped
  <2>9. CASE Link(t)
    BY <2>9, LinkTyped
  <2>10. CASE Publish(t)
    BY <2>10, PublishTyped
  <2>11. CASE Destroy(t)
    BY <2>11, DestroyTyped
  <2>12. CASE \E user \in Users : Register(t, user) \/ Recover(t, Abroad, user)
    BY <2>12, RegisterTyped, RecoverTyped
  <2>13. CASE Write(t)
    BY <2>13, WriteTyped
  <2>14. CASE Written(t)
    BY <2>14, WrittenTyped
  <2> QED
    BY <1>1, <2>1, <2>2, <2>3, <2>4, <2>5, <2>6, <2>7, <2>8, <2>9, <2>10, <2>11, <2>12, <2>13, <2>14 DEF Step
<1>2. CASE Upgrade
  BY <1>2, UpgradeTyped
<1>3. CASE UNCHANGED vars
  <2>1. Grown /\ version \in Nat /\ fresh \in Nat
    BY <1>3 DEF Grown, HasAccount, Typed, vars
  <2>2. IsStore' /\ IsKeys' /\ IsServer'
    BY <1>3, <2>1, StoreStays, KeysStay, ServerStays DEF Typed, vars
  <2>3. ASSUME NEW s \in Tabs PROVE TabTyped(tab[s])'
    <3>1. PICK p : p = tab[s] /\ TabTyped(p)
      BY DEF Typed
    <3>2. TabTyped(p)' /\ tab'[s] = p
      BY <1>3, <2>1, <3>1, TabStays DEF vars
    <3> QED
      BY <3>2
  <2> QED
    BY <1>3, <2>2, <2>3 DEF Typed, vars
<1> QED
  BY <1>1, <1>2, <1>3, NextCases

LEMMA TypedInit == ASSUME Init PROVE Typed
<1>1. /\ legacy \in Legacies /\ fresh = 2 /\ version = 1 /\ calls = 0 /\ opens = 0
      /\ tab = [t \in Tabs |-> Closed]
  BY DEF Init, LegacyDID
<1>2. \A t \in Tabs : TabTyped(tab[t])
  BY <1>1, ClosedTyped
<1>3. IsStore
  <2>1. store = [ucan |-> None, session |-> None, ucans |-> None, log |-> None, migrated |-> 0]
    BY DEF Init, Blank
  <2> QED
    BY <1>1, <2>1 DEF IsStore
<1>4. IsKeys
  <2>1. keys = [agent |-> None, read |-> [d \in {} |-> None]]
    BY DEF Init, NoKeys
  <2> QED
    BY <2>1 DEF IsKeys
<1>5. IsServer
  <2>0. [key |-> 1, n |-> 0] \in Version /\ [key |-> 2, n |-> 0] \in Version
    BY DEF Version
  <2>1. PICK a, b : a = ForeignRoot /\ b = [key |-> LegacyDID, n |-> 0] /\ a.key = 1 /\ b.key = 2
                    /\ a \in Version /\ b \in Version
    BY <2>0 DEF ForeignRoot, ForeignDID, LegacyDID
  <2>2. legacy # None => legacy # Abroad /\ legacy \in Users
    BY <1>1, LegacyIsUser
  <2>3. /\ account = [u \in Users |-> account[u]] /\ root = [u \in Users |-> root[u]]
        /\ account[Abroad] = 1 /\ root[Abroad] = a
    BY <2>1, SessionAssumption DEF Init, ForeignDID
  <2>4. legacy # None => account[legacy] = 2 /\ root[legacy] = b
    BY <2>1, <2>2 DEF Init, LegacyDID
  <2>5. \A u \in Users \ {Abroad, legacy} : account[u] = None /\ root[u] = None
    BY DEF Init
  <2>6. a # None /\ b # None /\ None # 1 /\ None # 2
    BY <2>1, NoneApart
  <2>7. \A u \in Users : root[u] # None =>
          root[u] \in Version /\ account[u] # None /\ KeyFits(u, root[u].key)
    <3> SUFFICES ASSUME NEW u \in Users, root[u] # None
                 PROVE  root[u] \in Version /\ account[u] # None /\ KeyFits(u, root[u].key)
      OBVIOUS
    <3>1. CASE u = Abroad
      BY <2>1, <2>2, <2>3, <2>6, <3>1, SessionAssumption, NoneApart DEF KeyFits, ForeignDID
    <3>2. CASE u = legacy
      BY <2>1, <2>2, <2>4, <2>6, <3>2, NoneApart DEF KeyFits, LegacyDID
    <3> QED
      BY <2>5, <3>1, <3>2
  <2> QED
    BY <2>3, <2>4, <2>5, <2>6, <2>7 DEF IsServer, HasAccount, ForeignDID, LegacyDID
<1> QED
  BY <1>1, <1>2, <1>3, <1>4, <1>5, SessionAssumption DEF Typed, LegacyDID

(* The types hold of every state, whatever happens to the tabs. *)
THEOREM SessionTyped == Spec => []TypeOK
<1>1. Typed => TypeOK
  <2> SUFFICES ASSUME Typed PROVE TypeOK
    OBVIOUS
  <2>1. /\ store.session \in [type : {"webCrypto"}, user : Users] \union {None}
        /\ store.migrated \in 0..version /\ version \in 1..(MaxUpgrades + 1)
        /\ calls \in 0..MaxCalls /\ opens \in 0..MaxOpens
    BY DEF Typed, IsStore, Info
  <2>2. fresh \in Nat /\ fresh >= 2
    BY DEF Typed, LegacyDID
  <2>3. keys.agent \in 1..fresh \union {None}
    BY <2>2 DEF Typed, IsKeys, LegacyDID
  <2>4. Range(keys.read) \subseteq 1..fresh
    BY DEF Typed, IsKeys, Range
  <2>5. \A u \in Users : account[u] \in 1..fresh \union {None}
    <3> SUFFICES ASSUME NEW u \in Users, account[u] # None PROVE account[u] \in 1..fresh
      OBVIOUS
    <3>1. CASE u \in {Abroad, legacy}
      BY <2>2, <3>1, NoneApart DEF Typed, IsServer, ForeignDID, LegacyDID
    <3>2. CASE u \notin {Abroad, legacy}
      BY <2>2, <3>2 DEF Typed, IsServer, HasAccount
    <3> QED
      BY <3>1, <3>2
  <2>6. ASSUME NEW t \in Tabs
        PROVE  /\ tab[t].pc \in {"closed", "migrate", "restore", "session", "writes", "load", "open", "idle"}
               /\ (tab[t].fs # None) = (tab[t].session # None)
               /\ tab[t].session # None => account[tab[t].session] # None
               /\ tab[t].writes # << >> => tab[t].pc = "writes"
               /\ tab[t].pc = "open" => tab[t].user # None
               /\ \A u \in Range(tab[t].ucans) : u.exp > Now
    <3>1. PICK p : p = tab[t] /\ TabTyped(p)
      BY DEF Typed
    <3>2. p.pc \in Steps /\ (p.writes # << >> => p.pc = "writes") /\ p.ucans \in Seq(Ucan)
      BY <3>1 DEF TabTyped
    <3>3. (p.fs # None) = (p.session # None)
      BY <3>1, NoneApart DEF TabTyped
    <3>4. p.session # None => account[p.session] # None
      BY <3>1 DEF TabTyped, HasAccount
    <3>5. p.pc = "open" => p.user # None
      BY <3>1, NoneApart DEF TabTyped, Starts
    <3>6. \A u \in Range(p.ucans) : u.exp > Now
      <4>1. Range(p.ucans) \subseteq Ucan
        BY <3>2 DEF Range
      <4> QED
        BY <4>1, UcanFields
    <3> QED
      BY <3>1, <3>2, <3>3, <3>4, <3>5, <3>6 DEF Steps
  <2> QED
    BY <2>1, <2>3, <2>4, <2>5, <2>6 DEF TypeOK
<1> QED
  BY <1>1, TypedInit, TypedNext, PTL DEF Spec

-----------------------------------------------------------------------------
(* STEPS *)
LEMMA HarmStays ==
  ASSUME NEW t \in Tabs, Step(t), harm' \subseteq {"cut"}
  PROVE  harm \subseteq {"cut"}
<1>1. \/ harm \subseteq harm'
      \/ harm' = harm \ {"cut"}
  BY DEF Step, Open, Migrate, Restore, SelfAuthorise, LoadFileSystem, LoadFails, OpenExisting, MakeNew,
         Link, Publish, Destroy, Register, Recover, Write, Written, Close, Alters
<1> QED
  BY <1>1

(* What each step makes of its tab. *)
LEMMA OpenStep ==
  ASSUME NEW t \in Tabs, Open(t)
  PROVE  \E q : /\ Become(t, q) /\ IsTab(q) /\ q.pc = "migrate" /\ q.task = None /\ q.writes = << >>
                /\ q.session = None
<1>1. PICK q : q = [Closed EXCEPT !.pc = "migrate", !.ucans = Items(store.ucans), !.log = Items(store.log)]
  OBVIOUS
<1>2. IsTab(q) /\ q.pc = "migrate" /\ q.task = None /\ q.writes = << >> /\ q.session = None
  BY <1>1 DEF IsTab, Closed
<1> QED
  BY <1>1, <1>2 DEF Open

LEMMA IdleStep ==
  ASSUME NEW t \in Tabs, NEW p, p = tab[t], TabTyped(p), Become(t, Idle(p))
  PROVE  \E q : /\ Become(t, q) /\ IsTab(q) /\ q.pc = "idle" /\ q.task = None /\ q.writes = << >>
                /\ q.session = p.session /\ q.fs = p.fs /\ q.ucans = p.ucans
<1>1. PICK q : q = Idle(p)
  OBVIOUS
<1>2. /\ IsTab(q) /\ q.pc = "idle" /\ q.task = None /\ q.session = p.session /\ q.fs = p.fs
      /\ q.ucans = p.ucans /\ q.writes = << >>
  <2>1. TabTyped(q) /\ q.pc = "idle" /\ q.task = None /\ q.session = p.session /\ q.fs = p.fs /\ q.ucans = p.ucans
    BY <1>1, IdleTyped
  <2> QED
    BY <2>1 DEF TabTyped
<1> QED
  BY <1>1, <1>2

LEMMA RunningStep ==
  ASSUME NEW t \in Tabs, NEW p, p = tab[t], TabTyped(p), NEW task, NEW list, Running(t, task, list)
  PROVE  \E q : /\ Become(t, q) /\ IsTab(q) /\ q.pc = "writes" /\ q.task = task /\ q.writes = list
                /\ q.ucans = p.ucans /\ q.log = p.log /\ q.user = p.user /\ q.session = p.session /\ q.fs = p.fs
<1>1. IsTab(p)
  BY DEF TabTyped
<1>2. PICK q : q = [p EXCEPT !.pc = "writes", !.task = task, !.writes = list]
  OBVIOUS
<1>3. /\ IsTab(q) /\ q.pc = "writes" /\ q.task = task /\ q.writes = list
      /\ q.ucans = p.ucans /\ q.log = p.log /\ q.user = p.user /\ q.session = p.session /\ q.fs = p.fs
  BY <1>1, <1>2 DEF IsTab
<1> QED
  BY <1>2, <1>3 DEF Running

LEMMA MigrateStep ==
  ASSUME Typed, NEW t \in Tabs, Migrate(t), NEW p, p = tab[t]
  PROVE  \E q : /\ Become(t, q) /\ IsTab(q) /\ q.session = None
                /\ \/ q.pc = "restore" /\ q.task = None /\ q.writes = << >>
                   \/ /\ q.pc = "writes" /\ q.task = "migrate" /\ store.migrated < version
                      /\ q.writes = IF legacy = None THEN <<Set("migrated", version)>> ELSE Inheritance
<1>1. TabTyped(p) /\ p.pc = "migrate" /\ p.session = None
  BY DEF Typed, Migrate, TabTyped
<1>2. CASE Become(t, [p EXCEPT !.pc = "restore"])
  <2>1. PICK q : q = [p EXCEPT !.pc = "restore"]
    OBVIOUS
  <2>2. IsTab(p) /\ p.task = None /\ p.writes = << >>
    BY <1>1 DEF TabTyped
  <2>3. IsTab(q) /\ q.session = None /\ q.pc = "restore" /\ q.task = None /\ q.writes = << >>
    BY <1>1, <2>1, <2>2 DEF IsTab
  <2> QED
    BY <1>2, <2>1, <2>3
<1>3. CASE ~(store.migrated >= version) /\ Running(t, "migrate", Inherited \o <<Set("migrated", version)>>)
  <2>1. PICK list : /\ list = Inherited \o <<Set("migrated", version)>> /\ Running(t, "migrate", list)
                    /\ list = IF legacy = None THEN <<Set("migrated", version)>> ELSE Inheritance
    BY <1>3, MigrationWrites
  <2>2. store.migrated < version
    BY <1>3 DEF Typed, IsStore
  <2>3. PICK q : /\ Become(t, q) /\ IsTab(q) /\ q.pc = "writes" /\ q.task = "migrate" /\ q.writes = list
                 /\ q.session = p.session
    <3>1. Running(t, "migrate", list)
      BY <2>1
    <3> QED
      BY <1>1, <3>1, RunningStep
  <2> QED
    BY <1>1, <2>1, <2>2, <2>3
<1> QED
  BY <1>2, <1>3 DEF Migrate

LEMMA RestoreStep ==
  ASSUME Typed, NEW t \in Tabs, Restore(t), NEW p, p = tab[t]
  PROVE  \E q : /\ Become(t, q) /\ IsTab(q) /\ q.task = None /\ q.writes = << >> /\ q.session = None
                /\ \/ q.pc = "idle"
                   \/ q.pc = "session" /\ store.session # None /\ q.user = store.session.user
<1>1. TabTyped(p) /\ p.session = None /\ p.pc \in {"restore", "idle"}
  BY DEF Typed, Restore, TabTyped, AppCalls
<1>2. CASE Become(t, Idle(p))
  BY <1>1, <1>2, IdleStep
<1>3. CASE store.session # None /\ Become(t, [p EXCEPT !.pc = "session", !.user = store.session.user])
  <2>1. PICK q : q = [p EXCEPT !.pc = "session", !.user = store.session.user]
    OBVIOUS
  <2>2. IsTab(p) /\ p.task = None /\ p.writes = << >>
    BY <1>1 DEF TabTyped
  <2>3. /\ IsTab(q) /\ q.session = None /\ q.pc = "session" /\ q.task = None /\ q.writes = << >>
        /\ q.user = store.session.user
    BY <1>1, <2>1, <2>2 DEF IsTab
  <2> QED
    BY <1>3, <2>1, <2>3
<1> QED
  BY <1>2, <1>3 DEF Restore, SessionInfo

LEMMA SelfAuthoriseStep ==
  ASSUME Typed, NEW t \in Tabs, SelfAuthorise(t), NEW p, p = tab[t]
  PROVE  \E q : /\ Become(t, q) /\ IsTab(q) /\ q.session = None
                /\ \/ q.pc = "idle" /\ q.task = None /\ q.writes = << >>
                   \/ /\ keys.agent # None /\ q.pc = "writes" /\ q.task = "session" /\ q.user = p.user
                      /\ q.writes = <<Add("ucans", BuildUcan(keys.agent, store.ucan))>>
<1>1. TabTyped(p) /\ p.session = None /\ p.pc = "session"
  BY DEF Typed, SelfAuthorise, TabTyped
<1>2. ~HasSelfAuthorisedFsUcan(p.ucans)
  BY <1>1, NeverSelfAuthorised DEF TabTyped
<1>3. CASE Become(t, Idle(p))
  BY <1>1, <1>3, IdleStep
<1>4. CASE keys.agent # None /\ Running(t, "session", <<Add("ucans", BuildUcan(keys.agent, store.ucan))>>)
  <2>1. PICK list : list = <<Add("ucans", BuildUcan(keys.agent, store.ucan))>>
    OBVIOUS
  <2>2. PICK q : /\ Become(t, q) /\ IsTab(q) /\ q.pc = "writes" /\ q.task = "session" /\ q.writes = list
                 /\ q.session = p.session /\ q.user = p.user
    BY <1>1, <1>4, <2>1, RunningStep
  <2> QED
    BY <1>1, <1>4, <2>1, <2>2
<1> QED
  BY <1>2, <1>3, <1>4 DEF SelfAuthorise

LEMMA LoadStep ==
  ASSUME Typed, NEW t \in Tabs, LoadFileSystem(t), NEW p, p = tab[t]
  PROVE  \E q : /\ Become(t, q) /\ IsTab(q) /\ q.session = None /\ q.user = p.user /\ q.ucans = p.ucans
                /\ \/ q.pc = "open" /\ q.task = None /\ q.writes = << >>
                   \/ /\ q.pc = "writes" /\ q.task = "load" /\ root[p.user] # None
                      /\ q.writes = <<Add("log", root[p.user])>>
<1>1. TabTyped(p) /\ p.session = None /\ p.pc = "load"
  BY DEF Typed, LoadFileSystem, TabTyped
<1>2. IsTab(p) /\ p.task = None /\ p.writes = << >>
  BY <1>1 DEF TabTyped
<1>3. PICK cid, v, logged : cid = root[p.user] /\ v = Chosen(p.log, cid) /\ logged = IsNewer(p.log, cid)
  OBVIOUS
<1>4. PICK q : q = [p EXCEPT !.load = v, !.pc = IF logged THEN "writes" ELSE "open",
                            !.task = IF logged THEN "load" ELSE @,
                            !.writes = IF logged THEN <<Add("log", cid)>> ELSE @]
  OBVIOUS
<1>5. /\ IsTab(q) /\ q.pc = (IF logged THEN "writes" ELSE "open") /\ q.task = (IF logged THEN "load" ELSE None)
      /\ q.writes = (IF logged THEN <<Add("log", cid)>> ELSE << >>)
      /\ q.session = None /\ q.user = p.user /\ q.ucans = p.ucans
  BY <1>1, <1>2, <1>4 DEF IsTab
<1>6. Become(t, q)
  BY <1>3, <1>4 DEF LoadFileSystem, LookupRoot
<1> QED
  BY <1>3, <1>5, <1>6 DEF IsNewer

LEMMA MadeStep ==
  ASSUME NEW t \in Tabs, NEW p, p = tab[t], TabTyped(p), NEW fs, Made(t, fs)
  PROVE  \E q : /\ Become(t, q) /\ IsTab(q) /\ q.pc = "idle" /\ q.task = None /\ q.writes = << >>
                /\ q.session = p.user /\ q.fs = fs /\ q.ucans = p.ucans
<1>1. PICK r : r = Idle(p)
  OBVIOUS
<1>2. IsTab(r) /\ r.pc = "idle" /\ r.task = None /\ r.ucans = p.ucans /\ r.writes = << >>
  <2>1. TabTyped(r) /\ r.pc = "idle" /\ r.task = None /\ r.ucans = p.ucans
    BY <1>1, IdleTyped
  <2> QED
    BY <2>1 DEF TabTyped
<1>3. PICK q : q = [r EXCEPT !.session = p.user, !.fs = fs]
  OBVIOUS
<1>4. /\ IsTab(q) /\ q.pc = "idle" /\ q.task = None /\ q.writes = << >>
      /\ q.session = p.user /\ q.fs = fs /\ q.ucans = p.ucans
  BY <1>2, <1>3 DEF IsTab
<1> QED
  BY <1>1, <1>3, <1>4 DEF Made

LEMMA OpenExistingStep ==
  ASSUME Typed, NEW t \in Tabs, OpenExisting(t), NEW p, p = tab[t]
  PROVE  \E q : /\ Become(t, q) /\ IsTab(q) /\ q.pc = "idle" /\ q.task = None /\ q.writes = << >>
                /\ \/ q.session = None
                   \/ q.session = p.user /\ HasRead(p.user, q.fs) /\ q.ucans = p.ucans
<1>1. TabTyped(p) /\ p.session = None /\ p.pc = "open"
  BY DEF Typed, OpenExisting, TabTyped
<1>2. CASE Become(t, Idle(p))
  BY <1>1, <1>2, IdleStep
<1>3. CASE HasRead(p.user, p.load.key) /\ Made(t, p.load.key)
  <2>1. PICK fs : fs = p.load.key
    OBVIOUS
  <2> QED
    BY <1>1, <1>3, <2>1, MadeStep
<1> QED
  BY <1>2, <1>3 DEF OpenExisting, Opened, HasRead, Did, LookupDid

(* The tab after a write, by what is written. *)
LEMMA WriteStep ==
  ASSUME Typed, NEW t \in Tabs, Write(t), NEW p, p = tab[t], NEW w, w = Head(p.writes)
  PROVE  \E q : /\ Become(t, q) /\ IsTab(q) /\ q.pc = "writes" /\ q.task = p.task /\ q.writes = Tail(p.writes)
                /\ q.user = p.user /\ q.session = p.session /\ q.fs = p.fs
                /\ q.ucans = IF w.to = "add" /\ w.repo = "ucans" THEN Append(p.ucans, w.value) ELSE p.ucans
<1>1. TabTyped(p) /\ p.pc = "writes" /\ p.writes # << >>
  BY DEF Typed, Write
<1>2. PICK r : r = [p EXCEPT !.writes = Tail(@)]
  OBVIOUS
<1>3. /\ TabTyped(r) /\ r.pc = "writes" /\ r.task = p.task /\ r.writes = Tail(p.writes) /\ r.ucans = p.ucans
      /\ r.user = p.user /\ r.session = p.session /\ r.fs = p.fs /\ IsTab(r)
      /\ r.log = p.log /\ w \in WriteRecord
  BY <1>1, <1>2, TailTyped
<1>4. CASE w.to = "add"
  <2>1. Become(t, [r EXCEPT ![w.repo] = Append(p[w.repo], w.value)])
    BY <1>2, <1>4 DEF Write, WholeCache
  <2>2. CASE w.repo = "ucans"
    <3>1. PICK q : q = [r EXCEPT !.ucans = Append(p.ucans, w.value)]
      OBVIOUS
    <3>2. /\ IsTab(q) /\ q.pc = "writes" /\ q.task = p.task /\ q.writes = Tail(p.writes)
          /\ q.user = p.user /\ q.session = p.session /\ q.fs = p.fs /\ q.ucans = Append(p.ucans, w.value)
      BY <1>3, <3>1 DEF IsTab
    <3>3. Become(t, q)
      BY <2>1, <2>2, <3>1
    <3> QED
      BY <1>4, <2>2, <3>2, <3>3
  <2>3. CASE w.repo = "log"
    <3>1. PICK q : q = [r EXCEPT !.log = Append(p.log, w.value)]
      OBVIOUS
    <3>2. /\ IsTab(q) /\ q.pc = "writes" /\ q.task = p.task /\ q.writes = Tail(p.writes)
          /\ q.user = p.user /\ q.session = p.session /\ q.fs = p.fs /\ q.ucans = p.ucans
      BY <1>3, <3>1 DEF IsTab
    <3>3. Become(t, q)
      BY <2>1, <2>3, <3>1
    <3> QED
      BY <1>4, <2>3, <3>2, <3>3
  <2> QED
    BY <1>3, <1>4, <2>2, <2>3, WriteCases
<1>5. CASE w.to # "add"
  <2>1. Become(t, r)
    BY <1>2, <1>5 DEF Write
  <2> QED
    BY <1>3, <1>5, <2>1
<1> QED
  BY <1>4, <1>5

(* What it writes. *)
LEMMA WriteEffect ==
  ASSUME NEW t \in Tabs, Write(t), NEW w, w = Head(tab[t].writes)
  PROVE  /\ UNCHANGED <<legacy, account, fresh, version, calls, opens, harm>>
         /\ w.to = "add" => store' = [store EXCEPT ![w.repo] = WholeCache(t, w)] /\ UNCHANGED <<keys, root>>
         /\ w.to = "key" => keys' = [keys EXCEPT !.read = WithKey(w.did, w.value)] /\ UNCHANGED <<store, root>>
         /\ w.to = "agent" => keys' = [keys EXCEPT !.agent = w.value] /\ UNCHANGED <<store, root>>
         /\ w.to = "clear" => keys' = NoKeys /\ store' = Blank /\ UNCHANGED root
         /\ w.to = "root" => root' = [root EXCEPT ![w.user] = w.value] /\ UNCHANGED <<store, keys>>
         /\ w.to \in {"ucan", "session", "log", "ucans", "migrated"} =>
              store' = [store EXCEPT ![w.to] = w.value] /\ UNCHANGED <<keys, root>>
BY DEF Write

LEMMA WrittenStep ==
  ASSUME Typed, NEW t \in Tabs, Written(t), NEW p, p = tab[t]
  PROVE  \E q : /\ Become(t, q) /\ IsTab(q) /\ q.task = None /\ q.writes = << >> /\ q.ucans = p.ucans
                /\ q.pc = (CASE p.task = "migrate" -> "restore" [] p.task = "session" -> "load"
                             [] p.task = "load" -> "open" [] OTHER -> "idle")
                /\ p.task \in {"session", "load"} => q.user = p.user /\ q.load = p.load
                /\ q.session = IF p.task = "destroy" THEN None ELSE p.session
                /\ q.fs = IF p.task = "destroy" THEN None ELSE p.fs
<1>1. TabTyped(p) /\ p.pc = "writes" /\ p.writes = << >>
  BY DEF Typed, Written
<1>2. PICK q : q = Then(p)
  OBVIOUS
<1>3. Become(t, q)
  BY <1>2 DEF Written, Then
<1> QED
  BY <1>1, <1>2, <1>3, ThenTyped

-----------------------------------------------------------------------------
(* DELICATE TASKS RUN ALONE *)
Fragile(task) == task \in {"link", "recover", "destroy"}

(* Where a tab takes a step, no other one is in the middle of such a task:  *)
(* that one would be alone, and a tab that opens then counts as harm.       *)
LEMMA Sole ==
  ASSUME Typed, Alone, NEW t \in Tabs, tab[t].pc = "closed" => \A s \in Tabs : ~Delicate(s),
         NEW s \in Tabs \ {t}
  PROVE  ~Delicate(s) /\ ~Fragile(tab[s].task)
BY DEF Alone, Others, Delicate, Fragile

LEMMA StepsAlone ==
  ASSUME NEW t \in Tabs, Step(t), harm' \subseteq {"cut"}, Typed
  PROVE  tab[t].pc = "closed" => \A s \in Tabs : ~Delicate(s)
<1>1. CASE Open(t)
  BY <1>1 DEF Open
<1>2. CASE ~Open(t)
  <2>1. tab[t].pc # "closed"
    BY <1>2 DEF Step, Migrate, Restore, SelfAuthorise, LoadFileSystem, LoadFails, OpenExisting, MakeNew,
                Link, Publish, Destroy, Register, Recover, Write, Written, Close, AppCalls
  <2> QED
    BY <2>1
<1> QED
  BY <1>1, <1>2

LEMMA AloneFrame ==
  ASSUME Typed, Alone, NEW t \in Tabs, NEW q, Become(t, q),
         tab[t].pc = "closed" => \A s \in Tabs : ~Delicate(s),
         Fragile(q.task) => Others(t) = {}, q.task = "destroy" => Wipes(q)'
  PROVE  Alone'
<1>1. tab'[t] = q /\ \A s \in Tabs \ {t} : tab'[s] = tab[s]
  BY DEF Become, Typed
<1>2. Others(t)' = Others(t)
  BY <1>1 DEF Others
<1>3. \A s \in Tabs \ {t} : ~Fragile(tab[s].task)
  BY Sole
<1>4. ASSUME NEW s \in Tabs PROVE (Delicate(s)' => Others(s)' = {}) /\ (tab'[s].task = "destroy" => Wipes(tab[s])')
  <2>1. CASE s = t
    <3>1. Delicate(s)' => Others(s)' = {}
      BY <1>1, <1>2, <2>1 DEF Delicate, Fragile
    <3>2. tab'[s].task = "destroy" => Wipes(tab[s])'
      BY <1>1, <2>1 DEF Wipes
    <3> QED
      BY <3>1, <3>2
  <2>2. CASE s # t
    <3>1. ~Fragile(tab'[s].task)
      BY <1>1, <1>3, <2>2
    <3> QED
      BY <3>1 DEF Delicate, Fragile
  <2> QED
    BY <2>1, <2>2
<1> QED
  BY <1>4 DEF Alone

(* The writes that destroy, up to the last, which leaves nothing. *)
LEMMA WipeStep ==
  ASSUME Typed, NEW t \in Tabs, Write(t), tab[t].task = "destroy", Wipes(tab[t]),
         NEW q, q.writes = Tail(tab[t].writes)
  PROVE  Wipes(q)'
<1>1. PICK p : p = tab[t]
  OBVIOUS
<1>2. p.writes # << >>
  BY <1>1 DEF Write
<1>3. PICK a, b, c, d, e : /\ a = Set("ucan", None) /\ b = Set("log", None) /\ c = Set("session", None)
                           /\ d = Set("ucans", None) /\ e = ClearStore
  OBVIOUS
<1>4. Wiping = <<a, b, c, d, e>>
  BY <1>3 DEF Wiping
<1>5. /\ Tail(Wiping) = <<b, c, d, e>> /\ Tail(Tail(Wiping)) = <<c, d, e>>
      /\ Tail(Tail(Tail(Wiping))) = <<d, e>> /\ Tail(Tail(Tail(Tail(Wiping)))) = <<e>>
  BY <1>4, Longer, Pairs
<1>6. \/ p.writes \in {Wiping, Tail(Wiping), Tail(Tail(Wiping)), Tail(Tail(Tail(Wiping)))}
      \/ p.writes = <<e>>
  BY <1>1, <1>2, <1>5 DEF Wipes
<1>7. CASE p.writes = <<e>>
  <2>1. Head(p.writes) = ClearStore /\ Tail(p.writes) = << >> /\ ClearStore.to = "clear"
    BY <1>3, <1>7, Pairs DEF ClearStore
  <2>2. store' = Blank /\ keys' = NoKeys
    BY <1>1, <2>1, WriteEffect
  <2>3. q.writes = << >>
    BY <1>1, <2>1
  <2> QED
    BY <2>2, <2>3 DEF Wipes, Blank, NoKeys
<1>8. CASE p.writes \in {Wiping, Tail(Wiping), Tail(Tail(Wiping)), Tail(Tail(Tail(Wiping)))}
  <2>1. q.writes \in {Tail(Wiping), Tail(Tail(Wiping)), Tail(Tail(Tail(Wiping))), Tail(Tail(Tail(Tail(Wiping))))}
    BY <1>1, <1>8
  <2>2. q.writes \in {Wiping, Tail(Wiping), Tail(Tail(Wiping)), Tail(Tail(Tail(Wiping))),
                      Tail(Tail(Tail(Tail(Wiping))))}
    BY <2>1
  <2> QED
    BY <2>2 DEF Wipes, Wiping
<1> QED
  BY <1>6, <1>7, <1>8

LEMMA AloneStep == ASSUME Typed, Alone, NEW t \in Tabs, Step(t), harm' \subseteq {"cut"} PROVE Alone'
<1>1. PICK p : p = tab[t] /\ TabTyped(p)
  BY DEF Typed
<1>2. tab[t].pc = "closed" => \A s \in Tabs : ~Delicate(s)
  BY StepsAlone
<1>3. ASSUME NEW q, Become(t, q), q.task \notin {"link", "recover", "destroy"} PROVE Alone'
  BY <1>2, <1>3, AloneFrame DEF Fragile
<1>4. ASSUME NEW task \in Tasks \ {"link", "recover", "destroy"}, NEW list, Running(t, task, list) PROVE Alone'
  BY <1>1, <1>3, <1>4, RunningStep
<1>5. ASSUME Alters(t) PROVE Others(t) = {}
  BY <1>5 DEF Alters
<1>6. ASSUME NEW task \in {"link", "recover"}, NEW list, Running(t, task, list), Alters(t) PROVE Alone'
  <2>1. PICK q : Become(t, q) /\ q.task = task
    BY <1>1, <1>6, RunningStep
  <2> QED
    BY <1>2, <1>5, <1>6, <2>1, AloneFrame
<1>7. ASSUME NEW q, Become(t, q), q.task = None PROVE Alone'
  BY <1>3, <1>7, NoTask DEF Tasks
<1>8. CASE Open(t)
  BY <1>7, <1>8, OpenStep
<1>9. CASE Migrate(t)
  <2>1. PICK q : Become(t, q) /\ q.task \in {None, "migrate"}
    BY <1>1, <1>9, MigrateStep
  <2> QED
    BY <1>3, <1>7, <2>1
<1>10. CASE Restore(t)
  BY <1>1, <1>7, <1>10, RestoreStep
<1>11. CASE SelfAuthorise(t)
  <2>1. PICK q : Become(t, q) /\ q.task \in {None, "session"}
    BY <1>1, <1>11, SelfAuthoriseStep
  <2> QED
    BY <1>3, <1>7, <2>1
<1>12. CASE LoadFileSystem(t)
  <2>1. PICK q : Become(t, q) /\ q.task \in {None, "load"}
    BY <1>1, <1>12, LoadStep
  <2> QED
    BY <1>3, <1>7, <2>1
<1>13. CASE LoadFails(t)
  <2>1. Become(t, Idle(p))
    BY <1>1, <1>13 DEF LoadFails
  <2> QED
    BY <1>1, <1>7, <2>1, IdleStep
<1>14. CASE OpenExisting(t)
  BY <1>1, <1>7, <1>14, OpenExistingStep
<1>15. CASE MakeNew(t)
  <2>1. PICK fs : Made(t, fs)
    BY <1>15 DEF MakeNew
  <2> QED
    BY <1>1, <1>7, <2>1, MadeStep
<1>16. CASE Link(t)
  <2>1. PICK list : Running(t, "link", list)
    BY <1>16 DEF Link
  <2> QED
    BY <1>6, <1>16, <2>1 DEF Link
<1>17. CASE Publish(t)
  <2>1. PICK list : Running(t, "publish", list)
    BY <1>1, <1>17, PublishWrites
  <2> QED
    BY <1>4, <2>1 DEF Tasks
<1>18. CASE Destroy(t)
  <2>1. PICK list : list = Wiping /\ Running(t, "destroy", list)
    BY <1>18 DEF Destroy, Wiping
  <2>2. PICK q : Become(t, q) /\ q.task = "destroy" /\ q.writes = list
    BY <1>1, <2>1, RunningStep
  <2>3. Wipes(q)' /\ Others(t) = {}
    BY <1>5, <1>18, <2>1, <2>2 DEF Wipes, Destroy, Wiping
  <2> QED
    BY <1>2, <2>2, <2>3, AloneFrame
<1>19. ASSUME NEW user \in Users, Register(t, user) PROVE Alone'
  <2>1. PICK list : Running(t, "register", list)
    BY <1>19 DEF Register
  <2> QED
    BY <1>4, <2>1 DEF Tasks
<1>20. ASSUME NEW user \in Users, Recover(t, Abroad, user) PROVE Alone'
  <2>1. PICK list : Running(t, "recover", list)
    BY <1>20 DEF Recover
  <2> QED
    BY <1>6, <1>20, <2>1 DEF Recover
<1>21. CASE Write(t)
  <2>1. PICK q : Become(t, q) /\ q.task = p.task /\ q.writes = Tail(p.writes)
    BY <1>1, <1>21, WriteStep
  <2>2. CASE Fragile(p.task)
    <3>1. Others(t) = {}
      BY <1>1, <2>2 DEF Alone, Delicate, Fragile
    <3>2. q.task = "destroy" => Wipes(q)'
      BY <1>1, <1>21, <2>1, WipeStep DEF Alone
    <3> QED
      BY <1>2, <2>1, <3>1, <3>2, AloneFrame
  <2>3. CASE ~Fragile(p.task)
    BY <1>3, <2>1, <2>3 DEF Fragile
  <2> QED
    BY <2>2, <2>3
<1>22. CASE Written(t)
  BY <1>1, <1>7, <1>22, WrittenStep
<1>23. CASE Close(t)
  BY <1>7, <1>23 DEF Close, Closed
<1> QED
  BY <1>8, <1>9, <1>10, <1>11, <1>12, <1>13, <1>14, <1>15, <1>16, <1>17, <1>18, <1>19, <1>20, <1>21, <1>22,
     <1>23 DEF Step

LEMMA AloneNext ==
  ASSUME Typed, harm \subseteq {"cut"} => Alone, [Next]_vars PROVE harm' \subseteq {"cut"} => Alone'
<1>1. ASSUME NEW t \in Tabs, Step(t), harm' \subseteq {"cut"} PROVE Alone'
  BY <1>1, HarmStays, AloneStep
<1>2. ASSUME UNCHANGED <<tab, harm, store, keys>>, harm' \subseteq {"cut"} PROVE Alone'
  BY <1>2 DEF Alone, Delicate, Others, Wipes
<1>3. CASE Upgrade
  BY <1>2, <1>3 DEF Upgrade
<1>4. CASE UNCHANGED vars
  BY <1>2, <1>4 DEF vars
<1> QED
  BY <1>1, <1>3, <1>4, NextCases

-----------------------------------------------------------------------------
(* THE STORED SESSION AND THE TABS *)
LEMMA OwnerIs ==
  ASSUME Typed
  PROVE  /\ Owner \in Users \union {None} /\ (Owner = None <=> store.session = None)
         /\ Owner # None => Owner = store.session.user /\ HasAccount(Owner)
BY NoneApart DEF Typed, IsStore, Info, Owner

(* A tab that is no part of it. *)
Plain(q) ==
  /\ q.session = None /\ q.pc \in {"closed", "migrate", "restore", "idle"} /\ q.task = None

LEMMA PlainSettled == ASSUME NEW q, Plain(q) PROVE TabSettled(q) /\ TabSettled(q)'
<1>1. /\ q.session = None /\ ~Starts(q) /\ q.task # "load" /\ q.pc \notin {"load", "open"}
      /\ q.task \notin Tasks
  BY NoTask DEF Plain, Starts, Tasks
<1>2. WritesSettled(q)
  BY <1>1 DEF WritesSettled, Tasks
<1>3. WritesSettled(q)'
  BY <1>1 DEF WritesSettled, Tasks
<1> QED
  BY <1>1, <1>2, <1>3 DEF TabSettled

LEMMA ClosedIsPlain == Plain(Closed)
BY DEF Plain, Closed

(* While nothing is written, what was settled is. *)
Unwritten == UNCHANGED <<legacy, store, keys, account, root, version>>

LEMMA UnwrittenReads ==
  ASSUME Unwritten
  PROVE  /\ Owner' = Owner
         /\ \A user, key : HasRead(user, key)' <=> HasRead(user, key)
         /\ \A u, user : Good(u, user)' <=> Good(u, user)
         /\ \A list, user : GoodLast(list, user)' <=> GoodLast(list, user)
         /\ Inheritance' = Inheritance /\ RootIssuer' = RootIssuer
<1>1. Owner' = Owner /\ Inheritance' = Inheritance /\ RootIssuer' = RootIssuer
  BY DEF Unwritten, Owner, Inheritance, RootIssuer
<1>2. ASSUME NEW user, NEW key PROVE HasRead(user, key)' <=> HasRead(user, key)
  BY DEF Unwritten, HasRead, HasKey, RetrieveKey
<1>3. ASSUME NEW u, NEW user PROVE Good(u, user)' <=> Good(u, user)
  BY DEF Unwritten, Good
<1>4. ASSUME NEW list, NEW user PROVE GoodLast(list, user)' <=> GoodLast(list, user)
  BY DEF Unwritten, GoodLast, Good
<1> QED
  BY <1>1, <1>2, <1>3, <1>4

LEMMA UnwrittenTab == ASSUME Unwritten, NEW r, TabSettled(r) PROVE TabSettled(r)'
<1>1. /\ Owner' = Owner
      /\ \A user, key : HasRead(user, key)' <=> HasRead(user, key)
      /\ \A u, user : Good(u, user)' <=> Good(u, user)
      /\ \A list, user : GoodLast(list, user)' <=> GoodLast(list, user)
      /\ Inheritance' = Inheritance
  BY UnwrittenReads
<1>2. WritesSettled(r) => WritesSettled(r)'
  <2>1. Registers(r) => Registers(r)'
    BY <1>1 DEF Unwritten, Registers
  <2>2. Links(r) => Links(r)'
    BY <1>1 DEF Unwritten, Links, HasKey
  <2>3. Recovers(r) => Recovers(r)'
    <3> SUFFICES ASSUME Recovers(r) PROVE Recovers(r)'
      OBVIOUS
    <3>1. PICK user \in Users \ {Abroad, legacy}, v \in Version :
            LET list == <<Provide("webCrypto", user), Update(user, v), StoreKey(keys.agent, v.key)>>
            IN /\ keys.agent # None /\ keys.agent # LegacyDID /\ account[user] = keys.agent
               /\ store.log = None /\ store.ucan = None /\ v.key = ForeignDID
               /\ \/ r.writes = list /\ Owner = None /\ root[user] = None
                  \/ r.writes = Tail(list) /\ Owner = user /\ root[user] = None
                  \/ r.writes = Tail(Tail(list)) /\ Owner = user /\ root[user] = v
                  \/ r.writes = << >> /\ Owner = user /\ root[user] = v /\ HasRead(user, v.key)
      BY DEF Recovers
    <3> QED
      BY <1>1, <3>1 DEF Unwritten, Recovers
  <2>4. Publishes(r) => Publishes(r)'
    BY DEF Publishes
  <2>5. Inherits(r) => Inherits(r)'
    BY <1>1 DEF Unwritten, Inherits, HasKey
  <2>6. ASSUME r.task = "session", WritesSettled(r) PROVE WritesSettled(r)'
    BY <1>1, <2>6 DEF WritesSettled
  <2>7. ASSUME r.task = "load", WritesSettled(r) PROVE WritesSettled(r)'
    BY <1>1, <2>7 DEF WritesSettled, Unwritten
  <2>8. ASSUME r.task = "migrate", WritesSettled(r) PROVE WritesSettled(r)'
    BY <1>1, <2>5, <2>8 DEF WritesSettled, Unwritten
  <2>9. ASSUME r.task \notin {"session", "load", "migrate"}, WritesSettled(r) PROVE WritesSettled(r)'
    BY <2>1, <2>2, <2>3, <2>4, <2>9 DEF WritesSettled
  <2> QED
    BY <2>6, <2>7, <2>8, <2>9
<1> QED
  BY <1>1, <1>2 DEF TabSettled

(* A tab that is settled, by its name. *)
LEMMA SettledIs ==
  ASSUME NEW s, NEW r, tab'[s] = r, TabSettled(r)'
  PROVE  TabSettled(tab[s])'
<1>1. Registers(r)' => Registers(tab[s])'
  BY DEF Registers
<1>2. Links(r)' => Links(tab[s])'
  BY DEF Links
<1>3. Recovers(r)' => Recovers(tab[s])'
  BY DEF Recovers
<1>4. Publishes(r)' => Publishes(tab[s])'
  BY DEF Publishes
<1>5. Inherits(r)' => Inherits(tab[s])'
  BY DEF Inherits
<1>6. WritesSettled(r)' => WritesSettled(tab[s])'
  BY <1>1, <1>2, <1>3, <1>4, <1>5 DEF WritesSettled
<1> QED
  BY <1>6 DEF TabSettled, Starts

(* A step of one tab keeps it settled, if what it changes is. *)
LEMMA SettledFrame ==
  ASSUME Typed, Settled, NEW t \in Tabs, NEW q, Become(t, q), legacy' = legacy,
         StoreSettled', TabSettled(q)',
         q.task = "register" => tab[t].task = "register" \/ Others(t) = {},
         Inheriting(q) => Inheriting(tab[t]) \/ Others(t) = {},
         \/ q.pc \in {"closed", "migrate"} \/ tab[t].pc \notin {"closed", "migrate"}
         \/ \A s \in Tabs \ {t} : ~Inheriting(tab[s]),
         \A r : (\E s \in Tabs \ {t} : r = tab[s]) => TabSettled(r)'
  PROVE  Settled'
<1>1. tab'[t] = q /\ \A s \in Tabs \ {t} : tab'[s] = tab[s]
  BY DEF Become, Typed
<1>2. ASSUME NEW s \in Tabs PROVE TabSettled(tab[s])'
  <2>1. CASE s = t
    BY <1>1, <2>1, SettledIs
  <2>2. CASE s # t
    <3>1. PICK r : r = tab[s] /\ tab'[s] = r
      BY <1>1, <2>2
    <3>2. TabSettled(r)'
      BY <2>2, <3>1
    <3>3. tab'[s] = r
      BY <3>1
    <3> QED
      BY <3>2, <3>3, SettledIs
  <2> QED
    BY <2>1, <2>2
<1>3. \A s \in Tabs : Inheriting(tab[s])' <=> (tab'[s].task = "migrate" /\ tab'[s].writes # << >> /\ legacy # None)
  BY DEF Inheriting
<1>4. \A s \in Tabs \ {t} : Others(t) = {} => tab[s].pc = "closed" /\ tab[s].task = None
  <2> SUFFICES ASSUME NEW s \in Tabs \ {t}, Others(t) = {} PROVE tab[s].pc = "closed" /\ tab[s].task = None
    OBVIOUS
  <2>1. tab[s].pc = "closed"
    BY DEF Others
  <2> QED
    BY <2>1 DEF Typed, TabTyped
<1>5. Apart'
  <2> SUFFICES ASSUME NEW s \in Tabs, NEW u \in Tabs, s # u
               PROVE  /\ ~(tab'[s].task = "register" /\ tab'[u].task = "register")
                      /\ Inheriting(tab[u])' => tab'[s].pc \in {"closed", "migrate"}
    BY DEF Apart
  <2>0. /\ ~(tab[s].task = "register" /\ tab[u].task = "register")
        /\ Inheriting(tab[u]) => tab[s].pc \in {"closed", "migrate"}
        /\ Inheriting(tab[s]) => tab[u].pc \in {"closed", "migrate"}
    BY DEF Settled, Apart
  <2>1. CASE s # t /\ u # t
    BY <1>1, <1>3, <2>0, <2>1 DEF Inheriting
  <2>2. CASE u = t
    <3>1. tab'[s] = tab[s] /\ tab'[u] = q
      BY <1>1, <2>2
    <3>2. Others(t) = {} => tab[s].pc = "closed" /\ tab[s].task # "register"
      BY <1>4, <2>2, NoTask DEF Tasks
    <3>3. Inheriting(tab[u])' <=> Inheriting(q)
      BY <1>3, <3>1 DEF Inheriting
    <3> QED
      BY <2>0, <2>2, <3>1, <3>2, <3>3
  <2>3. CASE s = t
    <3>1. tab'[s] = q /\ tab'[u] = tab[u]
      BY <1>1, <2>3
    <3>2. Others(t) = {} => tab[u].task # "register"
      BY <1>4, <2>3, NoTask DEF Tasks
    <3>3. Inheriting(tab[u])' <=> Inheriting(tab[u])
      BY <1>3, <3>1 DEF Inheriting
    <3> QED
      BY <2>0, <2>3, <3>1, <3>2, <3>3
  <2> QED
    BY <2>1, <2>2, <2>3
<1> QED
  BY <1>2, <1>5 DEF Settled

LEMMA DoingAlone ==
  ASSUME Typed, Alone, NEW t \in Tabs, tab[t].pc = "closed" => \A s \in Tabs : ~Delicate(s),
         NEW task \in {"link", "recover", "destroy"}, Doing(task)
  PROVE  tab[t].task = task
<1>1. PICK s \in Tabs : tab[s].task = task
  BY DEF Doing
<1>2. CASE s # t
  BY <1>1, <1>2, Sole DEF Fragile
<1> QED
  BY <1>1, <1>2

LEMMA UnwrittenSettled ==
  ASSUME Typed, Settled, Alone, NEW t \in Tabs, NEW q, Become(t, q), Unwritten,
         tab[t].pc = "closed" => \A s \in Tabs : ~Delicate(s),
         TabSettled(q), q.task # "register",
         Fragile(tab[t].task) => Owner # None /\ (root[Owner] # None => HasRead(Owner, root[Owner].key)),
         Inheriting(q) => Inheriting(tab[t]) \/ Others(t) = {},
         \/ q.pc \in {"closed", "migrate"} \/ tab[t].pc \notin {"closed", "migrate"}
         \/ \A s \in Tabs \ {t} : ~Inheriting(tab[s])
  PROVE  Settled'
<1>1. /\ Owner' = Owner /\ RootIssuer' = RootIssuer
      /\ \A user, key : HasRead(user, key)' <=> HasRead(user, key)
  BY UnwrittenReads
<1>2. UNCHANGED <<legacy, store, keys, account, root>>
  BY DEF Unwritten
<1>3. ASSUME Owner # None PROVE Ready'
  <2>1. Ready
    BY <1>3 DEF Settled, StoreSettled
  <2>2. root[Owner] # None => HasRead(Owner, root[Owner].key)
    BY <2>1, DoingAlone DEF Ready, Fragile
  <2> QED
    BY <1>1, <1>2, <2>1, <2>2 DEF Ready
<1>4. ASSUME Owner = None PROVE store.log = None /\ store.ucan = None
  BY <1>4, DoingAlone DEF Settled, StoreSettled, Fragile
<1>5. StoreSettled'
  BY <1>1, <1>2, <1>3, <1>4 DEF StoreSettled
<1>6. TabSettled(q)'
  BY UnwrittenTab
<1>7. ASSUME NEW r, \E s \in Tabs \ {t} : r = tab[s] PROVE TabSettled(r)'
  <2>1. TabSettled(r)
    BY <1>7 DEF Settled
  <2> QED
    BY <2>1, UnwrittenTab
<1> QED
  BY <1>2, <1>5, <1>6, <1>7, SettledFrame

(* A tab that gives up, or closes, in the middle of nothing delicate.       *)
LEMMA PlainStep ==
  ASSUME Typed, Settled, Alone, NEW t \in Tabs, NEW q, Become(t, q), Unwritten, Plain(q),
         tab[t].pc # "closed", tab[t].pc = "migrate" => q.pc \in {"closed", "migrate"} \/ store.migrated >= version,
         ~Fragile(tab[t].task)
  PROVE  Settled'
<1>1. TabSettled(q) /\ q.task # "register" /\ ~Inheriting(q)
  BY PlainSettled, NoTask DEF Plain, Inheriting, Tasks
<1>2. ASSUME store.migrated >= version, NEW s \in Tabs, Inheriting(tab[s]) PROVE FALSE
  <2>1. Inherits(tab[s])
    BY <1>2 DEF Inheriting, Settled, TabSettled, WritesSettled
  <2> QED
    BY <1>2, <2>1 DEF Inherits, Typed, IsStore
<1> QED
  BY <1>1, <1>2, UnwrittenSettled

(* The writes of a migration. *)
LEMMA MigrateCase ==
  ASSUME NEW q, q.task = "migrate"
  PROVE  /\ legacy = None => (WritesSettled(q) <=> q.writes \in {<<Set("migrated", version)>>, << >>})
         /\ legacy # None => (WritesSettled(q) <=> q.writes = << >> \/ Inherits(q))
BY DEF WritesSettled

LEMMA MigrateSettled ==
  ASSUME Typed, Settled, Alone, NEW t \in Tabs, Migrate(t), harm' = {} PROVE Settled'
<1>1. PICK p : p = tab[t] /\ TabTyped(p) /\ p.pc = "migrate" /\ ~Fragile(p.task) /\ Unwritten
  BY NoTask DEF Typed, Migrate, TabTyped, Fragile, Tasks, Server, Unwritten
<1>2. CASE store.migrated >= version
  <2>1. ~(store.migrated < version)
    BY <1>2 DEF Typed, IsStore
  <2>2. PICK q : Become(t, q) /\ q.session = None /\ q.pc = "restore" /\ q.task = None
    BY <1>1, <2>1, MigrateStep
  <2> QED
    BY <1>1, <1>2, <2>2, PlainStep DEF Plain
<1>3. CASE ~(store.migrated >= version)
  <2>1. PICK q : /\ Become(t, q) /\ q.session = None /\ q.pc = "writes" /\ q.task = "migrate"
                 /\ store.migrated < version
                 /\ q.writes = IF legacy = None THEN <<Set("migrated", version)>> ELSE Inheritance
    <3>1. ~Become(t, [tab[t] EXCEPT !.pc = "restore"]) \/ store.migrated < version
      BY <1>3 DEF Typed, IsStore
    <3>2. PICK q : /\ Become(t, q) /\ q.session = None /\ IsTab(q)
                   /\ \/ q.pc = "restore" /\ q.task = None /\ q.writes = << >>
                      \/ /\ q.pc = "writes" /\ q.task = "migrate" /\ store.migrated < version
                         /\ q.writes = IF legacy = None THEN <<Set("migrated", version)>> ELSE Inheritance
      BY <1>1, MigrateStep
    <3>3. tab'[t] = q
      BY <3>2 DEF Become, Typed
    <3>4. tab'[t].pc = "writes"
      <4>1. IsTab(tab[t]) /\ tab'[t] = [tab[t] EXCEPT !.pc = "writes", !.task = "migrate",
                                          !.writes = Inherited \o <<Set("migrated", version)>>]
        BY <1>1, <1>3 DEF Migrate, Running, Become, Typed, TabTyped
      <4> QED
        BY <4>1 DEF IsTab
    <3> QED
      BY <3>2, <3>3, <3>4
  <2>2. ~Starts(q) /\ WritesSettled(q)
    <3>1. ~Starts(q)
      BY <2>1 DEF Starts
    <3>2. CASE legacy = None
      <4>1. q.writes = <<Set("migrated", version)>>
        BY <2>1, <3>2
      <4> QED
        BY <2>1, <3>1, <3>2, <4>1, MigrateCase
    <3>3. CASE legacy # None
      <4>1. harm' = harm
        BY <1>3 DEF Migrate
      <4>2. Others(t) = {} /\ store.ucan = None /\ store.session \in {None, Provide("webCrypto", legacy).value}
        BY <1>3, <3>3 DEF Migrate
      <4>3. Provide("webCrypto", legacy).value.user = legacy
        BY <3>3, LegacyIsUser, Provided DEF Typed
      <4>4. Owner \in {None, legacy}
        BY <4>2, <4>3 DEF Owner
      <4>5. q.writes = Inheritance
        BY <2>1, <3>3
      <4>6. Inherits(q)
        BY <2>1, <4>2, <4>4, <4>5 DEF Inherits
      <4> QED
        BY <2>1, <3>1, <3>3, <4>6, MigrateCase
    <3> QED
      BY <3>1, <3>2, <3>3
  <2>3. TabSettled(q)
    BY <2>1, <2>2 DEF TabSettled
  <2>4. legacy # None => Others(t) = {}
    BY <1>3 DEF Migrate
  <2>5. \A s \in Tabs \ {t} : ~Inheriting(tab[s])
    <3> SUFFICES ASSUME NEW s \in Tabs \ {t}, Inheriting(tab[s]) PROVE FALSE
      OBVIOUS
    <3>1. tab[s].pc = "closed"
      BY <2>4 DEF Inheriting, Others
    <3> QED
      BY <3>1, NoTask DEF Inheriting, Typed, TabTyped, Tasks
  <2> QED
    BY <1>1, <2>1, <2>3, <2>4, <2>5, UnwrittenSettled DEF Inheriting
<1> QED
  BY <1>2, <1>3

LEMMA RestoreSettled ==
  ASSUME Typed, Settled, Alone, NEW t \in Tabs, Restore(t) PROVE Settled'
<1>1. PICK p : /\ p = tab[t] /\ TabTyped(p) /\ p.pc \in {"restore", "idle"} /\ ~Fragile(p.task) /\ Unwritten
  BY NoTask DEF Typed, Restore, AppCalls, TabTyped, Fragile, Tasks, Server, Unwritten
<1>2. PICK q : /\ Become(t, q) /\ q.task = None /\ q.writes = << >> /\ q.session = None
               /\ \/ q.pc = "idle"
                  \/ q.pc = "session" /\ store.session # None /\ q.user = store.session.user
  BY <1>1, RestoreStep
<1>3. CASE q.pc = "idle"
  BY <1>1, <1>2, <1>3, PlainStep DEF Plain
<1>4. CASE q.pc = "session" /\ store.session # None /\ q.user = store.session.user
  <2>1. q.user = Owner /\ q.task \notin Tasks
    BY <1>2, <1>4, NoTask DEF Owner
  <2>2. TabSettled(q)
    BY <1>2, <1>4, <2>1 DEF TabSettled, WritesSettled, Tasks
  <2> QED
    BY <1>1, <1>2, <1>4, <2>1, <2>2, UnwrittenSettled DEF Tasks, Inheriting
<1> QED
  BY <1>2, <1>3, <1>4

LEMMA SelfAuthoriseSettled ==
  ASSUME Typed, Settled, Alone, NEW t \in Tabs, SelfAuthorise(t) PROVE Settled'
<1>1. PICK p : p = tab[t] /\ TabTyped(p) /\ p.pc = "session" /\ ~Fragile(p.task) /\ Unwritten
  BY NoTask DEF Typed, SelfAuthorise, TabTyped, Fragile, Tasks, Server, Unwritten
<1>2. PICK q : /\ Become(t, q) /\ q.session = None
               /\ \/ q.pc = "idle" /\ q.task = None /\ q.writes = << >>
                  \/ /\ keys.agent # None /\ q.pc = "writes" /\ q.task = "session" /\ q.user = p.user
                     /\ q.writes = <<Add("ucans", BuildUcan(keys.agent, store.ucan))>>
  BY <1>1, SelfAuthoriseStep
<1>3. CASE q.pc = "idle" /\ q.task = None /\ q.writes = << >>
  BY <1>1, <1>2, <1>3, PlainStep DEF Plain
<1>4. CASE /\ keys.agent # None /\ q.pc = "writes" /\ q.task = "session" /\ q.user = p.user
           /\ q.writes = <<Add("ucans", BuildUcan(keys.agent, store.ucan))>>
  <2>1. p.user = Owner /\ Owner # None
    BY <1>1, NoneApart DEF Settled, TabSettled, Starts, TabTyped
  <2>2. keys.agent \in Nat /\ store.ucan \in Ucan \union {None}
    BY <1>4 DEF Typed, IsKeys, IsStore, LegacyDID
  <2>3. PICK u : u = BuildUcan(keys.agent, store.ucan) /\ u \in Ucan /\ u.aud = keys.agent
                 /\ u.root = IF store.ucan = None THEN keys.agent ELSE store.ucan.root
    BY <2>2, BuiltUcan
  <2>4. account[Owner] = RootIssuer
    BY <2>1 DEF Settled, StoreSettled, Ready
  <2>5. Good(u, Owner)
    BY <2>3, <2>4 DEF Good, RootIssuer
  <2>6. WritesSettled(q)
    BY <1>4, <2>3, <2>5 DEF WritesSettled
  <2>7. TabSettled(q)
    BY <1>2, <1>4, <2>1, <2>6 DEF TabSettled
  <2> QED
    BY <1>1, <1>2, <1>4, <2>7, UnwrittenSettled DEF Inheriting
<1> QED
  BY <1>2, <1>3, <1>4

(* Where nobody recovers, the data root can be read. *)
LEMMA OwnerReady ==
  ASSUME Typed, Settled, Alone, NEW t \in Tabs, tab[t].pc # "closed", ~Fragile(tab[t].task), Owner # None
  PROVE  Ready /\ (root[Owner] # None => HasRead(Owner, root[Owner].key))
<1>1. Ready
  BY DEF Settled, StoreSettled
<1> QED
  BY <1>1, DoingAlone DEF Ready, Fragile

LEMMA LoadFileSystemSettled ==
  ASSUME Typed, Settled, Alone, NEW t \in Tabs, LoadFileSystem(t) PROVE Settled'
<1>1. PICK p : p = tab[t] /\ TabTyped(p) /\ p.pc = "load" /\ ~Fragile(p.task) /\ Unwritten
  BY NoTask DEF Typed, LoadFileSystem, TabTyped, Fragile, Tasks, Server, Unwritten
<1>2. p.user = Owner /\ p.user \in Users /\ GoodLast(p.ucans, Owner) /\ Owner # None
  BY <1>1, NoneApart DEF Settled, TabSettled, Starts, TabTyped
<1>3. PICK q : /\ Become(t, q) /\ q.session = None /\ q.user = p.user /\ q.ucans = p.ucans
               /\ \/ q.pc = "open" /\ q.task = None /\ q.writes = << >>
                  \/ /\ q.pc = "writes" /\ q.task = "load" /\ root[p.user] # None
                     /\ q.writes = <<Add("log", root[p.user])>>
  BY <1>1, LoadStep
<1>4. WritesSettled(q)
  <2>1. CASE q.pc = "open" /\ q.task = None
    BY <2>1, NoTask DEF WritesSettled, Tasks
  <2>2. CASE /\ q.task = "load" /\ root[p.user] # None
             /\ q.writes = <<Add("log", root[p.user])>>
    <3>1. PICK v : v = root[p.user] /\ v \in Version
      BY <1>2, <2>2 DEF Typed, IsServer
    <3>2. root[Owner] # None /\ HasRead(Owner, v.key)
      BY <1>1, <1>2, <2>2, <3>1, OwnerReady
    <3> QED
      BY <2>2, <3>1, <3>2 DEF WritesSettled
  <2> QED
    BY <1>3, <2>1, <2>2
<1>5. TabSettled(q)
  BY <1>2, <1>3, <1>4 DEF TabSettled
<1>6. q.task \notin {"register", "migrate"}
  BY <1>3, NoTask DEF Tasks
<1> QED
  BY <1>1, <1>3, <1>5, <1>6, UnwrittenSettled DEF Inheriting

LEMMA LoadFailsSettled ==
  ASSUME Typed, Settled, Alone, NEW t \in Tabs, LoadFails(t) PROVE Settled'
<1>1. PICK p : p = tab[t] /\ TabTyped(p) /\ p.pc = "load" /\ p.session = None /\ ~Fragile(p.task) /\ Unwritten
  BY NoTask DEF Typed, LoadFails, TabTyped, Fragile, Tasks, Server, Unwritten
<1>2. Become(t, Idle(p))
  BY <1>1 DEF LoadFails
<1>3. PICK q : Become(t, q) /\ q.pc = "idle" /\ q.task = None /\ q.session = None
  BY <1>1, <1>2, IdleStep
<1> QED
  BY <1>1, <1>3, PlainStep DEF Plain

LEMMA OpenExistingSettled ==
  ASSUME Typed, Settled, Alone, NEW t \in Tabs, OpenExisting(t) PROVE Settled'
<1>1. PICK p : p = tab[t] /\ TabTyped(p) /\ p.pc = "open" /\ p.session = None /\ ~Fragile(p.task) /\ Unwritten
  BY NoTask DEF Typed, OpenExisting, TabTyped, Fragile, Tasks, Server, Unwritten
<1>2. p.user = Owner /\ GoodLast(p.ucans, Owner)
  BY <1>1 DEF Settled, TabSettled, Starts
<1>3. PICK q : /\ Become(t, q) /\ q.pc = "idle" /\ q.task = None
               /\ \/ q.session = None
                  \/ q.session = p.user /\ HasRead(p.user, q.fs) /\ q.ucans = p.ucans
  BY <1>1, OpenExistingStep
<1>4. ~Starts(q) /\ q.task \notin Tasks
  BY <1>3, NoTask DEF Starts, Tasks
<1>5. TabSettled(q)
  BY <1>2, <1>3, <1>4 DEF TabSettled, WritesSettled, Tasks
<1> QED
  BY <1>1, <1>3, <1>4, <1>5, UnwrittenSettled DEF Inheriting, Tasks

LEMMA PublishSettled ==
  ASSUME Typed, Settled, Alone, NEW t \in Tabs, Publish(t) PROVE Settled'
<1>1. PICK p : /\ p = tab[t] /\ TabTyped(p) /\ p.pc = "idle" /\ p.session # None /\ ~Fragile(p.task)
               /\ Unwritten
  BY NoTask DEF Typed, Publish, TabTyped, Fragile, Tasks, Server, Unwritten, AppCalls
<1>2. PICK v, list : /\ v \in Version /\ v.key = p.fs /\ Running(t, "publish", list)
                     /\ list \in {<<Add("log", v), Update(p.session, v)>>, <<Add("log", v)>>}
  BY <1>1, PublishWrites
<1>3. PICK q : /\ Become(t, q) /\ q.pc = "writes" /\ q.task = "publish" /\ q.writes = list
               /\ q.ucans = p.ucans /\ q.session = p.session /\ q.fs = p.fs
  BY <1>1, <1>2, RunningStep
<1>4. Publishes(q)
  BY <1>1, <1>2, <1>3 DEF Publishes
<1>5. p.session = Owner /\ HasRead(Owner, p.fs) /\ GoodLast(p.ucans, Owner)
  BY <1>1 DEF Settled, TabSettled
<1>6. WritesSettled(q) /\ ~Starts(q)
  BY <1>3, <1>4 DEF WritesSettled, Starts
<1>7. TabSettled(q)
  BY <1>3, <1>5, <1>6 DEF TabSettled
<1> QED
  BY <1>1, <1>3, <1>7, UnwrittenSettled DEF Inheriting

LEMMA LinkSettled ==
  ASSUME Typed, Settled, Alone, NEW t \in Tabs, Link(t), harm' = {} PROVE Settled'
<1>1. PICK p : p = tab[t] /\ TabTyped(p) /\ p.pc = "idle" /\ p.session = None /\ ~Fragile(p.task) /\ Unwritten
  BY NoTask DEF Typed, Link, TabTyped, Fragile, Tasks, Server, Unwritten, AppCalls
<1>2. keys.agent # None /\ account[Abroad] = ForeignDID /\ root[Abroad].key = ForeignDID
  BY SessionAssumption DEF Link, Typed, IsServer, KeyFits
<1>3. PICK ucan, list : /\ ucan = Delegated(ForeignDID, keys.agent)
                        /\ list = LinkDevice(Abroad, ucan, ForeignDID, keys.agent)
                        /\ Running(t, "link", list)
  BY <1>2 DEF Link
<1>4. PICK q : Become(t, q) /\ q.pc = "writes" /\ q.task = "link" /\ q.writes = list /\ q.session = p.session
  BY <1>1, <1>3, RunningStep
<1>5. Owner = None /\ store.log = None
  <2>1. Owner = None
    BY DEF Link, Owner
  <2> QED
    BY <2>1 DEF Settled, StoreSettled
<1>6. Links(q)
  BY <1>2, <1>3, <1>4, <1>5 DEF Links
<1>7. WritesSettled(q) /\ ~Starts(q)
  BY <1>4, <1>6 DEF WritesSettled, Starts
<1>8. TabSettled(q)
  BY <1>1, <1>4, <1>7 DEF TabSettled
<1> QED
  BY <1>1, <1>4, <1>8, UnwrittenSettled DEF Inheriting

LEMMA CloseSettled ==
  ASSUME Typed, Settled, Alone, NEW t \in Tabs, Close(t), harm' = {} PROVE Settled'
<1>1. ~Fragile(tab[t].task) /\ Unwritten /\ tab[t].pc # "closed"
  BY DEF Close, Delicate, Fragile, Server, Unwritten
<1>2. PICK q : q = Closed /\ Plain(q) /\ q.pc = "closed" /\ Become(t, q)
  BY ClosedIsPlain DEF Close, Closed
<1> QED
  BY <1>1, <1>2, PlainStep

LEMMA WrittenSettled ==
  ASSUME Typed, Settled, Alone, NEW t \in Tabs, Written(t), tab[t].task # "destroy" PROVE Settled'
<1>1. PICK p : /\ p = tab[t] /\ TabTyped(p) /\ p.pc = "writes" /\ p.writes = << >> /\ p.task \in Tasks
               /\ p.task # "destroy" /\ Unwritten
  BY DEF Typed, Written, TabTyped, Server, Unwritten
<1>2. PICK q : /\ Become(t, q) /\ q.task = None /\ q.ucans = p.ucans
               /\ q.pc = (CASE p.task = "migrate" -> "restore" [] p.task = "session" -> "load"
                            [] p.task = "load" -> "open" [] OTHER -> "idle")
               /\ p.task \in {"session", "load"} => q.user = p.user
               /\ q.session = p.session /\ q.fs = p.fs
  BY <1>1, WrittenStep
<1>3. TabSettled(p) /\ WritesSettled(p)
  BY <1>1 DEF Settled, TabSettled
<1>4. q.task \notin Tasks /\ ~Inheriting(q) /\ q.task # "register"
  BY <1>2, NoTask DEF Inheriting, Tasks
<1>5. WritesSettled(q)
  BY <1>4 DEF WritesSettled, Tasks
<1>6. ASSUME TabSettled(q),
             Fragile(p.task) => Owner # None /\ (root[Owner] # None => HasRead(Owner, root[Owner].key))
      PROVE  Settled'
  BY <1>1, <1>2, <1>4, <1>6, UnwrittenSettled
<1>7. CASE p.task \in {"migrate", "register"}
  <2>1. Plain(q)
    BY <1>1, <1>2, <1>7 DEF Plain, TabTyped
  <2> QED
    BY <1>6, <1>7, <2>1, PlainSettled DEF Fragile
<1>8. CASE p.task = "session"
  <2>1. q.pc = "load" /\ p.session = None /\ p.user = Owner
    BY <1>1, <1>2, <1>3, <1>8 DEF TabTyped, TabSettled, Starts
  <2>2. GoodLast(p.ucans, Owner)
    BY <1>1, <1>3, <1>8, Pairs DEF WritesSettled
  <2>3. TabSettled(q)
    BY <1>2, <1>5, <1>8, <2>1, <2>2 DEF TabSettled
  <2> QED
    BY <1>6, <1>8, <2>3 DEF Fragile
<1>9. CASE p.task = "load"
  <2>1. q.pc = "open" /\ p.session = None /\ p.user = Owner /\ GoodLast(p.ucans, Owner)
    BY <1>1, <1>2, <1>3, <1>9 DEF TabTyped, TabSettled, Starts
  <2>2. TabSettled(q)
    BY <1>2, <1>5, <1>9, <2>1 DEF TabSettled
  <2> QED
    BY <1>6, <1>9, <2>2 DEF Fragile
<1>10. CASE p.task = "publish"
  <2>1. q.pc = "idle" /\ ~Starts(q) /\ q.task # "load"
    BY <1>2, <1>4, <1>10 DEF Starts, Tasks
  <2>2. TabSettled(q)
    BY <1>2, <1>3, <1>5, <2>1 DEF TabSettled
  <2> QED
    BY <1>6, <1>10, <2>2 DEF Fragile
<1>11. ASSUME p.task \in {"link", "recover"} PROVE TabSettled(q)
  <2>1. Plain(q)
    BY <1>1, <1>2, <1>11 DEF Plain, TabTyped
  <2> QED
    BY <2>1, PlainSettled
<1>12. CASE p.task = "link"
  <2>1. Links(p)
    BY <1>3, <1>12 DEF WritesSettled
  <2>2. PICK a, b, c, d : LinkDevice(Abroad, Delegated(ForeignDID, keys.agent), ForeignDID, keys.agent) = <<a, b, c, d>>
    BY DEF LinkDevice
  <2>3. /\ <<a, b, c, d>> # << >> /\ Tail(<<a, b, c, d>>) # << >> /\ Tail(Tail(<<a, b, c, d>>)) # << >>
        /\ Tail(Tail(Tail(<<a, b, c, d>>))) # << >>
    BY Pairs, Longer
  <2>4. Owner = Abroad /\ Owner # None
    BY <1>1, <2>1, <2>2, <2>3, SessionAssumption DEF Links
  <2>5. Ready /\ ~Doing("recover")
    BY <1>1, <1>12, <2>4, DoingAlone DEF Settled, StoreSettled
  <2> QED
    BY <1>6, <1>11, <1>12, <2>4, <2>5 DEF Ready
<1>13. CASE p.task = "recover"
  <2>1. PICK user \in Users, v \in Version :
          LET list == <<Provide("webCrypto", user), Update(user, v), StoreKey(keys.agent, v.key)>>
          IN \/ p.writes = list
             \/ p.writes = Tail(list)
             \/ p.writes = Tail(Tail(list))
             \/ Owner = user /\ root[user] = v /\ HasRead(user, v.key)
    BY <1>3, <1>13 DEF WritesSettled, Recovers
  <2>2. Owner = user /\ root[user] = v /\ HasRead(user, v.key)
    BY <1>1, <2>1, Pairs, Longer
  <2>3. Owner # None
    BY <2>2, NoneApart
  <2> QED
    BY <1>6, <1>11, <1>13, <2>2, <2>3
<1> QED
  BY <1>1, <1>7, <1>8, <1>9, <1>10, <1>12, <1>13 DEF Tasks

(* A step of a tab while every other one is closed, or has just opened. *)
LEMMA SoleSettled ==
  ASSUME Typed, NEW t \in Tabs, NEW q, Become(t, q), legacy' = legacy,
         \A s \in Tabs \ {t} : tab[s].pc \in {"closed", "migrate"},
         StoreSettled', TabSettled(q)'
  PROVE  Settled'
<1>1. tab'[t] = q /\ \A s \in Tabs \ {t} : tab'[s] = tab[s]
  BY DEF Become, Typed
<1>2. ASSUME NEW s \in Tabs \ {t} PROVE Plain(tab[s]) /\ tab[s].task \notin Tasks
  BY NoTask, NoneApart DEF Plain, Typed, TabTyped, Closed
<1>3. ASSUME NEW s \in Tabs PROVE TabSettled(tab[s])'
  <2>1. CASE s = t
    BY <1>1, <2>1, SettledIs
  <2>2. CASE s # t
    <3>1. PICK r : r = tab[s] /\ tab'[s] = r
      BY <1>1, <2>2
    <3>2. TabSettled(r)'
      BY <1>2, <2>2, <3>1, PlainSettled
    <3>3. tab'[s] = r
      BY <3>1
    <3> QED
      BY <3>2, <3>3, SettledIs
  <2> QED
    BY <2>1, <2>2
<1>4. Apart'
  <2> SUFFICES ASSUME NEW s \in Tabs, NEW u \in Tabs, s # u
               PROVE  /\ ~(tab'[s].task = "register" /\ tab'[u].task = "register")
                      /\ Inheriting(tab[u])' => tab'[s].pc \in {"closed", "migrate"}
    BY DEF Apart
  <2>1. Inheriting(tab[u])' => tab'[u].task = "migrate"
    BY DEF Inheriting
  <2> QED
    BY <1>1, <1>2, <2>1 DEF Tasks
<1> QED
  BY <1>3, <1>4 DEF Settled

(* Another tab, while the session, the keys and the accounts stay. *)
LEMMA SteadyTab ==
  ASSUME NEW r, TabSettled(r), ~Fragile(r.task), UNCHANGED <<legacy, keys, account, version>>,
         Owner' = Owner, store'.ucan = store.ucan, Inheriting(r) => store'.migrated = store.migrated,
         root[Owner] # None => root'[Owner] # None, Owner = None => root' = root
  PROVE  TabSettled(r)'
<1>1. /\ \A user, key : HasRead(user, key)' <=> HasRead(user, key)
      /\ \A u, user : Good(u, user)' <=> Good(u, user)
      /\ \A list, user : GoodLast(list, user)' <=> GoodLast(list, user)
      /\ Inheritance' = Inheritance
  <2>1. ASSUME NEW user, NEW key PROVE HasRead(user, key)' <=> HasRead(user, key)
    BY DEF HasRead, HasKey, RetrieveKey
  <2>2. ASSUME NEW u, NEW user PROVE Good(u, user)' <=> Good(u, user)
    BY DEF Good
  <2>3. ASSUME NEW list, NEW user PROVE GoodLast(list, user)' <=> GoodLast(list, user)
    BY DEF GoodLast, Good
  <2>4. Inheritance' = Inheritance
    BY DEF Inheritance
  <2> QED
    BY <2>1, <2>2, <2>3, <2>4
<1>2. WritesSettled(r) => WritesSettled(r)'
  <2>1. Registers(r) => Registers(r)'
    BY DEF Registers
  <2>2. Publishes(r) => Publishes(r)'
    BY DEF Publishes
  <2>3. Inheriting(r) /\ Inherits(r) => Inherits(r)'
    BY <1>1 DEF Inherits, HasKey
  <2>4. ASSUME r.task = "session", WritesSettled(r) PROVE WritesSettled(r)'
    BY <1>1, <2>4 DEF WritesSettled
  <2>5. ASSUME r.task = "load", WritesSettled(r) PROVE WritesSettled(r)'
    BY <1>1, <2>5 DEF WritesSettled
  <2>6. ASSUME r.task = "migrate", WritesSettled(r) PROVE WritesSettled(r)'
    BY <2>3, <2>6 DEF WritesSettled, Inheriting
  <2>7. ASSUME r.task \notin {"session", "load", "migrate"}, WritesSettled(r) PROVE WritesSettled(r)'
    BY <2>1, <2>2, <2>7 DEF WritesSettled, Fragile
  <2> QED
    BY <2>4, <2>5, <2>6, <2>7
<1> QED
  BY <1>1, <1>2 DEF TabSettled

(* A tab writes, while the session, the keys and the accounts stay. *)
LEMMA SteadySettled ==
  ASSUME Typed, Settled, Alone, NEW t \in Tabs, NEW q, Become(t, q),
         tab[t].pc = "writes", ~Fragile(tab[t].task), q.task = tab[t].task, q.pc = "writes",
         Inheriting(q) => Inheriting(tab[t]),
         UNCHANGED <<legacy, keys, account, version>>, Owner' = Owner, store'.ucan = store.ucan,
         store'.migrated = store.migrated \/ legacy = None,
         root' = root \/ (root'[Owner] # None /\ Owner # None /\ HasRead(Owner, root'[Owner].key)),
         \/ store'.log = store.log
         \/ Owner # None /\ store'.log # << >> /\ HasRead(Owner, Last(store'.log).key),
         TabSettled(q)'
  PROVE  Settled'
<1>1. \A user, key : HasRead(user, key)' <=> HasRead(user, key)
  BY DEF HasRead, HasKey, RetrieveKey
<1>2. RootIssuer' = RootIssuer
  BY DEF RootIssuer
<1>3. ASSUME Owner # None PROVE Ready'
  <2>1. Ready /\ (root[Owner] # None => HasRead(Owner, root[Owner].key))
    BY <1>3, OwnerReady
  <2>2. PICK cid, log : cid = root'[Owner] /\ log = store'.log
    OBVIOUS
  <2>3. cid # None => HasRead(Owner, cid.key)
    BY <2>1, <2>2
  <2>4. log # None => log # << >> /\ HasRead(Owner, Last(log).key)
    BY <2>1, <2>2 DEF Ready
  <2>5. keys.agent # None /\ account[Owner] = RootIssuer
    BY <2>1 DEF Ready
  <2> QED
    BY <1>1, <1>2, <2>2, <2>3, <2>4, <2>5 DEF Ready, HasRead, HasKey, RetrieveKey
<1>4. ASSUME Owner = None PROVE store.log = None /\ store.ucan = None
  BY <1>4, DoingAlone DEF Settled, StoreSettled, Fragile
<1>5. StoreSettled'
  BY <1>3, <1>4 DEF StoreSettled
<1>6. ASSUME NEW r, \E s \in Tabs \ {t} : r = tab[s] PROVE TabSettled(r)'
  <2>1. TabSettled(r) /\ ~Fragile(r.task)
    BY <1>6, Sole DEF Settled
  <2>2. Inheriting(r) => store'.migrated = store.migrated
    BY DEF Inheriting
  <2> QED
    BY <2>1, <2>2, SteadyTab
<1> QED
  BY <1>5, <1>6, SettledFrame

(* The fields of what is stored, after a write. *)
LEMMA Stored ==
  ASSUME IsStore, NEW name \in {"ucan", "session", "ucans", "log", "migrated"}, NEW x,
         store' = [store EXCEPT ![name] = x]
  PROVE  /\ store'[name] = x
         /\ name # "ucan" => store'.ucan = store.ucan
         /\ name # "session" => store'.session = store.session /\ Owner' = Owner
         /\ name # "log" => store'.log = store.log
         /\ name # "migrated" => store'.migrated = store.migrated
BY DEF IsStore, Owner

LEMMA SessionWrite ==
  ASSUME Typed, Settled, Alone, NEW t \in Tabs, Write(t), tab[t].task = "session" PROVE Settled'
<1>1. PICK p : /\ p = tab[t] /\ TabTyped(p) /\ TabSettled(p) /\ p.pc = "writes" /\ p.writes # << >>
               /\ p.task = "session" /\ p.session = None
  BY DEF Typed, Settled, Write, TabTyped
<1>2. PICK u \in Ucan : p.writes = <<Add("ucans", u)>> /\ Good(u, Owner)
  BY <1>1 DEF TabSettled, WritesSettled
<1>3. PICK w : w = Add("ucans", u) /\ w = Head(p.writes) /\ w.to = "add" /\ w.repo = "ucans" /\ w.value = u
               /\ Tail(p.writes) = << >>
  BY <1>2, Pairs DEF Add
<1>4. PICK q : /\ Become(t, q) /\ q.pc = "writes" /\ q.task = p.task /\ q.writes = Tail(p.writes)
               /\ q.user = p.user /\ q.session = p.session /\ q.ucans = Append(p.ucans, u)
  <2>1. PICK q : /\ Become(t, q) /\ q.pc = "writes" /\ q.task = p.task /\ q.writes = Tail(p.writes)
                 /\ q.user = p.user /\ q.session = p.session
                 /\ q.ucans = IF w.to = "add" /\ w.repo = "ucans" THEN Append(p.ucans, w.value) ELSE p.ucans
    <3>1. p = tab[t] /\ w = Head(p.writes)
      BY <1>1, <1>3
    <3> QED
      BY <3>1, WriteStep
  <2>2. q.ucans = Append(p.ucans, u)
    BY <1>3, <2>1
  <2> QED
    BY <2>1, <2>2
<1>5. /\ UNCHANGED <<legacy, account, version, keys, root>>
      /\ store' = [store EXCEPT !.ucans = WholeCache(t, w)]
  BY <1>1, <1>3, WriteEffect
<1>6. store'.ucan = store.ucan /\ store'.log = store.log /\ store'.migrated = store.migrated /\ Owner' = Owner
  BY <1>5, Stored DEF Typed
<1>7. q.ucans # << >> /\ Last(q.ucans) = u
  BY <1>1, <1>4, Appended DEF TabTyped
<1>8. GoodLast(q.ucans, Owner)' /\ q.user = Owner'
  BY <1>1, <1>2, <1>4, <1>5, <1>6, <1>7 DEF GoodLast, Good, TabSettled, Starts
<1>9. WritesSettled(q)'
  BY <1>1, <1>3, <1>4, <1>8 DEF WritesSettled
<1>10. TabSettled(q)'
  BY <1>1, <1>4, <1>8, <1>9 DEF TabSettled
<1> QED
  BY <1>1, <1>4, <1>5, <1>6, <1>10, SteadySettled DEF Fragile, Inheriting

(* The log after a version is added. *)
LEMMA LogAdded ==
  ASSUME Typed, NEW t \in Tabs, Write(t), NEW w, w = Head(tab[t].writes), NEW v \in Version,
         w.to = "add", w.repo = "log", w.value = v
  PROVE  /\ store'.log # << >> /\ Last(store'.log) = v /\ UNCHANGED <<legacy, account, version, keys, root>>
         /\ store'.ucan = store.ucan /\ store'.migrated = store.migrated /\ Owner' = Owner
<1>1. PICK p : p = tab[t] /\ TabTyped(p)
  BY DEF Typed
<1>2. UNCHANGED <<legacy, account, version, keys, root>> /\ store' = [store EXCEPT ![w.repo] = WholeCache(t, w)]
  BY WriteEffect
<1>3. WholeCache(t, w) = Append(p.log, v)
  BY <1>1 DEF WholeCache
<1>4. store' = [store EXCEPT !["log"] = Append(p.log, v)]
  BY <1>2, <1>3
<1>5. /\ store'.ucan = store.ucan /\ store'["log"] = Append(p.log, v) /\ store'.migrated = store.migrated
      /\ Owner' = Owner
  BY <1>4, Stored DEF Typed
<1>6. Append(p.log, v) # << >> /\ Last(Append(p.log, v)) = v
  <2>1. p.log \in Seq(Version)
    BY <1>1 DEF TabTyped
  <2> QED
    BY <2>1, Appended
<1> QED
  BY <1>2, <1>5, <1>6

LEMMA LoadWrite ==
  ASSUME Typed, Settled, Alone, NEW t \in Tabs, Write(t), tab[t].task = "load" PROVE Settled'
<1>1. PICK p : /\ p = tab[t] /\ TabTyped(p) /\ TabSettled(p) /\ p.pc = "writes" /\ p.writes # << >>
               /\ p.task = "load" /\ p.session = None
  BY DEF Typed, Settled, Write, TabTyped
<1>2. PICK v \in Version : p.writes = <<Add("log", v)>> /\ root[Owner] # None /\ HasRead(Owner, v.key)
  BY <1>1 DEF TabSettled, WritesSettled
<1>3. PICK w : w = Add("log", v) /\ w = Head(p.writes) /\ w.to = "add" /\ w.repo = "log" /\ w.value = v
               /\ Tail(p.writes) = << >>
  BY <1>2, Pairs DEF Add
<1>4. PICK q : /\ Become(t, q) /\ q.pc = "writes" /\ q.task = p.task /\ q.writes = Tail(p.writes)
               /\ q.user = p.user /\ q.session = p.session /\ q.ucans = p.ucans
  BY <1>1, <1>3, WriteStep
<1>5. /\ store'.log # << >> /\ Last(store'.log) = v /\ UNCHANGED <<legacy, account, version, keys, root>>
      /\ store'.ucan = store.ucan /\ store'.migrated = store.migrated /\ Owner' = Owner
  BY <1>1, <1>3, LogAdded
<1>8. Owner # None /\ p.user = Owner /\ GoodLast(p.ucans, Owner)
  BY <1>1, NoneApart DEF TabTyped, TabSettled, Starts
<1>9. GoodLast(q.ucans, Owner)' /\ q.user = Owner'
  BY <1>4, <1>5, <1>8 DEF GoodLast, Good
<1>10. WritesSettled(q)'
  BY <1>1, <1>3, <1>4 DEF WritesSettled
<1>11. TabSettled(q)'
  BY <1>1, <1>4, <1>9, <1>10 DEF TabSettled
<1> QED
  BY <1>1, <1>2, <1>4, <1>5, <1>8, <1>11, SteadySettled DEF Fragile, Inheriting

LEMMA PublishWrite ==
  ASSUME Typed, Settled, Alone, NEW t \in Tabs, Write(t), tab[t].task = "publish" PROVE Settled'
<1>1. PICK p : /\ p = tab[t] /\ TabTyped(p) /\ TabSettled(p) /\ p.pc = "writes" /\ p.writes # << >>
               /\ p.task = "publish"
  BY DEF Typed, Settled, Write, TabTyped
<1>2. p.session # None /\ p.session \in Users /\ p.session = Owner /\ HasRead(Owner, p.fs) /\ GoodLast(p.ucans, Owner)
      /\ Owner # None
  BY <1>1 DEF TabSettled, WritesSettled, Publishes, TabTyped
<1>3. PICK v \in Version :
        /\ v.key = p.fs
        /\ p.writes \in {<<Add("log", v), Update(p.session, v)>>, <<Add("log", v)>>, <<Update(p.session, v)>>}
  BY <1>1 DEF TabSettled, WritesSettled, Publishes
<1>4. PICK a, b : a = Add("log", v) /\ b = Update(p.session, v)
  OBVIOUS
<1>5. PICK w : w = Head(p.writes) /\ w \in {a, b} /\ (w = b => Tail(p.writes) = << >>)
               /\ Tail(p.writes) \in {<<b>>, << >>}
  <2>1. p.writes = <<a, b>> \/ p.writes = <<a>> \/ p.writes = <<b>>
    BY <1>3, <1>4
  <2>2. a.to = "add" /\ b.to = "root"
    BY <1>4 DEF Add, Update
  <2>3. a # b
    BY <2>2
  <2>4. /\ Head(<<a, b>>) = a /\ Tail(<<a, b>>) = <<b>> /\ Head(<<a>>) = a /\ Tail(<<a>>) = << >>
        /\ Head(<<b>>) = b /\ Tail(<<b>>) = << >>
    BY Pairs
  <2> QED
    BY <2>1, <2>3, <2>4
<1>6. /\ a.to = "add" /\ a.repo = "log" /\ a.value = v
      /\ b.to = "root" /\ b.user = p.session /\ b.value = v
  BY <1>4 DEF Add, Update
<1>7. PICK q : /\ Become(t, q) /\ q.pc = "writes" /\ q.task = p.task /\ q.writes = Tail(p.writes)
               /\ q.session = p.session /\ q.fs = p.fs /\ q.ucans = p.ucans
  BY <1>1, <1>5, <1>6, WriteStep
<1>8. Publishes(q)' /\ WritesSettled(q)' /\ ~Starts(q)
  <2>1. Publishes(q)'
    BY <1>2, <1>3, <1>4, <1>5, <1>7 DEF Publishes
  <2> QED
    BY <1>1, <1>7, <2>1 DEF WritesSettled, Starts
<1>9. UNCHANGED <<legacy, account, version, keys>>
  BY <1>5, <1>6, WriteEffect, <1>1
<1>10. ASSUME Owner' = Owner PROVE TabSettled(q)'
  <2>1. HasRead(Owner, p.fs)' /\ GoodLast(p.ucans, Owner)'
    BY <1>2, <1>9, <1>10 DEF HasRead, HasKey, RetrieveKey, GoodLast, Good
  <2> QED
    BY <1>1, <1>2, <1>7, <1>8, <1>10, <2>1 DEF TabSettled
<1>11. CASE w = a
  <2>1. /\ store'.log # << >> /\ Last(store'.log) = v /\ UNCHANGED root
        /\ store'.ucan = store.ucan /\ store'.migrated = store.migrated /\ Owner' = Owner
    BY <1>1, <1>5, <1>6, <1>11, LogAdded
  <2> QED
    BY <1>1, <1>2, <1>3, <1>7, <1>9, <1>10, <2>1, SteadySettled DEF Fragile, Inheriting
<1>12. CASE w = b
  <2>1. UNCHANGED store /\ root' = [root EXCEPT ![Owner] = v]
    BY <1>1, <1>2, <1>5, <1>6, <1>12, WriteEffect
  <2>2. root'[Owner] = v /\ v # None
    BY <1>2, <2>1, NoneApart DEF Typed, IsServer
  <2>3. Owner' = Owner
    BY <2>1 DEF Owner
  <2> QED
    BY <1>1, <1>2, <1>3, <1>7, <1>9, <1>10, <2>1, <2>2, <2>3, SteadySettled DEF Fragile, Inheriting
<1> QED
  BY <1>5, <1>11, <1>12

(* Another tab, while there is no session stored. *)
LEMMA Bystander ==
  ASSUME NEW r, TabTyped(r), TabSettled(r), Owner = None, ~Fragile(r.task), legacy' = legacy, version' = version,
         r.task = "register" => r.writes = << >>, Inheriting(r) => Inherits(r)'
  PROVE  TabSettled(r)'
<1>1. r.session = None /\ ~Starts(r)
  <2>1. r.session # None => r.session \in Users /\ r.session = Owner
    BY DEF TabTyped, TabSettled
  <2>2. Starts(r) => r.user \in Users /\ r.user = Owner
    BY DEF TabTyped, TabSettled
  <2> QED
    BY <2>1, <2>2, NoneApart
<1>2. r.task \notin {"session", "load", "publish"}
  BY <1>1 DEF Starts, TabSettled, WritesSettled, Publishes
<1>3. WritesSettled(r)'
  <2>1. CASE r.task = "migrate"
    BY <2>1 DEF TabSettled, WritesSettled, Inheriting
  <2>2. CASE r.task = "register"
    BY <2>2 DEF WritesSettled, Registers
  <2>3. CASE r.task \notin {"migrate", "register"}
    BY <1>2, <2>3 DEF WritesSettled, Fragile
  <2> QED
    BY <2>1, <2>2, <2>3
<1>4. r.pc \notin {"load", "open"} /\ r.task # "load"
  BY <1>1 DEF Starts
<1> QED
  BY <1>1, <1>3, <1>4 DEF TabSettled

(* Without a session there is no log, and no UCAN unless a device is linked. *)
LEMMA NoSession ==
  ASSUME Typed, Settled, Alone, NEW t \in Tabs, Owner = None,
         tab[t].pc = "closed" => \A s \in Tabs : ~Delicate(s), ~Fragile(tab[t].task)
  PROVE  store.log = None /\ store.ucan = None
BY DoingAlone DEF Settled, StoreSettled, Fragile

(* The session of a user is stored. *)
LEMMA SessionStored ==
  ASSUME Typed, NEW user \in Users, store' = [store EXCEPT !.session = Provide("webCrypto", user).value]
  PROVE  /\ Owner' = user /\ store'.ucan = store.ucan /\ store'.log = store.log /\ store'.migrated = store.migrated
         /\ user # None
<1>1. Provide("webCrypto", user).value \in Info /\ Provide("webCrypto", user).value.user = user
  BY Provided
<1>2. PICK x : x = Provide("webCrypto", user).value /\ x # None /\ x.user = user
  BY <1>1, NoneApart
<1>3. store'["session"] = x /\ store'.ucan = store.ucan /\ store'.log = store.log /\ store'.migrated = store.migrated
  BY <1>2, Stored DEF Typed
<1> QED
  BY <1>2, <1>3, NoneApart DEF Owner

LEMMA RegisterWrite ==
  ASSUME Typed, Settled, Alone, NEW t \in Tabs, Write(t), tab[t].task = "register" PROVE Settled'
<1>1. PICK p : /\ p = tab[t] /\ TabTyped(p) /\ TabSettled(p) /\ p.pc = "writes" /\ p.writes # << >>
               /\ p.task = "register" /\ p.session = None
  BY DEF Typed, Settled, Write, TabTyped
<1>2. PICK user \in Users : /\ p.writes = <<Provide("webCrypto", user)>> /\ account[user] = keys.agent
                            /\ root[user] = None /\ Owner = None /\ keys.agent # None
  BY <1>1 DEF TabSettled, WritesSettled, Registers
<1>3. PICK w : /\ w = Provide("webCrypto", user) /\ w = Head(p.writes) /\ w.to = "session"
               /\ Tail(p.writes) = << >>
  BY <1>2, Pairs DEF Provide, Set
<1>4. PICK q : /\ Become(t, q) /\ q.pc = "writes" /\ q.task = p.task /\ q.writes = Tail(p.writes)
               /\ q.session = p.session
  BY <1>1, <1>3, WriteStep
<1>5. /\ UNCHANGED <<legacy, account, version, keys, root>>
      /\ store' = [store EXCEPT ![w.to] = w.value]
  BY <1>1, <1>3, WriteEffect
<1>6. Owner' = user /\ store'.ucan = store.ucan /\ store'.log = store.log /\ user # None
  BY <1>3, <1>5, SessionStored
<1>7. store.log = None /\ store.ucan = None
  BY <1>1, <1>2, NoSession DEF Fragile
<1>8. StoreSettled'
  BY <1>2, <1>5, <1>6, <1>7 DEF StoreSettled, Ready, RootIssuer
<1>9. TabSettled(q)'
  BY <1>1, <1>3, <1>4 DEF TabSettled, Starts, WritesSettled, Registers
<1>10. ASSUME NEW r, \E s \in Tabs \ {t} : r = tab[s] PROVE TabSettled(r)'
  <2>1. PICK s \in Tabs \ {t} : r = tab[s]
    BY <1>10
  <2>2. TabTyped(r) /\ TabSettled(r) /\ ~Fragile(r.task)
    BY <1>1, <2>1, Sole DEF Typed, Settled
  <2>3. r.task # "register" /\ ~Inheriting(r)
    BY <1>1, <2>1 DEF Settled, Apart
  <2> QED
    BY <1>2, <1>5, <2>2, <2>3, Bystander
<1>11. ~Inheriting(q)
  BY <1>1, <1>4 DEF Inheriting
<1> QED
  BY <1>1, <1>4, <1>5, <1>8, <1>9, <1>10, <1>11, SettledFrame

(* A device without an older program: the version is noted. *)
LEMMA MigrateWrite ==
  ASSUME Typed, Settled, Alone, NEW t \in Tabs, Write(t), tab[t].task = "migrate", legacy = None PROVE Settled'
<1>1. PICK p : /\ p = tab[t] /\ TabTyped(p) /\ TabSettled(p) /\ p.pc = "writes" /\ p.writes # << >>
               /\ p.task = "migrate" /\ p.session = None
  BY DEF Typed, Settled, Write, TabTyped
<1>2. p.writes = <<Set("migrated", version)>>
  BY <1>1, MigrateCase DEF TabSettled
<1>3. PICK w : /\ w = Set("migrated", version) /\ w = Head(p.writes) /\ w.to = "migrated"
               /\ Tail(p.writes) = << >>
  BY <1>2, Pairs DEF Set
<1>4. PICK q : /\ Become(t, q) /\ q.pc = "writes" /\ q.task = p.task /\ q.writes = Tail(p.writes)
               /\ q.session = p.session
  BY <1>1, <1>3, WriteStep
<1>5. /\ UNCHANGED <<legacy, account, version, keys, root>>
      /\ store' = [store EXCEPT ![w.to] = w.value]
  BY <1>1, <1>3, WriteEffect
<1>6. Owner' = Owner /\ store'.ucan = store.ucan /\ store'.log = store.log
  BY <1>3, <1>5, Stored DEF Typed
<1>7. WritesSettled(q)' /\ ~Starts(q)
  BY <1>1, <1>3, <1>4, <1>5 DEF WritesSettled, Starts
<1>8. TabSettled(q)'
  BY <1>1, <1>4, <1>7 DEF TabSettled
<1> QED
  BY <1>1, <1>4, <1>5, <1>6, <1>8, SteadySettled DEF Fragile, Inheriting

(* A delicate task runs alone. *)
LEMMA Unaccompanied ==
  ASSUME Typed, Alone, NEW t \in Tabs, Fragile(tab[t].task)
  PROVE  \A s \in Tabs \ {t} : tab[s].pc \in {"closed", "migrate"}
BY DEF Alone, Delicate, Fragile, Others

LEMMA KeyWritten ==
  ASSUME Typed, NEW did \in Nat, NEW key \in Nat, keys' = [keys EXCEPT !.read = WithKey(did, key)]
  PROVE  /\ keys'.agent = keys.agent /\ HasKey(did)' /\ RetrieveKey(did)' = key
         /\ \A d : HasKey(d) => HasKey(d)'
         /\ \A d : HasKey(d) /\ (d = did => RetrieveKey(d) = key) => RetrieveKey(d)' = RetrieveKey(d)
<1>1. keys'.agent = keys.agent /\ keys'.read = WithKey(did, key)
  BY DEF Typed, IsKeys
<1>2. /\ DOMAIN keys'.read = DOMAIN keys.read \union {did}
      /\ \A d \in DOMAIN keys.read \union {did} : keys'.read[d] = IF d = did THEN key ELSE keys.read[d]
  BY <1>1 DEF WithKey
<1> QED
  BY <1>1, <1>2 DEF HasKey, RetrieveKey

LEMMA LinkWrite ==
  ASSUME Typed, Settled, Alone, NEW t \in Tabs, Write(t), tab[t].task = "link" PROVE Settled'
<1>1. PICK p : /\ p = tab[t] /\ TabTyped(p) /\ TabSettled(p) /\ p.pc = "writes" /\ p.writes # << >>
               /\ p.task = "link" /\ p.session = None
  BY DEF Typed, Settled, Write, TabTyped
<1>2. Links(p)
  BY <1>1 DEF TabSettled, WritesSettled
<1>3. keys.agent # None /\ keys.agent \in Nat /\ store.log = None
  BY <1>2 DEF Links, Typed, IsKeys, LegacyDID
<1>4. PICK ucan : ucan = Delegated(ForeignDID, keys.agent) /\ ucan.root = ForeignDID /\ ucan \in Ucan
  BY <1>3, DelegatedUcan DEF ForeignDID
<1>5. PICK a, b, c, d :
        /\ a = Set("ucan", ucan) /\ b = StoreKey(ForeignDID, ForeignDID)
        /\ c = Add("ucans", BuildUcan(keys.agent, ucan)) /\ d = Provide("webCrypto", Abroad)
  OBVIOUS
<1>6. PICK list : list = LinkDevice(Abroad, ucan, ForeignDID, keys.agent) /\ list = <<a, b, c, d>>
  BY <1>4, <1>5 DEF LinkDevice
<1>7. /\ Head(list) = a /\ Tail(list) = <<b, c, d>> /\ Head(Tail(list)) = b
      /\ Tail(Tail(list)) = <<c, d>> /\ Head(Tail(Tail(list))) = c
      /\ Tail(Tail(Tail(list))) = <<d>> /\ Head(Tail(Tail(Tail(list)))) = d
      /\ Tail(Tail(Tail(Tail(list)))) = << >>
  BY <1>6, Longer, Pairs
<1>8. PICK w : w = Head(p.writes)
  OBVIOUS
<1>9. PICK q : /\ Become(t, q) /\ q.pc = "writes" /\ q.task = p.task /\ q.writes = Tail(p.writes)
               /\ q.session = p.session
  BY <1>1, <1>8, WriteStep
<1>10. UNCHANGED <<legacy, account>>
  BY <1>1, <1>8, WriteEffect
<1>11. Doing("link")'
  BY <1>1, <1>9 DEF Doing, Become, Typed
<1>12. ASSUME Links(q)', StoreSettled' PROVE Settled'
  <2>1. TabSettled(q)'
    BY <1>1, <1>9, <1>12 DEF TabSettled, WritesSettled, Starts
  <2>2. \A s \in Tabs \ {t} : tab[s].pc \in {"closed", "migrate"}
    BY <1>1, Unaccompanied DEF Fragile
  <2> QED
    BY <1>9, <1>10, <1>12, <2>1, <2>2, SoleSettled
<1>13. ASSUME Owner' = None, store'.log = None PROVE StoreSettled'
  BY <1>11, <1>13 DEF StoreSettled
<1>14. CASE p.writes = list /\ Owner = None
  <2>1. w = a /\ w.to = "ucan" /\ w.value = ucan
    BY <1>5, <1>7, <1>8, <1>14 DEF Set
  <2>2. store' = [store EXCEPT !["ucan"] = ucan] /\ keys' = keys
    BY <1>1, <1>8, <2>1, WriteEffect
  <2>3. store'["ucan"] = ucan /\ store'.log = None /\ Owner' = None
    BY <1>3, <1>14, <2>2, Stored DEF Typed
  <2>4. q.writes = Tail(list)
    BY <1>9, <1>14
  <2>5. Links(q)'
    BY <1>3, <1>4, <1>6, <2>2, <2>3, <2>4 DEF Links
  <2> QED
    BY <1>12, <1>13, <2>3, <2>5
<1>15. CASE p.writes = Tail(list) /\ Owner = None /\ store.ucan = ucan
  <2>1. w = b /\ w.to = "key" /\ w.did = ForeignDID /\ w.value = ForeignDID
    BY <1>5, <1>7, <1>8, <1>15 DEF StoreKey
  <2>2. keys' = [keys EXCEPT !.read = WithKey(ForeignDID, ForeignDID)] /\ store' = store
    BY <1>1, <1>8, <2>1, WriteEffect
  <2>3. keys'.agent = keys.agent /\ HasKey(ForeignDID)'
    BY <2>2, KeyWritten DEF ForeignDID
  <2>4. store'.ucan = ucan /\ store'.log = None /\ Owner' = None
    BY <1>3, <1>15, <2>2 DEF Owner
  <2>5. q.writes = Tail(Tail(list))
    BY <1>9, <1>15
  <2>6. Links(q)'
    BY <1>3, <1>4, <1>6, <2>3, <2>4, <2>5 DEF Links
  <2> QED
    BY <1>12, <1>13, <2>4, <2>6
<1>16. CASE p.writes = Tail(Tail(list)) /\ Owner = None /\ store.ucan = ucan /\ HasKey(ForeignDID)
  <2>1. w = c /\ w.to = "add" /\ w.repo = "ucans"
    <3>1. w = c
      BY <1>7, <1>8, <1>16
    <3> QED
      BY <1>5, <3>1 DEF Add
  <2>2. PICK x : store' = [store EXCEPT !["ucans"] = x] /\ keys' = keys
    BY <1>1, <1>8, <2>1, WriteEffect
  <2>3. store'.ucan = ucan /\ store'.log = None /\ Owner' = None
    BY <1>3, <1>16, <2>2, Stored DEF Typed
  <2>4. q.writes = Tail(Tail(Tail(list)))
    BY <1>9, <1>16
  <2>5. HasKey(ForeignDID)'
    BY <1>16, <2>2 DEF HasKey
  <2>6. Links(q)'
    BY <1>3, <1>4, <1>6, <2>2, <2>3, <2>4, <2>5 DEF Links
  <2> QED
    BY <1>12, <1>13, <2>3, <2>6
<1>17. CASE p.writes = Tail(Tail(Tail(list))) /\ Owner = None /\ store.ucan = ucan /\ HasKey(ForeignDID)
  <2>1. w = d
    BY <1>7, <1>8, <1>17
  <2>2. w.to = "session"
    BY <1>5, <2>1 DEF Provide, Set
  <2>3. store' = [store EXCEPT !.session = Provide("webCrypto", Abroad).value] /\ keys' = keys /\ root' = root
    BY <1>1, <1>5, <1>8, <2>1, <2>2, WriteEffect
  <2>4. Owner' = Abroad /\ store'.ucan = ucan /\ store'.log = None /\ Abroad # None
    BY <1>3, <1>17, <2>3, SessionStored, SessionAssumption
  <2>5. q.writes = << >>
    BY <1>7, <1>9, <1>17
  <2>6. Links(q)'
    BY <1>3, <2>3, <2>4, <2>5 DEF Links
  <2>7. account[Abroad] = ForeignDID /\ root[Abroad].key = ForeignDID
    BY SessionAssumption DEF Typed, IsServer, KeyFits
  <2>8. HasKey(ForeignDID) /\ RetrieveKey(ForeignDID) = ForeignDID
    BY <1>17 DEF Typed, IsKeys, HasKey, RetrieveKey
  <2>9. RootIssuer' = ForeignDID
    BY <1>4, <2>4, NoneApart DEF RootIssuer
  <2>10. Ready'
    BY <1>3, <1>10, <2>3, <2>4, <2>7, <2>8, <2>9 DEF Ready, HasRead, HasKey, RetrieveKey
  <2>11. StoreSettled'
    BY <2>4, <2>10 DEF StoreSettled
  <2> QED
    BY <1>12, <2>6, <2>11
<1> QED
  BY <1>1, <1>2, <1>4, <1>6, <1>14, <1>15, <1>16, <1>17 DEF Links

LEMMA RecoverWrite ==
  ASSUME Typed, Settled, Alone, NEW t \in Tabs, Write(t), tab[t].task = "recover" PROVE Settled'
<1>1. PICK p : /\ p = tab[t] /\ TabTyped(p) /\ TabSettled(p) /\ p.pc = "writes" /\ p.writes # << >>
               /\ p.task = "recover" /\ p.session = None
  BY DEF Typed, Settled, Write, TabTyped
<1>2. PICK user \in Users \ {Abroad, legacy}, v \in Version :
        LET list == <<Provide("webCrypto", user), Update(user, v), StoreKey(keys.agent, v.key)>>
        IN /\ keys.agent # None /\ keys.agent # LegacyDID /\ account[user] = keys.agent
           /\ store.log = None /\ store.ucan = None /\ v.key = ForeignDID
           /\ \/ p.writes = list /\ Owner = None /\ root[user] = None
              \/ p.writes = Tail(list) /\ Owner = user /\ root[user] = None
              \/ p.writes = Tail(Tail(list)) /\ Owner = user /\ root[user] = v
              \/ p.writes = << >> /\ Owner = user /\ root[user] = v /\ HasRead(user, v.key)
  BY <1>1 DEF TabSettled, WritesSettled, Recovers
<1>3. keys.agent \in Nat /\ user # None
  BY <1>2, NoneApart DEF Typed, IsKeys, LegacyDID
<1>4. PICK a, b, c : a = Provide("webCrypto", user) /\ b = Update(user, v) /\ c = StoreKey(keys.agent, v.key)
  OBVIOUS
<1>5. PICK list : list = <<a, b, c>>
  OBVIOUS
<1>6. /\ Head(list) = a /\ Tail(list) = <<b, c>> /\ Head(Tail(list)) = b
      /\ Tail(Tail(list)) = <<c>> /\ Head(Tail(Tail(list))) = c /\ Tail(Tail(Tail(list))) = << >>
  BY <1>5, Longer, Pairs
<1>7. PICK w : w = Head(p.writes)
  OBVIOUS
<1>8. PICK q : /\ Become(t, q) /\ q.pc = "writes" /\ q.task = p.task /\ q.writes = Tail(p.writes)
               /\ q.session = p.session
  BY <1>1, <1>7, WriteStep
<1>9. UNCHANGED <<legacy, account>>
  BY <1>1, <1>7, WriteEffect
<1>10. Doing("recover")'
  BY <1>1, <1>8 DEF Doing, Become, Typed
<1>11. ASSUME Recovers(q)', Ready', Owner' # None PROVE Settled'
  <2>1. TabSettled(q)'
    BY <1>1, <1>8, <1>11 DEF TabSettled, WritesSettled, Starts
  <2>2. \A s \in Tabs \ {t} : tab[s].pc \in {"closed", "migrate"}
    BY <1>1, Unaccompanied DEF Fragile
  <2>3. StoreSettled'
    BY <1>11 DEF StoreSettled
  <2> QED
    BY <1>8, <1>9, <2>1, <2>2, <2>3, SoleSettled
<1>12. ASSUME keys'.agent = keys.agent, store'.log = None, store'.ucan = None, Owner' = user,
              \/ q.writes = Tail(list) /\ root'[user] = None
              \/ q.writes = Tail(Tail(list)) /\ root'[user] = v
              \/ q.writes = << >> /\ root'[user] = v /\ HasRead(user, v.key)'
       PROVE  Settled'
  <2>1. Recovers(q)'
    BY <1>2, <1>4, <1>5, <1>9, <1>12 DEF Recovers
  <2>2. RootIssuer' = keys.agent
    BY <1>12 DEF RootIssuer
  <2>3. Ready'
    BY <1>2, <1>9, <1>10, <1>12, <2>2 DEF Ready
  <2> QED
    BY <1>3, <1>11, <1>12, <2>1, <2>3
<1>13. CASE p.writes = list /\ Owner = None /\ root[user] = None
  <2>1. w = a
    BY <1>6, <1>7, <1>13
  <2>2. w.to = "session"
    BY <1>4, <2>1 DEF Provide, Set
  <2>3. store' = [store EXCEPT !.session = Provide("webCrypto", user).value] /\ keys' = keys /\ root' = root
    BY <1>1, <1>4, <1>7, <2>1, <2>2, WriteEffect
  <2>4. Owner' = user /\ store'.ucan = None /\ store'.log = None
    BY <1>2, <2>3, SessionStored
  <2>5. q.writes = Tail(list)
    BY <1>8, <1>13
  <2> QED
    BY <1>12, <1>13, <2>3, <2>4, <2>5
<1>14. CASE p.writes = Tail(list) /\ Owner = user /\ root[user] = None
  <2>1. w = b /\ w.to = "root" /\ w.user = user /\ w.value = v
    BY <1>4, <1>6, <1>7, <1>14 DEF Update
  <2>2. root' = [root EXCEPT ![user] = v] /\ store' = store /\ keys' = keys
    BY <1>1, <1>7, <2>1, WriteEffect
  <2>3. root'[user] = v
    BY <2>2 DEF Typed, IsServer
  <2>4. Owner' = user
    BY <1>14, <2>2 DEF Owner
  <2>5. q.writes = Tail(Tail(list))
    BY <1>8, <1>14
  <2> QED
    BY <1>2, <1>12, <2>2, <2>3, <2>4, <2>5
<1>15. CASE p.writes = Tail(Tail(list)) /\ Owner = user /\ root[user] = v
  <2>1. w = c /\ w.to = "key" /\ w.did = keys.agent /\ w.value = v.key
    BY <1>4, <1>6, <1>7, <1>15 DEF StoreKey
  <2>2. keys' = [keys EXCEPT !.read = WithKey(keys.agent, v.key)] /\ store' = store /\ root' = root
    BY <1>1, <1>7, <2>1, WriteEffect
  <2>3. v.key \in Nat
    BY <1>2 DEF ForeignDID
  <2>4. PICK did, key : did = keys.agent /\ key = v.key /\ did \in Nat /\ key \in Nat
    BY <1>3, <2>3
  <2>5. keys'.agent = did /\ HasKey(did)' /\ RetrieveKey(did)' = key
    BY <2>2, <2>4, KeyWritten
  <2>6. HasRead(user, v.key)'
    BY <1>2, <1>9, <2>4, <2>5 DEF HasRead, HasKey, RetrieveKey
  <2>7. Owner' = user
    BY <1>15, <2>2 DEF Owner
  <2>8. q.writes = << >>
    BY <1>6, <1>8, <1>15
  <2> QED
    BY <1>2, <1>12, <1>15, <2>2, <2>4, <2>5, <2>6, <2>7, <2>8
<1> QED
  BY <1>1, <1>2, <1>4, <1>5, <1>13, <1>14, <1>15

(* A device with an older program: its user, and that user's key, are taken over. *)
LEMMA InheritWrite ==
  ASSUME Typed, Settled, Alone, NEW t \in Tabs, Write(t), tab[t].task = "migrate", legacy # None PROVE Settled'
<1>1. PICK p : /\ p = tab[t] /\ TabTyped(p) /\ TabSettled(p) /\ p.pc = "writes" /\ p.writes # << >>
               /\ p.task = "migrate" /\ p.session = None
  BY DEF Typed, Settled, Write, TabTyped
<1>2. Inherits(p) /\ Inheriting(p)
  BY <1>1, MigrateCase DEF TabSettled, Inheriting
<1>3. /\ legacy \in Users /\ account[legacy] = LegacyDID /\ root[legacy] # None /\ root[legacy].key = LegacyDID
      /\ store.migrated < version /\ store.ucan = None /\ Owner \in {None, legacy}
  BY <1>2, LegacyIsUser DEF Inherits, Typed, IsServer, KeyFits
<1>4. PICK a, b, c, d : /\ a = Set("agent", LegacyDID) /\ b = StoreKey(LegacyDID, LegacyDID)
                        /\ c = Provide("webCrypto", legacy) /\ d = Set("migrated", version)
  OBVIOUS
<1>5. PICK list : list = Inheritance /\ list = <<a, b, c, d>>
  BY <1>4 DEF Inheritance
<1>6. /\ Head(list) = a /\ Tail(list) = <<b, c, d>> /\ Head(Tail(list)) = b
      /\ Tail(Tail(list)) = <<c, d>> /\ Head(Tail(Tail(list))) = c
      /\ Tail(Tail(Tail(list))) = <<d>> /\ Head(Tail(Tail(Tail(list)))) = d
      /\ Tail(Tail(Tail(Tail(list)))) = << >>
  BY <1>5, Longer, Pairs
<1>7. PICK w : w = Head(p.writes)
  OBVIOUS
<1>8. PICK q : /\ Become(t, q) /\ q.pc = "writes" /\ q.task = p.task /\ q.writes = Tail(p.writes)
               /\ q.session = p.session
  BY <1>1, <1>7, WriteStep
<1>9. UNCHANGED <<legacy, account, version>>
  BY <1>1, <1>7, WriteEffect
<1>10. ASSUME q.writes = << >> \/ Inherits(q)', StoreSettled' PROVE Settled'
  <2>1. WritesSettled(q)' /\ ~Starts(q)
    BY <1>1, <1>3, <1>8, <1>9, <1>10 DEF WritesSettled, Starts
  <2>2. TabSettled(q)'
    BY <1>1, <1>8, <2>1 DEF TabSettled
  <2>3. \A s \in Tabs \ {t} : tab[s].pc \in {"closed", "migrate"}
    BY <1>1, <1>2 DEF Settled, Apart
  <2> QED
    BY <1>8, <1>9, <1>10, <2>2, <2>3, SoleSettled
<1>12. Inheritance' = list
  BY <1>5, <1>9 DEF Inheritance
<1>13. /\ Owner = None => store.log = None
       /\ Owner # None => Ready
  <2>1. ~Doing("link")
    BY <1>1, DoingAlone
  <2> QED
    BY DEF Settled, StoreSettled
<1>11. ASSUME Owner' = None, Owner = None, store'.log = store.log, store'.ucan = None PROVE StoreSettled'
  BY <1>11, <1>13 DEF StoreSettled
<1>14. ASSUME Owner = legacy
       PROVE  /\ keys.agent # None
              /\ store.log # None => store.log # << >> /\ HasRead(legacy, Last(store.log).key)
              /\ HasRead(legacy, LegacyDID)
  <2>1. Ready /\ Owner # None
    BY <1>3, <1>13, <1>14, LegacyIsUser, NoneApart DEF Typed
  <2>2. ~Doing("recover")
    BY <1>1, DoingAlone
  <2> QED
    BY <1>3, <1>14, <2>1, <2>2 DEF Ready
<1>15. ASSUME store'.ucan = None, root' = root, keys'.agent = LegacyDID, Owner' = legacy, HasKey(LegacyDID)',
              RetrieveKey(LegacyDID)' = LegacyDID, store'.log = store.log
       PROVE  StoreSettled'
  <2>1. RootIssuer' = LegacyDID /\ LegacyDID # None
    BY <1>15, NoneApart DEF RootIssuer, LegacyDID
  <2>2. \A key : HasRead(legacy, key)' <=> key = LegacyDID
    BY <1>3, <1>9, <1>15 DEF HasRead, HasKey, RetrieveKey
  <2>3. store.log # None => store.log # << >> /\ Last(store.log).key = LegacyDID
    <3>1. CASE Owner = None
      BY <1>13, <3>1
    <3>2. CASE Owner = legacy
      BY <1>14, <3>2 DEF HasRead
    <3> QED
      BY <1>3, <3>1, <3>2
  <2>4. Ready'
    BY <1>3, <1>9, <1>15, <2>1, <2>2, <2>3 DEF Ready, HasRead, HasKey, RetrieveKey
  <2> QED
    BY <2>4, <1>3, <1>15, NoneApart DEF StoreSettled
<1>16. CASE p.writes = list
  <2>1. w = a /\ w.to = "agent" /\ w.value = LegacyDID
    BY <1>4, <1>6, <1>7, <1>16 DEF Set
  <2>2. keys' = [keys EXCEPT !.agent = LegacyDID] /\ store' = store /\ root' = root
    BY <1>1, <1>7, <2>1, WriteEffect
  <2>3. keys'.agent = LegacyDID /\ keys'.read = keys.read
    BY <2>2 DEF Typed, IsKeys
  <2>4. Owner' = Owner
    BY <2>2 DEF Owner
  <2>5. q.writes = Tail(list)
    BY <1>8, <1>16
  <2>6. Inherits(q)'
    BY <1>3, <1>9, <1>12, <2>2, <2>3, <2>4, <2>5 DEF Inherits
  <2>7. Owner = legacy => HasKey(LegacyDID)' /\ RetrieveKey(LegacyDID)' = LegacyDID
    BY <1>3, <1>14, <2>3 DEF HasRead, HasKey, RetrieveKey
  <2> QED
    BY <1>3, <1>10, <1>11, <1>15, <2>2, <2>3, <2>4, <2>6, <2>7
<1>17. CASE p.writes = Tail(list) /\ keys.agent = LegacyDID
  <2>1. w = b /\ w.to = "key" /\ w.did = LegacyDID /\ w.value = LegacyDID
    BY <1>4, <1>6, <1>7, <1>17 DEF StoreKey
  <2>2. keys' = [keys EXCEPT !.read = WithKey(LegacyDID, LegacyDID)] /\ store' = store /\ root' = root
    BY <1>1, <1>7, <2>1, WriteEffect
  <2>3. keys'.agent = LegacyDID /\ HasKey(LegacyDID)' /\ RetrieveKey(LegacyDID)' = LegacyDID
    BY <1>17, <2>2, KeyWritten DEF LegacyDID
  <2>4. Owner' = Owner
    BY <2>2 DEF Owner
  <2>5. q.writes = Tail(Tail(list))
    BY <1>8, <1>17
  <2>6. Inherits(q)'
    BY <1>3, <1>9, <1>12, <2>2, <2>3, <2>4, <2>5 DEF Inherits
  <2> QED
    BY <1>3, <1>10, <1>11, <1>15, <2>2, <2>3, <2>4, <2>6
<1>18. CASE p.writes = Tail(Tail(list)) /\ keys.agent = LegacyDID /\ HasKey(LegacyDID)
  <2>1. w = c
    BY <1>6, <1>7, <1>18
  <2>2. w.to = "session"
    BY <1>4, <2>1 DEF Provide, Set
  <2>3. store' = [store EXCEPT !.session = Provide("webCrypto", legacy).value] /\ keys' = keys /\ root' = root
    BY <1>1, <1>4, <1>7, <2>1, <2>2, WriteEffect
  <2>4. Owner' = legacy /\ store'.ucan = None /\ store'.log = store.log /\ store'.migrated = store.migrated
    BY <1>3, <2>3, SessionStored
  <2>5. q.writes = Tail(Tail(Tail(list)))
    BY <1>8, <1>18
  <2>6. Inherits(q)'
    BY <1>3, <1>9, <1>12, <2>4, <2>5 DEF Inherits
  <2>7. HasKey(LegacyDID)' /\ RetrieveKey(LegacyDID)' = LegacyDID
    BY <1>18, <2>3 DEF Typed, IsKeys, HasKey, RetrieveKey
  <2> QED
    BY <1>10, <1>15, <1>18, <2>3, <2>4, <2>6, <2>7
<1>19. CASE p.writes = Tail(Tail(Tail(list)))
  <2>1. w = d /\ w.to = "migrated"
    <3>1. w = d
      BY <1>6, <1>7, <1>19
    <3> QED
      BY <1>4, <3>1 DEF Set
  <2>2. PICK x : store' = [store EXCEPT !["migrated"] = x] /\ keys' = keys /\ root' = root
    BY <1>1, <1>7, <2>1, WriteEffect
  <2>3. Owner' = Owner /\ store'.ucan = None /\ store'.log = store.log
    BY <1>3, <2>2, Stored DEF Typed
  <2>4. q.writes = << >>
    BY <1>6, <1>8, <1>19
  <2>5. ASSUME Owner = legacy
        PROVE  keys'.agent = LegacyDID /\ HasKey(LegacyDID)' /\ RetrieveKey(LegacyDID)' = LegacyDID
    <3>1. account[Owner] = RootIssuer
      BY <1>3, <1>13, <2>5, LegacyIsUser, NoneApart DEF Ready, Typed
    <3> QED
      BY <1>3, <1>14, <2>2, <2>5, <3>1 DEF RootIssuer, HasRead, HasKey, RetrieveKey
  <2> QED
    BY <1>3, <1>10, <1>11, <1>15, <2>2, <2>3, <2>4, <2>5
<1> QED
  BY <1>1, <1>2, <1>5, <1>16, <1>17, <1>18, <1>19 DEF Inherits

LEMMA OpenSettled ==
  ASSUME Typed, Settled, Alone, NEW t \in Tabs, Open(t), harm' = {} PROVE Settled'
<1>1. /\ tab[t].pc = "closed" /\ tab[t].task = None /\ \A s \in Tabs : ~Delicate(s)
  BY DEF Open, Typed, TabTyped, Closed
<1>2. /\ UNCHANGED <<legacy, store, account, root, version>>
      /\ keys' = keys \/ (keys.agent = None /\ keys' = [keys EXCEPT !.agent = fresh'])
  BY DEF Open, Server
<1>3. PICK q : Become(t, q) /\ q.pc = "migrate" /\ q.task = None /\ q.session = None
  BY OpenStep
<1>4. Plain(q) /\ TabSettled(q) /\ TabSettled(q)' /\ q.task \notin Tasks
  BY <1>3, NoTask, PlainSettled DEF Plain
<1>5. ~Fragile(tab[t].task)
  BY <1>1, NoTask DEF Fragile, Tasks
<1>6. CASE keys' = keys
  BY <1>1, <1>2, <1>3, <1>4, <1>5, <1>6, UnwrittenSettled DEF Unwritten, Inheriting, Tasks
<1>7. CASE keys.agent = None /\ keys' = [keys EXCEPT !.agent = fresh']
  <2>1. Owner = None /\ Owner' = None
    BY <1>2, <1>7 DEF Owner, Settled, StoreSettled, Ready
  <2>2. StoreSettled'
    BY <1>1, <1>2, <1>5, <2>1, NoSession DEF StoreSettled
  <2>3. ASSUME NEW r, \E s \in Tabs \ {t} : r = tab[s] PROVE TabSettled(r)'
    <3>1. PICK s \in Tabs \ {t} : r = tab[s]
      BY <2>3
    <3>2. TabTyped(r) /\ TabSettled(r) /\ ~Fragile(r.task)
      BY <1>1, <3>1, Sole DEF Typed, Settled
    <3>3. r.task = "register" => r.writes = << >>
      BY <1>7, <3>2 DEF TabSettled, WritesSettled, Registers
    <3>4. ASSUME Inheriting(r) PROVE Inherits(r)'
      <4>1. Inherits(r)
        BY <3>2, <3>4, MigrateCase DEF TabSettled, Inheriting
      <4>2. LegacyDID # None
        BY NoneApart DEF LegacyDID
      <4>3. Inheritance' = Inheritance
        BY <1>2 DEF Inheritance
      <4> QED
        BY <1>2, <1>7, <2>1, <4>1, <4>2, <4>3 DEF Inherits
    <3> QED
      BY <1>2, <2>1, <3>2, <3>3, <3>4, Bystander
  <2> QED
    BY <1>2, <1>3, <1>4, <2>2, <2>3, SettledFrame DEF Inheriting, Tasks
<1> QED
  BY <1>2, <1>6, <1>7

LEMMA MakeNewSettled ==
  ASSUME Typed, Settled, Alone, NEW t \in Tabs, MakeNew(t), harm' = {} PROVE Settled'
<1>1. PICK p : /\ p = tab[t] /\ TabTyped(p) /\ TabSettled(p) /\ p.pc = "open" /\ p.task = None
               /\ p.user \in Users /\ p.load = None
  BY DEF Typed, Settled, MakeNew, TabTyped, Starts
<1>2. p.user = Owner /\ GoodLast(p.ucans, Owner) /\ Owner \in Users /\ Owner # None /\ HasAccount(Owner)
  BY <1>1, OwnerIs, NoneApart DEF TabSettled, Starts
<1>3. ~InUse(Owner)
  BY <1>1, <1>2 DEF MakeNew
<1>4. root[Owner] = None /\ store.log = None /\ \A s \in Tabs : tab[s].session # Owner
  BY <1>3 DEF InUse
<1>5. /\ UNCHANGED <<legacy, store, account, root, version>> /\ fresh' = fresh + 1
      /\ keys' = [keys EXCEPT !.read = WithKey(account[Owner], fresh')]
      /\ Made(t, fresh')
  BY <1>1, <1>2 DEF MakeNew, Server, Did, LookupDid
<1>6. account[Owner] \in Nat /\ fresh' \in Nat
  BY <1>2, <1>5 DEF Typed, IsServer, HasAccount, ForeignDID, LegacyDID
<1>7. PICK did, key : did = account[Owner] /\ key = fresh' /\ did \in Nat /\ key \in Nat
                      /\ keys' = [keys EXCEPT !.read = WithKey(did, key)] /\ Made(t, key)
  BY <1>5, <1>6
<1>8. keys'.agent = keys.agent /\ HasKey(did)' /\ RetrieveKey(did)' = key /\ \A d : HasKey(d) => HasKey(d)'
  BY <1>7, KeyWritten
<1>9. Owner' = Owner /\ RootIssuer' = RootIssuer
  BY <1>5, <1>8 DEF Owner, RootIssuer
<1>10. PICK q : /\ Become(t, q) /\ q.pc = "idle" /\ q.task = None
                /\ q.session = p.user /\ q.fs = key /\ q.ucans = p.ucans
  BY <1>1, <1>7, MadeStep
<1>11. \A list : GoodLast(list, Owner)' <=> GoodLast(list, Owner)
  BY <1>5, <1>8, <1>9 DEF GoodLast, Good
<1>12. HasRead(Owner, key)'
  BY <1>5, <1>7, <1>8, <1>9 DEF HasRead
<1>13. q.task \notin Tasks /\ ~Starts(q)
  BY <1>10, NoTask DEF Starts, Tasks
<1>14. TabSettled(q)'
  <2>1. WritesSettled(q)'
    BY <1>13 DEF WritesSettled, Tasks
  <2>2. GoodLast(q.ucans, Owner)' /\ HasRead(Owner, q.fs)' /\ q.session = Owner'
    BY <1>2, <1>9, <1>10, <1>11, <1>12
  <2> QED
    BY <1>10, <1>13, <2>1, <2>2 DEF TabSettled, Tasks
<1>15. StoreSettled'
  <2>1. Ready
    BY <1>2 DEF Settled, StoreSettled
  <2>2. Ready'
    BY <1>4, <1>5, <1>8, <1>9, <2>1 DEF Ready
  <2> QED
    BY <1>2, <1>9, <2>2 DEF StoreSettled
<1>16. ASSUME NEW r, \E s \in Tabs \ {t} : r = tab[s] PROVE TabSettled(r)'
  <2>1. PICK s \in Tabs \ {t} : r = tab[s]
    BY <1>16
  <2>2. TabTyped(r) /\ TabSettled(r) /\ ~Fragile(r.task)
    BY <1>1, <2>1, Sole DEF Typed, Settled
  <2>3. r.session = None
    BY <1>4, <2>1, <2>2 DEF TabSettled
  <2>4. WritesSettled(r)
    BY <2>2 DEF TabSettled
  <2>5. WritesSettled(r)'
    <3>1. CASE r.task = "session"
      <4>1. \A u : Good(u, Owner)' <=> Good(u, Owner)
        BY <1>5, <1>8, <1>9 DEF Good
      <4> QED
        BY <1>11, <2>4, <3>1, <4>1 DEF WritesSettled
    <3>2. CASE r.task = "load"
      BY <1>4, <2>4, <3>2 DEF WritesSettled
    <3>3. CASE r.task = "register"
      BY <1>2, <2>4, <3>3 DEF WritesSettled, Registers
    <3>4. CASE r.task = "publish"
      BY <2>3, <2>4, <3>4 DEF WritesSettled, Publishes
    <3>5. CASE r.task = "migrate"
      <4>1. Inherits(r) => Inherits(r)'
        <5>1. Inheritance' = Inheritance
          BY <1>5 DEF Inheritance
        <5> QED
          BY <1>5, <1>8, <1>9, <5>1 DEF Inherits
      <4> QED
        BY <1>5, <2>4, <3>5, <4>1, MigrateCase DEF WritesSettled
    <3>6. CASE r.task \notin {"session", "load", "register", "publish", "migrate"}
      BY <2>2, <3>6 DEF WritesSettled, Fragile
    <3> QED
      BY <3>1, <3>2, <3>3, <3>4, <3>5, <3>6
  <2> QED
    BY <1>9, <1>11, <2>2, <2>3, <2>5 DEF TabSettled
<1> QED
  BY <1>1, <1>5, <1>10, <1>13, <1>14, <1>15, <1>16, SettledFrame DEF Inheriting, Tasks

(* A tab asks for an account, alone. *)
LEMMA Registered ==
  ASSUME Typed, NEW user \in Users, CreateAccount(user)
  PROVE  /\ keys.agent # None /\ account'[user] = keys.agent /\ root[user] = None /\ account[user] = None
         /\ user \notin {Abroad, legacy} /\ \A u \in Users \ {user} : account'[u] = account[u]
<1>1. account' = [account EXCEPT ![user] = keys.agent] /\ keys.agent # None /\ account[user] = None
  BY DEF CreateAccount
<1>2. user \notin {Abroad, legacy} /\ root[user] = None
  BY <1>1, NoneApart DEF Typed, IsServer, HasAccount, ForeignDID, LegacyDID
<1> QED
  BY <1>1, <1>2 DEF Typed, IsServer

LEMMA RegisterSettled ==
  ASSUME Typed, Settled, Alone, NEW t \in Tabs, NEW user \in Users, Register(t, user), harm' = {} PROVE Settled'
<1>1. PICK p : p = tab[t] /\ TabTyped(p) /\ p.pc = "idle" /\ p.session = None /\ ~Fragile(p.task)
  BY NoTask DEF Typed, Register, TabTyped, Fragile, Tasks, AppCalls
<1>2. UNCHANGED <<legacy, store, keys, root, version>> /\ Owner = None /\ Owner' = None
  BY DEF Register, Owner
<1>3. PICK list : list = <<Provide("webCrypto", user)>> /\ Running(t, "register", list)
  BY DEF Register
<1>4. PICK q : Become(t, q) /\ q.pc = "writes" /\ q.task = "register" /\ q.writes = list /\ q.session = p.session
  BY <1>1, <1>3, RunningStep
<1>5. keys.agent # None /\ account'[user] = keys.agent /\ root[user] = None
  BY Registered DEF Register
<1>6. Registers(q)'
  BY <1>2, <1>3, <1>4, <1>5 DEF Registers
<1>7. TabSettled(q)'
  BY <1>1, <1>4, <1>6 DEF TabSettled, WritesSettled, Starts
<1>8. StoreSettled'
  BY <1>1, <1>2, NoSession DEF StoreSettled
<1>9. \A s \in Tabs \ {t} : tab[s].pc \in {"closed", "migrate"}
  BY DEF Register, Alters, Others
<1> QED
  BY <1>2, <1>4, <1>7, <1>8, <1>9, SoleSettled

LEMMA RecoverSettled ==
  ASSUME Typed, Settled, Alone, NEW t \in Tabs, NEW user \in Users, Recover(t, Abroad, user), harm' = {}
  PROVE  Settled'
<1>1. PICK p : p = tab[t] /\ TabTyped(p) /\ p.pc = "idle" /\ p.session = None /\ ~Fragile(p.task)
  BY NoTask DEF Typed, Recover, TabTyped, Fragile, Tasks, AppCalls
<1>2. UNCHANGED <<legacy, store, keys, root, version>> /\ Owner = None /\ Owner' = None
  BY DEF Recover, Owner
<1>3. /\ account'[user] = keys.agent /\ root[user] = None /\ user \notin {Abroad, legacy}
      /\ keys.agent # None /\ keys.agent # LegacyDID
  <2>1. keys.agent \in 3..fresh
    BY CreateTyped, NoneApart DEF Recover
  <2>2. fresh \in Nat
    BY DEF Typed
  <2> QED
    BY <2>1, <2>2, Registered DEF Recover, LegacyDID
<1>4. PICK v \in Version : v = root[Abroad] /\ v # None /\ v.key = ForeignDID
  BY SessionAssumption, NoneApart DEF Typed, IsServer, KeyFits
<1>5. PICK list : /\ list = <<Provide("webCrypto", user), Update(user, v), StoreKey(keys.agent, v.key)>>
                  /\ Running(t, "recover", list)
  <2>1. PICK a, b, c : a = Provide("webCrypto", user) /\ b = Update(user, v) /\ c = StoreKey(keys.agent, v.key)
    OBVIOUS
  <2>2. <<a>> \o <<b, c>> = <<a, b, c>>
    BY Lists
  <2>3. <<Provide("webCrypto", user)>>
          \o (IF v = None THEN << >> ELSE <<Update(user, v), StoreKey(keys.agent, v.key)>>)
         = <<a, b, c>>
    BY <1>4, <2>1, <2>2
  <2> QED
    BY <1>4, <2>1, <2>3 DEF Recover, LookupRoot
<1>6. PICK q : Become(t, q) /\ q.pc = "writes" /\ q.task = "recover" /\ q.writes = list /\ q.session = p.session
  BY <1>1, <1>5, RunningStep
<1>7. store.log = None /\ store.ucan = None
  BY <1>1, <1>2, NoSession
<1>8. Recovers(q)'
  BY <1>2, <1>3, <1>4, <1>5, <1>6, <1>7 DEF Recovers
<1>9. TabSettled(q)'
  BY <1>1, <1>6, <1>8 DEF TabSettled, WritesSettled, Starts
<1>10. StoreSettled'
  BY <1>2, <1>7 DEF StoreSettled
<1>11. \A s \in Tabs \ {t} : tab[s].pc \in {"closed", "migrate"}
  BY DEF Recover, Alters, Others
<1> QED
  BY <1>2, <1>6, <1>9, <1>10, <1>11, SoleSettled

LEMMA UpgradeSettled == ASSUME Typed, Settled, Upgrade PROVE Settled'
<1>1. UNCHANGED <<legacy, store, keys, account, root, tab>> /\ \A s \in Tabs : tab[s] = Closed
  BY DEF Upgrade, Typed, TabTyped
<1>2. ASSUME NEW s \in Tabs PROVE TabSettled(tab[s])' /\ ~Inheriting(tab[s])' /\ tab'[s].task \notin Tasks
  <2>1. tab'[s] = Closed /\ TabSettled(Closed)'
    BY <1>1, ClosedIsPlain, PlainSettled
  <2>2. tab'[s].task \notin Tasks
    BY <2>1, NoTask DEF Closed
  <2> QED
    BY <2>1, <2>2 DEF Inheriting, Tasks, TabSettled, Starts, WritesSettled, Closed
<1>3. Apart'
  BY <1>2 DEF Apart, Tasks
<1>4. \A task : Doing(task)' <=> Doing(task)
  BY <1>1 DEF Doing
<1>5. StoreSettled'
  BY <1>1, <1>4 DEF Settled, StoreSettled, Ready, Owner, RootIssuer, HasRead, HasKey, RetrieveKey
<1> QED
  BY <1>2, <1>3, <1>5 DEF Settled

(* When all is destroyed, what is left is as it was in the beginning. *)
LEMMA Destroyed ==
  ASSUME Typed, Alone, NEW t \in Tabs, Written(t), tab[t].task = "destroy" PROVE Settled'
<1>1. PICK p : /\ p = tab[t] /\ TabTyped(p) /\ p.task = "destroy" /\ p.writes = << >> /\ p.pc = "writes"
  BY DEF Typed, Written
<1>2. Wipes(p)
  BY <1>1 DEF Alone
<1>3. store = Blank
  <2>1. PICK a, b, c, d, e : Wiping = <<a, b, c, d, e>>
    BY DEF Wiping
  <2>2. /\ Wiping # << >> /\ Tail(Wiping) # << >> /\ Tail(Tail(Wiping)) # << >>
        /\ Tail(Tail(Tail(Wiping))) # << >> /\ Tail(Tail(Tail(Tail(Wiping)))) # << >>
    BY <2>1, Longer, Pairs
  <2> QED
    BY <1>1, <1>2, <2>2 DEF Wipes
<1>4. PICK q : Become(t, q) /\ q.task = None /\ q.pc = "idle" /\ q.session = None
  BY <1>1, WrittenStep
<1>5. UNCHANGED <<legacy, store>>
  BY DEF Written, Server
<1>6. StoreSettled'
  BY <1>3, <1>5 DEF StoreSettled, Owner, Blank
<1>7. TabSettled(q)'
  BY <1>4, PlainSettled DEF Plain
<1>8. \A s \in Tabs \ {t} : tab[s].pc \in {"closed", "migrate"}
  BY <1>1, Unaccompanied DEF Fragile
<1> QED
  BY <1>4, <1>5, <1>6, <1>7, <1>8, SoleSettled

(* Where nothing is destroyed and no harm done after a step, nothing was    *)
(* destroyed and no harm done before it, unless that step ends a destruction.*)
LEMMA Undisturbed ==
  ASSUME Typed, NEW t \in Tabs, Step(t), harm' = {}, ~Doing("destroy")'
  PROVE  \/ Written(t) /\ tab[t].task = "destroy"
         \/ harm = {} /\ ~Doing("destroy")
<1>1. ASSUME ~(Written(t) /\ tab[t].task = "destroy") PROVE harm = {}
  BY <1>1 DEF Step, Open, Migrate, Restore, SelfAuthorise, LoadFileSystem, LoadFails, OpenExisting, MakeNew,
              Link, Publish, Destroy, Register, Recover, Write, Written, Close, Alters
<1>2. ASSUME Doing("destroy") PROVE Written(t) /\ tab[t].task = "destroy"
  <2>1. PICK s \in Tabs : tab[s].task = "destroy"
    BY <1>2 DEF Doing
  <2>2. \A q : Become(t, q) => tab'[t] = q /\ \A u \in Tabs \ {t} : tab'[u] = tab[u]
    BY DEF Become, Typed
  <2>3. PICK q : Become(t, q)
    BY DEF Step, Open, Migrate, Restore, SelfAuthorise, LoadFileSystem, LoadFails, OpenExisting, Opened, MakeNew,
           Link, Publish, Destroy, Register, Recover, Write, Written, Close, Running, Made
  <2>4. s = t
    BY <2>1, <2>2, <2>3 DEF Doing
  <2>5. PICK p : p = tab[t] /\ TabTyped(p) /\ p.task = "destroy" /\ p.pc = "writes"
    BY <2>1, <2>4, NoTask DEF Typed, TabTyped, Tasks
  <2>6. Write(t) \/ Written(t) \/ Close(t)
    BY <2>5 DEF Step, Open, Migrate, Restore, SelfAuthorise, LoadFileSystem, LoadFails, OpenExisting, MakeNew,
                Link, Publish, Destroy, Register, Recover, AppCalls, TabTyped
  <2>7. ~Close(t)
    BY <2>5 DEF Close, Delicate
  <2>8. ~Write(t)
    <3> SUFFICES ASSUME Write(t) PROVE FALSE
      OBVIOUS
    <3>1. PICK w : w = Head(p.writes)
      OBVIOUS
    <3>2. PICK r : Become(t, r) /\ r.task = p.task
      BY <2>5, <3>1, WriteStep
    <3> QED
      BY <2>2, <2>5, <3>2 DEF Doing
  <2> QED
    BY <2>5, <2>6, <2>7, <2>8
<1> QED
  BY <1>1, <1>2

LEMMA WriteSettled ==
  ASSUME Typed, Settled, Alone, NEW t \in Tabs, Write(t), tab[t].task # "destroy" PROVE Settled'
<1>1. tab[t].task \in Tasks
  BY DEF Write, Typed, TabTyped
<1>2. tab[t].task \in {"migrate", "session", "load", "register", "link", "recover", "publish"}
  BY <1>1 DEF Tasks
<1> QED
  BY <1>2, InheritWrite, MigrateWrite, SessionWrite, LoadWrite, RegisterWrite, LinkWrite, RecoverWrite, PublishWrite

LEMMA SettledStep ==
  ASSUME Typed, Alone, harm = {} /\ ~Doing("destroy") => Settled, NEW t \in Tabs, Step(t),
         harm' = {}, ~Doing("destroy")'
  PROVE  Settled'
<1>1. CASE Written(t) /\ tab[t].task = "destroy"
  BY <1>1, Destroyed
<1>2. CASE harm = {} /\ ~Doing("destroy")
  <2>1. Settled /\ tab[t].task # "destroy"
    BY <1>2 DEF Doing
  <2>2. ~Destroy(t)
    <3> SUFFICES ASSUME Destroy(t) PROVE FALSE
      OBVIOUS
    <3>1. PICK p : p = tab[t] /\ TabTyped(p)
      BY DEF Typed
    <3>2. PICK list : Running(t, "destroy", list)
      BY DEF Destroy
    <3>3. PICK q : Become(t, q) /\ q.task = "destroy"
      BY <3>1, <3>2, RunningStep
    <3> QED
      BY <3>3 DEF Become, Typed, Doing
  <2> QED
    BY <2>1, <2>2, OpenSettled, MigrateSettled, RestoreSettled, SelfAuthoriseSettled, LoadFileSystemSettled,
       LoadFailsSettled, OpenExistingSettled, MakeNewSettled, LinkSettled, PublishSettled, RegisterSettled,
       RecoverSettled, WriteSettled, WrittenSettled, CloseSettled DEF Step
<1> QED
  BY <1>1, <1>2, Undisturbed

LEMMA SettledNext ==
  ASSUME SessionInv, [Next]_vars PROVE harm' = {} /\ ~Doing("destroy")' => Settled'
<1> SUFFICES ASSUME harm' = {}, ~Doing("destroy")' PROVE Settled'
  OBVIOUS
<1>1. Typed /\ (harm \subseteq {"cut"} => Alone) /\ (harm = {} /\ ~Doing("destroy") => Settled)
  BY DEF SessionInv
<1>2. ASSUME NEW t \in Tabs, Step(t) PROVE Settled'
  BY <1>1, <1>2, HarmStays, SettledStep
<1>3. CASE Upgrade
  <2>1. harm = {} /\ ~Doing("destroy")
    BY <1>3 DEF Upgrade, Doing
  <2> QED
    BY <1>1, <1>3, <2>1, UpgradeSettled
<1>4. CASE UNCHANGED vars
  <2>1. harm = {} /\ ~Doing("destroy") /\ Unwritten /\ tab' = tab
    BY <1>4 DEF vars, Doing, Unwritten
  <2>2. Settled
    BY <1>1, <2>1
  <2>3. ASSUME NEW s \in Tabs PROVE TabSettled(tab[s])'
    <3>1. PICK r : r = tab[s] /\ tab'[s] = r
      BY <2>1
    <3>2. TabSettled(r)'
      BY <2>1, <2>2, <3>1, UnwrittenTab DEF Settled
    <3>3. tab'[s] = r
      BY <3>1
    <3> QED
      BY <3>2, <3>3, SettledIs
  <2>4. Apart'
    BY <2>1, <2>2 DEF Settled, Apart, Inheriting, Unwritten
  <2>5. StoreSettled'
    BY <2>1, <2>2 DEF Unwritten, Settled, StoreSettled, Ready, Doing, Owner, RootIssuer, HasRead, HasKey, RetrieveKey
  <2> QED
    BY <2>3, <2>4, <2>5 DEF Settled
<1> QED
  BY <1>2, <1>3, <1>4, NextCases

LEMMA SessionInit == ASSUME Init PROVE SessionInv
<1>1. Typed
  BY TypedInit
<1>2. store = Blank /\ \A t \in Tabs : tab[t] = Closed
  BY DEF Init
<1>3. ASSUME NEW t \in Tabs PROVE Plain(tab[t]) /\ tab[t].task \notin Tasks /\ tab[t].pc = "closed"
  BY <1>2, ClosedIsPlain, NoTask DEF Closed
<1>4. Alone
  BY <1>3 DEF Alone, Delicate, Tasks
<1>5. StoreSettled
  BY <1>2 DEF StoreSettled, Owner, Blank
<1>6. Apart
  BY <1>3 DEF Apart, Tasks
<1> QED
  BY <1>1, <1>3, <1>4, <1>5, <1>6, PlainSettled DEF SessionInv, Settled

THEOREM SessionAlways == Spec => []SessionInv
<1>1. ASSUME SessionInv, [Next]_vars PROVE SessionInv'
  <2>1. Typed'
    BY <1>1, TypedNext DEF SessionInv
  <2>2. harm' \subseteq {"cut"} => Alone'
    BY <1>1, AloneNext DEF SessionInv
  <2>3. harm' = {} /\ ~Doing("destroy")' => Settled'
    BY <1>1, SettledNext
  <2> QED
    BY <2>1, <2>2, <2>3 DEF SessionInv
<1> QED
  BY <1>1, SessionInit, PTL DEF Spec

-----------------------------------------------------------------------------
(* THE PROPERTIES *)
(* In calm, nothing is recovered, linked or destroyed. *)
LEMMA InCalm ==
  ASSUME SessionInv, Calm
  PROVE  /\ Typed /\ Settled /\ ~Doing("link") /\ ~Doing("recover")
         /\ Owner # None => Ready /\ (root[Owner] # None => HasRead(Owner, root[Owner].key))
<1>1. harm = {} /\ \A t \in Tabs : tab[t].task \notin {"link", "recover", "destroy"}
  BY DEF Calm, Midway, Delicate
<1>2. ~Doing("link") /\ ~Doing("recover") /\ ~Doing("destroy")
  BY <1>1 DEF Doing
<1>3. Typed /\ Settled
  BY <1>1, <1>2 DEF SessionInv
<1> QED
  BY <1>2, <1>3 DEF Settled, StoreSettled, Ready

(* The key of the stored session's account reads the version that the page  *)
(* would load when it opens again, whenever it was closed.                  *)
THEOREM StoredSessionAlwaysLoads == Spec => []StoredSessionLoads
<1>1. ASSUME SessionInv PROVE StoredSessionLoads
  <2> SUFFICES ASSUME Calm, store.session # None
               PROVE  LET user == store.session.user
                          v == Chosen(Items(store.log), root[user])
                      IN v # None => HasKey(account[user]) /\ keys.read[account[user]] = v.key
    BY DEF StoredSessionLoads
  <2>1. Owner = store.session.user /\ Owner # None
    BY <1>1, OwnerIs DEF SessionInv
  <2>2. Ready /\ (root[Owner] # None => HasRead(Owner, root[Owner].key))
    BY <1>1, <2>1, InCalm
  <2>3. PICK list, cid, v : list = Items(store.log) /\ cid = root[Owner] /\ v = Chosen(list, cid)
    OBVIOUS
  <2>4. v # None => (v = cid \/ (list # << >> /\ v = Last(list)))
    <3>1. CASE cid = None
      <4>1. v = IF list = << >> THEN None ELSE Last(list)
        <5>1. list \in Seq(Version)
          BY <1>1, <2>3 DEF SessionInv, Typed, IsStore, Items
        <5>2. cid \notin Range(list)
          BY <3>1, <5>1, NoneApart DEF Range
        <5> QED
          BY <2>3, <3>1, <5>2 DEF Chosen
      <4> QED
        BY <4>1
    <3>2. CASE cid # None /\ cid \in Range(list)
      <4>1. list # << >>
        BY <3>2 DEF Range
      <4> QED
        BY <2>3, <3>2, <4>1 DEF Chosen
    <3>3. CASE cid # None /\ cid \notin Range(list)
      BY <2>3, <3>3 DEF Chosen
    <3> QED
      BY <3>1, <3>2, <3>3
  <2>5. list # << >> => store.log # None /\ list = store.log
    BY <2>3 DEF Items
  <2>6. v # None => HasRead(Owner, v.key)
    BY <2>2, <2>3, <2>4, <2>5 DEF Ready
  <2> QED
    BY <2>1, <2>3, <2>6 DEF HasRead, RetrieveKey
<1> QED
  BY <1>1, SessionAlways, PTL

(* The UCAN that is found for changes is this device's and goes back to the *)
(* account of the session.                                                  *)
THEOREM UcanIsOfSession == Spec => []UcanOfSession
<1>1. ASSUME SessionInv PROVE UcanOfSession
  <2> SUFFICES ASSUME Calm, NEW t \in Tabs, tab[t].session # None
               PROVE  LET u == LookupFilesystemUcan(tab[t].ucans)
                      IN u # None /\ u.aud = keys.agent /\ u.root = account[tab[t].session]
    BY DEF UcanOfSession
  <2>1. PICK p : p = tab[t] /\ TabTyped(p) /\ TabSettled(p)
    BY <1>1, InCalm DEF Typed, Settled
  <2>2. p.session = Owner /\ GoodLast(p.ucans, Owner) /\ p.ucans \in Seq(Ucan)
    BY <2>1 DEF TabSettled, TabTyped
  <2>3. LookupFilesystemUcan(p.ucans) = Last(p.ucans) /\ p.ucans # << >>
    BY <2>2, LookupIsLast DEF GoodLast
  <2>4. Last(p.ucans) # None
    BY <2>2, <2>3, LastIn, NoneApart
  <2> QED
    BY <2>1, <2>2, <2>3, <2>4 DEF GoodLast, Good
<1> QED
  BY <1>1, SessionAlways, PTL

(* A device with a session can link others, and hands them the key that its *)
(* own file system is read with.                                            *)
THEOREM SessionAlwaysDelegates == Spec => []SessionCanDelegate
<1>1. ASSUME SessionInv PROVE SessionCanDelegate
  <2> SUFFICES ASSUME Calm, NEW t \in Tabs, tab[t].session # None
               PROVE  /\ CanDelegateAccount(tab[t].session)
                      /\ keys.read[account[tab[t].session]] = tab[t].fs
    BY DEF SessionCanDelegate
  <2>1. PICK p : p = tab[t] /\ TabTyped(p) /\ TabSettled(p) /\ p.session \in Users
    BY <1>1, InCalm DEF Typed, Settled, TabTyped
  <2>2. p.session = Owner /\ HasRead(Owner, p.fs) /\ Owner # None
    BY <2>1, NoneApart DEF TabSettled
  <2>3. account[Owner] = RootIssuer
    BY <1>1, <2>2, InCalm DEF Ready
  <2> QED
    BY <2>1, <2>2, <2>3 DEF CanDelegateAccount, HasRead, RetrieveKey
<1> QED
  BY <1>1, SessionAlways, PTL
=============================================================================
