------------------------ MODULE Capabilities_proofs ------------------------
(***************************************************************************)
(* Proofs about Capabilities, for any permissions, users and grants, and   *)
(* any number of visits: secrets that are accepted can be loaded,          *)
(* permissions that are accepted prove every change the app asked for, and *)
(* what is collected and the exchange with the lobby keep their types.     *)
(***************************************************************************)
EXTENDS Capabilities, FiniteSetTheorems, WellFoundedInduction, TLAPS

-----------------------------------------------------------------------------
(* SECRETS *)
(* The page has its fields. *)
IsPage(pg) ==
  pg = [pc |-> pg.pc, user |-> pg.user, info |-> pg.info, secrets |-> pg.secrets,
        ucans |-> pg.ucans, restored |-> pg.restored, session |-> pg.session, why |-> pg.why]

(* The key whose filter is stored next. *)
Unfiltered ==
  IF page.pc = "filter" THEN {ReadKey(page.user, Head(page.secrets))} ELSE {}

(* Every key has its filter, and who is past the check of secrets has the   *)
(* keys that were checked: none is ever removed.                            *)
SecretsInv ==
  /\ IsPage(page)
  /\ ~cut => keys \subseteq filters \union Unfiltered
  /\ page.pc \in {"provide", "load"} => ValidSecrets(page.user)
  /\ SecretsLoad

(* Where a session ends, the rest of the assembly changes none of this. *)
LEMMA ResumeStarts ==
  ASSUME NEW pg, IsPage(pg)
  PROVE  /\ IsPage(Resume(pg)) /\ Resume(pg).why = pg.why
         /\ Resume(pg).pc \in {"open", "validate"}
BY DEF IsPage, Resume

LEMMA BlankPage ==
  ASSUME NEW list, NEW restored
  PROVE  IsPage(Blank(list, restored)) /\ Blank(list, restored).why = None
BY DEF IsPage, Blank

(* What is checked is enough to load. *)
LEMMA SecretsSuffice ==
  ASSUME NEW user, ValidSecrets(user), keys \subseteq filters
  PROVE  KeysLoad(user) /\ NodesLoad(user)
BY DEF ValidSecrets, KeysLoad, NodesLoad, ReadKey, BareNameFilter

(* A step that leaves keys and filters alone, and the page where it is or   *)
(* at another step that does not rely on them.                              *)
LEMMA Elsewhere ==
  ASSUME SecretsInv, UNCHANGED <<keys, filters>>, IsPage(page'), cut => cut',
         page'.why = page.why \/ page'.why # "load" \/ cut',
         \/ page' = page
         \/ page'.pc \notin {"filter", "provide", "load"} /\ (page.pc = "filter" => cut')
  PROVE  SecretsInv'
<1>1. ~cut' => keys' \subseteq filters' \union Unfiltered'
  BY DEF SecretsInv, Unfiltered, ReadKey
<1>2. page'.pc \in {"provide", "load"} => ValidSecrets(page.user)'
  BY DEF SecretsInv, ValidSecrets, ReadKey
<1>3. SecretsLoad'
  BY DEF SecretsInv, SecretsLoad
<1> QED
  BY <1>1, <1>2, <1>3 DEF SecretsInv

LEMMA SecretsStep == ASSUME SecretsInv, [Next]_vars PROVE SecretsInv'
<1>1. CASE Open
  <2> DEFINE pg == Blank(ucans, session)
  <2>1. IsPage(pg) /\ pg.why = None
    BY BlankPage
  <2>2. IsPage(Resume(pg)) /\ Resume(pg).why = None /\ Resume(pg).pc \in {"open", "validate"}
    BY <2>1, ResumeStarts
  <2>3. page.pc = "closed" /\ UNCHANGED <<keys, filters, cut>>
    BY <1>1 DEF Open, Stored
  <2>4. \/ page' = Resume(pg)
        \/ page' = [pg EXCEPT !.pc = "exchange", !.user = url]
    BY <1>1 DEF Open
  <2>5. /\ IsPage(page') /\ page'.why = None
        /\ page'.pc \in {"open", "validate", "exchange"}
    <3>1. CASE page' = Resume(pg)
      <4> HIDE DEF pg
      <4> QED
        BY <2>2, <3>1
    <3>2. CASE page' = [pg EXCEPT !.pc = "exchange", !.user = url]
      <4> HIDE DEF pg
      <4> QED
        BY <2>1, <3>2 DEF IsPage
    <3> QED
      BY <2>4, <3>1, <3>2
  <2> QED
    BY <2>3, <2>5, Elsewhere, CapabilitiesAssumption
<1>2. CASE Close
  <2>1. /\ IsPage(page') /\ page'.why = None /\ page'.pc = "closed"
        /\ UNCHANGED <<keys, filters>> /\ (cut => cut') /\ (page.pc = "filter" => cut')
    BY <1>2 DEF Close, Closed, Blank, IsPage, Stored
  <2> QED
    BY <2>1, Elsewhere, CapabilitiesAssumption
<1>3. CASE Request
  <2>1. /\ IsPage(page') /\ page'.why = None /\ page'.pc = "closed" /\ page.pc = "open"
        /\ UNCHANGED <<keys, filters, cut>>
    BY <1>3 DEF Request, Closed, Blank, IsPage, Stored
  <2> QED
    BY <2>1, Elsewhere, CapabilitiesAssumption
<1>4. CASE Tick
  BY <1>4, Elsewhere DEF Tick, Stored, SecretsInv
<1>5. ASSUME NEW i \in DOMAIN attempts, FrameLoads(i) \/ TimesOut(i) PROVE SecretsInv'
  BY <1>5, Elsewhere DEF FrameLoads, TimesOut, Exchanging, Stored, SecretsInv
<1>6. CASE Answered
  <2>1. page.pc = "exchange" /\ UNCHANGED <<keys, filters, cut>>
    BY <1>6 DEF Answered, Exchanging, Stored
  <2>2. \/ page' = page
        \/ \E grant \in Grants \union {None} :
             page' = [page EXCEPT !.pc = "translate", !.info = grant]
    BY <1>6 DEF Answered
  <2>3. /\ IsPage(page') /\ page'.why = page.why
        /\ page' = page \/ page'.pc = "translate"
    BY <2>2 DEF IsPage, SecretsInv
  <2> QED
    BY <2>1, <2>3, Elsewhere
<1>7. CASE Disturbed
  BY <1>7, Elsewhere DEF Disturbed, Exchanging, Stored, SecretsInv
<1>8. CASE Translate
  <2>1. /\ IsPage(page') /\ page'.why \in {page.why, "secrets"} /\ page.pc = "translate"
        /\ page'.pc \in {"permissions", "failed"} /\ UNCHANGED <<keys, filters, cut>>
    BY <1>8 DEF Translate, Fails, Go, IsPage, SecretsInv, Stored
  <2> QED
    BY <2>1, Elsewhere
<1>9. CASE CollectPermissions
  <2>1. /\ IsPage(page') /\ page'.why \in {page.why, "no UCAN"} /\ page.pc = "permissions"
        /\ page'.pc \in {"lookup", "failed"} /\ UNCHANGED <<keys, filters, cut>>
    BY <1>9 DEF CollectPermissions, Fails, IsPage, SecretsInv
  <2> QED
    BY <2>1, Elsewhere
<1>10. CASE LookupDid
  <2>1. /\ IsPage(page') /\ page'.why \in {page.why, "offline"} /\ page.pc = "lookup"
        /\ page'.pc \in {"key", "failed"} /\ UNCHANGED <<keys, filters, cut>>
    BY <1>10 DEF LookupDid, Fails, IsPage, SecretsInv, Stored
  <2> QED
    BY <2>1, Elsewhere
<1>11. CASE ImportKey
  <2>1. CASE page.secrets = << >>
    <3>1. /\ IsPage(page') /\ page'.why = page.why /\ page.pc = "key"
          /\ page'.pc = "validate" /\ UNCHANGED <<keys, filters, cut>>
      BY <1>11, <2>1 DEF ImportKey, Go, IsPage, SecretsInv
    <3> QED
      BY <3>1, Elsewhere
  <2>2. CASE page.secrets # << >>
    <3>1. /\ IsPage(page') /\ page'.why = page.why /\ page.pc = "key"
          /\ page'.pc = "filter" /\ page'.user = page.user /\ page'.secrets = page.secrets
          /\ keys' = keys \union {ReadKey(page.user, Head(page.secrets))}
          /\ UNCHANGED <<filters, cut>>
      BY <1>11, <2>2 DEF ImportKey, Go, IsPage, SecretsInv
    <3> QED
      BY <3>1 DEF SecretsInv, Unfiltered, SecretsLoad, ReadKey
  <2> QED
    BY <2>1, <2>2
<1>12. CASE StoreFilter
  <2>1. /\ IsPage(page') /\ page'.why = page.why /\ page.pc = "filter" /\ page'.pc = "key"
        /\ filters' = filters \union {BareNameFilter(page.user, Head(page.secrets))}
        /\ UNCHANGED <<keys, cut>>
    BY <1>12 DEF StoreFilter, IsPage, SecretsInv
  <2> QED
    BY <2>1 DEF SecretsInv, Unfiltered, SecretsLoad, ReadKey, BareNameFilter
<1>13. CASE Validate
  <2>1. UNCHANGED <<keys, filters, cut>> /\ page.pc = "validate"
    BY <1>13 DEF Validate, Stored
  <2>2. \/ page' = [page EXCEPT !.pc = "secrets"]
        \/ page' = [page EXCEPT !.pc = "failed", !.why = "offline"]
        \/ page' = Resume([page EXCEPT !.session = None])
    BY <1>13 DEF Validate, Go, Fails, NoSession
  <2>3. /\ IsPage(page') /\ page'.why \in {page.why, "offline"}
        /\ page'.pc \in {"secrets", "failed", "open", "validate"}
    <3>1. IsPage([page EXCEPT !.session = None]) /\ [page EXCEPT !.session = None].why = page.why
      BY DEF IsPage, SecretsInv
    <3>2. CASE page' = Resume([page EXCEPT !.session = None])
      BY <3>1, <3>2, ResumeStarts
    <3>3. CASE \/ page' = [page EXCEPT !.pc = "secrets"]
               \/ page' = [page EXCEPT !.pc = "failed", !.why = "offline"]
      BY <3>3 DEF IsPage, SecretsInv
    <3> QED
      BY <2>2, <3>2, <3>3
  <2> QED
    BY <2>1, <2>3, Elsewhere
<1>14. CASE CheckSecrets
  <2>1. UNCHANGED <<keys, filters, cut>> /\ page.pc = "secrets"
    BY <1>14 DEF CheckSecrets, Stored
  <2>2. CASE ValidSecrets(page.user)
    <3>1. /\ IsPage(page') /\ page'.why = page.why /\ page'.pc = "provide" /\ page'.user = page.user
      BY <1>14, <2>2 DEF CheckSecrets, Go, IsPage, SecretsInv
    <3> QED
      BY <2>1, <2>2, <3>1 DEF SecretsInv, Unfiltered, SecretsLoad, ValidSecrets, ReadKey
  <2>3. CASE ~ValidSecrets(page.user)
    <3>1. IsPage([page EXCEPT !.session = None]) /\ [page EXCEPT !.session = None].why = page.why
      BY DEF IsPage, SecretsInv
    <3>2. IsPage(page') /\ page'.why = page.why /\ page'.pc \in {"open", "validate"}
      BY <1>14, <2>3, <3>1, ResumeStarts DEF CheckSecrets, NoSession
    <3> QED
      BY <2>1, <3>2, Elsewhere
  <2> QED
    BY <2>2, <2>3
<1>15. CASE Provide
  <2>1. /\ IsPage(page') /\ page'.why = page.why /\ page.pc = "provide" /\ page'.pc = "load"
        /\ page'.user = page.user /\ UNCHANGED <<keys, filters, cut>>
    BY <1>15 DEF Provide, Go, IsPage, SecretsInv
  <2> QED
    BY <2>1 DEF SecretsInv, Unfiltered, SecretsLoad, ValidSecrets, ReadKey
<1>16. CASE Load
  <2>1. UNCHANGED <<keys, filters, cut>> /\ page.pc = "load"
    BY <1>16 DEF Load, Stored
  <2>2. CASE KeysLoad(page.user) /\ NodesLoad(page.user)
    <3>1. /\ IsPage([page EXCEPT !.session = page.user])
          /\ [page EXCEPT !.session = page.user].why = page.why
      BY DEF IsPage, SecretsInv
    <3>2. IsPage(page') /\ page'.why = page.why /\ page'.pc \in {"open", "validate"}
      BY <1>16, <2>2, <3>1, ResumeStarts DEF Load
    <3> QED
      BY <2>1, <3>2, Elsewhere
  <2>3. CASE ~(KeysLoad(page.user) /\ NodesLoad(page.user))
    <3>1. cut
      BY <2>1, <2>3, SecretsSuffice DEF SecretsInv, Unfiltered
    <3>2. IsPage(page') /\ page'.pc = "failed"
      BY <1>16, <2>3 DEF Load, Fails, IsPage, SecretsInv
    <3> QED
      BY <2>1, <3>1, <3>2, Elsewhere
  <2> QED
    BY <2>2, <2>3
<1>17. CASE UNCHANGED vars
  BY <1>17, Elsewhere DEF vars, Stored, SecretsInv
<1> QED
  BY <1>1, <1>2, <1>3, <1>4, <1>5, <1>6, <1>7, <1>8, <1>9, <1>10, <1>11, <1>12, <1>13,
     <1>14, <1>15, <1>16, <1>17
  DEF Next, PageSteps

(* Secrets that validateSecrets accepts load, unless the page was closed    *)
(* between a key and its filter (capabilities.ts:87, 163).                  *)
THEOREM AcceptedSecretsLoad == Spec => []SecretsLoad
<1>1. Init => SecretsInv
  <2> SUFFICES ASSUME Init PROVE SecretsInv
    OBVIOUS
  <2>1. IsPage(page) /\ page.pc = "closed" /\ page.why = None
    BY DEF Init, Closed, Blank, IsPage
  <2>2. page.why # "load" /\ keys = {}
    BY <2>1, CapabilitiesAssumption DEF Init
  <2> QED
    BY <2>1, <2>2 DEF SecretsInv, SecretsLoad
<1>2. SecretsInv => SecretsLoad
  BY DEF SecretsInv
<1> QED
  BY <1>1, <1>2, SecretsStep, PTL DEF Spec

-----------------------------------------------------------------------------
(* LOOKUPS *)
(* A set of indices has a first and a last one. *)
LEMMA FirstOf ==
  ASSUME NEW n \in Nat, NEW S \in SUBSET (1..n), S # {}
  PROVE  Min(S) \in S
<1>1. S \subseteq Nat
  OBVIOUS
<1>2. \E m \in S : \A k \in S : ~(<<k, m>> \in OpToRel(<, Nat))
  BY <1>1, WFMin, NatLessThanWellFounded
<1>3. PICK m \in S : \A k \in S : ~(k < m)
  BY <1>1, <1>2 DEF OpToRel
<1>4. \A k \in S : m <= k
  BY <1>1, <1>3
<1> QED
  BY <1>4 DEF Min

LEMMA LastOf ==
  ASSUME NEW n \in Nat, NEW S \in SUBSET (1..n), S # {}
  PROVE  Max(S) \in S
<1> DEFINE T == {n - k : k \in S}
<1>1. T \subseteq Nat /\ T # {}
  <2>1. \A k \in S : n - k \in Nat
    OBVIOUS
  <2> QED
    BY <2>1
<1>2. \E m \in T : \A k \in T : ~(<<k, m>> \in OpToRel(<, Nat))
  <2> HIDE DEF T
  <2> QED
    BY <1>1, WFMin, NatLessThanWellFounded
<1>3. PICK m \in T : \A k \in T : ~(k < m)
  <2> HIDE DEF T
  <2> QED
    BY <1>1, <1>2 DEF OpToRel
<1>4. PICK last \in S : m = n - last
  OBVIOUS
<1>5. ASSUME NEW k \in S PROVE last >= k
  <2>1. ~(n - k < n - last)
    BY <1>3, <1>4
  <2>2. k \in 1..n /\ last \in 1..n
    OBVIOUS
  <2> QED
    BY <2>1, <2>2
<1> QED
  BY <1>5 DEF Max

(* A resource that has a UCAN is found, with one of its own. *)
LEMMA GetByKeyIs ==
  ASSUME NEW list \in Seq(UcanSet), NEW rsc
  PROVE  /\ \A u \in Range(list) : u \in UcanSet /\ u # None
         /\ (\E u \in Range(list) : u.rsc = rsc) => GetByKey(list, rsc) # None
         /\ GetByKey(list, rsc) # None =>
              GetByKey(list, rsc) \in Range(list) /\ GetByKey(list, rsc).rsc = rsc
<1> DEFINE those == {i \in DOMAIN list : list[i].rsc = rsc}
<1>1. \A u \in Range(list) : u \in UcanSet /\ u # None
  BY CapabilitiesAssumption DEF Range
<1>2. those \in SUBSET (1..Len(list)) /\ Len(list) \in Nat
  OBVIOUS
<1>3. CASE those = {}
  <2>1. GetByKey(list, rsc) = None
    BY <1>3 DEF GetByKey
  <2>2. ~\E u \in Range(list) : u.rsc = rsc
    BY <1>3 DEF Range
  <2> QED
    BY <1>1, <2>1, <2>2
<1>4. CASE those # {}
  <2>1. Max(those) \in those
    <3> HIDE DEF those
    <3> QED
      BY <1>2, <1>4, LastOf
  <2>2. GetByKey(list, rsc) = list[Max(those)]
    BY <1>4 DEF GetByKey
  <2>3. GetByKey(list, rsc) \in Range(list) /\ GetByKey(list, rsc).rsc = rsc
    <3> DEFINE k == Max(those)
    <3>1. k \in DOMAIN list /\ list[k].rsc = rsc
      BY <2>1
    <3> HIDE DEF k, those
    <3> QED
      BY <2>2, <3>1 DEF Range, k
  <2> QED
    BY <1>1, <2>3
<1> QED
  BY <1>3, <1>4

-----------------------------------------------------------------------------
(* PATHS *)
(* Lists, and lists that are joined. *)
LEMMA Lists == ASSUME NEW S, NEW list \in Seq(S) PROVE IsList(list) /\ Range(list) \subseteq S
<1>1. \A i \in DOMAIN list : list[i] \in Range(list) /\ list[i] \in S
  BY DEF Range
<1>2. list \in Seq(Range(list))
  BY <1>1
<1> QED
  BY <1>1, <1>2 DEF IsList, Range

LEMMA Joined ==
  ASSUME NEW list, NEW other, IsList(list), IsList(other)
  PROVE  IsList(list \o other) /\ Range(list \o other) = Range(list) \union Range(other)
<1> DEFINE S == Range(list) \union Range(other)
<1>1. list \in Seq(S) /\ other \in Seq(S)
  BY DEF IsList
<1>2. list \o other \in Seq(S)
  <2> HIDE DEF S
  <2> QED
    BY <1>1
<1>3. Range(list) \subseteq Range(list \o other)
  <2>1. \A i \in DOMAIN list : i \in DOMAIN (list \o other) /\ (list \o other)[i] = list[i]
    BY <1>1
  <2> QED
    BY <2>1 DEF Range
<1>4. Range(other) \subseteq Range(list \o other)
  <2>1. \A i \in DOMAIN other : /\ Len(list) + i \in DOMAIN (list \o other)
                                /\ (list \o other)[Len(list) + i] = other[i]
    BY <1>1
  <2> QED
    BY <2>1 DEF Range
<1> QED
  BY <1>2, <1>3, <1>4, Lists

(* What the app asked for is a path that has a partition. *)
LEMMA PermissionPathIs ==
  /\ IsList(PermissionPaths)
  /\ \A q \in Range(PermissionPaths) : IsPath(q) /\ q.parts # << >>
<1> DEFINE Good(q) == IsPath(q) /\ q.parts # << >>
<1>1. ASSUME NEW paths, NEW partition, IsList(paths), \A p \in Range(paths) : IsPath(p)
      PROVE  /\ IsList(Within(paths, partition))
             /\ \A q \in Range(Within(paths, partition)) : Good(q)
  <2>1. ASSUME NEW p \in Range(paths) PROVE Good(WithPartition(partition, p))
    <3>1. p = [kind |-> p.kind, parts |-> p.parts] /\ IsList(p.parts)
          /\ p.kind \in {"directory", "file"}
      BY <1>1 DEF IsPath
    <3>2. WithPartition(partition, p) = [kind |-> p.kind, parts |-> <<partition>> \o p.parts]
      <4>1. PICK kind, parts : p = [kind |-> kind, parts |-> parts]
        BY <3>1
      <4>2. p.kind = kind /\ p.parts = parts
        BY <4>1
      <4> DEFINE inner == <<partition>> \o p.parts
      <4>3. WithPartition(partition, p) = [p EXCEPT !.parts = inner]
        BY DEF WithPartition
      <4>4. [p EXCEPT !.parts = inner] = [kind |-> p.kind, parts |-> inner]
        <5> HIDE DEF inner
        <5> QED
          BY <4>1, <4>2
      <4> QED
        BY <4>3, <4>4
    <3>3. IsList(<<partition>>)
      <4>1. <<partition>> \in Seq({partition})
        OBVIOUS
      <4> QED
        BY <4>1, Lists
    <3>4. IsList(<<partition>> \o p.parts)
      BY <3>1, <3>3, Joined
    <3>5. <<partition>> \o p.parts # << >>
      BY <3>1 DEF IsList
    <3> QED
      BY <3>1, <3>2, <3>4, <3>5 DEF IsPath
  <2>2. \A i \in DOMAIN paths : paths[i] \in Range(paths)
    BY DEF Range
  <2>3. \A q \in Range(Within(paths, partition)) : Good(q)
    <3> SUFFICES ASSUME NEW q \in Range(Within(paths, partition)) PROVE Good(q)
      OBVIOUS
    <3>1. PICK i \in DOMAIN paths : q = WithPartition(partition, paths[i])
      BY DEF Range, Within
    <3> QED
      BY <2>1, <2>2, <3>1
  <2>4. Within(paths, partition) \in Seq(Range(Within(paths, partition)))
    <3>1. paths \in Seq(Range(paths)) /\ DOMAIN paths = 1..Len(paths) /\ Len(paths) \in Nat
      BY <1>1 DEF IsList
    <3> QED
      BY <3>1 DEF Within, Range
  <2> QED
    BY <2>3, <2>4 DEF IsList
<1> DEFINE own == IF App = None THEN << >> ELSE <<AppData(App)>>
<1>2. IsList(own) /\ \A q \in Range(own) : Good(q)
  <2>1. CASE App = None
    BY <2>1 DEF IsList, Range
  <2>2. CASE App # None
    <3>1. IsList(App)
      BY <2>2, CapabilitiesAssumption
    <3>2. IsList(<<"private", "Apps">>)
      <4>1. <<"private", "Apps">> \in Seq({"private", "Apps"})
        OBVIOUS
      <4> QED
        BY <4>1, Lists
    <3>3. IsList(<<"private", "Apps">> \o App)
      BY <3>1, <3>2, Joined
    <3>4. <<"private", "Apps">> \o App # << >>
      BY <3>1 DEF IsList
    <3>5. Good(AppData(App))
      BY <3>3, <3>4 DEF AppData, Directory, IsPath
    <3>6. own = <<AppData(App)>> /\ Range(<<AppData(App)>>) = {AppData(App)}
      BY <2>2 DEF Range
    <3>7. own \in Seq({AppData(App)})
      BY <3>6
    <3> QED
      BY <3>5, <3>6, <3>7, Lists
  <2> QED
    BY <2>1, <2>2
<1> DEFINE secret == Within(PrivatePaths, "private")
           open == Within(PublicPaths, "public")
<1>3. IsList(secret) /\ \A q \in Range(secret) : Good(q)
  BY <1>1, CapabilitiesAssumption
<1>4. IsList(open) /\ \A q \in Range(open) : Good(q)
  BY <1>1, CapabilitiesAssumption
<1>5. PermissionPaths = own \o secret \o open
  BY DEF PermissionPaths
<1> HIDE DEF own, secret, open
<1>6. /\ IsList(own \o secret \o open)
      /\ Range(own \o secret \o open) \subseteq Range(own) \union Range(secret) \union Range(open)
  <2>1. IsList(own \o secret) /\ Range(own \o secret) \subseteq Range(own) \union Range(secret)
    BY <1>2, <1>3, Joined
  <2> QED
    BY <1>4, <2>1, Joined
<1> QED
  BY <1>2, <1>3, <1>4, <1>5, <1>6

(* A path below one that was asked for is looked for under that one, too. *)
LEMMA AskedIsCandidate ==
  ASSUME NEW q, IsPath(q), q.parts # << >>, NEW p \in Below(q)
  PROVE  /\ \E n \in Nat : DOMAIN Candidates(p) = 1..n
         /\ \E i \in DOMAIN Candidates(p) : Candidates(p)[i] = q
<1>1. q = [kind |-> q.kind, parts |-> q.parts] /\ q.kind \in {"directory", "file"}
  BY DEF IsPath
<1>2. PICK S : q.parts \in Seq(S)
  BY DEF IsPath, IsList
<1>3. /\ Len(q.parts) \in Nat /\ Len(q.parts) >= 1 /\ DOMAIN q.parts = 1..Len(q.parts)
      /\ SubSeq(q.parts, 1, Len(q.parts)) = q.parts
  BY <1>2
<1>4. CASE p = q
  <2>1. 1 \in DOMAIN Candidates(p) /\ DOMAIN Candidates(p) = 1..Len(q.parts)
    BY <1>3, <1>4 DEF Candidates
  <2>2. Len(q.parts) - 1 + 1 = Len(q.parts)
    BY <1>3
  <2> DEFINE whole == SubSeq(q.parts, 1, Len(q.parts) - 1 + 1)
  <2>3. Candidates(p)[1] = IF q.kind = "file" THEN File(whole) ELSE Directory(whole)
    BY <1>3, <1>4 DEF Candidates
  <2>4. Candidates(p)[1] = q
    <3>1. whole = q.parts
      BY <1>3, <2>2
    <3> HIDE DEF whole
    <3> QED
      BY <1>1, <2>3, <3>1 DEF File, Directory
  <2> QED
    BY <1>3, <2>1, <2>4
<1>5. CASE p # q
  <2>1. q.kind = "directory" /\ p = File(Append(q.parts, "file"))
    BY <1>1, <1>5 DEF Below
  <2> DEFINE parts == Append(q.parts, "file")
  <2>2. p.parts = parts /\ p.kind = "file"
    BY <2>1 DEF File
  <2>3. /\ parts \in Seq(S \union {"file"}) /\ Len(parts) = Len(q.parts) + 1
        /\ DOMAIN parts = 1..(Len(q.parts) + 1)
        /\ SubSeq(parts, 1, Len(q.parts)) = q.parts
    <3>1. q.parts \in Seq(S \union {"file"})
      BY <1>2
    <3> QED
      BY <1>3, <3>1
  <2>4. DOMAIN Candidates(p) = 1..(Len(q.parts) + 1) /\ 2 \in DOMAIN Candidates(p)
    BY <1>3, <2>2, <2>3 DEF Candidates
  <2>5. Len(parts) - 2 + 1 = Len(q.parts)
    BY <1>3, <2>3
  <2>6. Candidates(p)[2] = Directory(SubSeq(parts, 1, Len(parts) - 2 + 1))
    BY <2>2, <2>4 DEF Candidates
  <2>7. Candidates(p)[2] = q
    <3> HIDE DEF parts
    <3> QED
      BY <1>1, <2>1, <2>3, <2>5, <2>6 DEF Directory
  <2> QED
    BY <1>3, <2>4, <2>7
<1> QED
  BY <1>4, <1>5

-----------------------------------------------------------------------------
(* PERMISSIONS *)
Roots(list) == {u.root : u \in Range(list)} \ {None}

(* One account at most has given UCANs. *)
LEMMA OneRoot ==
  ASSUME NEW list \in Seq(UcanSet), Cardinality(Roots(list)) <= 1,
         NEW a \in Roots(list), NEW b \in Roots(list)
  PROVE  a = b
<1>1. IsFiniteSet(Roots(list))
  <2> DEFINE R == {u.root : u \in Range(list)}
             root == [i \in 1..Len(list) |-> list[i].root]
  <2>1. root \in Surjection(1..Len(list), R)
    BY DEF Surjection, Range
  <2>2. IsFiniteSet(1..Len(list))
    BY FS_Interval
  <2>3. IsFiniteSet(R)
    <3> HIDE DEF R, root
    <3> QED
      BY <2>1, <2>2, FS_Surjection
  <2>4. Roots(list) \in SUBSET R
    BY DEF Roots
  <2> QED
    <3> HIDE DEF R
    <3> QED
      BY <2>3, <2>4, FS_Subset
<1>2. {a, b} \in SUBSET Roots(list)
  OBVIOUS
<1>3. Cardinality({a, b}) <= Cardinality(Roots(list))
  BY <1>1, <1>2, FS_Subset
<1>4. ASSUME a # b PROVE Cardinality({a, b}) = 2
  <2>1. IsFiniteSet({a}) /\ Cardinality({a}) = 1
    BY FS_Singleton
  <2>2. b \notin {a} /\ {a} \union {b} = {a, b}
    BY <1>4
  <2>3. Cardinality({a} \union {b}) = IF b \in {a} THEN Cardinality({a}) ELSE Cardinality({a}) + 1
    BY <2>1, FS_AddElement
  <2>4. Cardinality({a} \union {b}) = Cardinality({a}) + 1
    BY <2>2, <2>3
  <2> QED
    <3>1. Cardinality({a} \union {b}) = 1 + 1
      BY <2>1, <2>4
    <3>2. 1 + 1 = 2
      OBVIOUS
    <3> QED
      BY <2>2, <3>1, <3>2
<1>5. Cardinality(Roots(list)) \in Nat
  BY <1>1, FS_CardinalityType
<1> QED
  BY <1>3, <1>4, <1>5

(* Permissions that are accepted are of use. *)
LEMMA AcceptedIsProof ==
  ASSUME page.ucans \in Seq(UcanSet), page.user \in Roots(page.ucans),
         \A u \in Range(page.ucans) : u.root = None => u.rsc = Star,
         ValidPermissions(page.ucans), Unclouded,
         NEW q \in Range(PermissionPaths), NEW p \in Below(q)
  PROVE  /\ Usable(LookupFilesystemUcan(page.ucans, p))
         /\ LookupFilesystemUcan(page.ucans, p).root = page.user
<1> DEFINE list == page.ucans
           god == GetByKey(list, Star)
           proof == LookupFilesystemUcan(list, p)
<1>1. ASSUME NEW u \in Range(list), u.root # None PROVE u.root = page.user
  <2>1. u.root \in Roots(list) /\ Cardinality(Roots(list)) <= 1
    BY <1>1 DEF Roots, Unclouded
  <2> QED
    BY <2>1, OneRoot
<1>2. CASE god # None
  <2>1. proof = god
    BY <1>2 DEF LookupFilesystemUcan
  <2>2. Usable(god) /\ god.root # None
    BY <1>2 DEF Unclouded, IsSelfSigned
  <2>3. god \in Range(list)
    BY <1>2, GetByKeyIs
  <2> QED
    BY <1>1, <2>1, <2>2, <2>3
<1>3. CASE god = None
  <2> DEFINE found == {i \in DOMAIN Candidates(p) : GetByKey(list, Candidates(p)[i]) # None}
             rsc == Candidates(p)[Min(found)]
  <2>1. \A asked \in AskedFor : Usable(GetByKey(list, asked))
    BY <1>3 DEF ValidPermissions, Usable
  <2>2. IsPath(q) /\ q.parts # << >> /\ q \in AskedFor
    BY PermissionPathIs DEF AskedFor
  <2>3. PICK n \in Nat : DOMAIN Candidates(p) = 1..n
    BY <2>2, AskedIsCandidate
  <2>4. found \in SUBSET (1..n) /\ found # {}
    <3>1. PICK i \in DOMAIN Candidates(p) : Candidates(p)[i] = q
      BY <2>2, AskedIsCandidate
    <3>2. GetByKey(list, q) # None
      BY <2>1, <2>2 DEF Usable
    <3> QED
      BY <2>3, <3>1, <3>2
  <2>5. Min(found) \in found
    <3> HIDE DEF found
    <3> QED
      BY <2>4, FirstOf
  <2>6. proof = GetByKey(list, rsc) /\ GetByKey(list, rsc) # None
    BY <1>3, <2>4, <2>5 DEF LookupFilesystemUcan
  <2> HIDE DEF rsc
  <2>7. proof \in Range(list) /\ proof.rsc = rsc
    BY <2>6, GetByKeyIs
  <2>8. proof.root # None
    <3>1. ASSUME NEW u \in Range(list) PROVE u.rsc # Star
      BY <1>3, <3>1, GetByKeyIs
    <3> HIDE DEF proof
    <3> QED
      BY <2>7, <3>1
  <2>9. Usable(proof)
    <3>1. CASE rsc \in AskedFor
      BY <2>1, <2>6, <3>1
    <3>2. CASE rsc \notin AskedFor
      BY <2>6, <2>7, <3>2 DEF Unclouded
    <3> QED
      BY <3>1, <3>2
  <2> QED
    BY <1>1, <2>7, <2>8, <2>9
<1> QED
  BY <1>2, <1>3

(* A page works for a user to collect for, and then for one whose UCANs     *)
(* are in the repository, which an open page has as it is stored.           *)
Collecting == {"exchange", "translate", "permissions"}
Collected == {"lookup", "key", "filter", "validate", "secrets", "provide", "load"}

Grounded(pg, list) ==
  /\ IsPage(pg)
  /\ pg.pc # "closed" => pg.ucans = list
  /\ pg.restored \in Roots(list) \union {None}
  /\ pg.pc \in Collecting => pg.user \in Users
  /\ pg.pc = "translate" => pg.info \in Grants \union {None}
  /\ pg.pc \in {"permissions", "lookup"} => pg.info \in Grants
  /\ pg.pc \in Collected => pg.user \in Roots(list)

(* The device makes root UCANs only, and a session has UCANs of its user. *)
StoredInv ==
  /\ now \in Nat /\ url \in Users \union {None} /\ ucans \in Seq(UcanSet)
  /\ \A u \in Range(ucans) : u.root = None => u.rsc = Star
  /\ session \in Roots(ucans) \union {None}

ProofsInv == StoredInv /\ Grounded(page, ucans)

(* A page that starts with what is stored, or is closed, is grounded. *)
LEMMA ResumeIsGrounded ==
  ASSUME NEW pg, NEW list, IsPage(pg), pg.ucans = list, pg.restored \in Roots(list) \union {None}
  PROVE  Grounded(Resume(pg), list)
<1>1. CASE pg.restored = None
  <2>1. IsPage(Resume(pg)) /\ Resume(pg).pc = "open" /\ Resume(pg).ucans = list
        /\ Resume(pg).restored = None
    BY <1>1 DEF Resume, IsPage
  <2> QED
    BY <2>1 DEF Grounded, Collecting, Collected
<1>2. CASE pg.restored # None
  <2>1. IsPage(Resume(pg)) /\ Resume(pg).pc = "validate" /\ Resume(pg).ucans = list
        /\ Resume(pg).restored = None /\ Resume(pg).user = pg.restored
    BY <1>2 DEF Resume, IsPage
  <2> QED
    BY <1>2, <2>1 DEF Grounded, Collecting, Collected
<1> QED
  BY <1>1, <1>2

LEMMA ClosedIsGrounded == ASSUME NEW list PROVE Grounded(Closed, list)
BY DEF Grounded, Closed, Blank, IsPage, Collecting, Collected

(* Where a session ends, the one that was stored before may follow. *)
LEMMA NoSessionIsGrounded ==
  ASSUME NEW user, Grounded(page, ucans), page.pc # "closed"
  PROVE  Grounded(Resume([page EXCEPT !.session = user]), ucans)
<1> DEFINE pg == [page EXCEPT !.session = user]
<1>1. IsPage(pg) /\ pg.ucans = ucans /\ pg.restored \in Roots(ucans) \union {None}
  BY DEF Grounded, IsPage
<1> HIDE DEF pg
<1> QED
  BY <1>1, ResumeIsGrounded DEF pg

(* A page that goes on, or fails, with what it has. *)
LEMMA GoesOn ==
  ASSUME Grounded(page, ucans), page.pc \in Collected, UNCHANGED <<url, ucans, session, now>>,
         StoredInv,
         \/ \E pc \in {"key", "filter", "validate", "secrets", "provide", "load"} : Go(pc)
         \/ \E why : Fails(why)
  PROVE  ProofsInv'
<1>1. IsPage(page') /\ page'.ucans = page.ucans /\ page'.restored = page.restored
      /\ page'.user = page.user
      /\ page'.pc \in {"key", "filter", "validate", "secrets", "provide", "load", "failed"}
  BY DEF Grounded, IsPage, Go, Fails
<1>2. Grounded(page', ucans)
  BY <1>1 DEF Grounded, Collecting, Collected
<1> QED
  BY <1>2 DEF ProofsInv, StoredInv

(* Steps of the page that store nothing. *)
LEMMA PageGrounded ==
  ASSUME StoredInv, UNCHANGED <<ucans, session>>, url' \in Users \union {None},
         now' \in Nat, Grounded(page', ucans)
  PROVE  ProofsInv'
BY DEF ProofsInv, StoredInv

(* The UCANs that were granted, from the account of the user. *)
LEMMA GrantIsFiled ==
  ASSUME ProofsInv, CollectPermissions
  PROVE  ProofsInv'
<1>1. page.pc = "permissions" /\ UNCHANGED <<url, session, now>>
  BY DEF CollectPermissions
<1>2. /\ IsPage(page) /\ page.ucans = ucans /\ page.user \in Users /\ page.info \in Grants
      /\ page.restored \in Roots(ucans) \union {None} /\ StoredInv
  BY <1>1 DEF ProofsInv, Grounded, Collecting
<1>3. CASE page.info.ucans = << >>
  <2>1. IsPage(page') /\ page'.pc = "failed" /\ page'.ucans = ucans
        /\ page'.restored = page.restored /\ UNCHANGED ucans
    BY <1>2, <1>3 DEF CollectPermissions, Fails, IsPage
  <2>2. Grounded(page', ucans)
    BY <1>2, <2>1 DEF Grounded, Collecting, Collected
  <2> QED
    BY <1>1, <1>2, <2>1, <2>2, PageGrounded DEF StoredInv
<1>4. CASE page.info.ucans # << >>
  <2> DEFINE granted == page.info.ucans
             new == [i \in DOMAIN granted |-> Ucan(granted[i])]
  <2>1. granted \in Seq(Range(granted)) /\ granted # << >> /\ Range(granted) \subseteq Resources
    BY <1>2, <1>4, CapabilitiesAssumption DEF IsList, Resources
  <2>2. ASSUME NEW i \in DOMAIN granted PROVE new[i] \in UcanSet /\ new[i].root = page.user
    <3>1. granted[i] \in Resources
      BY <2>1 DEF Range
    <3>2. now + Lifetime \in Nat
      BY <1>2, CapabilitiesAssumption DEF StoredInv
    <3> QED
      BY <1>2, <3>1, <3>2 DEF Ucan, UcanSet
  <2>3. /\ new \in Seq(UcanSet) /\ \A u \in Range(new) : u.root = page.user
        /\ page.user \in {u.root : u \in Range(new)}
    <3>1. DOMAIN new = 1..Len(granted) /\ Len(granted) \in Nat /\ Len(granted) >= 1
      BY <2>1
    <3>2. new \in [1..Len(granted) -> UcanSet]
      <4>1. new = [i \in 1..Len(granted) |-> new[i]]
        BY <3>1
      <4> HIDE DEF new, granted
      <4> QED
        BY <2>2, <3>1, <4>1
    <3>3. new[1] \in Range(new) /\ new[1].root = page.user
      <4> HIDE DEF new
      <4> QED
        BY <2>1, <2>2, <3>1 DEF Range
    <3>4. DOMAIN new = DOMAIN granted
      OBVIOUS
    <3> HIDE DEF new, granted
    <3>5. new \in Seq(UcanSet)
      BY <3>1, <3>2
    <3>6. \A u \in Range(new) : u.root = page.user
      BY <2>2, <3>4 DEF Range
    <3> QED
      BY <3>3, <3>5, <3>6
  <2>4. ucans' = ucans \o new /\ page' = [page EXCEPT !.pc = "lookup", !.ucans = ucans']
    BY <1>2, <1>4 DEF CollectPermissions
  <2> HIDE DEF new
  <2>5. ucans' \in Seq(UcanSet) /\ Range(ucans') = Range(ucans) \union Range(new)
    <3>1. ucans \in Seq(UcanSet)
      BY <1>2 DEF StoredInv
    <3>2. IsList(ucans) /\ IsList(new)
      BY <2>3, <3>1, Lists
    <3> QED
      BY <2>3, <2>4, <3>1, <3>2, Joined
  <2>6. page.user # None
    BY <1>2, CapabilitiesAssumption
  <2>7. Roots(ucans) \subseteq Roots(ucans') /\ page.user \in Roots(ucans')
    BY <2>3, <2>5, <2>6 DEF Roots
  <2>8. \A u \in Range(ucans') : u.root = None => u.rsc = Star
    BY <1>2, <2>3, <2>5, <2>6 DEF StoredInv
  <2>9. StoredInv'
    BY <1>1, <1>2, <2>5, <2>7, <2>8 DEF StoredInv
  <2>10. /\ IsPage(page') /\ page'.pc = "lookup" /\ page'.ucans = ucans' /\ page'.user = page.user
         /\ page'.info = page.info /\ page'.restored = page.restored
    BY <1>2, <2>4 DEF IsPage
  <2>11. Grounded(page', ucans')
    BY <1>2, <2>7, <2>10 DEF Grounded, Collecting, Collected
  <2> QED
    BY <2>9, <2>11 DEF ProofsInv
<1> QED
  BY <1>3, <1>4

(* Every step keeps the invariant. *)
LEMMA ProofsStep == ASSUME ProofsInv, [Next]_vars PROVE ProofsInv'
<1>1. StoredInv /\ Grounded(page, ucans)
  BY DEF ProofsInv
<1>2. /\ IsPage(page) /\ now \in Nat /\ url \in Users \union {None}
      /\ page.restored \in Roots(ucans) \union {None}
      /\ page.pc # "closed" => page.ucans = ucans
  BY <1>1 DEF StoredInv, Grounded
<1>3. CASE Open
  <2> DEFINE pg == Blank(ucans, session)
  <2>1. /\ IsPage(pg) /\ pg.ucans = ucans /\ pg.restored \in Roots(ucans) \union {None}
        /\ pg.restored = session
    BY <1>1 DEF Blank, IsPage, StoredInv
  <2>2. UNCHANGED <<url, ucans, session, now>>
    BY <1>3 DEF Open, Stored
  <2>3. \/ page' = Resume(pg)
        \/ url # None /\ page' = [pg EXCEPT !.pc = "exchange", !.user = url]
    BY <1>3 DEF Open
  <2> HIDE DEF pg
  <2>4. CASE page' = Resume(pg)
    BY <1>1, <1>2, <2>1, <2>2, <2>4, ResumeIsGrounded, PageGrounded
  <2>5. CASE url # None /\ page' = [pg EXCEPT !.pc = "exchange", !.user = url]
    <3>1. /\ IsPage(page') /\ page'.ucans = ucans /\ page'.pc = "exchange" /\ page'.user = url
          /\ page'.restored = session
      BY <2>1, <2>5 DEF IsPage
    <3>2. Grounded(page', ucans)
      BY <1>1, <1>2, <2>5, <3>1 DEF Grounded, Collecting, Collected, StoredInv
    <3> QED
      BY <1>1, <1>2, <2>2, <3>2, PageGrounded
  <2> QED
    BY <2>3, <2>4, <2>5
<1>4. CASE Close
  BY <1>1, <1>2, <1>4, ClosedIsGrounded, PageGrounded DEF Close, Stored
<1>5. CASE Request
  BY <1>1, <1>2, <1>5, ClosedIsGrounded, PageGrounded DEF Request, Stored
<1>6. CASE Tick
  <2>1. UNCHANGED <<url, ucans, session, page>> /\ now' \in Nat
    BY <1>2, <1>6 DEF Tick, Stored
  <2> QED
    BY <1>1, <1>2, <2>1, PageGrounded
<1>7. ASSUME NEW i \in DOMAIN attempts, FrameLoads(i) \/ TimesOut(i) PROVE ProofsInv'
  <2>1. UNCHANGED <<url, ucans, session, now, page>>
    BY <1>7 DEF FrameLoads, TimesOut, Exchanging, Stored
  <2> QED
    BY <1>1, <1>2, <2>1, PageGrounded
<1>8. CASE Answered
  <2>1. UNCHANGED <<url, ucans, session, now>> /\ page.pc = "exchange"
    BY <1>8 DEF Answered, Exchanging, Stored
  <2>2. \/ page' = page
        \/ \E grant \in Grants \union {None} :
             page' = [page EXCEPT !.pc = "translate", !.info = grant]
    BY <1>8 DEF Answered
  <2>3. ASSUME NEW grant \in Grants \union {None},
               page' = [page EXCEPT !.pc = "translate", !.info = grant]
        PROVE  Grounded(page', ucans)
    <3>1. /\ IsPage(page') /\ page'.pc = "translate" /\ page'.info = grant
          /\ page'.user = page.user /\ page'.ucans = page.ucans /\ page'.restored = page.restored
      BY <1>2, <2>3 DEF IsPage
    <3> QED
      BY <1>1, <2>1, <3>1 DEF Grounded, Collecting, Collected
  <2> QED
    BY <1>1, <1>2, <2>1, <2>2, <2>3, PageGrounded
<1>9. CASE Disturbed
  BY <1>1, <1>2, <1>9, PageGrounded DEF Disturbed, Exchanging, Stored
<1>10. CASE Translate
  <2>1. UNCHANGED <<ucans, session, now>> /\ page.pc = "translate" /\ url' \in {url, None}
    BY <1>10 DEF Translate, Stored
  <2>2. /\ IsPage(page') /\ page'.user = page.user /\ page'.info = page.info
        /\ page'.ucans = page.ucans /\ page'.restored = page.restored
        /\ page'.pc = "failed" \/ (page'.pc = "permissions" /\ page.info # None)
    BY <1>2, <1>10 DEF Translate, Go, Fails, IsPage
  <2>3. Grounded(page', ucans)
    BY <1>1, <2>1, <2>2 DEF Grounded, Collecting, Collected
  <2> QED
    BY <1>1, <1>2, <2>1, <2>3, PageGrounded
<1>11. CASE CollectPermissions
  BY <1>11, GrantIsFiled
<1>12. CASE LookupDid
  <2>1. UNCHANGED <<url, ucans, session, now>> /\ page.pc = "lookup"
    BY <1>12 DEF LookupDid, Stored
  <2>2. /\ IsPage(page') /\ page'.user = page.user
        /\ page'.ucans = page.ucans /\ page'.restored = page.restored
        /\ page'.pc \in {"key", "failed"}
    BY <1>2, <1>12 DEF LookupDid, Fails, IsPage
  <2>3. Grounded(page', ucans)
    BY <1>1, <2>1, <2>2 DEF Grounded, Collecting, Collected
  <2> QED
    BY <1>1, <1>2, <2>1, <2>3, PageGrounded
<1>13. CASE ImportKey
  <2>1. /\ UNCHANGED <<url, ucans, session, now>> /\ page.pc \in Collected
        /\ Go("validate") \/ Go("filter")
    BY <1>13 DEF ImportKey, Collected
  <2> QED
    BY <1>1, <2>1, GoesOn
<1>14. CASE StoreFilter
  <2>1. UNCHANGED <<url, ucans, session, now>> /\ page.pc = "filter"
    BY <1>14 DEF StoreFilter
  <2>2. /\ IsPage(page') /\ page'.user = page.user
        /\ page'.ucans = page.ucans /\ page'.restored = page.restored /\ page'.pc = "key"
    BY <1>2, <1>14 DEF StoreFilter, IsPage
  <2>3. Grounded(page', ucans)
    BY <1>1, <2>1, <2>2 DEF Grounded, Collecting, Collected
  <2> QED
    BY <1>1, <1>2, <2>1, <2>3, PageGrounded
<1>15. CASE Validate
  <2>1. UNCHANGED <<url, ucans, session, now>> /\ page.pc = "validate"
    BY <1>15 DEF Validate, Stored
  <2>2. CASE Go("secrets") \/ Fails("offline")
    BY <1>1, <2>1, <2>2, GoesOn DEF Collected
  <2>3. CASE NoSession
    BY <1>1, <1>2, <2>1, <2>3, NoSessionIsGrounded, PageGrounded DEF NoSession
  <2> QED
    BY <1>15, <2>2, <2>3 DEF Validate
<1>16. CASE CheckSecrets
  <2>1. UNCHANGED <<url, ucans, session, now>> /\ page.pc = "secrets"
    BY <1>16 DEF CheckSecrets, Stored
  <2>2. CASE Go("provide")
    BY <1>1, <2>1, <2>2, GoesOn DEF Collected
  <2>3. CASE NoSession
    BY <1>1, <1>2, <2>1, <2>3, NoSessionIsGrounded, PageGrounded DEF NoSession
  <2> QED
    BY <1>16, <2>2, <2>3 DEF CheckSecrets
<1>17. CASE Provide
  <2>1. UNCHANGED <<url, ucans, now>> /\ page.pc = "provide" /\ session' = page.user
    BY <1>17 DEF Provide
  <2>2. /\ IsPage(page') /\ page'.user = page.user
        /\ page'.ucans = page.ucans /\ page'.restored = page.restored /\ page'.pc = "load"
    BY <1>2, <1>17 DEF Provide, Go, IsPage
  <2>3. Grounded(page', ucans)
    BY <1>1, <2>1, <2>2 DEF Grounded, Collecting, Collected
  <2>4. page.user \in Roots(ucans)
    BY <1>1, <2>1 DEF Grounded, Collected
  <2> QED
    BY <1>1, <2>1, <2>3, <2>4 DEF ProofsInv, StoredInv
<1>18. CASE Load
  <2>1. UNCHANGED <<url, ucans, session, now>> /\ page.pc = "load"
    BY <1>18 DEF Load, Stored
  <2>2. CASE page' = Resume([page EXCEPT !.session = page.user])
    BY <1>1, <1>2, <2>1, <2>2, NoSessionIsGrounded, PageGrounded
  <2>3. CASE Fails("load")
    BY <1>1, <2>1, <2>3, GoesOn DEF Collected
  <2> QED
    BY <1>18, <2>2, <2>3 DEF Load
<1>19. CASE UNCHANGED vars
  BY <1>1, <1>2, <1>19, PageGrounded DEF vars
<1> QED
  BY <1>3, <1>4, <1>5, <1>6, <1>7, <1>8, <1>9, <1>10, <1>11, <1>12, <1>13, <1>14, <1>15,
     <1>16, <1>17, <1>18, <1>19
  DEF Next, PageSteps

(* Only UCANs that pass are checked against the secrets. *)
LEMMA OnlyValidated ==
  ASSUME ProofsInv, [Next]_vars, page.pc = "validate", page'.pc = "secrets"
  PROVE  ValidPermissions(page.ucans)
<1>1. IsPage(page) /\ page.pc = "validate"
  BY DEF ProofsInv, Grounded
<1>2. CASE Validate
  <2>1. CASE NoSession
    <3>1. IsPage([page EXCEPT !.session = None])
      BY <1>1 DEF IsPage
    <3>2. page'.pc \in {"open", "validate"}
      BY <2>1, <3>1, ResumeStarts DEF NoSession
    <3> QED
      BY <3>2
  <2> QED
    BY <1>2, <2>1 DEF Validate
<1>3. CASE Close
  BY <1>3 DEF Close, Closed, Blank
<1>4. CASE Tick \/ UNCHANGED vars
  BY <1>4 DEF Tick, vars
<1> QED
  BY <1>1, <1>2, <1>3, <1>4
  DEF Next, PageSteps, Open, Request, FrameLoads, TimesOut, Exchanging, Answered, Disturbed,
      Translate, CollectPermissions, LookupDid, ImportKey, StoreFilter, CheckSecrets, Provide, Load

LEMMA InitIsGrounded == ASSUME Init PROVE ProofsInv
<1>1. SelfSigned \in UcanSet /\ SelfSigned.root = None /\ SelfSigned.rsc = Star
  BY CapabilitiesAssumption DEF SelfSigned, UcanSet, Resources
<1>2. ucans \in Seq(UcanSet) /\ \A u \in Range(ucans) : u = SelfSigned
  <2>1. ucans \in {<< >>, <<SelfSigned>>}
    BY DEF Init
  <2>2. << >> \in Seq({SelfSigned}) /\ <<SelfSigned>> \in Seq({SelfSigned})
    OBVIOUS
  <2>3. ucans \in Seq({SelfSigned})
    BY <2>1, <2>2
  <2> QED
    BY <1>1, <2>3, Lists DEF IsList
<1>3. StoredInv
  BY <1>1, <1>2 DEF StoredInv, Init
<1> QED
  BY <1>3, ClosedIsGrounded DEF ProofsInv, Init

(* Permissions that validatePermissions accepts prove every change that the *)
(* app asked to make, unless the repository hides their UCANs               *)
(* (permissions.ts, capabilities.ts:150, repositories/ucans.ts).            *)
THEOREM AcceptedPermissionsProve == Spec => ChangesAreProven
<1>1. Init => ProofsInv
  BY InitIsGrounded
<1>2. ASSUME ProofsInv, [Next]_vars, page.pc = "validate", page'.pc = "secrets", Unclouded,
             NEW q \in Range(PermissionPaths), NEW p \in Below(q)
      PROVE  LET proof == LookupFilesystemUcan(page.ucans, p)
             IN Usable(proof) /\ proof.root = page.user
  <2>1. /\ page.ucans = ucans /\ ucans \in Seq(UcanSet) /\ page.user \in Roots(page.ucans)
        /\ \A u \in Range(page.ucans) : u.root = None => u.rsc = Star
    BY <1>2 DEF ProofsInv, StoredInv, Grounded, Collected
  <2> QED
    BY <1>2, <2>1, OnlyValidated, AcceptedIsProof
<1>3. ProofsInv /\ [Next]_vars =>
        [page.pc = "validate" /\ page'.pc = "secrets" /\ Unclouded =>
           \A p \in UNION {Below(q) : q \in Range(PermissionPaths)} :
             LET proof == LookupFilesystemUcan(page.ucans, p)
             IN Usable(proof) /\ proof.root = page.user]_vars
  BY <1>2
<1> QED
  BY <1>1, <1>3, ProofsStep, PTL DEF Spec, ChangesAreProven

-----------------------------------------------------------------------------
(* THE EXCHANGE *)
(* An attempt is named by a set of tries: the least is what it has left,    *)
(* and the others are those of the attempts before it whose retry came of a *)
(* message, and not of a timer.                                             *)
Live(a) == a.state \in {"frame", "listening"}
High(X, t) == {x \in X : x >= t}
Owned(a, A) == a.tries \in 1..Tries /\ a.tries \in A /\ A \subseteq a.tries..Tries

(* Attempt b is neither a nor comes of a retry that a can still make. *)
Clear(a, A, b, B) ==
  /\ A # B
  /\ b.tries < a.tries =>
       /\ a.timer => High(B, a.tries) # A \ {a.tries}
       /\ Live(a) => High(B, a.tries) # A

Names(list, id) ==
  \A i \in DOMAIN list :
    /\ Owned(list[i], id[i])
    /\ \A j \in DOMAIN list \ {i} : Clear(list[i], id[i], list[j], id[j])

(* What a retry makes of a name, by a timer or by a message. *)
CanRetry(b, how) == IF how = "timer" THEN b.timer ELSE Live(b)
Rest(b, B, how) == IF how = "timer" THEN B \ {b.tries} ELSE B
Heir(b, B, how) == Rest(b, B, how) \union {b.tries - 1}

LEMMA Highs ==
  ASSUME Tries \in Nat, NEW b, NEW B, NEW how \in {"timer", "message"}, Owned(b, B), b.tries > 1
  PROVE  /\ b.tries \in Nat /\ b.tries <= Tries /\ b.tries \in B /\ b.tries - 1 \notin B
         /\ b.tries - 1 \in Heir(b, B, how) /\ Heir(b, B, how) \subseteq (b.tries - 1)..Tries
         /\ High(Heir(b, B, how), b.tries) = Rest(b, B, how)
         /\ \A s \in Nat : s > b.tries => High(Heir(b, B, how), s) = High(B, s)
<1> DEFINE t == b.tries
           H == Heir(b, B, how)
           D == Rest(b, B, how)
<1>1. t \in Nat /\ t <= Tries /\ t - 1 \in Nat /\ t \in B /\ \A x \in B : x \in Nat /\ x >= t /\ x <= Tries
  BY DEF Owned
<1>2. D \subseteq B /\ (B \ {t}) \subseteq D /\ H = D \union {t - 1}
  BY DEF Heir, Rest
<1> HIDE DEF D, H, t
<1>3. t - 1 \in H /\ H \subseteq (t - 1)..Tries /\ t - 1 \notin B
  BY <1>1, <1>2
<1>4. High(H, t) = D
  <2>1. \A x : x \in High(H, t) <=> x \in H /\ x >= t
    BY DEF High
  <2>2. \A x : x \in H <=> x \in D \/ x = t - 1
    BY <1>2
  <2>3. \A x \in D : x >= t
    BY <1>1, <1>2
  <2>4. ~(t - 1 >= t)
    BY <1>1
  <2>5. \A x : x \in High(H, t) <=> x \in D
    BY <2>1, <2>2, <2>3, <2>4
  <2> QED
    BY <2>5
<1>5. ASSUME NEW s \in Nat, s > t PROVE High(H, s) = High(B, s)
  <2>1. \A x : (x \in High(H, s) <=> x \in H /\ x >= s) /\ (x \in High(B, s) <=> x \in B /\ x >= s)
    BY DEF High
  <2>2. \A x : x \in H <=> x \in D \/ x = t - 1
    BY <1>2
  <2>3. ~(t - 1 >= s) /\ ~(t >= s)
    BY <1>1, <1>5
  <2>4. \A x : x \in B <=> x \in D \/ (x \in B /\ x = t)
    BY <1>2
  <2>5. \A x : x \in High(H, s) <=> x \in High(B, s)
    BY <2>1, <2>2, <2>3, <2>4
  <2> QED
    BY <2>5
<1> QED
  BY <1>1, <1>3, <1>4, <1>5 DEF D, H, t

LEMMA HeirIsClear ==
  ASSUME Tries \in Nat, NEW a, NEW A, NEW b, NEW B, NEW how \in {"timer", "message"},
         Owned(a, A), Owned(b, B), Clear(a, A, b, B), Clear(b, B, a, A),
         b.tries > 1, CanRetry(b, how)
  PROVE  /\ Clear(a, A, Attempt(b.tries - 1), Heir(b, B, how))
         /\ Clear(Attempt(b.tries - 1), Heir(b, B, how), a, A)
<1> DEFINE t == b.tries
           s == a.tries
           c == Attempt(t - 1)
           H == Heir(b, B, how)
           D == Rest(b, B, how)
<1>1. /\ t \in Nat /\ s \in Nat /\ c.tries = t - 1 /\ t - 1 \in H /\ H \subseteq (t - 1)..Tries
      /\ High(H, t) = D /\ t \in B /\ s \in A /\ A \subseteq s..Tries
      /\ A \subseteq Nat /\ H \subseteq Nat /\ t > 1
  <2>1. t \in Nat /\ t - 1 \in H /\ H \subseteq (t - 1)..Tries /\ High(H, t) = D
    BY Highs
  <2>2. c.tries = t - 1
    BY DEF Attempt
  <2>3. s \in Nat /\ s \in A /\ A \subseteq s..Tries /\ t \in B
    BY DEF Owned
  <2> HIDE DEF D, H, c
  <2> QED
    BY <2>1, <2>2, <2>3
<1>2. s < t => High(A, t) # D
  BY DEF Clear, CanRetry, Rest
<1>3. A # H
  <2>1. CASE A = H
    <3>1. s = t - 1
      BY <1>1, <2>1
    <3>2. High(A, t) = D
      BY <1>1, <2>1
    <3> QED
      BY <1>1, <1>2, <3>1, <3>2
  <2> QED
    BY <2>1
<1>4. ASSUME t - 1 < s
      PROVE  /\ a.timer => High(H, s) # A \ {s}
             /\ Live(a) => High(H, s) # A
  <2>1. CASE s > t
    <3>1. High(H, s) = High(B, s)
      BY <1>1, <2>1, Highs
    <3> HIDE DEF H
    <3> QED
      BY <2>1, <3>1 DEF Clear
  <2>2. CASE s = t
    <3>1. High(H, s) = D
      BY <1>1, <2>2
    <3>2. how = "timer" => D = B \ {t} /\ t \notin D
      BY DEF Rest
    <3>3. how # "timer" => D = B /\ t \in D
      BY <1>1 DEF Rest
    <3>4. A # B
      BY DEF Clear
    <3>5. A \ {t} # B \ {t}
      <4>1. t \in A /\ t \in B
        BY <1>1, <2>2
      <4>2. PICK x : ~(x \in A <=> x \in B)
        BY <3>4
      <4>3. x # t
        BY <4>1, <4>2
      <4> QED
        BY <4>2, <4>3
    <3> HIDE DEF D, H
    <3> QED
      BY <1>1, <2>2, <3>1, <3>2, <3>3, <3>4, <3>5
  <2> QED
    BY <1>1, <1>4, <2>1, <2>2
<1>5. ASSUME s < t - 1
      PROVE  High(A, t - 1) # H \ {t - 1} /\ High(A, t - 1) # H
  <2> HIDE DEF t, s, D, H
  <2>1. High(High(A, t - 1), t) = High(A, t)
    <3>1. \A x \in A : x >= t => x >= t - 1
      BY <1>1
    <3> QED
      BY <3>1 DEF High
  <2>2. High(H \ {t - 1}, t) = High(H, t)
    <3>1. ~(t - 1 >= t)
      BY <1>1
    <3> QED
      BY <3>1 DEF High
  <2>3. High(A, t) # D
    BY <1>1, <1>2, <1>5
  <2> QED
    BY <1>1, <2>1, <2>2, <2>3
<1> HIDE DEF H
<1>6. Clear(a, A, c, H)
  BY <1>1, <1>3, <1>4 DEF Clear
<1>7. Clear(c, H, a, A)
  BY <1>1, <1>3, <1>5 DEF Clear
<1> QED
  BY <1>6, <1>7 DEF H

(* An attempt that has made its retry is clear of it. *)
LEMMA ParentIsClear ==
  ASSUME Tries \in Nat, NEW b, NEW B, NEW a, NEW how \in {"timer", "message"}, Owned(b, B),
         b.tries > 1, a.tries = b.tries, ~a.timer, how = "timer" \/ ~Live(a)
  PROVE  /\ Clear(a, B, Attempt(b.tries - 1), Heir(b, B, how))
         /\ Clear(Attempt(b.tries - 1), Heir(b, B, how), a, B)
<1> DEFINE t == b.tries
           H == Heir(b, B, how)
           D == Rest(b, B, how)
           c == Attempt(t - 1)
<1>1. t \in Nat /\ t - 1 \in H /\ t - 1 \notin B /\ High(H, t) = D /\ t \in B /\ c.tries = t - 1
  <2>1. t \in Nat /\ t - 1 \in H /\ t - 1 \notin B /\ High(H, t) = D
    BY Highs
  <2>2. c.tries = t - 1
    BY DEF Attempt
  <2>3. t \in B
    BY DEF Owned
  <2> HIDE DEF D, H, c
  <2> QED
    BY <2>1, <2>2, <2>3
<1>2. H # B
  BY <1>1
<1>3. Live(a) => High(H, t) # B
  <2>1. how = "timer" => t \notin D
    BY DEF Rest
  <2> QED
    BY <1>1, <2>1
<1> HIDE DEF H, D
<1>4. Clear(a, B, c, H)
  BY <1>1, <1>2, <1>3 DEF Clear
<1>5. Clear(c, H, a, B)
  BY <1>1, <1>2 DEF Clear
<1> QED
  BY <1>4, <1>5 DEF H

LEMMA HeirIsOwned ==
  ASSUME Tries \in Nat, NEW b, NEW B, NEW how \in {"timer", "message"}, Owned(b, B), b.tries > 1
  PROVE  Owned(Attempt(b.tries - 1), Heir(b, B, how))
<1> DEFINE t == b.tries
           H == Heir(b, B, how)
           c == Attempt(t - 1)
<1>1. c.tries = t - 1
  BY DEF Attempt
<1>2. t \in Nat /\ t - 1 \in H /\ H \subseteq (t - 1)..Tries
  BY Highs
<1>3. t <= Tries /\ t > 1
  BY DEF Owned
<1> HIDE DEF c, H
<1>4. Owned(c, H)
  BY <1>1, <1>2, <1>3 DEF Owned
<1> QED
  BY <1>4 DEF c, H

States == {"frame", "listening", "resolved", "rejected"}
AttemptRecord == [tries : 1..Tries, state : States, timer : BOOLEAN]
ExchangeInv == attempts \in Seq(AttemptRecord) /\ \E id : Names(attempts, id)

(* Less to retry: an attempt that does no more than it did. *)
Weaker(a, b) ==
  a.tries = b.tries /\ (a.timer => b.timer) /\ (Live(a) => Live(b))

LEMMA WeakerIsClear ==
  ASSUME NEW a, NEW A, NEW b, NEW B, NEW c, NEW d, Clear(c, A, d, B), Weaker(a, c), b.tries = d.tries
  PROVE  Clear(a, A, b, B)
BY DEF Clear, Weaker

LEMMA WeakerNames ==
  ASSUME NEW list, NEW other, NEW id, Names(other, id), DOMAIN list = DOMAIN other,
         \A i \in DOMAIN list : Weaker(list[i], other[i])
  PROVE  Names(list, id)
<1>1. ASSUME NEW i \in DOMAIN list PROVE Owned(list[i], id[i])
  BY DEF Names, Weaker, Owned
<1>2. ASSUME NEW i \in DOMAIN list, NEW j \in DOMAIN list \ {i}
      PROVE  Clear(list[i], id[i], list[j], id[j])
  <2>1. Clear(other[i], id[i], other[j], id[j])
    BY DEF Names
  <2>2. Weaker(list[i], other[i]) /\ list[j].tries = other[j].tries
    BY DEF Weaker
  <2> QED
    BY <2>1, <2>2, WeakerIsClear
<1> QED
  BY <1>1, <1>2 DEF Names

(* What SetToSeq gives. *)
LEMMA Enumerated ==
  ASSUME NEW S, IsFiniteSet(S)
  PROVE  /\ SetToSeq(S) \in Seq(S)
         /\ \A i, j \in DOMAIN SetToSeq(S) : i # j => SetToSeq(S)[i] # SetToSeq(S)[j]
<1> DEFINE n == Cardinality(S)
<1>1. n \in Nat /\ \E f \in [1..n -> S] : IsInjective(f)
  BY FS_CardinalityType DEF ExistsBijection, Bijection, Injection
<1>2. SetToSeq(S) \in [1..n -> S] /\ IsInjective(SetToSeq(S))
  BY <1>1 DEF SetToSeq
<1> HIDE DEF n
<1> QED
  BY <1>1, <1>2 DEF IsInjective

LEMMA RetriesAreNamed ==
  ASSUME NEW list \in Seq(AttemptRecord), ExchangeInv, DOMAIN list = DOMAIN attempts,
         \A i \in DOMAIN list : Weaker(list[i], attempts[i]),
         NEW how \in {"timer", "message"}, NEW those \in SUBSET DOMAIN attempts,
         \A i \in those : /\ CanRetry(attempts[i], how)
                          /\ ~list[i].timer /\ (how = "timer" \/ ~Live(list[i]))
  PROVE  Retried(list, those) \in Seq(AttemptRecord) /\ \E id : Names(Retried(list, those), id)
<1> DEFINE S == {i \in those : attempts[i].tries > 1}
           again == SetToSeq(S)
           more == [k \in DOMAIN again |-> Attempt(attempts[again[k]].tries - 1)]
           all == list \o more
           n == Len(list)
           p(i) == again[i - n]
<1>1. n \in Nat /\ DOMAIN list = 1..n /\ attempts \in Seq(AttemptRecord) /\ DOMAIN attempts = 1..n
      /\ \A i \in 1..n : list[i] \in AttemptRecord /\ attempts[i] \in AttemptRecord
  BY DEF ExchangeInv
<1>2. PICK id : Names(attempts, id)
  BY DEF ExchangeInv
<1>3. IsFiniteSet(S)
  <2>1. IsFiniteSet(1..n) /\ S \in SUBSET (1..n)
    BY <1>1, FS_Interval
  <2> QED
    BY <2>1, FS_Subset
<1>4. /\ again \in Seq(S) /\ Len(again) \in Nat /\ DOMAIN again = 1..Len(again)
      /\ \A i, j \in DOMAIN again : i # j => again[i] # again[j]
  <2>1. /\ again \in Seq(S) /\ \A i, j \in DOMAIN again : i # j => again[i] # again[j]
    BY <1>3, Enumerated
  <2> HIDE DEF S, again
  <2> QED
    BY <2>1
<1> DEFINE m == Len(again)
<1>5. ASSUME NEW i \in S
      PROVE  /\ i \in 1..n /\ i \in those /\ attempts[i].tries > 1
             /\ Attempt(attempts[i].tries - 1) \in AttemptRecord
  <2>1. i \in 1..n /\ i \in those /\ attempts[i].tries > 1 /\ attempts[i].tries \in 1..Tries
    BY <1>1 DEF AttemptRecord
  <2>2. attempts[i].tries - 1 \in 1..Tries
    BY <2>1, CapabilitiesAssumption
  <2> QED
    BY <2>1, <2>2 DEF Attempt, AttemptRecord, States
<1>6. ASSUME NEW k \in 1..m PROVE again[k] \in S
  BY <1>4
<1>7. more \in Seq(AttemptRecord) /\ Len(more) = m
      /\ \A k \in 1..m : more[k] = Attempt(attempts[again[k]].tries - 1)
  <2>1. \A k \in 1..m : Attempt(attempts[again[k]].tries - 1) \in AttemptRecord
    BY <1>5, <1>6
  <2> HIDE DEF again, AttemptRecord
  <2> QED
    BY <1>4, <2>1
<1>8. all \in Seq(AttemptRecord) /\ DOMAIN all = 1..(n + m)
      /\ (\A i \in 1..n : all[i] = list[i])
      /\ \A i \in (n + 1)..(n + m) : all[i] = Attempt(attempts[p(i)].tries - 1)
  <2>1. all \in Seq(AttemptRecord) /\ DOMAIN all = 1..(n + m)
    <3> DEFINE R == AttemptRecord
    <3>1. list \in Seq(R) /\ more \in Seq(R) /\ Len(more) = m /\ Len(list) = n
      BY <1>7
    <3> HIDE DEF more, R, m, n
    <3>2. all \in Seq(R) /\ Len(all) = n + m
      BY <3>1
    <3> QED
      BY <3>2 DEF R
  <2>2. \A i \in 1..n : all[i] = list[i]
    <3> HIDE DEF more, again
    <3> QED
      BY <1>4, <1>7
  <2>3. ASSUME NEW i \in (n + 1)..(n + m) PROVE all[i] = Attempt(attempts[p(i)].tries - 1)
    <3>1. i - n \in 1..m
      BY <1>1, <1>4
    <3>2. all[i] = more[i - n]
      <4> HIDE DEF more, again
      <4> QED
        BY <1>1, <1>4, <1>7, <3>1
    <3> QED
      BY <1>7, <3>1, <3>2
  <2> QED
    BY <2>1, <2>2, <2>3
<1>9. ASSUME NEW i \in (n + 1)..(n + m)
      PROVE  p(i) \in S /\ \A j \in (n + 1)..(n + m) : i # j => p(i) # p(j)
  <2>1. \A j \in (n + 1)..(n + m) : j - n \in 1..m
    BY <1>1, <1>4
  <2>2. \A j \in (n + 1)..(n + m) : i # j => i - n # j - n
    BY <1>1, <1>4
  <2>3. i - n \in 1..m /\ DOMAIN again = 1..m
    BY <1>4, <2>1
  <2>4. \A k, l \in 1..m : k # l => again[k] # again[l]
    BY <1>4
  <2> HIDE DEF again, S, n, m
  <2>5. p(i) \in S
    BY <1>6, <2>3
  <2>6. ASSUME NEW j \in (n + 1)..(n + m), i # j PROVE p(i) # p(j)
    BY <2>1, <2>2, <2>3, <2>4, <2>6
  <2> QED
    BY <2>5, <2>6
<1> HIDE DEF again, more, all, n, m, p
<1> DEFINE name == [i \in 1..(n + m) |-> IF i <= n THEN id[i] ELSE Heir(attempts[p(i)], id[p(i)], how)]
<1>10. \A i \in 1..(n + m) : i \in 1..n \/ i \in (n + 1)..(n + m)
  BY <1>1, <1>4 DEF m
<1>11. /\ 1..n \subseteq 1..(n + m) /\ (n + 1)..(n + m) \subseteq 1..(n + m)
       /\ \A i \in 1..n : i <= n
       /\ \A i \in (n + 1)..(n + m) : ~(i <= n)
  BY <1>1, <1>4 DEF m
<1>12. (\A i \in 1..n : name[i] = id[i])
       /\ \A i \in (n + 1)..(n + m) : name[i] = Heir(attempts[p(i)], id[p(i)], how)
  BY <1>11
<1> HIDE DEF name
<1>13. Tries \in Nat
  BY CapabilitiesAssumption
<1>14. ASSUME NEW i \in 1..n
       PROVE  /\ Owned(attempts[i], id[i]) /\ Weaker(list[i], attempts[i])
              /\ \A j \in 1..n : i # j => Clear(attempts[i], id[i], attempts[j], id[j])
  BY <1>1, <1>2 DEF Names
<1>15. ASSUME NEW i \in S
       PROVE  CanRetry(attempts[i], how) /\ attempts[i].tries > 1
              /\ ~list[i].timer /\ (how = "timer" \/ ~Live(list[i])) /\ i \in 1..n
  BY <1>5
<1>16. ASSUME NEW i \in 1..(n + m) PROVE Owned(all[i], name[i])
  <2>1. CASE i \in 1..n
    BY <1>8, <1>12, <1>14, <2>1 DEF Weaker, Owned
  <2>2. CASE i \in (n + 1)..(n + m)
    <3>1. p(i) \in S
      BY <1>9, <2>2
    <3>2. Owned(Attempt(attempts[p(i)].tries - 1), Heir(attempts[p(i)], id[p(i)], how))
      BY <1>13, <1>14, <1>15, <3>1, HeirIsOwned
    <3> QED
      BY <1>8, <1>12, <2>2, <3>2
  <2> QED
    BY <1>10, <2>1, <2>2
<1>17. ASSUME NEW i \in 1..n, NEW j \in (n + 1)..(n + m)
       PROVE  Clear(all[i], name[i], all[j], name[j]) /\ Clear(all[j], name[j], all[i], name[i])
  <2> DEFINE b == attempts[p(j)]
             B == id[p(j)]
             c == Attempt(b.tries - 1)
  <2>1. p(j) \in S /\ p(j) \in 1..n
    BY <1>9, <1>15
  <2>2. all[i] = list[i] /\ name[i] = id[i] /\ all[j] = c /\ name[j] = Heir(b, B, how)
    BY <1>8, <1>12
  <2>3. CASE i = p(j)
    <3>1. list[i].tries = b.tries /\ ~list[i].timer /\ (how = "timer" \/ ~Live(list[i]))
      BY <1>14, <1>15, <2>1, <2>3 DEF Weaker
    <3>2. Owned(b, B) /\ b.tries > 1
      BY <1>14, <1>15, <2>1
    <3>3. Clear(list[i], B, c, Heir(b, B, how)) /\ Clear(c, Heir(b, B, how), list[i], B)
      <4> HIDE DEF b, B
      <4> QED
        BY <1>13, <3>1, <3>2, ParentIsClear
    <3> QED
      BY <2>2, <2>3, <3>3
  <2>4. CASE i # p(j)
    <3>1. /\ Owned(attempts[i], id[i]) /\ Owned(b, B) /\ b.tries > 1 /\ CanRetry(b, how)
          /\ Clear(attempts[i], id[i], b, B) /\ Clear(b, B, attempts[i], id[i])
      BY <1>14, <1>15, <2>1, <2>4
    <3>2. /\ Clear(attempts[i], id[i], c, Heir(b, B, how))
          /\ Clear(c, Heir(b, B, how), attempts[i], id[i])
      <4> HIDE DEF b, B
      <4> QED
        BY <1>13, <3>1, HeirIsClear
    <3>3. Weaker(list[i], attempts[i]) /\ Weaker(c, c) /\ list[i].tries = attempts[i].tries
      BY <1>14 DEF Weaker
    <3>4. Clear(list[i], id[i], c, Heir(b, B, how)) /\ Clear(c, Heir(b, B, how), list[i], id[i])
      <4> HIDE DEF c, b, B
      <4> QED
        BY <3>2, <3>3, WeakerIsClear
    <3> QED
      BY <2>2, <3>4
  <2> QED
    BY <2>3, <2>4
<1>18. ASSUME NEW i \in (n + 1)..(n + m), NEW j \in (n + 1)..(n + m), i # j
       PROVE  Clear(all[i], name[i], all[j], name[j])
  <2> DEFINE a == attempts[p(i)]
             A == id[p(i)]
             b == attempts[p(j)]
             B == id[p(j)]
             c == Attempt(a.tries - 1)
             d == Attempt(b.tries - 1)
  <2>1. p(i) \in S /\ p(j) \in S /\ p(i) # p(j) /\ p(i) \in 1..n /\ p(j) \in 1..n
    BY <1>9, <1>15, <1>18
  <2>2. all[i] = c /\ name[i] = Heir(a, A, how) /\ all[j] = d /\ name[j] = Heir(b, B, how)
    BY <1>8, <1>12
  <2>3. /\ Owned(a, A) /\ Owned(b, B) /\ a.tries > 1 /\ b.tries > 1
        /\ CanRetry(a, how) /\ CanRetry(b, how) /\ Clear(a, A, b, B) /\ Clear(b, B, a, A)
    BY <1>14, <1>15, <2>1
  <2> HIDE DEF a, A, b, B
  <2>4. /\ Clear(b, B, c, Heir(a, A, how)) /\ Clear(c, Heir(a, A, how), b, B)
    BY <1>13, <2>3, HeirIsClear
  <2>5. Owned(c, Heir(a, A, how))
    BY <1>13, <2>3, HeirIsOwned
  <2> HIDE DEF c
  <2>6. Clear(c, Heir(a, A, how), d, Heir(b, B, how))
    BY <1>13, <2>3, <2>4, <2>5, HeirIsClear
  <2> QED
    BY <2>2, <2>6
<1>19. ASSUME NEW i \in 1..n, NEW j \in 1..n, i # j
       PROVE  Clear(all[i], name[i], all[j], name[j])
  <2>1. Clear(attempts[i], id[i], attempts[j], id[j]) /\ Weaker(list[i], attempts[i])
        /\ list[j].tries = attempts[j].tries
    BY <1>14, <1>19 DEF Weaker
  <2>2. Clear(list[i], id[i], list[j], id[j])
    BY <2>1, WeakerIsClear
  <2> QED
    BY <1>8, <1>12, <2>2
<1>20. ASSUME NEW i \in 1..(n + m), NEW j \in 1..(n + m), i # j
       PROVE  Clear(all[i], name[i], all[j], name[j])
  BY <1>10, <1>17, <1>18, <1>19, <1>20
<1>21. Names(all, name)
  BY <1>8, <1>16, <1>20 DEF Names
<1>22. all = Retried(list, those)
  BY DEF Retried, all, more, again
<1> QED
  BY <1>8, <1>21, <1>22

(* There are no more attempts than names. *)
LEMMA AttemptsAreFew == ASSUME ExchangeInv PROVE Len(attempts) < 2 ^ Tries
<1> DEFINE n == Len(attempts)
           T == 1..Tries
<1>1. PICK id : Names(attempts, id)
  BY DEF ExchangeInv
<1>2. n \in Nat /\ DOMAIN attempts = 1..n /\ Tries \in Nat
  BY CapabilitiesAssumption DEF ExchangeInv
<1> DEFINE f == [i \in 1..n |-> id[i]]
<1>3. IsFiniteSet(T) /\ Cardinality(T) = Tries
  BY <1>2, FS_Interval
<1>4. IsFiniteSet(SUBSET T) /\ Cardinality(SUBSET T) = 2 ^ Tries /\ Cardinality(SUBSET T) \in Nat
  BY <1>3, FS_SUBSET, FS_CardinalityType
<1> DEFINE N == (SUBSET T) \ {{}}
<1>5. IsFiniteSet(N) /\ Cardinality(N) = Cardinality(SUBSET T) - 1
  <2>1. {} \in SUBSET T
    OBVIOUS
  <2> HIDE DEF T
  <2> QED
    BY <1>4, <2>1, FS_RemoveElement
<1>6. f \in Injection(1..n, N)
  <2>1. ASSUME NEW i \in 1..n PROVE id[i] \in N
    <3>1. attempts[i].tries \in 1..Tries /\ attempts[i].tries \in id[i] /\ id[i] \subseteq attempts[i].tries..Tries
      BY <1>1, <1>2 DEF Names, Owned
    <3> QED
      BY <1>2, <3>1
  <2>2. ASSUME NEW i \in 1..n, NEW j \in 1..n, i # j PROVE id[i] # id[j]
    BY <1>1, <1>2, <2>2 DEF Names, Clear
  <2> HIDE DEF N
  <2>3. f \in [1..n -> N] /\ IsInjective(f)
    BY <2>1, <2>2 DEF IsInjective
  <2> QED
    BY <2>3 DEF Injection
<1>7. Cardinality(1..n) <= Cardinality(N) /\ Cardinality(1..n) = n
  <2>1. Cardinality(1..n) = n
    <3> HIDE DEF n, f, N, T
    <3> QED
      BY <1>2, FS_Interval
  <2>2. Cardinality(1..n) <= Cardinality(N)
    <3> HIDE DEF N, f
    <3> QED
      BY <1>5, <1>6, FS_Injection
  <2> QED
    BY <2>1, <2>2
<1> HIDE DEF N, T, f
<1>8. n < Cardinality(SUBSET T)
  BY <1>2, <1>4, <1>5, <1>7
<1> QED
  BY <1>4, <1>8

LEMMA NoAttempts == << >> \in Seq(AttemptRecord) /\ \A id : Names(<< >>, id)
BY DEF Names

LEMMA FirstAttempt ==
  /\ <<Attempt(Tries)>> \in Seq(AttemptRecord)
  /\ Names(<<Attempt(Tries)>>, [i \in {1} |-> {Tries}])
<1> DEFINE a == Attempt(Tries)
<1>1. a.tries = Tries /\ a \in AttemptRecord
  BY CapabilitiesAssumption DEF Attempt, AttemptRecord, States
<1>2. Owned(a, {Tries})
  BY <1>1, CapabilitiesAssumption DEF Owned
<1> HIDE DEF a
<1>3. <<a>> \in Seq(AttemptRecord) /\ DOMAIN <<a>> = {1} /\ <<a>>[1] = a
  <2> HIDE DEF AttemptRecord
  <2> QED
    BY <1>1
<1>4. Names(<<a>>, [i \in {1} |-> {Tries}])
  BY <1>2, <1>3 DEF Names
<1> QED
  BY <1>3, <1>4 DEF a

(* What a message ends: the attempts that listen. *)
LEMMA EndedIsWeaker ==
  ASSUME ExchangeInv, NEW how \in {"resolved", "rejected"}
  PROVE  /\ Ended(attempts, how) \in Seq(AttemptRecord)
         /\ DOMAIN Ended(attempts, how) = DOMAIN attempts
         /\ \A i \in DOMAIN attempts : Weaker(Ended(attempts, how)[i], attempts[i])
         /\ \A i \in DOMAIN attempts :
              Listening(attempts[i]) => /\ CanRetry(attempts[i], "message")
                                        /\ ~Ended(attempts, how)[i].timer
                                        /\ ~Live(Ended(attempts, how)[i])
<1> DEFINE list == Ended(attempts, how)
           n == Len(attempts)
<1>1. n \in Nat /\ DOMAIN attempts = 1..n /\ \A i \in 1..n : attempts[i] \in AttemptRecord
  BY DEF ExchangeInv
<1>2. list = [i \in 1..n |-> IF Listening(attempts[i])
                             THEN [attempts[i] EXCEPT !.state = how, !.timer = FALSE] ELSE attempts[i]]
  BY <1>1 DEF Ended
<1> HIDE DEF list, n
<1>3. ASSUME NEW i \in 1..n
      PROVE  /\ list[i] \in AttemptRecord /\ Weaker(list[i], attempts[i])
             /\ Listening(attempts[i]) => /\ Live(attempts[i])
                                          /\ ~list[i].timer /\ ~Live(list[i])
  <2>1. attempts[i] \in AttemptRecord
    BY <1>1
  <2>2. CASE Listening(attempts[i])
    <3>1. list[i] = [attempts[i] EXCEPT !.state = how, !.timer = FALSE]
      BY <1>2, <2>2
    <3> QED
      BY <2>1, <2>2, <3>1 DEF Weaker, Live, Listening, AttemptRecord, States
  <2>3. CASE ~Listening(attempts[i])
    BY <1>2, <2>1, <2>3 DEF Weaker
  <2> QED
    BY <2>2, <2>3
<1>4. list \in [1..n -> AttemptRecord]
  BY <1>2, <1>3
<1>5. list \in Seq(AttemptRecord) /\ DOMAIN list = 1..n
  <2> HIDE DEF AttemptRecord
  <2> QED
    BY <1>1, <1>4
<1> QED
  BY <1>1, <1>3, <1>5 DEF list, CanRetry

LEMMA ExchangeStep == ASSUME ExchangeInv, [Next]_vars PROVE ExchangeInv'
<1> USE DEF ExchangeInv
<1>1. CASE attempts' = << >>
  BY <1>1, NoAttempts
<1>2. CASE attempts' = <<Attempt(Tries)>>
  BY <1>2, FirstAttempt
<1>3. CASE attempts' = attempts
  BY <1>3
<1>4. ASSUME NEW i \in DOMAIN attempts, FrameLoads(i) PROVE ExchangeInv'
  <2>1. attempts \in Seq(AttemptRecord) /\ attempts[i].state = "frame"
        /\ attempts' = [attempts EXCEPT ![i].state = "listening"]
    BY <1>4 DEF FrameLoads
  <2>2. [attempts[i] EXCEPT !.state = "listening"] \in AttemptRecord
    <3>1. attempts[i] \in AttemptRecord
      BY <2>1
    <3> QED
      BY <3>1 DEF AttemptRecord, States
  <2>3. attempts' \in Seq(AttemptRecord)
    <3> HIDE DEF AttemptRecord
    <3> QED
      BY <2>1, <2>2
  <2>4. /\ DOMAIN attempts' = DOMAIN attempts
        /\ \A j \in DOMAIN attempts : attempts[j] \in AttemptRecord
    BY <2>1
  <2>5. ASSUME NEW j \in DOMAIN attempts PROVE Weaker(attempts'[j], attempts[j])
    <3>1. CASE i = j
      BY <2>1, <2>4, <3>1 DEF Weaker, Live, AttemptRecord
    <3>2. CASE i # j
      BY <2>1, <3>2 DEF Weaker
    <3> QED
      BY <3>1, <3>2
  <2>6. PICK id : Names(attempts, id)
    OBVIOUS
  <2>7. Names(attempts', id)
    BY <2>4, <2>5, <2>6, WeakerNames
  <2> QED
    BY <2>3, <2>7
<1>5. ASSUME NEW i \in DOMAIN attempts, TimesOut(i) PROVE ExchangeInv'
  <2> DEFINE list == [attempts EXCEPT ![i].timer = FALSE]
  <2>1. attempts \in Seq(AttemptRecord) /\ attempts[i].timer /\ attempts' = Retried(list, {i})
    BY <1>5 DEF TimesOut
  <2>2. [attempts[i] EXCEPT !.timer = FALSE] \in AttemptRecord
    <3>1. attempts[i] \in AttemptRecord
      BY <2>1
    <3> QED
      BY <3>1 DEF AttemptRecord
  <2>3. list \in Seq(AttemptRecord)
    <3> HIDE DEF AttemptRecord
    <3> QED
      BY <2>1, <2>2
  <2>4. /\ DOMAIN list = DOMAIN attempts
        /\ \A j \in DOMAIN attempts : attempts[j] \in AttemptRecord
    BY <2>1
  <2>5. ASSUME NEW j \in DOMAIN attempts PROVE Weaker(list[j], attempts[j])
    <3>1. CASE i = j
      BY <2>1, <2>4, <3>1 DEF Weaker, Live, AttemptRecord
    <3>2. CASE i # j
      BY <2>1, <3>2 DEF Weaker
    <3> QED
      BY <3>1, <3>2
  <2>6. ~list[i].timer /\ CanRetry(attempts[i], "timer") /\ {i} \in SUBSET DOMAIN attempts
    BY <2>1, <2>4 DEF CanRetry, AttemptRecord
  <2> HIDE DEF list
  <2>7. /\ Retried(list, {i}) \in Seq(AttemptRecord)
        /\ \E id : Names(Retried(list, {i}), id)
    BY <2>3, <2>4, <2>5, <2>6, RetriesAreNamed
  <2> QED
    BY <2>1, <2>7
<1>6. CASE Answered
  <2>1. attempts' = << >> \/ attempts' = Ended(attempts, "resolved")
    BY <1>6 DEF Answered
  <2>2. CASE attempts' = Ended(attempts, "resolved")
    <3>1. /\ attempts' \in Seq(AttemptRecord) /\ DOMAIN attempts' = DOMAIN attempts
          /\ \A i \in DOMAIN attempts : Weaker(attempts'[i], attempts[i])
      BY <2>2, EndedIsWeaker
    <3>2. PICK id : Names(attempts, id)
      OBVIOUS
    <3>3. Names(attempts', id)
      BY <3>1, <3>2, WeakerNames
    <3> QED
      BY <3>1, <3>3
  <2> QED
    BY <1>1, <2>1, <2>2
<1>7. CASE Disturbed
  <2> DEFINE list == Ended(attempts, "rejected")
             those == {i \in DOMAIN attempts : Listening(attempts[i])}
  <2>1. /\ list \in Seq(AttemptRecord) /\ DOMAIN list = DOMAIN attempts
        /\ \A i \in DOMAIN list : Weaker(list[i], attempts[i])
        /\ \A i \in those : /\ CanRetry(attempts[i], "message")
                            /\ ~list[i].timer /\ ~Live(list[i])
    BY EndedIsWeaker
  <2>2. those \in SUBSET DOMAIN attempts
    OBVIOUS
  <2>3. attempts' = Retried(list, those)
    BY <1>7 DEF Disturbed
  <2> HIDE DEF list, those
  <2>4. /\ Retried(list, those) \in Seq(AttemptRecord)
        /\ \E id : Names(Retried(list, those), id)
    BY <2>1, <2>2, RetriesAreNamed
  <2> QED
    BY <2>3, <2>4
<1> HIDE DEF ExchangeInv
<1>8. CASE Open
  BY <1>1, <1>2, <1>8 DEF Open
<1>9. CASE Close \/ Request
  BY <1>1, <1>9 DEF Close, Request
<1>10. CASE Tick \/ PageSteps
  BY <1>3, <1>10
  DEF Tick, PageSteps, Translate, CollectPermissions, LookupDid, ImportKey, StoreFilter,
      Validate, CheckSecrets, Provide, Load
<1> QED
  BY <1>3, <1>4, <1>5, <1>6, <1>7, <1>8, <1>9, <1>10 DEF Next, vars

-----------------------------------------------------------------------------
(* TYPES *)
GrantedPaths == UNION {Range(grant.secrets) : grant \in Grants}

(* A filter is stored for a key that is stored. *)
Typed(pg, stored) ==
  /\ IsPage(pg)
  /\ {pg.user, pg.session} \subseteq Users \union {None}
  /\ pg.pc \in Starting \union {"closed", "open", "failed"}
  /\ pg.why \in {None, "secrets", "no UCAN", "offline", "load"}
  /\ pg.secrets \in Seq(GrantedPaths)
  /\ pg.pc = "filter" => pg.secrets # << >> /\ ReadKey(pg.user, Head(pg.secrets)) \in stored

TypesInv ==
  /\ ProofsInv /\ Typed(page, keys)
  /\ keys \subseteq Secrets /\ filters \subseteq keys
  /\ ExchangeInv

LEMMA RootsAreUsers == ASSUME NEW list \in Seq(UcanSet) PROVE Roots(list) \subseteq Users
<1>1. \A i \in DOMAIN list : list[i].root \in Users \union {None}
  <2>1. \A i \in DOMAIN list : list[i] \in UcanSet
    OBVIOUS
  <2> QED
    BY <2>1 DEF UcanSet
<1> QED
  BY <1>1 DEF Roots, Range

(* What a page may start, or go on, with. *)
Startable(pg) ==
  /\ IsPage(pg)
  /\ {pg.user, pg.session, pg.restored} \subseteq Users \union {None}
  /\ pg.why \in {None, "secrets", "no UCAN", "offline", "load"}
  /\ pg.secrets \in Seq(GrantedPaths)

LEMMA ResumeIsTyped ==
  ASSUME NEW pg, NEW stored, Startable(pg)
  PROVE  Typed(Resume(pg), stored)
<1>1. CASE pg.restored = None
  BY <1>1 DEF Resume, Startable, Typed, IsPage, Starting
<1>2. CASE pg.restored # None
  BY <1>2 DEF Resume, Startable, Typed, IsPage, Starting
<1> QED
  BY <1>1, <1>2

LEMMA BlankIsTyped ==
  ASSUME NEW list, NEW restored, NEW stored
  PROVE  /\ Typed(Blank(list, restored), stored)
         /\ restored \in Users \union {None} => Startable(Blank(list, restored))
BY DEF Blank, Typed, Startable, IsPage, Starting

(* Another step of the page, with what it has, that is not to store a filter. *)
LEMMA StaysTyped ==
  ASSUME Typed(page, keys), IsPage(page'),
         page'.pc \in (Starting \ {"filter"}) \union {"closed", "open", "failed"},
         {page'.user, page'.session} \subseteq Users \union {None},
         page'.why \in {page.why, "secrets", "no UCAN", "offline", "load"},
         page'.secrets \in Seq(GrantedPaths), NEW stored
  PROVE  Typed(page', stored)
BY DEF Typed, Starting

LEMMA TypesStep == ASSUME TypesInv, [Next]_vars PROVE TypesInv'
<1>1. ProofsInv' /\ ExchangeInv'
  BY ProofsStep, ExchangeStep DEF TypesInv
<1>2. /\ IsPage(page) /\ Typed(page, keys) /\ keys \subseteq Secrets /\ filters \subseteq keys
      /\ {page.user, page.session} \subseteq Users \union {None}
      /\ page.secrets \in Seq(GrantedPaths)
      /\ url \in Users \union {None} /\ Roots(ucans) \subseteq Users
      /\ session \in Users \union {None} /\ page.restored \in Users \union {None}
      /\ page.pc \in {"permissions", "lookup"} => page.info \in Grants
      /\ page.pc \in Collected => page.user \in Users
  <2>1. /\ StoredInv /\ Grounded(page, ucans) /\ Typed(page, keys)
        /\ keys \subseteq Secrets /\ filters \subseteq keys
    BY DEF TypesInv, ProofsInv
  <2>2. Roots(ucans) \subseteq Users
    BY <2>1, RootsAreUsers DEF StoredInv
  <2> QED
    BY <2>1, <2>2 DEF StoredInv, Grounded, Typed
<1>3. SUFFICES Typed(page', keys') /\ keys' \subseteq Secrets /\ filters' \subseteq keys'
  BY <1>1 DEF TypesInv
<1>4. ASSUME NEW user \in {None, page.user} PROVE Startable([page EXCEPT !.session = user])
  <2> DEFINE pg == [page EXCEPT !.session = user]
  <2>1. /\ IsPage(pg) /\ pg.user = page.user /\ pg.session = user /\ pg.restored = page.restored
        /\ pg.why = page.why /\ pg.secrets = page.secrets
    BY <1>2 DEF IsPage
  <2>2. user \in Users \union {None} /\ page.why \in {None, "secrets", "no UCAN", "offline", "load"}
    BY <1>2, <1>4 DEF Typed
  <2> HIDE DEF pg
  <2>3. Startable(pg)
    BY <1>2, <2>1, <2>2 DEF Startable
  <2> QED
    BY <2>3 DEF pg
<1>5. CASE Open
  <2> DEFINE pg == Blank(ucans, session)
  <2>1. Typed(Resume(pg), keys) /\ Startable(pg) /\ UNCHANGED <<keys, filters>>
    <3>1. Startable(pg)
      BY <1>2, BlankIsTyped
    <3>2. UNCHANGED <<keys, filters>>
      BY <1>5 DEF Open, Stored
    <3> HIDE DEF pg
    <3> QED
      BY <3>1, <3>2, ResumeIsTyped
  <2> HIDE DEF pg
  <2>2. ASSUME page' = [pg EXCEPT !.pc = "exchange", !.user = url] PROVE Typed(page', keys)
    <3>1. IsPage(pg) /\ pg.session \in Users \union {None} /\ pg.secrets \in Seq(GrantedPaths)
          /\ pg.why \in {None, "secrets", "no UCAN", "offline", "load"}
      BY <2>1 DEF Startable
    <3>2. /\ IsPage(page') /\ page'.pc = "exchange" /\ page'.user = url
          /\ page'.session = pg.session /\ page'.why = pg.why /\ page'.secrets = pg.secrets
      BY <2>2, <3>1 DEF IsPage
    <3> QED
      BY <1>2, <3>1, <3>2 DEF Typed, Starting
  <2>3. page' = Resume(pg) \/ page' = [pg EXCEPT !.pc = "exchange", !.user = url]
    BY <1>5 DEF Open, pg
  <2> QED
    BY <1>2, <2>1, <2>2, <2>3
<1>6. CASE Close \/ Request
  <2>1. page' = Closed /\ UNCHANGED <<keys, filters>>
    BY <1>6 DEF Close, Request, Stored
  <2> QED
    BY <1>2, <2>1, BlankIsTyped DEF Closed
<1>7. CASE Tick \/ Disturbed \/ \E i \in DOMAIN attempts : FrameLoads(i) \/ TimesOut(i)
  BY <1>2, <1>7 DEF Tick, Disturbed, FrameLoads, TimesOut, Exchanging, Stored
<1>8. CASE Answered
  <2>1. UNCHANGED <<keys, filters>>
    BY <1>8 DEF Answered, Exchanging, Stored
  <2>2. CASE page' = page
    BY <1>2, <2>1, <2>2
  <2>3. ASSUME NEW grant, page' = [page EXCEPT !.pc = "translate", !.info = grant]
        PROVE  Typed(page', keys')
    <3>1. /\ IsPage(page') /\ page'.pc = "translate" /\ page'.user = page.user
          /\ page'.session = page.session /\ page'.why = page.why /\ page'.secrets = page.secrets
      BY <1>2, <2>3 DEF IsPage
    <3> QED
      BY <1>2, <3>1, StaysTyped DEF Starting
  <2> QED
    BY <1>2, <1>8, <2>1, <2>2, <2>3 DEF Answered
<1>9. CASE Translate
  <2>1. /\ IsPage(page') /\ page'.pc \in {"permissions", "failed"} /\ page'.user = page.user
        /\ page'.session = page.session /\ page'.why \in {page.why, "secrets"}
        /\ page'.secrets = page.secrets /\ UNCHANGED <<keys, filters>>
    BY <1>2, <1>9 DEF Translate, Go, Fails, IsPage, Stored
  <2> QED
    BY <1>2, <2>1, StaysTyped DEF Starting
<1>10. CASE CollectPermissions
  <2>1. /\ IsPage(page') /\ page'.pc \in {"lookup", "failed"} /\ page'.user = page.user
        /\ page'.session = page.session /\ page'.why \in {page.why, "no UCAN"}
        /\ page'.secrets = page.secrets /\ UNCHANGED <<keys, filters>>
    BY <1>2, <1>10 DEF CollectPermissions, Fails, IsPage
  <2> QED
    BY <1>2, <2>1, StaysTyped DEF Starting
<1>11. CASE LookupDid
  <2>1. page.info \in Grants /\ UNCHANGED <<keys, filters>>
    BY <1>2, <1>11 DEF LookupDid, Stored
  <2>2. page.info.secrets \in Seq(GrantedPaths)
    <3>1. page.info.secrets \in Seq(Range(page.info.secrets))
      BY <2>1, CapabilitiesAssumption DEF IsList
    <3>2. Range(page.info.secrets) \subseteq GrantedPaths
      BY <2>1 DEF GrantedPaths
    <3> HIDE DEF GrantedPaths
    <3> QED
      BY <3>1, <3>2
  <2>3. /\ IsPage(page') /\ page'.pc \in {"key", "failed"} /\ page'.user = page.user
        /\ page'.session = page.session /\ page'.why \in {page.why, "offline"}
        /\ page'.secrets \in {page.secrets, page.info.secrets}
    BY <1>2, <1>11 DEF LookupDid, Fails, IsPage
  <2> QED
    BY <1>2, <2>1, <2>2, <2>3, StaysTyped DEF Starting
<1>12. CASE ImportKey
  <2>1. page.pc = "key" /\ page.user \in Users /\ UNCHANGED filters
    BY <1>2, <1>12 DEF ImportKey, Collected
  <2>2. CASE page.secrets = << >>
    <3>1. /\ IsPage(page') /\ page'.pc = "validate" /\ page'.user = page.user
          /\ page'.session = page.session /\ page'.why = page.why
          /\ page'.secrets = page.secrets /\ UNCHANGED keys
      BY <1>2, <1>12, <2>2 DEF ImportKey, Go, IsPage
    <3> QED
      BY <1>2, <2>1, <3>1, StaysTyped DEF Starting
  <2>3. CASE page.secrets # << >>
    <3> DEFINE path == Head(page.secrets)
               key == ReadKey(page.user, path)
    <3>1. path \in GrantedPaths
      <4> HIDE DEF GrantedPaths
      <4> QED
        BY <1>2, <2>3
    <3>2. key \in Secrets
      BY <2>1, <3>1 DEF ReadKey, Secrets, GrantedPaths
    <3>3. keys' = keys \union {key}
      BY <1>12, <2>3 DEF ImportKey
    <3>4. /\ IsPage(page') /\ page'.pc = "filter" /\ page'.user = page.user
          /\ page'.session = page.session /\ page'.why = page.why /\ page'.secrets = page.secrets
      BY <1>2, <1>12, <2>3 DEF ImportKey, Go, IsPage
    <3>5. ReadKey(page'.user, Head(page'.secrets)) \in keys'
      BY <3>3, <3>4
    <3>6. Typed(page', keys')
      BY <1>2, <2>3, <3>4, <3>5 DEF Typed, Starting
    <3> QED
      BY <1>2, <2>1, <3>2, <3>3, <3>6
  <2> QED
    BY <2>2, <2>3
<1>13. CASE StoreFilter
  <2>1. page.pc = "filter" /\ page.secrets # << >> /\ UNCHANGED keys
        /\ filters' = filters \union {ReadKey(page.user, Head(page.secrets))}
    BY <1>2, <1>13 DEF StoreFilter, Typed, ReadKey, BareNameFilter
  <2>2. ReadKey(page.user, Head(page.secrets)) \in keys
    BY <1>2, <2>1 DEF Typed
  <2>3. Tail(page.secrets) \in Seq(GrantedPaths)
    <3> HIDE DEF GrantedPaths
    <3> QED
      BY <1>2, <2>1
  <2>4. /\ IsPage(page') /\ page'.pc = "key" /\ page'.user = page.user
        /\ page'.session = page.session /\ page'.why = page.why
        /\ page'.secrets = Tail(page.secrets)
    BY <1>2, <1>13 DEF StoreFilter, IsPage
  <2>5. Typed(page', keys')
    BY <1>2, <2>3, <2>4, StaysTyped DEF Starting
  <2> QED
    BY <1>2, <2>1, <2>2, <2>5
<1>14. CASE Validate \/ CheckSecrets \/ Provide \/ Load
  <2>1. UNCHANGED <<keys, filters>>
    BY <1>14 DEF Validate, CheckSecrets, Provide, Load, Stored
  <2>2. CASE NoSession \/ page' = Resume([page EXCEPT !.session = page.user])
    <3>1. Typed(page', keys)
      BY <1>4, <2>2, ResumeIsTyped DEF NoSession
    <3> QED
      BY <1>2, <2>1, <3>1
  <2>3. CASE (\E pc \in {"secrets", "provide", "load"} : Go(pc)) \/ \E why \in {"offline", "load"} : Fails(why)
    <3>1. /\ IsPage(page') /\ page'.pc \in {"secrets", "provide", "load", "failed"}
          /\ page'.user = page.user /\ page'.session = page.session
          /\ page'.why \in {page.why, "offline", "load"} /\ page'.secrets = page.secrets
      BY <1>2, <2>3 DEF Go, Fails, IsPage
    <3> QED
      BY <1>2, <2>1, <3>1, StaysTyped DEF Starting
  <2> QED
    BY <1>14, <2>2, <2>3 DEF Validate, CheckSecrets, Provide, Load
<1>15. CASE UNCHANGED vars
  BY <1>2, <1>15 DEF vars
<1> QED
  BY <1>5, <1>6, <1>7, <1>8, <1>9, <1>10, <1>11, <1>12, <1>13, <1>14, <1>15 DEF Next, PageSteps

(* The page, the exchange and what is stored keep their types: there is no  *)
(* filter without its key, no secret that was not granted, and fewer than   *)
(* 2^Tries attempts are made in an exchange, however many messages reject   *)
(* and timers retry them (fission-lobby.ts:280).                            *)
THEOREM CollectingIsTyped == Spec => []TypeOK
<1>1. Init => TypesInv
  <2> SUFFICES ASSUME Init PROVE TypesInv
    OBVIOUS
  <2>1. ProofsInv
    BY InitIsGrounded
  <2>2. Typed(page, keys) /\ keys \subseteq Secrets /\ filters \subseteq keys
    BY BlankIsTyped DEF Init, Closed
  <2>3. ExchangeInv
    BY NoAttempts DEF Init, ExchangeInv
  <2> QED
    BY <2>1, <2>2, <2>3 DEF TypesInv
<1>2. TypesInv => TypeOK
  <2> SUFFICES ASSUME TypesInv PROVE TypeOK
    OBVIOUS
  <2>1. StoredInv /\ Grounded(page, ucans) /\ Typed(page, keys) /\ ExchangeInv
    BY DEF TypesInv, ProofsInv
  <2>2. Roots(ucans) \subseteq Users
    BY <2>1, RootsAreUsers DEF StoredInv
  <2>3. Len(attempts) < 2 ^ Tries
    BY <2>1, AttemptsAreFew
  <2>4. \A a \in Range(attempts) : a \in AttemptRecord
    BY <2>1, Lists DEF ExchangeInv
  <2>5. \A a \in Range(attempts) :
          /\ a.tries \in 1..Tries /\ a.state \in {"frame", "listening", "resolved", "rejected"}
          /\ a.timer \in BOOLEAN
    BY <2>4 DEF AttemptRecord, States
  <2>6. {url, session, page.user, page.session, page.restored} \subseteq Users \union {None}
    BY <2>1, <2>2 DEF StoredInv, Grounded, Typed
  <2> QED
    BY <2>1, <2>3, <2>5, <2>6 DEF TypesInv, TypeOK, StoredInv, Typed
<1> QED
  BY <1>1, <1>2, TypesStep, PTL DEF Spec
=============================================================================
