---------------------------- MODULE AccountProofs ---------------------------
(***************************************************************************)
(* What is kept of accounts, vaults, values and payments, for any number   *)
(* of them and of overlapping requests and instances.                      *)
(***************************************************************************)
EXTENDS VaultCatalog, Accounts, PortfolioValue, IncomingPayments, WellFoundedInduction,
        SequenceTheorems, TLAPS

-----------------------------------------------------------------------------
(* The catalog of vaults.                                                  *)

\* What a call may still rely on: the row it found is there, a run of the job that
\* would write over an edit is known to have found the row before it, and a submission
\* that is to be recorded as CONFIRMED created the vault and saw its row listed.
CallInv(c) ==
    /\ At(c, "updating") => catalog.there
    /\ At(c, "found") /\ call[c].saw # "absent" => catalog.there
    /\ At(c, "found") /\ call[c].saw = "plain" /\ edited => c \in early
    /\ At(c, "answered") /\ call[c].answer # "refused" => deployed
    /\ At(c, "listed") /\ call[c].answer # "refused" =>
          deployed /\ (HasAddress(c) => catalog.isActive \/ delisted)

\* A name of an operator's is on a row that is there and that the job leaves alone.
EditedIsCurated == edited => catalog.there /\ catalog.isCurated

\* Only a row can be shown.
ShownIsThere == catalog.isActive => catalog.there

\* The inductive invariant of the catalog.
CatInv ==
    /\ CatTypeOK /\ EditOutlivesSync /\ ConfirmedIsShown /\ EditedIsCurated /\ ShownIsThere
    /\ \A c \in Calls : CallInv(c)

\* The job's write leaves the row listed or not, and curated or not, as it finds it.
LEMMA SyncWriteKeeps ==
    ASSUME CatInv, NEW c \in Calls, SyncWrite(c)
    PROVE  CatInv'
<1>1. /\ call \in [Calls -> CallRow] /\ NoCall \in CallRow
      /\ call' = [call EXCEPT ![c] = NoCall]
  BY DEF CatInv, CatTypeOK, SyncWrite, CallOver, NoCall, CallRow, Dto
<1>2. call' \in [Calls -> CallRow]
  BY <1>1
<1>3. UNCHANGED <<managed, deployed, delisted>> /\ early' = early \ {c}
  BY DEF SyncWrite
<1>4. /\ catalog' \in CatalogRow
      /\ catalog'.isActive = catalog.isActive
      /\ catalog.there => catalog'.there /\ catalog'.isCurated = catalog.isCurated
      /\ edited' \in BOOLEAN
      /\ edited' => edited /\ catalog'.name = "admin"
  <2> USE DEF CatInv, CatTypeOK, CatalogRow, EditOutlivesSync, EditedIsCurated, ShownIsThere
  <2>1. CASE ~catalog.there /\ catalog' = Discovered(c) /\ UNCHANGED edited
    BY <2>1 DEF Discovered, Names
  <2>2. CASE /\ Renames(c) /\ catalog' = [catalog EXCEPT !.name = "upstream"]
             /\ edited' = (edited /\ c \notin early)
    <3>1. edited => c \in early
      BY <2>2 DEF SyncWrite, Renames, CallInv, At
    <3>2. catalog.there
      BY <2>2 DEF SyncWrite, Renames, CallInv, At
    <3> QED
      BY <2>2, <3>1, <3>2 DEF Names
  <2>3. CASE UNCHANGED <<catalog, edited>>
    BY <2>3
  <2> QED
    BY <2>1, <2>2, <2>3 DEF SyncWrite
<1>5. /\ CatTypeOK' /\ EditOutlivesSync' /\ ConfirmedIsShown' /\ ShownIsThere'
  BY <1>2, <1>3, <1>4 DEF CatInv, CatTypeOK, EditOutlivesSync, ConfirmedIsShown, ShownIsThere
<1>6. EditedIsCurated'
  BY <1>4 DEF CatInv, EditedIsCurated
<1>7. ASSUME NEW d \in Calls
      PROVE  CallInv(d)'
  <2>1. CASE d = c
    BY <1>1, <2>1 DEF NoCall, CallInv, At
  <2>2. CASE d # c
    <3>1. call'[d] = call[d] /\ CallInv(d)
      BY <1>1, <2>2 DEF CatInv
    <3> QED
      BY <1>3, <1>4, <2>2, <3>1 DEF CallInv, At, HasAddress
  <2> QED
    BY <2>1, <2>2
<1> QED
  BY <1>5, <1>6, <1>7 DEF CatInv

\* A run of the discovery job.
LEMMA SyncKeeps ==
    ASSUME CatInv, NEW c \in Calls,
           (\E known \in BOOLEAN : SyncInfo(c, known)) \/ SyncFind(c) \/ SyncWrite(c)
    PROVE  CatInv'
<1> USE DEF CatInv, CatTypeOK, CatalogRow, ManagedRow, At, EditOutlivesSync,
            ConfirmedIsShown, EditedIsCurated, ShownIsThere, CallInv,
            HasAddress, Answers
<1>1. ASSUME NEW known \in BOOLEAN, SyncInfo(c, known)
      PROVE  CatInv'
  <2>1. CatTypeOK'
    <3>1. [call[c] EXCEPT !.pc = "enriched", !.info = known] \in CallRow
      BY DEF CallRow
    <3> QED
      BY <1>1, <3>1 DEF SyncInfo
  <2>2. ASSUME NEW d \in Calls PROVE CallInv(d)'
    BY <1>1 DEF SyncInfo, CallRow
  <2> QED
    BY <1>1, <2>1, <2>2 DEF SyncInfo
<1>2. CASE SyncFind(c)
  <2>1. CatTypeOK'
    <3>1. ASSUME NEW saw \in {"absent", "curated", "plain"}
          PROVE  [call[c] EXCEPT !.pc = "found", !.saw = saw] \in CallRow
      BY DEF CallRow
    <3> QED
      BY <1>2, <3>1 DEF SyncFind
  <2>2. ASSUME NEW d \in Calls PROVE CallInv(d)'
    BY <1>2 DEF SyncFind
  <2> QED
    BY <1>2, <2>1, <2>2 DEF SyncFind
<1>3. CASE SyncWrite(c)
  BY <1>3, SyncWriteKeeps
<1> QED
  BY <1>1, <1>2, <1>3

\* A request of the operator.
LEMMA OperatorKeeps ==
    ASSUME CatInv, NEW c \in Calls,
           Import(c) \/ ImportEnd(c) \/ (\E dto \in Dto : Update(c, dto)) \/ UpdateEnd(c)
    PROVE  CatInv'
<1> USE DEF CatInv, CatTypeOK, CatalogRow, ManagedRow, At, EditOutlivesSync,
            ConfirmedIsShown, EditedIsCurated, ShownIsThere, CallInv,
            HasAddress, Answers
<1>1. CASE Import(c)
  BY <1>1 DEF Import, CallRow
<1>2. CASE ImportEnd(c)
  BY <1>2 DEF ImportEnd, CallOver, NoCall, CallRow, Dto, Absent, Names
<1>3. ASSUME NEW dto \in Dto, Update(c, dto)
      PROVE  CatInv'
  <2>1. CatTypeOK'
    <3>1. [call[c] EXCEPT !.pc = "updating", !.dto = dto] \in CallRow
      BY DEF CallRow
    <3> QED
      BY <1>3, <3>1 DEF Update
  <2>2. ASSUME NEW d \in Calls PROVE CallInv(d)'
    BY <1>3 DEF Update, CallRow
  <2> QED
    BY <1>3, <2>1, <2>2 DEF Update
<1>4. CASE UpdateEnd(c)
  BY <1>4 DEF UpdateEnd, CallOver, NoCall, CallRow, Dto, Said, Curated, Names
<1> QED
  BY <1>1, <1>2, <1>3, <1>4

\* A request of the manager, the ledger, and what goes wrong.
LEMMA ManagerKeeps ==
    ASSUME CatInv,
           \/ \E c \in Calls : \/ SubmitVault(c) \/ SubmitMark(c)
                               \/ \E answer \in Answers : SubmitAnswer(c, answer)
                               \/ SubmitThrows(c) \/ SubmitCatalog(c) \/ SubmitRecord(c)
                               \/ CallFails(c)
           \/ \E predicted \in BOOLEAN : CreateVault(predicted)
           \/ Deploys
    PROVE  CatInv'
<1> USE DEF CatInv, CatTypeOK, CatalogRow, ManagedRow, ManagedVaultStatus, At,
            EditOutlivesSync, ConfirmedIsShown, EditedIsCurated, ShownIsThere, CallInv,
            HasAddress, Answers
<1>1. ASSUME NEW c \in Calls, SubmitVault(c)
      PROVE  CatInv'
  <2>1. [call[c] EXCEPT !.pc = "matched", !.predicted = managed.predicted] \in CallRow
    BY DEF CallRow
  <2>2. CatTypeOK'
    BY <1>1, <2>1 DEF SubmitVault
  <2>3. ASSUME NEW d \in Calls PROVE CallInv(d)'
    BY <1>1 DEF SubmitVault, CallRow
  <2> QED
    BY <1>1, <2>2, <2>3 DEF SubmitVault
<1>2. ASSUME NEW c \in Calls, SubmitMark(c)
      PROVE  CatInv'
  BY <1>2 DEF SubmitMark, CallRow
<1>3. ASSUME NEW c \in Calls, NEW answer \in Answers, SubmitAnswer(c, answer)
      PROVE  CatInv'
  <2>1. [call[c] EXCEPT !.pc = "answered", !.answer = answer] \in CallRow
    BY DEF CallRow
  <2>2. CatTypeOK'
    BY <1>3, <2>1 DEF SubmitAnswer
  <2>3. ASSUME NEW d \in Calls PROVE CallInv(d)'
    BY <1>3 DEF SubmitAnswer, CallRow
  <2> QED
    BY <1>3, <2>2, <2>3 DEF SubmitAnswer
<1>4. ASSUME NEW c \in Calls, SubmitThrows(c)
      PROVE  CatInv'
  BY <1>4 DEF SubmitThrows, CallOver, NoCall, CallRow, Dto
<1>5. ASSUME NEW c \in Calls, SubmitCatalog(c)
      PROVE  CatInv'
  <2>1. CatTypeOK'
    <3>1. [call[c] EXCEPT !.pc = "listed"] \in CallRow
      BY DEF CallRow
    <3>2. Listed \in CatalogRow
      BY DEF Names, Listed
    <3> QED
      BY <1>5, <3>1, <3>2 DEF SubmitCatalog
  <2>2. ASSUME NEW d \in Calls PROVE CallInv(d)'
    BY <1>5 DEF SubmitCatalog, CallRow, Listed
  <2> QED
    BY <1>5, <2>1, <2>2 DEF SubmitCatalog, Listed
<1>6. ASSUME NEW c \in Calls, SubmitRecord(c)
      PROVE  CatInv'
  BY <1>6 DEF SubmitRecord, CallOver, NoCall, CallRow, Dto
<1>7. ASSUME NEW c \in Calls, CallFails(c)
      PROVE  CatInv'
  BY <1>7 DEF CallFails, CallOver, NoCall, CallRow, Dto
<1>8. CASE \E predicted \in BOOLEAN : CreateVault(predicted)
  BY <1>8 DEF CreateVault
<1>9. CASE Deploys
  BY <1>9 DEF Deploys
<1> QED
  BY <1>1, <1>2, <1>3, <1>4, <1>5, <1>6, <1>7, <1>8, <1>9

\* The catalog's inductive invariant holds whatever calls overlap.
THEOREM CatalogInvariant == CatSpec => []CatInv
<1>1. CatInit => CatInv
  <2> SUFFICES ASSUME CatInit PROVE CatInv
    OBVIOUS
  <2>1. CatTypeOK
    BY DEF CatInit, CatTypeOK, CatalogRow, ManagedRow, ManagedVaultStatus, Names, Dto,
           Absent, NoCall, CallRow
  <2> QED
    BY <2>1 DEF CatInit, CatInv, Absent, NoCall, At, EditOutlivesSync, ConfirmedIsShown,
                EditedIsCurated, ShownIsThere, CallInv, HasAddress, Answers
<1>2. CatInv /\ [CatNext]_catVars => CatInv'
  <2>1. CASE CatNext
    BY <2>1, SyncKeeps, OperatorKeeps, ManagerKeeps DEF CatNext
  <2>2. CASE UNCHANGED catVars
    BY <2>2 DEF catVars, CatInv, CatTypeOK, At, EditOutlivesSync, ConfirmedIsShown,
                EditedIsCurated, ShownIsThere, CallInv, HasAddress, Answers
  <2> QED
    BY <2>1, <2>2
<1> QED
  BY <1>1, <1>2, PTL DEF CatSpec

\* The name that an operator gave a vault is the one shown, until it is given back or the
\* vault is created anew; only a run of the job that had found the row before the edit may
\* still write over it.
THEOREM EditsAreKept == CatSpec => []EditOutlivesSync
<1>1. CatInv => EditOutlivesSync
  BY DEF CatInv
<1> QED
  BY <1>1, CatalogInvariant, PTL

\* A creation that is recorded as CONFIRMED with its address is on the chain and shown,
\* unless an operator took it off the list, however submissions, the job and the operator
\* overlap and wherever they die.
THEOREM ConfirmedVaultsAreShown == CatSpec => []ConfirmedIsShown
<1>1. CatInv => ConfirmedIsShown
  BY DEF CatInv
<1> QED
  BY <1>1, CatalogInvariant, PTL

-----------------------------------------------------------------------------
(* Accounts and wallets.                                                   *)

\* A set of numbers has a least one.
LEMMA LeastNat == ASSUME NEW I, I \subseteq Nat, I # {} PROVE \E x \in I : \A y \in I : x =< y
<1> DEFINE R == {ss \in Nat \X Nat : ss[1] < ss[2]}
<1>1. IsWellFoundedOn(R, Nat)
  BY NatLessThanWellFounded DEF OpToRel
<1> HIDE DEF R
<1>2. PICK x \in I : \A y \in I : ~ (<<y, x>> \in R)
  BY <1>1, WFMin
<1>3. \A y \in I : ~(y < x)
  BY <1>2 DEF R
<1> QED
  BY <1>3

\* Oldest is 0, or a row that is active and has one of the addresses.
LEMMA OldestIs ==
    ASSUME wallets \in Seq(WalletRow), NEW A
    PROVE  /\ Oldest(A) \in 0 .. Len(wallets)
           /\ Oldest(A) # 0 => wallets[Oldest(A)].isActive /\ wallets[Oldest(A)].address \in A
<1> DEFINE I == {i \in 1 .. Len(wallets) : wallets[i].isActive /\ wallets[i].address \in A}
<1>1. Oldest(A) = IF I # {} THEN CHOOSE x \in I : \A y \in I : x =< y ELSE 0
  BY DEF Oldest, SelectInSeq, Min
<1> HIDE DEF I
<1>2. I \subseteq Nat /\ I \subseteq 1 .. Len(wallets)
  BY DEF I
<1>3. CASE I # {}
  <2>1. \E x \in I : \A y \in I : x =< y
    BY <1>2, <1>3, LeastNat
  <2>2. Oldest(A) \in I
    BY <1>1, <1>3, <2>1
  <2> QED
    BY <1>2, <2>2 DEF I
<1> QED
  BY <1>1, <1>3

\* RowOf is 0, or a row with the address.
LEMMA RowOfIs ==
    ASSUME wallets \in Seq(WalletRow), NEW address
    PROVE  RowOf(address) \in 0 .. Len(wallets)
<1> DEFINE I == {i \in 1 .. Len(wallets) : wallets[i].address = address}
<1>1. RowOf(address) = IF I # {} THEN CHOOSE x \in I : \A y \in I : x =< y ELSE 0
  BY DEF RowOf, SelectInSeq, Min
<1> HIDE DEF I
<1>2. I \subseteq Nat /\ I \subseteq 1 .. Len(wallets)
  BY DEF I
<1>3. CASE I # {}
  <2>1. \E x \in I : \A y \in I : x =< y
    BY <1>2, <1>3, LeastNat
  <2>2. RowOf(address) \in I
    BY <1>1, <1>3, <2>1
  <2> QED
    BY <1>2, <2>2 DEF I
<1> QED
  BY <1>1, <1>3

\* What a request holds: an account, and a wallet of it.
ErrandInv(r) ==
    LET q == request[r] IN
    /\ q.pc \in {"resolved", "write"} => q.user \in DOMAIN users
    /\ q.pc = "write" /\ q.errand \in {"add", "remove"} /\ q.row # 0 =>
        q.row \in DOMAIN wallets /\ wallets[q.row].user = q.user

\* An erased account that no other request had resolved: nothing is left of it, none
\* of its wallets is active, and no request holds it.
ErasedInv(u) ==
    u \notin overlapped /\ users[u].deleted =>
        /\ users[u].username = NoName /\ ~users[u].data
        /\ \A i \in DOMAIN wallets : wallets[i].user = u => wallets[i].address = Freed /\ ~wallets[i].isActive
        /\ \A r \in Logins : request[r].user # u

\* The inductive invariant: a wallet is of an account that exists.
AccountsInv ==
    /\ AccountsTypeOK
    /\ \A i \in DOMAIN wallets : wallets[i].user \in DOMAIN users
    /\ \A r \in Logins : ErrandInv(r)
    /\ \A u \in DOMAIN users : ErasedInv(u)

\* The initial states satisfy it.
LEMMA AccountsInitial == AccountsInit => AccountsInv
<1> SUFFICES ASSUME AccountsInit PROVE AccountsInv
  OBVIOUS
<1>1. AccountsTypeOK
  BY MaxAssumption DEF AccountsInit, AccountsTypeOK, NoRequest, ErrandRow, Errands
<1>2. \A r \in Logins : ErrandInv(r)
  BY DEF AccountsInit, ErrandInv, NoRequest
<1> QED
  BY <1>1, <1>2 DEF AccountsInit, AccountsInv

\* A step of one request keeps what the others hold: rows of users and wallets are never
\* gone, and a wallet never passes to another account.
LEMMA RequestStep ==
    ASSUME AccountsInv, NEW r \in Logins, NEW row \in ErrandRow,
           request' = [request EXCEPT ![r] = row],
           users' \in Seq(UserRow), Len(users') <= MaxUsers, Len(users) <= Len(users'),
           wallets' \in Seq(WalletRow), Len(wallets') <= MaxWallets, Len(wallets) <= Len(wallets'),
           overlapped' \in SUBSET User,
           \A i \in 1 .. Len(wallets) : wallets'[i].user = wallets[i].user,
           \A i \in 1 .. Len(wallets') : wallets'[i].user \in 1 .. Len(users'),
           row.pc \in {"resolved", "write"} => row.user \in 1 .. Len(users),
           row.pc = "write" /\ row.errand \in {"add", "remove"} /\ row.row # 0 =>
               row.row \in 1 .. Len(wallets) /\ wallets[row.row].user = row.user,
           \A u \in 1 .. Len(users') : ErasedInv(u)'
    PROVE  AccountsInv'
<1>1. AccountsTypeOK'
  BY DEF AccountsInv, AccountsTypeOK
<1>2. /\ DOMAIN users = 1 .. Len(users) /\ DOMAIN wallets = 1 .. Len(wallets)
      /\ DOMAIN users' = 1 .. Len(users') /\ DOMAIN wallets' = 1 .. Len(wallets')
      /\ Len(users) \in Nat /\ Len(wallets) \in Nat /\ Len(users') \in Nat /\ Len(wallets') \in Nat
      /\ request \in [Logins -> ErrandRow]
  BY DEF AccountsInv, AccountsTypeOK
<1>3. ASSUME NEW q \in Logins PROVE ErrandInv(q)'
  <2>1. CASE q = r
    <3>1. request'[q] = row
      BY <1>2, <2>1
    <3> QED
      BY <1>2, <3>1 DEF ErrandInv
  <2>2. CASE q # r
    <3>1. request'[q] = request[q] /\ ErrandInv(q)
      BY <1>2, <2>2 DEF AccountsInv
    <3> QED
      BY <1>2, <3>1 DEF ErrandInv
  <2> QED
    BY <2>1, <2>2
<1> QED
  BY <1>1, <1>2, <1>3 DEF AccountsInv

\* A step that changes nothing but its request.
LEMMA OnlyRequest ==
    ASSUME AccountsInv, NEW r \in Logins, NEW row \in ErrandRow,
           request' = [request EXCEPT ![r] = row], UNCHANGED <<users, wallets, overlapped>>,
           row.pc \in {"resolved", "write"} => row.user \in 1 .. Len(users),
           row.pc = "write" /\ row.errand \in {"add", "remove"} /\ row.row # 0 =>
               row.row \in 1 .. Len(wallets) /\ wallets[row.row].user = row.user,
           \A u \in 1 .. Len(users) : row.user = u =>
               request[r].user = u \/ ~users[u].deleted \/ u \in overlapped
    PROVE  AccountsInv'
<1>1. /\ users \in Seq(UserRow) /\ wallets \in Seq(WalletRow) /\ overlapped \in SUBSET User
      /\ DOMAIN users = 1 .. Len(users) /\ DOMAIN wallets = 1 .. Len(wallets) /\ request \in [Logins -> ErrandRow]
      /\ Len(users) <= MaxUsers /\ Len(wallets) <= MaxWallets /\ Len(users) \in Nat /\ Len(wallets) \in Nat
  BY DEF AccountsInv, AccountsTypeOK
<1>2. ASSUME NEW u \in 1 .. Len(users) PROVE ErasedInv(u)'
  <2>1. ErasedInv(u)
    BY <1>1 DEF AccountsInv
  <2>2. request'[r] = row /\ \A q \in Logins : q # r => request'[q] = request[q]
    BY <1>1
  <2> QED
    BY <2>1, <2>2 DEF ErasedInv
<1>3. \A i \in 1 .. Len(wallets) : wallets[i].user \in 1 .. Len(users)
  BY <1>1 DEF AccountsInv
<1>4. /\ users' \in Seq(UserRow) /\ Len(users') <= MaxUsers /\ Len(users) <= Len(users')
      /\ wallets' \in Seq(WalletRow) /\ Len(wallets') <= MaxWallets /\ Len(wallets) <= Len(wallets')
      /\ overlapped' \in SUBSET User
      /\ \A i \in 1 .. Len(wallets) : wallets'[i].user = wallets[i].user
      /\ \A i \in 1 .. Len(wallets') : wallets'[i].user \in 1 .. Len(users')
      /\ \A u \in 1 .. Len(users') : ErasedInv(u)'
  BY <1>1, <1>2, <1>3
<1> QED
  BY <1>1, <1>4, RequestStep

\* A request that has ended holds nothing.
LEMMA NoRequestTypes ==
    /\ NoRequest \in ErrandRow /\ NoRequest.pc = "idle" /\ NoRequest.user = NoUser
  BY MaxAssumption DEF NoRequest, ErrandRow, Errands

\* A request begins, looks, or ends.
LEMMA LookKeeps ==
    ASSUME AccountsInv, NEW r \in Logins,
           \/ RequestEnds(r)
           \/ \E errand \in Errands : Resolve(r, errand)
           \/ \E name \in UserNames : NameLook(r, name)
           \/ \E address \in Addresses : AddLook(r, address)
           \/ \E address \in Addresses, authenticated \in BOOLEAN : Login(r, address, authenticated)
           \/ \E row \in 1 .. MaxWallets : RemoveLook(r, row)
    PROVE  AccountsInv'
<1>1. /\ users \in Seq(UserRow) /\ wallets \in Seq(WalletRow) /\ overlapped \in SUBSET User
      /\ DOMAIN users = 1 .. Len(users) /\ DOMAIN wallets = 1 .. Len(wallets) /\ request \in [Logins -> ErrandRow]
      /\ Len(users) <= MaxUsers /\ Len(wallets) <= MaxWallets /\ Len(users) \in Nat /\ Len(wallets) \in Nat
  BY DEF AccountsInv, AccountsTypeOK
<1>2. request[r] \in ErrandRow /\ ErrandInv(r)
  BY <1>1 DEF AccountsInv
<1>3. \A u \in 1 .. Len(users) : u # NoUser
  BY SentinelAssumption
<1>4. CASE RequestEnds(r)
  BY <1>3, <1>4, NoRequestTypes, OnlyRequest DEF RequestEnds, Over
<1>5. ASSUME NEW errand \in Errands, Resolve(r, errand) PROVE AccountsInv'
  <2> DEFINE i == Oldest(Addresses)
             row == [NoRequest EXCEPT !.pc = "resolved", !.errand = errand, !.user = wallets[i].user]
  <2>1. request' = [request EXCEPT ![r] = row] /\ UNCHANGED <<users, wallets, overlapped>> /\ i # 0
    BY <1>5 DEF Resolve
  <2>2. i \in 1 .. Len(wallets) /\ wallets[i].isActive
    BY <1>1, <2>1, OldestIs
  <2> HIDE DEF i
  <2>3. wallets[i].user \in User /\ wallets[i].user \in 1 .. Len(users)
    <3>1. wallets[i] \in WalletRow
      BY <1>1, <2>2, ElementOfSeq
    <3> QED
      BY <1>1, <2>2, <3>1 DEF AccountsInv, WalletRow
  <2>4. row \in ErrandRow
    BY <2>3, NoRequestTypes DEF ErrandRow
  <2>5. row.pc = "resolved" /\ row.user = wallets[i].user
    BY DEF NoRequest
  <2>6. \A u \in 1 .. Len(users) : wallets[i].user = u => ~users[u].deleted \/ u \in overlapped
    BY <1>1, <2>2 DEF AccountsInv, ErasedInv
  <2> HIDE DEF row
  <2> QED
    BY <2>1, <2>3, <2>4, <2>5, <2>6, OnlyRequest
<1>6. ASSUME NEW name \in UserNames, NameLook(r, name) PROVE AccountsInv'
  <2> DEFINE row == [request[r] EXCEPT !.pc = "write", !.name = name]
  <2>1. /\ request' = [request EXCEPT ![r] = row] /\ UNCHANGED <<users, wallets, overlapped>>
        /\ request[r].pc = "resolved" /\ request[r].errand = "name"
    BY <1>6 DEF NameLook, Doing
  <2>2. row \in ErrandRow /\ row.user = request[r].user /\ row.errand = "name"
    BY <1>2, <2>1 DEF ErrandRow
  <2> HIDE DEF row
  <2> QED
    BY <1>1, <1>2, <2>1, <2>2, OnlyRequest DEF ErrandInv
<1>7. ASSUME NEW address \in Addresses, AddLook(r, address) PROVE AccountsInv'
  <2> DEFINE i == RowOf(address)
             row == [request[r] EXCEPT !.pc = "write", !.row = i, !.address = address]
  <2>1. /\ request' = [request EXCEPT ![r] = row] /\ UNCHANGED <<users, wallets, overlapped>>
        /\ request[r].pc = "resolved" /\ (i # 0 => wallets[i].user = request[r].user)
    BY <1>7 DEF AddLook, Doing
  <2>2. i \in 0 .. Len(wallets)
    BY <1>1, RowOfIs
  <2> HIDE DEF i
  <2>3. i \in 0 .. MaxWallets /\ (i # 0 => i \in 1 .. Len(wallets))
    BY <1>1, <2>2, MaxAssumption
  <2>4. row \in ErrandRow /\ row.user = request[r].user /\ row.row = i
    BY <1>2, <2>3 DEF ErrandRow
  <2> HIDE DEF row
  <2> QED
    BY <1>1, <1>2, <2>1, <2>3, <2>4, OnlyRequest DEF ErrandInv
<1>8. ASSUME NEW address \in Addresses, NEW authenticated \in BOOLEAN, Login(r, address, authenticated)
      PROVE  AccountsInv'
  <2> DEFINE row == [NoRequest EXCEPT !.pc = "new", !.address = address]
  <2>1. request' = [request EXCEPT ![r] = row] /\ UNCHANGED <<users, wallets, overlapped>>
    BY <1>8 DEF Login
  <2>2. row \in ErrandRow /\ row.user = NoUser /\ row.pc = "new"
    BY NoRequestTypes DEF ErrandRow
  <2> HIDE DEF row
  <2> QED
    BY <1>3, <2>1, <2>2, OnlyRequest
<1>9. ASSUME NEW i \in 1 .. MaxWallets, RemoveLook(r, i) PROVE AccountsInv'
  <2> DEFINE row == [request[r] EXCEPT !.pc = "write", !.row = i]
  <2>1. /\ request' = [request EXCEPT ![r] = row] /\ UNCHANGED <<users, wallets, overlapped>>
        /\ request[r].pc = "resolved" /\ i \in DOMAIN wallets /\ wallets[i].user = request[r].user
    BY <1>9 DEF RemoveLook, Doing
  <2>2. row \in ErrandRow /\ row.user = request[r].user /\ row.row = i
    <3>1. i \in 0 .. MaxWallets
      BY MaxAssumption
    <3> QED
      BY <1>2, <3>1 DEF ErrandRow
  <2> HIDE DEF row
  <2> QED
    BY <1>1, <1>2, <2>1, <2>2, OnlyRequest DEF ErrandInv
<1> QED
  BY <1>4, <1>5, <1>6, <1>7, <1>8, <1>9

\* A request that writes ends: what is left to show of it is what it wrote.
LEMMA WriteStep ==
    ASSUME AccountsInv, NEW r \in Logins, Over(r),
           users' \in Seq(UserRow), Len(users') <= MaxUsers, Len(users) <= Len(users'),
           wallets' \in Seq(WalletRow), Len(wallets') <= MaxWallets, Len(wallets) <= Len(wallets'),
           overlapped' \in SUBSET User,
           \A i \in 1 .. Len(wallets) : wallets'[i].user = wallets[i].user,
           \A i \in 1 .. Len(wallets') : wallets'[i].user \in 1 .. Len(users'),
           \A u \in 1 .. Len(users') : ErasedInv(u)'
    PROVE  AccountsInv'
  BY NoRequestTypes, RequestStep DEF Over

\* A row of an account is written, and none of its wallets.
LEMMA UserWriteKeeps ==
    ASSUME AccountsInv, NEW r \in Logins, NameSet(r) \/ Edit(r)
    PROVE  AccountsInv'
<1>1. /\ users \in Seq(UserRow) /\ wallets \in Seq(WalletRow) /\ overlapped \in SUBSET User
      /\ DOMAIN users = 1 .. Len(users) /\ DOMAIN wallets = 1 .. Len(wallets) /\ request \in [Logins -> ErrandRow]
      /\ Len(users) <= MaxUsers /\ Len(wallets) <= MaxWallets /\ Len(users) \in Nat /\ Len(wallets) \in Nat
  BY DEF AccountsInv, AccountsTypeOK
<1> PICK u : u = request[r].user
  OBVIOUS
<1>2. UNCHANGED <<wallets, overlapped>> /\ Over(r) /\ u \in 1 .. Len(users)
  BY <1>1 DEF NameSet, Edit, Doing, AccountsInv, ErrandInv
<1>3. PICK row \in UserRow : row.deleted = users[u].deleted /\ users' \in {users, [users EXCEPT ![u] = row]}
  <2>1. users[u] \in UserRow /\ request[r] \in ErrandRow
    BY <1>1, <1>2, ElementOfSeq
  <2>2. CASE NameSet(r)
    <3> DEFINE row == [users[u] EXCEPT !.username = request[r].name]
    <3>1. users' \in {users, [users EXCEPT ![u] = row]}
      BY <1>1, <1>2, <2>2 DEF NameSet
    <3>2. row \in UserRow /\ row.deleted = users[u].deleted
      BY <2>1 DEF UserRow, ErrandRow
    <3> QED
      BY <3>1, <3>2
  <2>3. CASE Edit(r)
    <3> DEFINE row == [users[u] EXCEPT !.data = TRUE]
    <3>1. users' = [users EXCEPT ![u] = row]
      BY <1>1, <1>2, <2>3 DEF Edit
    <3>2. row \in UserRow /\ row.deleted = users[u].deleted
      BY <2>1 DEF UserRow
    <3> QED
      BY <3>1, <3>2
  <2> QED
    BY <2>2, <2>3
<1>4. users' \in Seq(UserRow) /\ Len(users') = Len(users) /\ (\A v \in 1 .. Len(users) : v # u => users'[v] = users[v])
  <2>1. /\ [users EXCEPT ![u] = row] \in Seq(UserRow) /\ Len([users EXCEPT ![u] = row]) = Len(users)
        /\ \A v \in 1 .. Len(users) : [users EXCEPT ![u] = row][v] = IF v = u THEN row ELSE users[v]
    BY <1>1, <1>2, ExceptSeq
  <2> QED
    BY <1>1, <1>3, <2>1
<1>5. users'[u].deleted = users[u].deleted
  BY <1>1, <1>2, <1>3
<1>6. request' = [request EXCEPT ![r] = NoRequest] /\ NoRequest.user = NoUser
  BY <1>2, NoRequestTypes DEF Over
<1>7. ASSUME NEW v \in 1 .. Len(users') PROVE ErasedInv(v)'
  <2>1. ErasedInv(v) /\ v # NoUser
    BY <1>1, <1>4, <1>7, SentinelAssumption DEF AccountsInv
  <2>2. \A q \in Logins : request'[q] = request[q] \/ request'[q].user = NoUser
    BY <1>1, <1>6
  <2>3. CASE v # u
    BY <1>2, <1>4, <2>1, <2>2, <2>3 DEF ErasedInv
  <2>4. CASE v = u
    <3>1. users[u].deleted => u \in overlapped
      BY <2>1, <2>4 DEF ErasedInv
    <3> QED
      BY <1>2, <1>5, <2>4, <3>1 DEF ErasedInv
  <2> QED
    BY <2>3, <2>4
<1>8. \A i \in 1 .. Len(wallets') : wallets'[i].user \in 1 .. Len(users')
  BY <1>1, <1>2, <1>4 DEF AccountsInv
<1>9. /\ Len(users') <= MaxUsers /\ Len(users) <= Len(users')
      /\ wallets' \in Seq(WalletRow) /\ Len(wallets') <= MaxWallets /\ Len(wallets) <= Len(wallets')
      /\ overlapped' \in SUBSET User /\ \A i \in 1 .. Len(wallets) : wallets'[i].user = wallets[i].user
  BY <1>1, <1>2, <1>4
<1> QED
  BY <1>2, <1>4, <1>7, <1>8, <1>9, WriteStep

\* A wallet of an account is made active or inactive.
LEMMA WalletWriteKeeps ==
    ASSUME AccountsInv, NEW r \in Logins, Over(r), UNCHANGED <<users, overlapped>>,
           NEW i \in 1 .. Len(wallets), wallets[i].user = request[r].user, NEW b \in BOOLEAN,
           wallets' = [wallets EXCEPT ![i].isActive = b]
    PROVE  AccountsInv'
<1>1. /\ users \in Seq(UserRow) /\ wallets \in Seq(WalletRow) /\ overlapped \in SUBSET User
      /\ DOMAIN users = 1 .. Len(users) /\ DOMAIN wallets = 1 .. Len(wallets) /\ request \in [Logins -> ErrandRow]
      /\ Len(users) <= MaxUsers /\ Len(wallets) <= MaxWallets /\ Len(users) \in Nat /\ Len(wallets) \in Nat
  BY DEF AccountsInv, AccountsTypeOK
<1> DEFINE row == [wallets[i] EXCEPT !.isActive = b]
<1>2. wallets' = [wallets EXCEPT ![i] = row]
  BY <1>1
<1>3. row \in WalletRow /\ row.user = wallets[i].user /\ wallets[i] \in WalletRow
  <2>1. wallets[i] \in WalletRow
    BY <1>1, ElementOfSeq
  <2> QED
    BY <2>1 DEF WalletRow
<1> HIDE DEF row
<1>4. /\ wallets' \in Seq(WalletRow) /\ Len(wallets') = Len(wallets)
      /\ \A j \in 1 .. Len(wallets) : wallets'[j] = IF j = i THEN row ELSE wallets[j]
  <2>1. /\ [wallets EXCEPT ![i] = row] \in Seq(WalletRow) /\ Len([wallets EXCEPT ![i] = row]) = Len(wallets)
        /\ \A j \in 1 .. Len(wallets) : [wallets EXCEPT ![i] = row][j] = IF j = i THEN row ELSE wallets[j]
    BY <1>1, <1>3, ExceptSeq
  <2> QED
    BY <1>2, <2>1
<1>5. request' = [request EXCEPT ![r] = NoRequest] /\ NoRequest.user = NoUser
  BY NoRequestTypes DEF Over
<1>6. ASSUME NEW v \in 1 .. Len(users') PROVE ErasedInv(v)'
  <2>1. ErasedInv(v) /\ v # NoUser
    BY <1>1, <1>6, SentinelAssumption DEF AccountsInv
  <2>2. \A q \in Logins : request'[q] = request[q] \/ request'[q].user = NoUser
    BY <1>1, <1>5
  <2>3. DOMAIN wallets' = 1 .. Len(wallets)
    BY <1>4
  <2>4. CASE v # wallets[i].user
    <3>1. \A j \in DOMAIN wallets' : wallets'[j].user = v => wallets'[j] = wallets[j] /\ j \in DOMAIN wallets
      BY <1>1, <1>3, <1>4, <2>3, <2>4
    <3> QED
      BY <2>1, <2>2, <3>1 DEF ErasedInv
  <2>5. CASE v = wallets[i].user
    BY <2>1, <2>5 DEF ErasedInv
  <2> QED
    BY <2>4, <2>5
<1>7. /\ \A j \in 1 .. Len(wallets') : wallets'[j].user \in 1 .. Len(users')
      /\ \A j \in 1 .. Len(wallets) : wallets'[j].user = wallets[j].user
  BY <1>1, <1>3, <1>4 DEF AccountsInv
<1>8. /\ users' \in Seq(UserRow) /\ Len(users') <= MaxUsers /\ Len(users) <= Len(users')
      /\ Len(wallets') <= MaxWallets /\ Len(wallets) <= Len(wallets') /\ overlapped' \in SUBSET User
  BY <1>1, <1>4
<1> QED
  BY <1>4, <1>6, <1>7, <1>8, WriteStep

\* A wallet is added to an account that is there, or to a new one.
LEMMA WalletAddKeeps ==
    ASSUME AccountsInv, NEW r \in Logins, Over(r), overlapped' = overlapped,
           users' = users \/ (Len(users) < MaxUsers
                              /\ users' = Append(users, [username |-> NoName, data |-> FALSE, deleted |-> FALSE])),
           NEW u \in 1 .. Len(users'), u \in 1 .. Len(users) => request[r].user = u,
           NEW address \in Addresses \cup {Freed}, Len(wallets) < MaxWallets,
           wallets' = Append(wallets, [address |-> address, user |-> u, isActive |-> TRUE])
    PROVE  AccountsInv'
<1>1. /\ users \in Seq(UserRow) /\ wallets \in Seq(WalletRow) /\ overlapped \in SUBSET User
      /\ DOMAIN users = 1 .. Len(users) /\ DOMAIN wallets = 1 .. Len(wallets) /\ request \in [Logins -> ErrandRow]
      /\ Len(users) <= MaxUsers /\ Len(wallets) <= MaxWallets /\ Len(users) \in Nat /\ Len(wallets) \in Nat
  BY DEF AccountsInv, AccountsTypeOK
<1> DEFINE fresh == [username |-> NoName, data |-> FALSE, deleted |-> FALSE]
           row == [address |-> address, user |-> u, isActive |-> TRUE]
<1>2. fresh \in UserRow /\ fresh.deleted = FALSE
  BY DEF UserRow
<1>3. /\ users' \in Seq(UserRow) /\ Len(users') <= MaxUsers /\ Len(users) <= Len(users')
      /\ \A v \in 1 .. Len(users') : users'[v] = (IF v \in 1 .. Len(users) THEN users[v] ELSE fresh)
  <2>1. CASE users' = users
    BY <1>1, <2>1
  <2>2. CASE Len(users) < MaxUsers /\ users' = Append(users, fresh)
    <3>1. /\ users' \in Seq(UserRow) /\ Len(users') = Len(users) + 1 /\ users'[Len(users) + 1] = fresh
          /\ \A v \in 1 .. Len(users) : users'[v] = users[v]
      <4> HIDE DEF fresh
      <4>1. /\ Append(users, fresh) \in Seq(UserRow) /\ Len(Append(users, fresh)) = Len(users) + 1
            /\ Append(users, fresh)[Len(users) + 1] = fresh
            /\ \A v \in 1 .. Len(users) : Append(users, fresh)[v] = users[v]
        BY <1>1, <1>2, AppendProperties
      <4> QED
        BY <2>2, <4>1
    <3>2. \A v \in 1 .. Len(users') : v \in 1 .. Len(users) \/ v = Len(users) + 1
      BY <1>1, <3>1
    <3> HIDE DEF fresh
    <3>3. Len(users) + 1 \notin 1 .. Len(users) /\ Len(users') <= MaxUsers /\ Len(users) <= Len(users')
      <4>1. ASSUME NEW n \in Nat, n < MaxUsers
            PROVE  n + 1 \notin 1 .. n /\ n + 1 <= MaxUsers /\ n <= n + 1
        BY <4>1, MaxAssumption
      <4>2. Len(users) \in Nat /\ Len(users) < MaxUsers /\ Len(users') = Len(users) + 1
        BY <1>1, <2>2, <3>1
      <4> QED
        BY <4>1, <4>2, Zenon
    <3> QED
      BY <3>1, <3>2, <3>3
  <2> QED
    BY <2>1, <2>2
<1>4. row \in WalletRow /\ row.user = u
  BY <1>1, <1>3, MaxAssumption DEF WalletRow, User
<1> HIDE DEF fresh, row
<1>5. /\ wallets' \in Seq(WalletRow) /\ Len(wallets') = Len(wallets) + 1 /\ wallets'[Len(wallets) + 1] = row
      /\ \A j \in 1 .. Len(wallets) : wallets'[j] = wallets[j]
  BY <1>1, <1>4, AppendProperties DEF row
<1>6. request' = [request EXCEPT ![r] = NoRequest] /\ NoRequest.user = NoUser
  BY NoRequestTypes DEF Over
<1>7. ASSUME NEW v \in 1 .. Len(users') PROVE ErasedInv(v)'
  <2>1. CASE v \notin 1 .. Len(users)
    BY <1>2, <1>3, <2>1 DEF ErasedInv
  <2>2. CASE v \in 1 .. Len(users)
    <3>1. ErasedInv(v) /\ v # NoUser /\ users'[v] = users[v]
      BY <1>1, <1>3, <2>2, SentinelAssumption DEF AccountsInv
    <3>2. \A q \in Logins : request'[q] = request[q] \/ request'[q].user = NoUser
      BY <1>1, <1>6
    <3>3. CASE v = u
      BY <2>2, <3>1, <3>3 DEF ErasedInv
    <3>4. CASE v # u
      <4>1. \A j \in DOMAIN wallets' : wallets'[j].user = v => wallets'[j] = wallets[j] /\ j \in DOMAIN wallets
        BY <1>1, <1>4, <1>5, <3>4
      <4> SUFFICES ASSUME v \notin overlapped, users[v].deleted
                   PROVE  /\ users[v].username = NoName /\ ~users[v].data
                          /\ \A j \in DOMAIN wallets' : wallets'[j].user = v =>
                                 wallets'[j].address = Freed /\ ~wallets'[j].isActive
                          /\ \A q \in Logins : request'[q].user # v
        BY <3>1 DEF ErasedInv
      <4>2. users[v].username = NoName /\ ~users[v].data /\ \A q \in Logins : request[q].user # v
        BY <3>1 DEF ErasedInv
      <4>3. \A j \in DOMAIN wallets : wallets[j].user = v => wallets[j].address = Freed /\ ~wallets[j].isActive
        BY <3>1 DEF ErasedInv
      <4>4. \A q \in Logins : request'[q].user # v
        BY <3>1, <3>2, <4>2
      <4> QED
        BY <4>1, <4>2, <4>3, <4>4
    <3> QED
      BY <3>3, <3>4
  <2> QED
    BY <2>1, <2>2
<1>8. /\ \A j \in 1 .. Len(wallets') : wallets'[j].user \in 1 .. Len(users')
      /\ \A j \in 1 .. Len(wallets) : wallets'[j].user = wallets[j].user
  BY <1>1, <1>3, <1>4, <1>5 DEF AccountsInv
<1>9. Len(wallets') <= MaxWallets /\ Len(wallets) <= Len(wallets') /\ overlapped' \in SUBSET User
  BY <1>1, <1>5, MaxAssumption
<1> QED
  BY <1>3, <1>5, <1>7, <1>8, <1>9, WriteStep

\* An account is erased; if another request holds it, it is remembered as overlapped.
LEMMA EraseKeeps ==
    ASSUME AccountsInv, NEW r \in Logins, Erase(r)
    PROVE  AccountsInv'
<1>1. /\ users \in Seq(UserRow) /\ wallets \in Seq(WalletRow) /\ overlapped \in SUBSET User
      /\ DOMAIN users = 1 .. Len(users) /\ DOMAIN wallets = 1 .. Len(wallets) /\ request \in [Logins -> ErrandRow]
      /\ Len(users) <= MaxUsers /\ Len(wallets) <= MaxWallets /\ Len(users) \in Nat /\ Len(wallets) \in Nat
  BY DEF AccountsInv, AccountsTypeOK
<1> PICK u : u = request[r].user
  OBVIOUS
<1> DEFINE tomb == [username |-> NoName, data |-> FALSE, deleted |-> TRUE]
<1>2. /\ u \in 1 .. Len(users) /\ u \in User /\ users' = [users EXCEPT ![u] = tomb] /\ Over(r)
      /\ wallets' = [i \in 1 .. Len(wallets) |-> IF wallets[i].user = u THEN ScrubWallet(wallets[i]) ELSE wallets[i]]
      /\ overlapped' = IF \E q \in Logins \ {r} : request[q].user = u THEN overlapped \cup {u} ELSE overlapped
  <2>1. u \in 1 .. Len(users)
    BY <1>1 DEF Erase, Doing, AccountsInv, ErrandInv
  <2>2. u \in User
    BY <1>1, <2>1, MaxAssumption DEF User
  <2> QED
    BY <1>1, <2>1, <2>2 DEF Erase
<1>3. tomb \in UserRow /\ tomb.username = NoName /\ tomb.data = FALSE
  BY DEF UserRow
<1> HIDE DEF tomb
<1>4. /\ users' \in Seq(UserRow) /\ Len(users') = Len(users)
      /\ \A v \in 1 .. Len(users) : users'[v] = IF v = u THEN tomb ELSE users[v]
  <2>1. /\ [users EXCEPT ![u] = tomb] \in Seq(UserRow) /\ Len([users EXCEPT ![u] = tomb]) = Len(users)
        /\ \A v \in 1 .. Len(users) : [users EXCEPT ![u] = tomb][v] = IF v = u THEN tomb ELSE users[v]
    BY <1>1, <1>2, <1>3, ExceptSeq
  <2> QED
    BY <1>2, <2>1
<1>5. ASSUME NEW w \in WalletRow
      PROVE  /\ ScrubWallet(w) \in WalletRow /\ ScrubWallet(w).user = w.user
             /\ ScrubWallet(w).address = Freed /\ ScrubWallet(w).isActive = FALSE
  BY DEF WalletRow, ScrubWallet
<1>6. \A i \in 1 .. Len(wallets) : wallets[i] \in WalletRow
  BY <1>1, ElementOfSeq
<1>7. wallets' \in Seq(WalletRow) /\ Len(wallets') = Len(wallets)
  <2>1. wallets' \in [1 .. Len(wallets) -> WalletRow]
    BY <1>2, <1>5, <1>6
  <2>2. wallets' \in Seq(WalletRow) /\ DOMAIN wallets' = 1 .. Len(wallets)
    BY <1>1, <2>1, SeqDef
  <2> QED
    BY <1>1, <2>2
<1>8. \A i \in 1 .. Len(wallets) : /\ wallets'[i].user = wallets[i].user
                                   /\ wallets[i].user # u => wallets'[i] = wallets[i]
                                   /\ wallets[i].user = u => wallets'[i].address = Freed /\ ~wallets'[i].isActive
  BY <1>2, <1>5, <1>6
<1>9. request' = [request EXCEPT ![r] = NoRequest] /\ NoRequest.user = NoUser
  BY <1>2, NoRequestTypes DEF Over
<1>10. ASSUME NEW v \in 1 .. Len(users') PROVE ErasedInv(v)'
  <2>1. ErasedInv(v) /\ v # NoUser
    BY <1>1, <1>4, <1>10, SentinelAssumption DEF AccountsInv
  <2>2. DOMAIN wallets' = 1 .. Len(wallets)
    BY <1>7
  <2>3. \A q \in Logins : request'[q] = IF q = r THEN NoRequest ELSE request[q]
    BY <1>1, <1>9
  <2>4. CASE v # u
    <3>1. SUFFICES ASSUME v \notin overlapped', users'[v].deleted
                   PROVE  /\ users'[v].username = NoName /\ ~users'[v].data
                          /\ \A i \in DOMAIN wallets' : wallets'[i].user = v =>
                                 wallets'[i].address = Freed /\ ~wallets'[i].isActive
                          /\ \A q \in Logins : request'[q].user # v
      BY DEF ErasedInv
    <3>2. v \notin overlapped /\ users[v].deleted /\ users'[v] = users[v]
      BY <1>2, <1>4, <2>4, <3>1
    <3>3. users[v].username = NoName /\ ~users[v].data /\ \A q \in Logins : request[q].user # v
      BY <2>1, <3>2 DEF ErasedInv
    <3>4. \A i \in DOMAIN wallets : wallets[i].user = v => wallets[i].address = Freed /\ ~wallets[i].isActive
      BY <2>1, <3>2 DEF ErasedInv
    <3>5. \A q \in Logins : request'[q].user # v
      BY <1>9, <2>1, <2>3, <3>3
    <3>6. \A i \in DOMAIN wallets' : wallets'[i].user = v => wallets'[i].address = Freed /\ ~wallets'[i].isActive
      BY <1>1, <1>8, <2>2, <2>4, <3>4
    <3> QED
      BY <3>2, <3>3, <3>5, <3>6
  <2>5. CASE v = u
    <3>1. SUFFICES ASSUME v \notin overlapped'
                   PROVE  /\ users'[v].username = NoName /\ ~users'[v].data
                          /\ \A i \in DOMAIN wallets' : wallets'[i].user = v =>
                                 wallets'[i].address = Freed /\ ~wallets'[i].isActive
                          /\ \A q \in Logins : request'[q].user # v
      BY DEF ErasedInv
    <3>2. \A q \in Logins \ {r} : request[q].user # u
      BY <1>2, <2>5, <3>1
    <3>3. \A q \in Logins : request'[q].user # v
      BY <1>9, <2>1, <2>3, <2>5, <3>2
    <3>4. users'[v].username = NoName /\ ~users'[v].data
      BY <1>2, <1>3, <1>4, <2>5
    <3> QED
      BY <1>8, <2>2, <2>5, <3>3, <3>4
  <2> QED
    BY <2>4, <2>5
<1>11. /\ \A i \in 1 .. Len(wallets') : wallets'[i].user \in 1 .. Len(users')
       /\ \A i \in 1 .. Len(wallets) : wallets'[i].user = wallets[i].user
  BY <1>1, <1>4, <1>7, <1>8 DEF AccountsInv
<1>12. /\ Len(users') <= MaxUsers /\ Len(users) <= Len(users') /\ Len(wallets') <= MaxWallets
       /\ Len(wallets) <= Len(wallets') /\ overlapped' \in SUBSET User
  BY <1>1, <1>2, <1>4, <1>7
<1> QED
  BY <1>2, <1>4, <1>7, <1>10, <1>11, <1>12, WriteStep

\* An account is registered; a wallet is added or taken away.
LEMMA WalletsKeep ==
    ASSUME AccountsInv, NEW r \in Logins, LoginCreate(r) \/ AddWrite(r) \/ RemoveWrite(r)
    PROVE  AccountsInv'
<1>1. /\ users \in Seq(UserRow) /\ wallets \in Seq(WalletRow) /\ overlapped \in SUBSET User
      /\ DOMAIN users = 1 .. Len(users) /\ DOMAIN wallets = 1 .. Len(wallets) /\ request \in [Logins -> ErrandRow]
      /\ Len(users) <= MaxUsers /\ Len(wallets) <= MaxWallets /\ Len(users) \in Nat /\ Len(wallets) \in Nat
  BY DEF AccountsInv, AccountsTypeOK
<1>2. /\ Over(r) /\ overlapped' = overlapped /\ request[r] \in ErrandRow /\ ErrandInv(r)
      /\ request[r].address \in Addresses \cup {Freed}
  BY <1>1 DEF LoginCreate, AddWrite, RemoveWrite, AccountsInv, ErrandRow
<1>3. ASSUME UNCHANGED <<users, wallets>> PROVE AccountsInv'
  <2>1. /\ request' = [request EXCEPT ![r] = NoRequest] /\ UNCHANGED <<users, wallets, overlapped>>
        /\ \A u \in 1 .. Len(users) : NoRequest.user # u
    BY <1>2, <1>3, NoRequestTypes, SentinelAssumption DEF Over
  <2> QED
    BY <2>1, NoRequestTypes, OnlyRequest
<1>4. CASE LoginCreate(r)
  <2>1. CASE RowOf(request[r].address) # 0
    BY <1>3, <1>4, <2>1 DEF LoginCreate
  <2>2. CASE RowOf(request[r].address) = 0
    <3>1. /\ Len(users) < MaxUsers /\ Len(wallets) < MaxWallets
          /\ users' = Append(users, [username |-> NoName, data |-> FALSE, deleted |-> FALSE])
          /\ wallets' = Append(wallets, [address |-> request[r].address, user |-> Len(users) + 1, isActive |-> TRUE])
      BY <1>4, <2>2 DEF LoginCreate
    <3>2. [username |-> NoName, data |-> FALSE, deleted |-> FALSE] \in UserRow
      BY DEF UserRow
    <3>3. Len(users') = Len(users) + 1
      BY <1>1, <3>1, <3>2, AppendProperties
    <3>4. Len(users) + 1 \in 1 .. Len(users') /\ Len(users) + 1 \notin 1 .. Len(users)
      BY <1>1, <3>3
    <3> QED
      BY <1>2, <3>1, <3>4, WalletAddKeeps
  <2> QED
    BY <2>1, <2>2
<1>5. CASE AddWrite(r)
  <2> DEFINE i == request[r].row
  <2>1. request[r].pc = "write" /\ request[r].errand = "add" /\ request[r].user \in 1 .. Len(users) /\ users' = users
    BY <1>1, <1>2, <1>5 DEF AddWrite, Doing, ErrandInv
  <2>2. CASE i # 0
    <3>1. i \in 1 .. Len(wallets) /\ wallets[i].user = request[r].user
      BY <1>1, <1>2, <2>1, <2>2 DEF ErrandInv
    <3>2. wallets' = [wallets EXCEPT ![i].isActive = TRUE]
      BY <1>5, <2>2 DEF AddWrite
    <3> QED
      BY <1>2, <2>1, <3>1, <3>2, WalletWriteKeeps
  <2>3. CASE i = 0 /\ RowOf(request[r].address) # 0
    BY <1>3, <1>5, <2>1, <2>3 DEF AddWrite
  <2>4. CASE i = 0 /\ RowOf(request[r].address) = 0
    <3>1. /\ Len(wallets) < MaxWallets
          /\ wallets' = Append(wallets, [address |-> request[r].address, user |-> request[r].user, isActive |-> TRUE])
      BY <1>5, <2>4 DEF AddWrite
    <3> QED
      BY <1>2, <2>1, <3>1, WalletAddKeeps
  <2> QED
    BY <2>2, <2>3, <2>4
<1>6. CASE RemoveWrite(r)
  <2> DEFINE i == request[r].row
  <2>1. /\ request[r].pc = "write" /\ request[r].errand = "remove" /\ users' = users
        /\ wallets' = [wallets EXCEPT ![i].isActive = FALSE]
    BY <1>6 DEF RemoveWrite, Doing
  <2>2. CASE i # 0
    <3>1. i \in 1 .. Len(wallets) /\ wallets[i].user = request[r].user
      BY <1>1, <1>2, <2>1, <2>2 DEF ErrandInv
    <3> QED
      BY <1>2, <2>1, <3>1, WalletWriteKeeps
  <2>3. CASE i = 0
    <3>1. wallets' = wallets
      BY <1>1, <2>1, <2>3
    <3> QED
      BY <1>3, <2>1, <3>1
  <2> QED
    BY <2>2, <2>3
<1> QED
  BY <1>4, <1>5, <1>6

\* Whatever requests of a user overlap, AccountsInv holds: it is inductive.
THEOREM AccountsInvariant == AccountsSpec => []AccountsInv
<1>1. AccountsInit => AccountsInv
  BY AccountsInitial
<1>2. AccountsInv /\ [AccountsNext]_accountVars => AccountsInv'
  <2> SUFFICES ASSUME AccountsInv, [AccountsNext]_accountVars PROVE AccountsInv'
    OBVIOUS
  <2>1. CASE UNCHANGED accountVars
    BY <2>1 DEF accountVars, AccountsInv, AccountsTypeOK, ErrandInv, ErasedInv
  <2>2. CASE AccountsNext
    <3> PICK r \in Logins :
            \/ LoginCreate(r) \/ RequestEnds(r)
            \/ \E errand \in Errands : Resolve(r, errand)
            \/ \E name \in UserNames : NameLook(r, name)
            \/ NameSet(r) \/ Edit(r) \/ AddWrite(r) \/ RemoveWrite(r) \/ Erase(r)
            \/ \E address \in Addresses :
                \/ AddLook(r, address)
                \/ \E authenticated \in BOOLEAN : Login(r, address, authenticated)
            \/ \E row \in 1 .. MaxWallets : RemoveLook(r, row)
      BY <2>2 DEF AccountsNext
    <3> QED
      BY LookKeeps, UserWriteKeeps, WalletsKeep, EraseKeeps
  <2> QED
    BY <2>1, <2>2
<1> QED
  BY <1>1, <1>2, PTL DEF AccountsSpec

\* The scrub of a deleted account leaves a row that is nobody's: no name, no data, no
\* address that leads to it, unless a request had resolved the account before the scrub.
THEOREM ErasedIsNobody == AccountsSpec => []TombstoneIsNobody
<1>1. AccountsInv => TombstoneIsNobody
  BY DEF AccountsInv, ErasedInv, TombstoneIsNobody
<1> QED
  BY <1>1, AccountsInvariant, PTL

\* A name that was chosen never changes: only the scrub takes it away (users.service.ts
\* setUsername, whatever two requests of the user looked at before they wrote).
THEOREM NamesAreKept == AccountsSpec => NameIsPermanent
<1> DEFINE Kept == \A u \in DOMAIN users :
                       users[u].username \notin {NoName, users'[u].username} => users'[u].deleted
<1>1. AccountsInv /\ [AccountsNext]_accountVars => [Kept]_accountVars
  <2> SUFFICES ASSUME AccountsInv, AccountsNext PROVE Kept
    OBVIOUS
  <2>1. users \in Seq(UserRow) /\ DOMAIN users = 1 .. Len(users) /\ Len(users) \in Nat
    BY DEF AccountsInv, AccountsTypeOK
  <2>2. ASSUME NEW r \in Logins, NameSet(r) PROVE Kept
    BY <2>1, <2>2 DEF NameSet, Namable
  <2>3. ASSUME NEW r \in Logins, Edit(r) PROVE Kept
    <3> SUFFICES ASSUME NEW u \in DOMAIN users PROVE users'[u].username = users[u].username
      OBVIOUS
    <3>1. users[u] \in UserRow
      BY <2>1, ElementOfSeq
    <3> QED
      BY <2>1, <2>3, <3>1 DEF Edit, UserRow
  <2>4. ASSUME NEW r \in Logins, Erase(r) PROVE Kept
    BY <2>1, <2>4 DEF Erase
  <2>5. ASSUME NEW r \in Logins, LoginCreate(r) PROVE Kept
    <3>1. [username |-> NoName, data |-> FALSE, deleted |-> FALSE] \in UserRow
      BY DEF UserRow
    <3>2. \A u \in 1 .. Len(users) :
            Append(users, [username |-> NoName, data |-> FALSE, deleted |-> FALSE])[u] = users[u]
      BY <2>1, <3>1, AppendProperties
    <3>3. users' \in {users, Append(users, [username |-> NoName, data |-> FALSE, deleted |-> FALSE])}
      BY <2>5 DEF LoginCreate
    <3> QED
      BY <2>1, <3>2, <3>3
  <2>6. CASE users' = users
    BY <2>6
  <2> HIDE DEF Kept
  <2> QED
    BY <2>2, <2>3, <2>4, <2>5, <2>6
       DEF AccountsNext, RequestEnds, Resolve, NameLook, AddWrite, RemoveWrite, AddLook, Login, RemoveLook
<1> QED
  BY <1>1, AccountsInvariant, PTL DEF AccountsSpec, NameIsPermanent

-----------------------------------------------------------------------------
(* Values and prices.                                                      *)

\* How old a price may be that is not flagged.
Vouched == StaleAfter + PriceTtl

\* A price that is not flagged is at most so old.
Sound(price, age) == price.known /\ ~price.stale => price.age <= age

\* The time a cached price has left is not yet in its age.
CacheInv(a) == priceCache[a].left > 0 => Sound(priceCache[a].price, Vouched - priceCache[a].left)

\* What a valuation has got: prices that are as recent as they should be, the ones it
\* is going to cache as the oracle gave them, and the positions of the vaults it has read.
ValuerInv(r) ==
    LET c == valuer[r] IN
    /\ \A a \in Assets : Sound(c.price[a], Vouched)
    /\ \A a \in c.keep : a \notin c.ask /\ Sound(c.price[a], StaleAfter)
    /\ c.oldest <= Vouched
    /\ c.todo \subseteq c.scope
    /\ c.counted \subseteq c.scope
    /\ c.kind = "answered" => c.todo = {}
    /\ c.kind \in {"summary", "answered"} /\ c.quiet /\ ~c.anyUnpriced =>
        c.counted = (held \cap c.scope) \ c.todo

\* The inductive invariant of the valuations.
ValueInv ==
    /\ ValueTypeOK
    /\ \A a \in Assets : CacheInv(a)
    /\ \A r \in Valuers : ValuerInv(r)

\* The constants are numbers, and an unflagged price has an age.
LEMMA AgesAre ==
    Ages = 0 .. Vouched + 1 /\ Vouched \in Nat /\ StaleAfter \in Nat /\ PriceTtl \in Nat \ {0} /\ StaleAfter <= Vouched
  BY PriceTtlAssumption, StaleAfterAssumption DEF Ages, Vouched

\* A price that nobody knows is flagged.
LEMMA UnknownIs == Unknown \in Price /\ ~Unknown.known /\ Unknown.stale
  BY AgesAre DEF Unknown, Price

\* A valuation that has ended has nothing.
LEMMA NoValuerIs ==
    /\ NoValuer \in ValuerRow /\ NoValuer.kind = "idle" /\ NoValuer.counted = {} /\ NoValuer.keep = {}
    /\ NoValuer.price = [a \in Assets |-> Unknown] /\ NoValuer.oldest = 0 /\ NoValuer.todo = {}
    /\ NoValuer.scope = {}
  BY AgesAre, UnknownIs DEF NoValuer, ValuerRow

\* A valuation that begins, or none.
LEMMA FreshValuer ==
    ASSUME NEW r \in Valuers, valuer'[r].keep = {}, valuer'[r].price = [a \in Assets |-> Unknown],
           valuer'[r].oldest = 0, valuer'[r].counted = {}, valuer'[r].todo = valuer'[r].scope,
           valuer'[r].kind # "answered"
    PROVE  ValuerInv(r)'
<1>1. \A a \in Assets : Sound(valuer'[r].price[a], Vouched)
  BY UnknownIs DEF Sound
<1> QED
  BY <1>1, AgesAre DEF ValuerInv

\* The initial states satisfy the invariant.
LEMMA ValueInitial == ValueInit => ValueInv
<1> SUFFICES ASSUME ValueInit PROVE ValueInv
  OBVIOUS
<1>1. NoPrice \in CachedPrice /\ NoPrice.left = 0
  BY UnknownIs, AgesAre DEF NoPrice, CachedPrice
<1>2. ValueTypeOK
  BY <1>1, NoValuerIs, AgesAre DEF ValueInit, ValueTypeOK
<1>3. \A a \in Assets : CacheInv(a)
  BY <1>1 DEF ValueInit, CacheInv
<1>4. \A r \in Valuers : ValuerInv(r)
  <2> SUFFICES ASSUME NEW r \in Valuers PROVE ValuerInv(r)
    OBVIOUS
  <2>1. valuer[r] = NoValuer
    BY DEF ValueInit
  <2>2. \A a \in Assets : Sound(valuer[r].price[a], Vouched)
    BY <2>1, NoValuerIs, UnknownIs DEF Sound
  <2> QED
    BY <2>1, <2>2, NoValuerIs, AgesAre DEF ValuerInv
<1> QED
  BY <1>2, <1>3, <1>4 DEF ValueInv

\* A step of one valuation.
LEMMA ValuerSteps ==
    ASSUME ValueInv, NEW r \in Valuers, NEW row \in ValuerRow, valuer' = [valuer EXCEPT ![r] = row],
           held' = held, shown' = shown, oracle' = oracle, touched' \in SUBSET Vaults,
           priceCache' \in [Assets -> CachedPrice],
           \A a \in Assets : CacheInv(a)', ValuerInv(r)'
    PROVE  ValueInv'
<1>1. valuer' \in [Valuers -> ValuerRow] /\ valuer \in [Valuers -> ValuerRow]
  BY DEF ValueInv, ValueTypeOK
<1>2. ASSUME NEW q \in Valuers PROVE ValuerInv(q)'
  <2>1. CASE q = r
    BY <2>1
  <2>2. CASE q # r
    <3>1. valuer'[q] = valuer[q] /\ ValuerInv(q)
      BY <1>1, <2>2 DEF ValueInv
    <3> QED
      BY <3>1 DEF ValuerInv
  <2> QED
    BY <2>1, <2>2
<1>3. \A q \in Valuers : valuer'[q].counted \subseteq valuer'[q].scope
  BY <1>2 DEF ValuerInv
<1>4. ValueTypeOK'
  BY <1>1, <1>3 DEF ValueInv, ValueTypeOK
<1> QED
  BY <1>2, <1>4 DEF ValueInv

\* ... that touches nothing else.
LEMMA ValuerAlone ==
    ASSUME ValueInv, NEW r \in Valuers, NEW row \in ValuerRow, valuer' = [valuer EXCEPT ![r] = row],
           UNCHANGED <<held, touched, shown, oracle, priceCache>>,
           valuer'[r] = row => ValuerInv(r)'
    PROVE  ValueInv'
<1>1. valuer'[r] = row
  BY DEF ValueInv, ValueTypeOK
<1>2. \A a \in Assets : CacheInv(a)'
  BY DEF ValueInv, CacheInv
<1>3. touched' \in SUBSET Vaults /\ priceCache' \in [Assets -> CachedPrice]
  BY DEF ValueInv, ValueTypeOK
<1> QED
  BY <1>1, <1>2, <1>3, ValuerSteps

\* Money moves: no valuation on its way promises a total any more.
LEMMA MoneyKeeps ==
    ASSUME ValueInv, NEW v \in Vaults, Withdraws(v) \/ \E through \in BOOLEAN : Deposits(v, through)
    PROVE  ValueInv'
<1>1. /\ held' \in SUBSET Vaults /\ touched' \in SUBSET Vaults /\ valuer' = Stirred
      /\ UNCHANGED <<shown, oracle, priceCache>> /\ valuer \in [Valuers -> ValuerRow]
  BY DEF ValueInv, ValueTypeOK, Withdraws, Deposits
<1>2. ASSUME NEW r \in Valuers PROVE valuer'[r] \in ValuerRow /\ ValuerInv(r)'
  <2>1. valuer[r] \in ValuerRow /\ ValuerInv(r)
    BY <1>1 DEF ValueInv
  <2>2. CASE valuer[r].kind = "idle"
    <3>1. valuer'[r] = valuer[r]
      BY <1>1, <2>2 DEF Stirred
    <3> QED
      BY <2>1, <2>2, <3>1 DEF ValuerInv
  <2>3. CASE valuer[r].kind # "idle"
    <3> DEFINE row == [valuer[r] EXCEPT !.quiet = FALSE]
    <3>1. valuer'[r] = row
      BY <1>1, <2>3 DEF Stirred
    <3>2. /\ row \in ValuerRow /\ row.quiet = FALSE /\ row.price = valuer[r].price /\ row.keep = valuer[r].keep
          /\ row.ask = valuer[r].ask /\ row.oldest = valuer[r].oldest /\ row.todo = valuer[r].todo
          /\ row.scope = valuer[r].scope /\ row.counted = valuer[r].counted /\ row.kind = valuer[r].kind
      BY <2>1 DEF ValuerRow
    <3> HIDE DEF row
    <3> QED
      BY <2>1, <3>1, <3>2 DEF ValuerInv
  <2> QED
    BY <2>2, <2>3
<1>3. valuer' \in [Valuers -> ValuerRow]
  BY <1>1, <1>2 DEF Stirred
<1>4. ValueTypeOK'
  BY <1>1, <1>2, <1>3 DEF ValueInv, ValueTypeOK, ValuerInv
<1>5. \A a \in Assets : CacheInv(a)'
  BY <1>1 DEF ValueInv, CacheInv
<1> QED
  BY <1>2, <1>4, <1>5 DEF ValueInv

\* A valuation begins, or is over.
LEMMA StartKeeps ==
    ASSUME ValueInv, NEW r \in Valuers,
           StartSummary(r) \/ ValuerLeaves(r) \/ SummaryEnd(r) \/ \E fullSweep \in BOOLEAN : StartSnapshot(r, fullSweep)
    PROVE  ValueInv'
<1>1. /\ UNCHANGED <<held, touched, shown, oracle, priceCache>> /\ shown \in SUBSET Vaults
      /\ touched \in SUBSET Vaults /\ valuer[r] \in ValuerRow /\ ValuerInv(r)
  BY DEF ValueInv, ValueTypeOK, StartSummary, ValuerLeaves, SummaryEnd, StartSnapshot, Starts
<1>2. ASSUME NEW kind \in {"summary", "snapshot"}, NEW scope \in SUBSET Vaults, Starts(r, kind, scope)
      PROVE  ValueInv'
  <2> DEFINE row == [NoValuer EXCEPT !.kind = kind, !.scope = scope, !.todo = scope,
                                     !.ask = {AssetOf[v] : v \in shown}]
  <2>1. valuer' = [valuer EXCEPT ![r] = row]
    BY <1>2 DEF Starts
  <2>2. {AssetOf[v] : v \in shown} \in SUBSET Assets
    BY <1>1, AssetOfAssumption
  <2>3. row \in ValuerRow
    BY <2>2, NoValuerIs DEF ValuerRow
  <2>4. /\ row.kind = kind /\ row.scope = scope /\ row.todo = scope /\ row.keep = {} /\ row.counted = {}
        /\ row.oldest = 0 /\ row.price = [a \in Assets |-> Unknown]
    BY NoValuerIs DEF ValuerRow
  <2> HIDE DEF row
  <2>5. valuer'[r] = row => ValuerInv(r)'
    <3> SUFFICES ASSUME valuer'[r] = row PROVE ValuerInv(r)'
      OBVIOUS
    <3>1. \A a \in Assets : Sound(valuer'[r].price[a], Vouched)
      BY <2>4, UnknownIs DEF Sound
    <3>2. kind = "summary" => valuer'[r].counted = (held' \cap valuer'[r].scope) \ valuer'[r].todo
      BY <2>4
    <3> QED
      BY <2>4, <3>1, <3>2, AgesAre DEF ValuerInv
  <2> QED
    BY <1>1, <2>1, <2>3, <2>5, ValuerAlone
<1>3. CASE StartSummary(r)
  BY <1>1, <1>2, <1>3 DEF StartSummary
<1>4. ASSUME NEW fullSweep \in BOOLEAN, StartSnapshot(r, fullSweep) PROVE ValueInv'
  BY <1>1, <1>2, <1>4 DEF StartSnapshot, VaultsTouchedBy
<1>5. CASE ValuerLeaves(r)
  <2>1. valuer' = [valuer EXCEPT ![r] = NoValuer]
    BY <1>5 DEF ValuerLeaves
  <2>2. valuer'[r] = NoValuer => ValuerInv(r)'
    <3> SUFFICES ASSUME valuer'[r] = NoValuer PROVE ValuerInv(r)'
      OBVIOUS
    <3> QED
      BY NoValuerIs, UnknownIs, AgesAre DEF ValuerInv, Sound
  <2> QED
    BY <1>1, <2>1, <2>2, NoValuerIs, ValuerAlone
<1>6. CASE SummaryEnd(r)
  <2> DEFINE row == [valuer[r] EXCEPT !.kind = "answered"]
  <2>1. valuer' = [valuer EXCEPT ![r] = row] /\ valuer[r].kind = "summary" /\ valuer[r].todo = {}
    BY <1>6 DEF SummaryEnd, ValueInv, ValueTypeOK
  <2>2. /\ row \in ValuerRow /\ row.quiet = valuer[r].quiet /\ row.price = valuer[r].price /\ row.keep = valuer[r].keep
        /\ row.ask = valuer[r].ask /\ row.oldest = valuer[r].oldest /\ row.todo = valuer[r].todo
        /\ row.scope = valuer[r].scope /\ row.counted = valuer[r].counted /\ row.anyUnpriced = valuer[r].anyUnpriced
    BY <1>1 DEF ValuerRow
  <2> HIDE DEF row
  <2>3. valuer'[r] = row => ValuerInv(r)'
    BY <1>1, <2>1, <2>2 DEF ValuerInv
  <2> QED
    BY <1>1, <2>1, <2>2, <2>3, ValuerAlone
<1> QED
  BY <1>3, <1>4, <1>5, <1>6

\* A price comes, from the cache or from the oracle.
LEMMA PriceKeeps ==
    ASSUME ValueInv, NEW r \in Valuers, NEW a \in Assets,
           PriceCached(r, a) \/ \E answers \in BOOLEAN : PriceAsked(r, a, answers)
    PROVE  ValueInv'
<1>1. /\ UNCHANGED <<held, touched, shown, oracle, priceCache>> /\ a \in valuer[r].ask
      /\ valuer[r] \in ValuerRow /\ ValuerInv(r) /\ valuer \in [Valuers -> ValuerRow]
  BY DEF ValueInv, ValueTypeOK, PriceCached, PriceAsked
<1>2. ASSUME NEW price \in Price, Sound(price, Vouched), NEW keep \in SUBSET Assets,
             keep = valuer[r].keep \/ (keep = valuer[r].keep \cup {a} /\ Sound(price, StaleAfter)),
             valuer' = [valuer EXCEPT ![r] = Priced([valuer[r] EXCEPT !.keep = keep], a, price)]
      PROVE  ValueInv'
  <2> DEFINE c == [valuer[r] EXCEPT !.keep = keep]
             row == [c EXCEPT !.ask = c.ask \ {a}, !.price = [c.price EXCEPT ![a] = price]]
  <2>0. /\ c \in ValuerRow /\ c.quiet = valuer[r].quiet /\ c.price = valuer[r].price /\ c.keep = keep
        /\ c.ask = valuer[r].ask /\ c.oldest = valuer[r].oldest /\ c.todo = valuer[r].todo
        /\ c.scope = valuer[r].scope /\ c.counted = valuer[r].counted
        /\ c.anyUnpriced = valuer[r].anyUnpriced /\ c.kind = valuer[r].kind
    BY <1>1 DEF ValuerRow
  <2>5. valuer' = [valuer EXCEPT ![r] = row]
    BY <1>2 DEF Priced
  <2> HIDE DEF c
  <2>1. row \in ValuerRow
    BY <2>0 DEF ValuerRow
  <2>2. /\ row.quiet = valuer[r].quiet /\ row.price = [valuer[r].price EXCEPT ![a] = price]
        /\ row.keep = keep /\ row.ask = valuer[r].ask \ {a} /\ row.oldest = valuer[r].oldest
        /\ row.todo = valuer[r].todo /\ row.scope = valuer[r].scope /\ row.counted = valuer[r].counted
        /\ row.anyUnpriced = valuer[r].anyUnpriced /\ row.kind = valuer[r].kind
    BY <2>0 DEF ValuerRow
  <2>3. \A b \in Assets : row.price[b] = IF b = a THEN price ELSE valuer[r].price[b]
    BY <1>1, <2>2 DEF ValuerRow
  <2>4. row.keep \subseteq Assets
    BY <2>1 DEF ValuerRow
  <2> HIDE DEF row
  <2>6. \A b \in Assets : Sound(row.price[b], Vouched)
    BY <1>1, <1>2, <2>3 DEF ValuerInv
  <2>7. \A b \in row.keep : b \notin row.ask /\ Sound(row.price[b], StaleAfter)
    BY <1>1, <1>2, <2>2, <2>3, <2>4 DEF ValuerInv
  <2>8. valuer'[r] = row => ValuerInv(r)'
    BY <1>1, <2>2, <2>6, <2>7 DEF ValuerInv
  <2> QED
    BY <1>1, <2>1, <2>5, <2>8, ValuerAlone
<1>3. CASE PriceCached(r, a)
  <2>1. priceCache[a] \in CachedPrice /\ priceCache[a].left > 0 /\ CacheInv(a)
    BY <1>3 DEF PriceCached, ValueInv, ValueTypeOK
  <2>2. priceCache[a].price \in Price /\ priceCache[a].left \in Nat
    BY <2>1 DEF CachedPrice
  <2>3. Sound(priceCache[a].price, Vouched)
    BY <2>1, <2>2, AgesAre DEF CacheInv, Sound, Price
  <2>4. valuer' = [valuer EXCEPT ![r] = Priced([valuer[r] EXCEPT !.keep = valuer[r].keep], a, priceCache[a].price)]
    <3>1. [valuer[r] EXCEPT !.keep = valuer[r].keep] = valuer[r]
      BY <1>1 DEF ValuerRow
    <3> QED
      BY <1>3, <3>1 DEF PriceCached
  <2>5. valuer[r].keep \in SUBSET Assets
    BY <1>1 DEF ValuerRow
  <2> QED
    BY <1>2, <2>2, <2>3, <2>4, <2>5
<1>4. ASSUME NEW answers \in BOOLEAN, PriceAsked(r, a, answers) PROVE ValueInv'
  <2> DEFINE price == IF answers /\ a \in Feeds THEN Quote(a) ELSE Fallback(a)
  <2>1. price \in Price /\ Sound(price, StaleAfter)
    <3>1. ASSUME a \in Feeds PROVE Quote(a) \in Price /\ Sound(Quote(a), StaleAfter)
      <4>1. oracle[a] \in Ages /\ Ages \subseteq Nat
        BY <3>1, AgesAre DEF ValueInv, ValueTypeOK
      <4> QED
        <5>1. (oracle[a] > StaleAfter) \in BOOLEAN
          OBVIOUS
        <5>2. Quote(a) \in Price
          BY <4>1, <5>1 DEF Quote, Price
        <5>3. (oracle[a] > StaleAfter) \/ oracle[a] <= StaleAfter
          BY <4>1, AgesAre
        <5>4. Quote(a).age = oracle[a] /\ Quote(a).stale = (oracle[a] > StaleAfter)
          BY DEF Quote
        <5> QED
          BY <5>2, <5>3, <5>4 DEF Sound
    <3>2. Fallback(a) \in Price /\ Sound(Fallback(a), StaleAfter)
      BY UnknownIs DEF Fallback, Price, Sound
    <3> QED
      BY <3>1, <3>2
  <2>2. Sound(price, Vouched)
    <3>1. price.age \in Nat
      BY <2>1, AgesAre DEF Price
    <3> HIDE DEF price
    <3> QED
      BY <2>1, <3>1, AgesAre DEF Sound
  <2>3. valuer' = [valuer EXCEPT ![r] = Priced([valuer[r] EXCEPT !.keep = valuer[r].keep \cup {a}], a, price)]
    BY <1>1, <1>4 DEF PriceAsked
  <2>4. valuer[r].keep \cup {a} \in SUBSET Assets
    BY <1>1 DEF ValuerRow
  <2> HIDE DEF price
  <2> QED
    BY <1>2, <2>1, <2>2, <2>3, <2>4
<1> QED
  BY <1>3, <1>4

\* A price that the oracle gave, or the last resort, is put in the cache.
LEMMA KeepKeeps ==
    ASSUME ValueInv, NEW r \in Valuers, NEW a \in Assets, PriceKept(r, a)
    PROVE  ValueInv'
<1>1. /\ UNCHANGED <<held, touched, shown, oracle>> /\ a \in valuer[r].keep
      /\ valuer[r] \in ValuerRow /\ ValuerInv(r) /\ valuer \in [Valuers -> ValuerRow]
      /\ priceCache \in [Assets -> CachedPrice] /\ touched \in SUBSET Vaults
  BY DEF ValueInv, ValueTypeOK, PriceKept
<1> DEFINE entry == [price |-> valuer[r].price[a], left |-> PriceTtl]
           row == [valuer[r] EXCEPT !.keep = valuer[r].keep \ {a}]
<1>2. priceCache' \in {priceCache, [priceCache EXCEPT ![a] = entry]} /\ valuer' = [valuer EXCEPT ![r] = row]
  BY <1>1 DEF PriceKept
<1>3. /\ entry \in CachedPrice /\ entry.left = PriceTtl /\ entry.price = valuer[r].price[a]
      /\ Sound(valuer[r].price[a], StaleAfter)
  BY <1>1, AgesAre DEF CachedPrice, ValuerRow, ValuerInv
<1>4. /\ row \in ValuerRow /\ row.quiet = valuer[r].quiet /\ row.price = valuer[r].price
      /\ row.keep = valuer[r].keep \ {a} /\ row.ask = valuer[r].ask /\ row.oldest = valuer[r].oldest
      /\ row.todo = valuer[r].todo /\ row.scope = valuer[r].scope /\ row.counted = valuer[r].counted
      /\ row.anyUnpriced = valuer[r].anyUnpriced /\ row.kind = valuer[r].kind
  BY <1>1 DEF ValuerRow
<1> HIDE DEF entry, row
<1>5. priceCache' \in [Assets -> CachedPrice]
  BY <1>1, <1>2, <1>3
<1>6. ASSUME NEW b \in Assets PROVE CacheInv(b)'
  <2>1. CASE priceCache'[b] = priceCache[b]
    BY <2>1 DEF ValueInv, CacheInv
  <2>2. CASE priceCache'[b] = entry
    <3>1. Vouched - PriceTtl = StaleAfter
      BY AgesAre DEF Vouched
    <3> QED
      BY <1>3, <2>2, <3>1 DEF CacheInv
  <2> QED
    BY <1>1, <1>2, <2>1, <2>2
<1>7. valuer'[r] = row
  BY <1>1, <1>2
<1>8. ValuerInv(r)'
  BY <1>1, <1>4, <1>7 DEF ValuerInv
<1> QED
  BY <1>1, <1>2, <1>4, <1>5, <1>6, <1>8, ValuerSteps

\* A position is read, or is not.
LEMMA ValuerReadKeeps ==
    ASSUME ValueInv, NEW r \in Valuers, NEW v \in Vaults,
           SummaryReads(r, v) \/ SummaryCannotRead(r, v) \/ SnapshotReads(r, v) \/ SnapshotSkips(r, v)
    PROVE  ValueInv'
<1>1. /\ UNCHANGED <<held, shown, oracle, priceCache>> /\ v \in valuer[r].todo
      /\ valuer[r] \in ValuerRow /\ ValuerInv(r) /\ valuer \in [Valuers -> ValuerRow]
      /\ priceCache' \in [Assets -> CachedPrice] /\ touched \in SUBSET Vaults
  BY DEF ValueInv, ValueTypeOK, SummaryReads, SummaryCannotRead, SnapshotReads, SnapshotSkips, Reading
<1>2. touched' \in SUBSET Vaults
  <2>1. CASE SnapshotReads(r, v)
    <3>1. valuer[r].price[AssetOf[v]].known \in BOOLEAN
      BY <1>1, AssetOfAssumption DEF ValuerRow, Price
    <3> QED
      BY <1>1, <2>1, <3>1 DEF SnapshotReads
  <2>2. CASE ~ SnapshotReads(r, v)
    BY <1>1, <2>2 DEF SummaryReads, SummaryCannotRead, SnapshotSkips
  <2> QED
    BY <2>1, <2>2
<1>3. \A a \in Assets : CacheInv(a)'
  BY <1>1 DEF ValueInv, CacheInv
<1>4. ASSUME NEW c \in ValuerRow, valuer' = [valuer EXCEPT ![r] = Passed(c, v)],
             c.price = valuer[r].price, c.keep = valuer[r].keep, c.ask = valuer[r].ask, c.kind = valuer[r].kind,
             c.todo = valuer[r].todo, c.scope = valuer[r].scope, c.oldest <= Vouched, c.counted \subseteq c.scope,
             c.kind = "summary" /\ c.quiet /\ ~c.anyUnpriced =>
                 c.counted = ((held \cap c.scope) \ c.todo) \cup ({v} \cap held)
      PROVE  ValueInv'
  <2> DEFINE row == Passed(c, v)
  <2>1. row = [c EXCEPT !.todo = c.todo \ {v}]
    BY <1>4 DEF Passed
  <2>2. /\ row \in ValuerRow /\ row.quiet = c.quiet /\ row.price = c.price /\ row.keep = c.keep /\ row.ask = c.ask
        /\ row.oldest = c.oldest /\ row.todo = c.todo \ {v} /\ row.scope = c.scope /\ row.counted = c.counted
        /\ row.anyUnpriced = c.anyUnpriced /\ row.kind = c.kind
    BY <1>4, <2>1 DEF ValuerRow
  <2> HIDE DEF row
  <2>3. valuer' = [valuer EXCEPT ![r] = row] /\ valuer'[r] = row
    BY <1>1, <1>4 DEF row
  <2>4. v \in c.scope /\ row.kind # "answered"
    BY <1>1, <1>4, <2>2 DEF ValuerInv
  <2>5. row.kind = "summary" /\ row.quiet /\ ~row.anyUnpriced => row.counted = (held' \cap row.scope) \ row.todo
    BY <1>1, <1>4, <2>2, <2>4
  <2>6. ValuerInv(r)'
    BY <1>1, <1>4, <2>2, <2>3, <2>4, <2>5 DEF ValuerInv
  <2> QED
    BY <1>1, <1>2, <1>3, <2>2, <2>3, <2>6, ValuerSteps
<1>5. /\ valuer[r].oldest <= Vouched /\ valuer[r].counted \subseteq valuer[r].scope
      /\ valuer[r].kind = "summary" /\ valuer[r].quiet /\ ~valuer[r].anyUnpriced =>
             valuer[r].counted = (held \cap valuer[r].scope) \ valuer[r].todo
  BY <1>1 DEF ValuerInv
<1>6. CASE SummaryCannotRead(r, v)
  <2>1. /\ Unread(valuer[r]) \in ValuerRow /\ Unread(valuer[r]).anyUnpriced = TRUE
        /\ Unread(valuer[r]).price = valuer[r].price /\ Unread(valuer[r]).keep = valuer[r].keep
        /\ Unread(valuer[r]).ask = valuer[r].ask /\ Unread(valuer[r]).kind = valuer[r].kind
        /\ Unread(valuer[r]).todo = valuer[r].todo /\ Unread(valuer[r]).scope = valuer[r].scope
        /\ Unread(valuer[r]).oldest = valuer[r].oldest /\ Unread(valuer[r]).counted = valuer[r].counted
    BY <1>1 DEF Unread, ValuerRow
  <2>2. valuer' = [valuer EXCEPT ![r] = Passed(Unread(valuer[r]), v)]
    BY <1>6 DEF SummaryCannotRead
  <2> QED
    BY <1>4, <1>5, <2>1, <2>2
<1>7. CASE SnapshotReads(r, v) \/ SnapshotSkips(r, v)
  <2>1. valuer' = [valuer EXCEPT ![r] = Passed(valuer[r], v)] /\ valuer[r].kind = "snapshot"
    BY <1>7 DEF SnapshotReads, SnapshotSkips, Reading
  <2> QED
    BY <1>1, <1>4, <1>5, <2>1
<1>8. CASE SummaryReads(r, v) /\ v \notin held
  <2>1. valuer' = [valuer EXCEPT ![r] = Passed(valuer[r], v)]
    BY <1>8 DEF SummaryReads
  <2> QED
    BY <1>1, <1>4, <1>5, <1>8, <2>1
<1>9. CASE SummaryReads(r, v) /\ v \in held
  <2> DEFINE price == valuer[r].price[AssetOf[v]]
             c == Counted(valuer[r], v)
  <2>1. valuer' = [valuer EXCEPT ![r] = Passed(c, v)] /\ valuer[r].kind = "summary"
    BY <1>9 DEF SummaryReads, Reading
  <2>2. price \in Price /\ Sound(price, Vouched) /\ v \in valuer[r].scope /\ valuer[r].oldest \in Nat
    BY <1>1, AssetOfAssumption, AgesAre DEF ValuerInv, ValuerRow
  <2>3. CASE ~price.known
    <3>1. c = [valuer[r] EXCEPT !.anyUnpriced = TRUE]
      BY <2>3 DEF Counted
    <3>2. /\ c \in ValuerRow /\ c.anyUnpriced = TRUE /\ c.price = valuer[r].price /\ c.keep = valuer[r].keep
          /\ c.ask = valuer[r].ask /\ c.kind = valuer[r].kind /\ c.todo = valuer[r].todo
          /\ c.scope = valuer[r].scope /\ c.oldest = valuer[r].oldest /\ c.counted = valuer[r].counted
      BY <1>1, <3>1 DEF ValuerRow
    <3> HIDE DEF c
    <3> QED
      BY <1>4, <1>5, <2>1, <3>2
  <2>4. CASE price.known
    <3> DEFINE stale == valuer[r].anyStale \/ price.stale
               oldest == IF price.stale THEN valuer[r].oldest ELSE Max2(valuer[r].oldest, price.age)
    <3>1. c = [valuer[r] EXCEPT !.counted = valuer[r].counted \cup {v}, !.anyStale = stale, !.oldest = oldest]
      BY <2>4 DEF Counted
    <3>2. stale \in BOOLEAN
      BY <1>1, <2>2 DEF ValuerRow, Price
    <3>3. oldest \in Ages /\ oldest <= Vouched
      BY <1>1, <1>5, <2>2, <2>4, AgesAre DEF Max2, Sound, Price, ValuerRow
    <3> HIDE DEF stale, oldest
    <3>4. /\ c \in ValuerRow /\ c.anyUnpriced = valuer[r].anyUnpriced /\ c.price = valuer[r].price
          /\ c.keep = valuer[r].keep /\ c.ask = valuer[r].ask /\ c.kind = valuer[r].kind
          /\ c.todo = valuer[r].todo /\ c.scope = valuer[r].scope /\ c.oldest = oldest
          /\ c.counted = valuer[r].counted \cup {v} /\ c.quiet = valuer[r].quiet
      <4>1. valuer[r].counted \cup {v} \in SUBSET Vaults
        BY <1>1 DEF ValuerRow
      <4>2. c \in ValuerRow
        BY <1>1, <3>1, <3>2, <3>3, <4>1 DEF ValuerRow
      <4> QED
        BY <1>1, <3>1, <4>2 DEF ValuerRow
    <3> HIDE DEF c
    <3>5. {v} \cap held = {v}
      BY <1>9
    <3> QED
      BY <1>4, <1>5, <2>1, <2>2, <3>3, <3>4, <3>5
  <2> QED
    BY <2>3, <2>4
<1> QED
  BY <1>6, <1>7, <1>8, <1>9

\* A vault is listed or not, the oracle publishes.
LEMMA OraclePublishKeeps ==
    ASSUME ValueInv, (\E v \in Vaults : ListsVault(v)) \/ (\E a \in Feeds : OraclePublishes(a))
    PROVE  ValueInv'
<1>1. UNCHANGED <<held, touched, priceCache, valuer>>
  BY DEF ListsVault, OraclePublishes
<1>2. shown' \in SUBSET Vaults /\ oracle' \in [Feeds -> Ages]
  <2>1. 0 \in Ages
    BY AgesAre
  <2> QED
    BY <2>1 DEF ValueInv, ValueTypeOK, ListsVault, OraclePublishes
<1>3. ValueTypeOK'
  BY <1>1, <1>2 DEF ValueInv, ValueTypeOK
<1> QED
  BY <1>1, <1>3 DEF ValueInv, CacheInv, ValuerInv

\* Time passes: what a cached price gains in age it loses of its time.
LEMMA TickKeeps == ASSUME ValueInv, PriceTick PROVE ValueInv'
<1>1. /\ UNCHANGED <<held, touched, shown, valuer>> /\ oracle \in [Feeds -> Ages]
      /\ priceCache \in [Assets -> CachedPrice]
  BY DEF ValueInv, ValueTypeOK, PriceTick
<1>2. ASSUME NEW age \in Ages PROVE Older(age) \in Ages /\ Older(age) \in Nat /\ Older(age) <= age + 1
  BY AgesAre DEF Older
<1>3. NoPrice \in CachedPrice /\ NoPrice.left = 0
  BY UnknownIs, AgesAre DEF NoPrice, CachedPrice
<1>4. ASSUME NEW a \in Assets
      PROVE  priceCache'[a] \in CachedPrice /\ CacheInv(a)'
  <2>1. CASE priceCache[a].left < 2
    <3>1. priceCache'[a] = NoPrice
      BY <2>1 DEF PriceTick
    <3> QED
      BY <1>3, <3>1 DEF CacheInv
  <2>2. CASE ~(priceCache[a].left < 2)
    <3> DEFINE old == priceCache[a].price
               price == [old EXCEPT !.age = Older(old.age)]
    <3>1. priceCache'[a] = [price |-> price, left |-> priceCache[a].left - 1]
      BY <2>2 DEF PriceTick
    <3>2. /\ old \in Price /\ priceCache[a].left \in 2 .. PriceTtl /\ Sound(old, Vouched - priceCache[a].left)
          /\ priceCache[a].left \in Nat
      BY <1>1, <2>2, AgesAre DEF ValueInv, CacheInv, CachedPrice
    <3>3. old.age \in Ages /\ old.age \in Nat /\ Older(old.age) \in Ages /\ Older(old.age) \in Nat
          /\ Older(old.age) <= old.age + 1
      <4>1. old.age \in Ages
        BY <3>2 DEF Price
      <4> HIDE DEF old
      <4>2. PICK age \in Ages : age = old.age
        BY <4>1
      <4>3. age \in Nat
        BY AgesAre
      <4> QED
        BY <1>2, <4>2, <4>3
    <3>4. price \in Price /\ price.known = old.known /\ price.stale = old.stale /\ price.age = Older(old.age)
      BY <3>2, <3>3 DEF Price
    <3> HIDE DEF price, old
    <3>5. priceCache[a].left - 1 \in 0 .. PriceTtl
      BY <3>2, AgesAre
    <3>6. Sound(price, Vouched - (priceCache[a].left - 1))
      BY <3>2, <3>3, <3>4, AgesAre DEF Sound
    <3>7. priceCache'[a] \in CachedPrice
      BY <3>1, <3>4, <3>5 DEF CachedPrice
    <3> QED
      BY <3>1, <3>6, <3>7 DEF CacheInv
  <2> QED
    BY <2>1, <2>2
<1>5. priceCache' \in [Assets -> CachedPrice]
  BY <1>4 DEF PriceTick
<1>6. oracle' \in [Feeds -> Ages]
  BY <1>1, <1>2 DEF PriceTick
<1>7. ValueTypeOK'
  BY <1>1, <1>5, <1>6 DEF ValueInv, ValueTypeOK
<1> QED
  BY <1>1, <1>4, <1>7 DEF ValueInv, ValuerInv

\* ValueInv is inductive, whatever valuations overlap and share the cache.
THEOREM ValueInvariant == ValueSpec => []ValueInv
<1>1. ValueInit => ValueInv
  BY ValueInitial
<1>2. ValueInv /\ [ValueNext]_valueVars => ValueInv'
  <2> SUFFICES ASSUME ValueInv, [ValueNext]_valueVars PROVE ValueInv'
    OBVIOUS
  <2>1. CASE UNCHANGED valueVars
    BY <2>1 DEF valueVars, ValueInv, ValueTypeOK, CacheInv, ValuerInv
  <2>2. ASSUME NEW v \in Vaults, (\E through \in BOOLEAN : Deposits(v, through)) \/ Withdraws(v) \/ ListsVault(v)
        PROVE  ValueInv'
    BY <2>2, MoneyKeeps, OraclePublishKeeps
  <2>3. ASSUME NEW a \in Feeds, OraclePublishes(a) PROVE ValueInv'
    BY <2>3, OraclePublishKeeps
  <2>4. ASSUME NEW r \in Valuers,
               \/ StartSummary(r) \/ SummaryEnd(r) \/ ValuerLeaves(r)
               \/ \E fullSweep \in BOOLEAN : StartSnapshot(r, fullSweep)
        PROVE  ValueInv'
    BY <2>4, StartKeeps
  <2>5. ASSUME NEW r \in Valuers, NEW a \in Assets,
               PriceCached(r, a) \/ PriceKept(r, a) \/ \E answers \in BOOLEAN : PriceAsked(r, a, answers)
        PROVE  ValueInv'
    BY <2>5, PriceKeeps, KeepKeeps
  <2>6. ASSUME NEW r \in Valuers, NEW v \in Vaults,
               SummaryReads(r, v) \/ SummaryCannotRead(r, v) \/ SnapshotReads(r, v) \/ SnapshotSkips(r, v)
        PROVE  ValueInv'
    BY <2>6, ValuerReadKeeps
  <2>7. CASE PriceTick
    BY <2>7, TickKeeps
  <2> QED
    BY <2>1, <2>2, <2>3, <2>4, <2>5, <2>6, <2>7 DEF ValueNext
<1> QED
  BY <1>1, <1>2, PTL DEF ValueSpec

\* A total with no flag, of a portfolio in which nothing moved while it was read, counts
\* every position in the vaults that were listed when it began.
THEOREM TotalsAreWhole == ValueSpec => []TotalIsWhole
<1>1. ValueInv => TotalIsWhole
  <2> SUFFICES ASSUME ValueInv, NEW r \in Valuers, Answered(r), ~valuer[r].anyUnpriced, valuer[r].quiet
               PROVE  valuer[r].counted = held \cap valuer[r].scope
    BY DEF TotalIsWhole
  <2> QED
    BY DEF ValueInv, ValuerInv, Answered
<1> QED
  BY <1>1, ValueInvariant, PTL

\* A price that is not flagged is at most as old as the oracle lets it be and the cache
\* keeps it, together: an age is read when the price is asked for, not when it is used.
THEOREM PricesAreRecent == ValueSpec => []UnflaggedPriceIsRecent
<1>1. ValueInv => UnflaggedPriceIsRecent
  BY DEF ValueInv, ValuerInv, UnflaggedPriceIsRecent, Vouched
<1> QED
  BY <1>1, ValueInvariant, PTL

-----------------------------------------------------------------------------
(* Payments from outside.                                                  *)

\* A payment of another person has its push, or was taken for a delivery.
Told(p) == origin[p] \in {"user", "unknown"} => p \in outbox \cup explained

\* What a watcher has seen of the ledger is there, and of the page that it has it has
\* told what is before the next record.
WatchInv(i) ==
    LET w == watch[i] IN
    /\ w.pc \in {"fetch", "handle", "move"} /\ w.from # Unset => w.from <= landed
    /\ w.pc \in {"handle", "move"} => w.from # Unset /\ w.from < w.upTo /\ w.upTo <= landed
    /\ w.pc = "handle" =>
        /\ w.from < w.next /\ w.next <= w.upTo
        /\ \A p \in Payments : w.from < p /\ p < w.next => Told(p)
    /\ w.pc = "move" => \A p \in Payments : w.from < p /\ p <= w.upTo => Told(p)
    /\ w.pc = "baseline" => w.from = Unset /\ w.upTo <= landed

\* The cursor has a baseline, and stands at a payment that landed.
CursorInv ==
    /\ cursor = Unset <=> baseline = Unset
    /\ cursor # Unset => cursor <= landed

\* The inductive invariant of the watchers.
PayInv ==
    /\ PayTypeOK
    /\ CursorInv
    /\ NoPaymentSkipped
    /\ \A i \in Watchers : WatchInv(i)

\* The initial states satisfy it.
LEMMA PayInitial == PayInit => PayInv
<1> SUFFICES ASSUME PayInit PROVE PayInv
  OBVIOUS
<1>1. PayTypeOK
  BY PaymentBoundAssumption, PagingAssumption DEF PayInit, PayTypeOK, Payments, Origin, Unset, NoWatch, WatchRow
<1>2. CursorInv /\ NoPaymentSkipped
  BY DEF PayInit, CursorInv, NoPaymentSkipped
<1>3. \A i \in Watchers : WatchInv(i)
  BY DEF PayInit, WatchInv, NoWatch
<1> QED
  BY <1>1, <1>2, <1>3 DEF PayInv

\* What was told stays told, and the ledger only grows: a watcher that does not step
\* is not disturbed by one that does.
LEMMA Undisturbed ==
    ASSUME PayTypeOK, NEW i \in Watchers, WatchInv(i), watch'[i] = watch[i], landed <= landed', landed' \in Nat,
           \A p \in Payments : p <= landed => (Told(p) => Told(p)')
    PROVE  WatchInv(i)'
<1> DEFINE w == watch[i]
<1>1. w \in WatchRow /\ landed \in Nat
  BY PaymentBoundAssumption DEF PayTypeOK
<1>2. w.from \in Nat /\ w.upTo \in Nat /\ w.next \in Nat /\ Payments \subseteq Nat
  BY <1>1, PaymentBoundAssumption DEF Payments, Unset, WatchRow
<1>3. w.pc \in {"handle", "move"} => \A p \in Payments : p <= w.upTo => (Told(p) => Told(p)')
  BY <1>1, <1>2 DEF WatchInv
<1> QED
  BY <1>2, <1>1, <1>3 DEF WatchInv

\* The steps of the world.
LEMMA LedgerKeeps ==
    ASSUME PayInv, PaymentLands \/ OnrampChanges
    PROVE  PayInv'
<1> USE PaymentBoundAssumption
<1>1. PayTypeOK'
  <2>1. landed' \in 0 .. MaxPayments /\ origin' \in [Payments -> Origin] /\ onramp' \in {"none", "near"}
    BY DEF PayInv, PayTypeOK, PaymentLands, OnrampChanges
  <2> QED
    BY <2>1 DEF PayInv, PayTypeOK, PaymentLands, OnrampChanges
<1>2. /\ watch' = watch /\ cursor' = cursor /\ baseline' = baseline /\ outbox' = outbox
      /\ explained' = explained /\ landed <= landed' /\ landed' \in Nat /\ landed \in Nat
  BY <1>1 DEF PayInv, PayTypeOK, PaymentLands, OnrampChanges
<1>3. \A p \in Payments : p <= landed => (Told(p) => Told(p)')
  <2> SUFFICES ASSUME NEW p \in Payments, p <= landed PROVE origin'[p] = origin[p]
    BY <1>2 DEF Told
  <2> QED
    BY DEF PayInv, PayTypeOK, PaymentLands, OnrampChanges, Payments
<1>4. CursorInv' /\ NoPaymentSkipped'
  <2>1. CursorInv'
    BY <1>2 DEF PayInv, CursorInv, PayTypeOK, Unset
  <2>2. cursor # Unset => \A p \in Payments : p <= cursor => p <= landed
    BY <1>2 DEF PayInv, CursorInv, PayTypeOK, Unset, Payments
  <2> QED
    BY <1>2, <1>3, <2>1, <2>2 DEF PayInv, NoPaymentSkipped, Told
<1>5. \A i \in Watchers : WatchInv(i)'
  BY <1>2, <1>3, Undisturbed DEF PayInv
<1> QED
  BY <1>1, <1>4, <1>5 DEF PayInv

\* A step of a watcher keeps the invariant of the others, if what was told stays told.
LEMMA WatcherSteps ==
    ASSUME PayInv, NEW i \in Watchers, PayTypeOK', landed' = landed, origin' = origin,
           outbox \subseteq outbox', explained \subseteq explained',
           \E w : watch' = [watch EXCEPT ![i] = w],
           CursorInv', NoPaymentSkipped', WatchInv(i)'
    PROVE  PayInv'
<1>1. \A p \in Payments : Told(p) => Told(p)'
  BY DEF Told
<1>2. ASSUME NEW j \in Watchers PROVE WatchInv(j)'
  <2>1. CASE j = i
    BY <2>1
  <2>2. CASE j # i
    <3>1. watch'[j] = watch[j]
      BY <2>2 DEF PayInv, PayTypeOK
    <3> QED
      BY <1>1, <3>1, Undisturbed, PaymentBoundAssumption DEF PayInv, PayTypeOK
  <2> QED
    BY <2>1, <2>2
<1> QED
  BY <1>2 DEF PayInv

\* A watcher that has ended relies on nothing.
LEMMA IdleWatcher == ASSUME NEW i \in Watchers, watch'[i] = NoWatch PROVE WatchInv(i)'
<1>1. watch'[i].pc = "idle"
  BY DEF NoWatch
<1> QED
  BY <1>1 DEF WatchInv

\* A watcher reads the row, the latest payment or a page, or gives up.
LEMMA WatcherReadKeeps ==
    ASSUME PayInv, NEW i \in Watchers, WatchRead(i) \/ BaselineFetch(i) \/ PageFetch(i) \/ WatchFails(i)
    PROVE  PayInv'
<1> USE PaymentBoundAssumption, PagingAssumption
<1>1. /\ UNCHANGED <<landed, origin, onramp, cursor, baseline, outbox, explained>>
      /\ watch[i] \in WatchRow /\ landed \in 0 .. MaxPayments
  BY DEF PayInv, PayTypeOK, WatchRead, BaselineFetch, PageFetch, WatchFails
<1>2. ASSUME NEW w \in WatchRow, watch' = [watch EXCEPT ![i] = w], WatchInv(i)'
      PROVE  PayInv'
  <2>1. PayTypeOK' /\ CursorInv' /\ NoPaymentSkipped'
    BY <1>1, <1>2 DEF PayInv, PayTypeOK, CursorInv, NoPaymentSkipped
  <2> QED
    BY <1>1, <1>2, <2>1, WatcherSteps
<1>3. ASSUME NEW w, watch' = [watch EXCEPT ![i] = w] PROVE watch'[i] = w
  BY <1>3 DEF PayInv, PayTypeOK
<1>4. NoWatch \in WatchRow
  BY DEF NoWatch, WatchRow, Unset
<1>5. ASSUME watch' = [watch EXCEPT ![i] = NoWatch] PROVE PayInv'
  <2>1. WatchInv(i)'
    BY <1>3, <1>5, IdleWatcher
  <2> QED
    BY <1>2, <1>4, <1>5, <2>1
<1>6. CASE WatchRead(i)
  <2> DEFINE w == [NoWatch EXCEPT !.pc = "fetch", !.from = cursor]
  <2>1. w \in WatchRow /\ watch' = [watch EXCEPT ![i] = w]
    <3>1. watch' = [watch EXCEPT ![i] = w]
      BY <1>6 DEF WatchRead
    <3>2. cursor \in 0 .. Unset
      BY DEF PayInv, PayTypeOK
    <3>3. w = [NoWatch EXCEPT !.from = cursor, !.pc = "fetch"]
      BY DEF NoWatch
    <3> QED
      BY <1>4, <3>1, <3>2, <3>3 DEF WatchRow
  <2>2. w.pc = "fetch" /\ w.from = cursor /\ watch'[i] = w
    BY <1>3, <2>1 DEF NoWatch
  <2>3. WatchInv(i)'
    BY <1>1, <2>2 DEF WatchInv, PayInv, CursorInv
  <2> QED
    BY <1>2, <2>1, <2>3
<1>7. CASE BaselineFetch(i)
  <2> DEFINE w == [watch[i] EXCEPT !.pc = "baseline", !.upTo = landed]
  <2>1. w \in WatchRow /\ watch' = [watch EXCEPT ![i] = w]
    BY <1>1, <1>7 DEF BaselineFetch, WatchRow
  <2>2. w.pc = "baseline" /\ w.from = Unset /\ w.upTo = landed /\ watch'[i] = w
    BY <1>1, <1>3, <1>7, <2>1 DEF BaselineFetch, WatchRow
  <2>3. WatchInv(i)'
    BY <1>1, <2>2 DEF WatchInv
  <2> QED
    BY <1>2, <2>1, <2>3
<1>8. CASE PageFetch(i)
  <2> PICK from : from = watch[i].from
    OBVIOUS
  <2>1. from \in 0 .. landed /\ LastOfPage(from) \in from .. landed
    BY <1>1, <1>8 DEF PageFetch, PayInv, WatchInv, WatchRow, Unset, LastOfPage
  <2>2. CASE LastOfPage(from) = from
    BY <1>5, <1>8, <2>2 DEF PageFetch
  <2>3. CASE LastOfPage(from) # from
    <3> DEFINE w == [watch[i] EXCEPT !.pc = "handle", !.upTo = LastOfPage(from), !.next = from + 1]
    <3>1. watch' = [watch EXCEPT ![i] = w]
      BY <1>8, <2>3 DEF PageFetch
    <3>2. w \in WatchRow
      <4>1. from + 1 \in 0 .. Unset /\ LastOfPage(from) \in 0 .. MaxPayments
        BY <1>1, <2>1 DEF Unset
      <4> QED
        BY <1>1, <4>1 DEF WatchRow
    <3>3. /\ w.pc = "handle" /\ w.from = from /\ w.upTo = LastOfPage(from) /\ w.next = from + 1 /\ watch'[i] = w
      BY <1>1, <1>3, <3>1 DEF WatchRow
    <3>4. WatchInv(i)'
      BY <1>1, <2>1, <2>3, <3>3 DEF WatchInv, Payments, Unset
    <3> QED
      BY <1>2, <3>1, <3>2, <3>4
  <2> QED
    BY <2>2, <2>3
<1>9. CASE WatchFails(i)
  BY <1>5, <1>9 DEF WatchFails
<1> QED
  BY <1>6, <1>7, <1>8, <1>9

\* A watcher deals with a record, or cannot.
LEMMA HandleKeeps ==
    ASSUME PayInv, NEW i \in Watchers, HandleSilently(i) \/ HandleNotify(i) \/ HandleFails(i)
    PROVE  PayInv'
<1> USE PaymentBoundAssumption, PagingAssumption
<1> PICK p : p = watch[i].next
  OBVIOUS
<1>1. /\ UNCHANGED <<landed, origin, onramp, cursor, baseline>> /\ watch[i].pc = "handle"
      /\ watch[i] \in WatchRow /\ landed \in 0 .. MaxPayments
  BY DEF PayInv, PayTypeOK, HandleSilently, HandleNotify, HandleFails
<1>2. /\ watch[i].from \in Nat /\ watch[i].upTo \in Nat /\ p \in Payments
      /\ watch[i].from # Unset /\ watch[i].from < p /\ p <= watch[i].upTo /\ watch[i].upTo <= landed
      /\ \A q \in Payments : watch[i].from < q /\ q < p => Told(q)
  BY <1>1 DEF PayInv, WatchInv, WatchRow, Payments, Unset
<1>3. outbox \subseteq outbox' /\ explained \subseteq explained' /\ outbox' \in SUBSET Payments
      /\ explained' \in SUBSET Payments
  BY <1>2 DEF PayInv, PayTypeOK, HandleSilently, HandleNotify, HandleFails
<1>4. \A q \in Payments : Told(q) => Told(q)'
  BY <1>1, <1>3 DEF Told
<1>5. ASSUME NEW w \in WatchRow, watch' = [watch EXCEPT ![i] = w], WatchInv(i)'
      PROVE  PayInv'
  <2>1. PayTypeOK' /\ CursorInv' /\ NoPaymentSkipped'
    BY <1>1, <1>3, <1>5 DEF PayInv, PayTypeOK, CursorInv, NoPaymentSkipped
  <2> QED
    BY <1>1, <1>3, <1>5, <2>1, WatcherSteps
<1>6. ASSUME NEW w, watch' = [watch EXCEPT ![i] = w] PROVE watch'[i] = w
  BY <1>6 DEF PayInv, PayTypeOK
<1>7. ASSUME Told(p)', Handled(i) PROVE PayInv'
  <2> DEFINE pc == IF p = watch[i].upTo THEN "move" ELSE "handle"
             w == [watch[i] EXCEPT !.next = p + 1, !.pc = pc]
  <2>1. watch' = [watch EXCEPT ![i] = w]
    BY <1>1, <1>7 DEF Handled
  <2>2. w \in WatchRow
    <3>1. p + 1 \in 0 .. Unset /\ pc \in {"move", "handle"}
      BY <1>2 DEF Payments, Unset
    <3> HIDE DEF pc
    <3> QED
      BY <1>1, <3>1 DEF WatchRow
  <2>3. /\ w.pc = pc /\ w.from = watch[i].from /\ w.upTo = watch[i].upTo /\ w.next = p + 1 /\ watch'[i] = w
    BY <1>1, <1>6, <2>1 DEF WatchRow
  <2>4. \A q \in Payments : watch[i].from < q /\ q < p + 1 => Told(q)'
    BY <1>2, <1>4, <1>7 DEF Payments
  <2> HIDE DEF w
  <2>5. WatchInv(i)'
    BY <1>1, <1>2, <2>3, <2>4 DEF WatchInv, Payments
  <2> QED
    BY <1>5, <2>1, <2>2, <2>5
<1>8. CASE HandleSilently(i)
  BY <1>1, <1>7, <1>8 DEF HandleSilently, Silent, Delivers, Told
<1>9. CASE HandleNotify(i)
  BY <1>1, <1>7, <1>9 DEF HandleNotify, Told
<1>10. CASE HandleFails(i)
  <2>1. StopBefore(p) = p - 1
    BY DEF StopBefore
  <2>2. CASE p - 1 = watch[i].from
    <3>1. watch' = [watch EXCEPT ![i] = NoWatch]
      BY <1>10, <2>1, <2>2 DEF HandleFails
    <3>2. NoWatch \in WatchRow
      BY DEF NoWatch, WatchRow, Unset
    <3>3. WatchInv(i)'
      BY <1>6, <3>1, IdleWatcher
    <3> QED
      BY <1>5, <3>1, <3>2, <3>3
  <2>3. CASE p - 1 # watch[i].from
    <3> DEFINE w == [watch[i] EXCEPT !.pc = "move", !.upTo = p - 1, !.page = MaxPages]
    <3>1. watch' = [watch EXCEPT ![i] = w]
      BY <1>10, <2>1, <2>3 DEF HandleFails
    <3>2. w \in WatchRow
      <4>1. p - 1 \in 0 .. MaxPayments /\ MaxPages \in 0 .. MaxPages
        BY <1>2 DEF Payments
      <4> QED
        BY <1>1, <4>1 DEF WatchRow
    <3>3. /\ w.pc = "move" /\ w.from = watch[i].from /\ w.upTo = p - 1 /\ watch'[i] = w
      BY <1>1, <1>6, <3>1 DEF WatchRow
    <3>4. \A q \in Payments : watch[i].from < q /\ q <= p - 1 => Told(q)'
      BY <1>2, <1>4 DEF Payments
    <3> HIDE DEF w
    <3>5. WatchInv(i)'
      BY <1>1, <1>2, <2>3, <3>3, <3>4 DEF WatchInv, Payments
    <3> QED
      BY <1>5, <3>1, <3>2, <3>5
  <2> QED
    BY <2>2, <2>3
<1> QED
  BY <1>8, <1>9, <1>10

\* A watcher writes the cursor, if it is still the one that it read.
LEMMA WriteKeeps ==
    ASSUME PayInv, NEW i \in Watchers, BaselineWrite(i) \/ CursorMove(i)
    PROVE  PayInv'
<1> USE PaymentBoundAssumption, PagingAssumption
<1>1. /\ UNCHANGED <<landed, origin, onramp, outbox, explained>>
      /\ watch[i] \in WatchRow /\ landed \in 0 .. MaxPayments
      /\ cursor \in 0 .. Unset /\ baseline \in 0 .. Unset
  BY DEF PayInv, PayTypeOK, BaselineWrite, CursorMove
<1>2. NoWatch \in WatchRow
  BY DEF NoWatch, WatchRow, Unset
<1>3. \A w : watch' = [watch EXCEPT ![i] = w] => watch'[i] = w
  BY DEF PayInv, PayTypeOK
<1>4. watch[i].upTo \in 0 .. MaxPayments /\ Unset = MaxPayments + 1
  BY <1>1 DEF WatchRow, Unset
<1>5. CASE BaselineWrite(i)
  <2>1. watch' = [watch EXCEPT ![i] = NoWatch] /\ WatchInv(i)'
    BY <1>3, <1>5, IdleWatcher DEF BaselineWrite
  <2>2. CASE ~ MayMove(i)
    <3>1. PayTypeOK' /\ CursorInv' /\ NoPaymentSkipped'
      BY <1>1, <1>2, <1>5, <2>1, <2>2 DEF BaselineWrite, PayInv, PayTypeOK, CursorInv, NoPaymentSkipped
    <3> QED
      BY <1>1, <2>1, <3>1, WatcherSteps
  <2>3. CASE MayMove(i)
    <3>1. /\ cursor = Unset /\ baseline = Unset /\ cursor' = watch[i].upTo /\ baseline' = watch[i].upTo
          /\ watch[i].upTo <= landed
      BY <1>5, <2>3 DEF BaselineWrite, MayMove, PayInv, CursorInv, WatchInv
    <3>2. PayTypeOK' /\ CursorInv' /\ NoPaymentSkipped'
      BY <1>1, <1>2, <1>4, <2>1, <3>1 DEF PayInv, PayTypeOK, CursorInv, NoPaymentSkipped, Payments
    <3> QED
      BY <1>1, <2>1, <3>2, WatcherSteps
  <2> QED
    BY <2>2, <2>3
<1>6. CASE CursorMove(i)
  <2>1. /\ watch[i].pc = "move" /\ watch[i].from # Unset /\ watch[i].from \in Nat
        /\ watch[i].from < watch[i].upTo /\ watch[i].upTo <= landed /\ baseline' = baseline
        /\ \A p \in Payments : watch[i].from < p /\ p <= watch[i].upTo => Told(p)
    BY <1>1, <1>6 DEF CursorMove, PayInv, WatchInv, WatchRow
  <2> DEFINE full == watch[i].upTo - watch[i].from = PageSize
             more == full /\ watch[i].page + 1 < MaxPages
             next == [NoWatch EXCEPT !.pc = "fetch", !.from = watch[i].upTo, !.page = watch[i].page + 1]
             w == IF MayMove(i) /\ more THEN next ELSE NoWatch
  <2>2. watch' = [watch EXCEPT ![i] = w] /\ watch'[i] = w
    BY <1>3, <1>6 DEF CursorMove
  <2>3. w \in WatchRow
    <3>1. ASSUME more PROVE next \in WatchRow
      <4>1. watch[i].page + 1 \in 0 .. MaxPages /\ watch[i].upTo \in 0 .. Unset
        BY <1>1, <1>4, <3>1 DEF WatchRow
      <4> QED
        BY <1>2, <4>1 DEF WatchRow
    <3> QED
      BY <1>2, <3>1
  <2>4. WatchInv(i)'
    <3>1. next.pc = "fetch" /\ next.from = watch[i].upTo /\ NoWatch.pc = "idle"
      BY DEF NoWatch
    <3>2. (watch'[i].pc = "fetch" /\ watch'[i].from = watch[i].upTo) \/ watch'[i].pc = "idle"
      BY <2>2, <3>1
    <3> QED
      BY <1>1, <2>1, <3>2 DEF WatchInv
  <2>5. CASE ~ MayMove(i)
    <3>1. cursor' = cursor
      BY <1>6, <2>5 DEF CursorMove
    <3>2. PayTypeOK' /\ CursorInv' /\ NoPaymentSkipped'
      BY <1>1, <2>1, <2>2, <2>3, <3>1 DEF PayInv, PayTypeOK, CursorInv, NoPaymentSkipped
    <3> QED
      BY <1>1, <2>2, <2>4, <3>2, WatcherSteps
  <2>6. CASE MayMove(i)
    <3>1. cursor = watch[i].from /\ cursor' = watch[i].upTo
      BY <1>6, <2>6 DEF CursorMove, MayMove
    <3>2. PayTypeOK'
      BY <1>1, <1>4, <2>1, <2>2, <2>3, <3>1 DEF PayInv, PayTypeOK
    <3>3. CursorInv'
      BY <1>1, <1>4, <2>1, <3>1 DEF PayInv, CursorInv
    <3>4. NoPaymentSkipped'
      <4> SUFFICES ASSUME NEW p \in Payments, baseline < p, p <= watch[i].upTo PROVE Told(p)
        BY <1>1, <2>1, <3>1 DEF NoPaymentSkipped, Told
      <4>1. p <= watch[i].from \/ watch[i].from < p
        BY <2>1 DEF Payments
      <4> QED
        BY <2>1, <3>1, <4>1 DEF PayInv, NoPaymentSkipped, Told
    <3> QED
      BY <1>1, <2>2, <2>4, <3>2, <3>3, <3>4, WatcherSteps
  <2> QED
    BY <2>5, <2>6
<1> QED
  BY <1>5, <1>6

\* The variables keep their types, the cursor leaves its baseline only forwards, and what
\* a watcher is about to write rests on payments that it has told.
THEOREM PaymentInvariant == PaySpec => []PayInv
<1>1. PayInit => PayInv
  BY PayInitial
<1>2. PayInv /\ [PayNext]_payVars => PayInv'
  <2> SUFFICES ASSUME PayInv, [PayNext]_payVars PROVE PayInv'
    OBVIOUS
  <2>1. CASE PaymentLands \/ OnrampChanges
    BY <2>1, LedgerKeeps
  <2>2. ASSUME NEW i \in Watchers, Watch(i) PROVE PayInv'
    BY <2>2, WatcherReadKeeps, HandleKeeps, WriteKeeps DEF Watch
  <2>3. CASE UNCHANGED payVars
    BY <2>3 DEF payVars, PayInv, PayTypeOK, CursorInv, NoPaymentSkipped, WatchInv, Told
  <2> QED
    BY <2>1, <2>2, <2>3 DEF PayNext
<1> QED
  BY <1>1, <1>2, PTL DEF PaySpec

\* However many instances watch the account and wherever they stop: a payment of another
\* person behind the cursor has its push, or was taken for the delivery of an on-ramp.
THEOREM PaymentsAreTold == PaySpec => []NoPaymentSkipped
  BY PaymentInvariant, PTL DEF PayInv
=============================================================================
