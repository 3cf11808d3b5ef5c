------------------------------ MODULE Accounts ------------------------------
(***************************************************************************)
(* The accounts of one person, who has a few Stellar wallets at the        *)
(* identity provider: an account is whatever the oldest active wallet row  *)
(* points to.  A request resolves its account first and writes to it       *)
(* later, while others register, add and remove wallets, choose a name,    *)
(* and erase the account.                                                  *)
(***************************************************************************)
EXTENDS Naturals, SequencesExt

CONSTANTS
    Addresses,      \* the person's Stellar addresses
    UserNames,      \* usernames that nobody else has
    Logins,         \* requests that may overlap
    MaxUsers,       \* bound on the rows of users
    MaxWallets,     \* bound on the rows of wallet_accounts
    NoName, NoUser

ASSUME MaxAssumption == MaxUsers \in Nat /\ MaxWallets \in Nat
ASSUME SentinelAssumption == NoName \notin UserNames /\ NoUser \notin Nat

VARIABLES
    users,          \* rows of users: username, personal data or not, deletedAt or not
    wallets,        \* rows of wallet_accounts, the oldest first
    request,        \* per request: where it is, and what it read
    overlapped      \* history: accounts erased while another request had resolved them

accountVars == <<users, wallets, request, overlapped>>

\* The scrub leaves a sentinel where the address was.
Freed == "deleted:"

User == 1 .. MaxUsers
UserRow == [username: UserNames \cup {NoName}, data: BOOLEAN, deleted: BOOLEAN]
WalletRow == [address: Addresses \cup {Freed}, user: User, isActive: BOOLEAN]
Errands == {"name", "edit", "add", "remove", "erase"}
ErrandRow == [pc: {"idle", "new", "resolved", "write"}, errand: Errands, user: User \cup {NoUser},
              name: UserNames \cup {NoName}, row: 0 .. MaxWallets, address: Addresses \cup {Freed}]
NoRequest == [pc |-> "idle", errand |-> "edit", user |-> NoUser, name |-> NoName, row |-> 0, address |-> Freed]

AccountsTypeOK ==
    /\ users \in Seq(UserRow)
    /\ Len(users) <= MaxUsers
    /\ wallets \in Seq(WalletRow)
    /\ Len(wallets) <= MaxWallets
    /\ request \in [Logins -> ErrandRow]
    /\ overlapped \in SUBSET User

AccountsInit ==
    /\ users = <<>> /\ wallets = <<>>
    /\ request = [r \in Logins |-> NoRequest]
    /\ overlapped = {}

Doing(r, pc, errand) == request[r].pc = pc /\ request[r].errand = errand
Over(r) == request' = [request EXCEPT ![r] = NoRequest]

\* The row of the oldest active wallet with one of the addresses (0: none).
Oldest(addresses) ==
    SelectInSeq(wallets, LAMBDA w : w.isActive /\ w.address \in addresses)

\* The row with an address, which is unique, active or not (0: none).
RowOf(address) == SelectInSeq(wallets, LAMBDA w : w.address = address)

-----------------------------------------------------------------------------
(* walletLogin, with the person's token or without.                        *)

\* A known wallet is answered with its account, or with a refusal.
Login(r, address, authenticated) ==
    /\ request[r].pc = "idle"
    /\ Oldest(IF authenticated THEN Addresses ELSE {address}) = 0
    /\ request' = [request EXCEPT ![r] = [NoRequest EXCEPT !.pc = "new", !.address = address]]
    /\ UNCHANGED <<users, wallets, overlapped>>

\* One transaction; the address is unique.
LoginCreate(r) ==
    LET address == request[r].address IN
    /\ request[r].pc = "new"
    /\ IF RowOf(address) # 0
       THEN UNCHANGED <<users, wallets>>
       ELSE /\ Len(users) < MaxUsers /\ Len(wallets) < MaxWallets
            /\ users' = Append(users, [username |-> NoName, data |-> FALSE, deleted |-> FALSE])
            /\ wallets' = Append(wallets, [address |-> address, user |-> Len(users) + 1, isActive |-> TRUE])
    /\ Over(r)
    /\ UNCHANGED overlapped

-----------------------------------------------------------------------------
(* resolveUserId, and what the request then does to the account.           *)

Resolve(r, errand) ==
    LET row == Oldest(Addresses) IN
    /\ request[r].pc = "idle" /\ row # 0
    /\ request' = [request EXCEPT ![r] = [NoRequest EXCEPT !.pc = "resolved", !.errand = errand,
                                                           !.user = wallets[row].user]]
    /\ UNCHANGED <<users, wallets, overlapped>>

\* UsernamesService.create: an account with a name is refused.
NameLook(r, name) ==
    /\ Doing(r, "resolved", "name") /\ users[request[r].user].username = NoName
    /\ request' = [request EXCEPT ![r] = [@ EXCEPT !.pc = "write", !.name = name]]
    /\ UNCHANGED <<users, wallets, overlapped>>

\* Mutant: the row is updated by its id alone.
NamableById(u) == TRUE

\* updateMany's where.
Namable(u) == users[u].username = NoName

\* The name is unique.
NameSet(r) ==
    LET u == request[r].user IN
    /\ Doing(r, "write", "name")
    /\ users' = IF Namable(u) /\ \A q \in DOMAIN users : users[q].username # request[r].name
                THEN [users EXCEPT ![u].username = request[r].name]
                ELSE users
    /\ Over(r)
    /\ UNCHANGED <<wallets, overlapped>>

\* updateUser: the row of a user is never gone.
Edit(r) ==
    /\ Doing(r, "resolved", "edit")
    /\ users' = [users EXCEPT ![request[r].user].data = TRUE]
    /\ Over(r)
    /\ UNCHANGED <<wallets, overlapped>>

\* createWallet: of another account, or active, it is refused.
AddLook(r, address) ==
    LET row == RowOf(address) IN
    /\ Doing(r, "resolved", "add")
    /\ row # 0 => wallets[row].user = request[r].user /\ ~wallets[row].isActive
    /\ request' = [request EXCEPT ![r] = [@ EXCEPT !.pc = "write", !.row = row, !.address = address]]
    /\ UNCHANGED <<users, wallets, overlapped>>

AddWrite(r) ==
    LET row == request[r].row IN
    /\ Doing(r, "write", "add")
    /\ IF row # 0
       THEN wallets' = [wallets EXCEPT ![row].isActive = TRUE]
       ELSE IF RowOf(request[r].address) # 0
       THEN UNCHANGED wallets
       ELSE /\ Len(wallets) < MaxWallets
            /\ wallets' = Append(wallets, [address |-> request[r].address, user |-> request[r].user,
                                           isActive |-> TRUE])
    /\ Over(r)
    /\ UNCHANGED <<users, overlapped>>

RemoveLook(r, row) ==
    /\ Doing(r, "resolved", "remove")
    /\ row \in DOMAIN wallets /\ wallets[row].user = request[r].user
    /\ request' = [request EXCEPT ![r] = [@ EXCEPT !.pc = "write", !.row = row]]
    /\ UNCHANGED <<users, wallets, overlapped>>

RemoveWrite(r) ==
    /\ Doing(r, "write", "remove")
    /\ wallets' = [wallets EXCEPT ![request[r].row].isActive = FALSE]
    /\ Over(r)
    /\ UNCHANGED <<users, overlapped>>

\* Mutant: the addresses stay with the account that is erased.
WalletKept(w) == [w EXCEPT !.isActive = FALSE]

\* scrubWallets, for one row.
ScrubWallet(w) == [w EXCEPT !.address = Freed, !.isActive = FALSE]

\* scrub: one transaction; the row of the user is a tombstone.
Erase(r) ==
    LET u == request[r].user IN
    /\ Doing(r, "resolved", "erase")
    /\ users' = [users EXCEPT ![u] = [username |-> NoName, data |-> FALSE, deleted |-> TRUE]]
    /\ wallets' = [i \in DOMAIN wallets |-> IF wallets[i].user = u THEN ScrubWallet(wallets[i]) ELSE wallets[i]]
    /\ overlapped' = IF \E q \in Logins \ {r} : request[q].user = u THEN overlapped \cup {u} ELSE overlapped
    /\ Over(r)

\* The request is refused, a statement fails, or the instance dies.
RequestEnds(r) ==
    /\ request[r].pc # "idle"
    /\ Over(r)
    /\ UNCHANGED <<users, wallets, overlapped>>

-----------------------------------------------------------------------------
AccountsNext ==
    \E r \in Logins :
        \/ LoginCreate(r) \/ RequestEnds(r)
        \/ \E errand \in Errands : Resolve(r, errand)
        \/ \E name \in UserNames : NameLook(r, name)
        \/ NameSet(r) \/ Edit(r) \/ AddWrite(r) \/ RemoveWrite(r) \/ Erase(r)
        \/ \E address \in Addresses :
            \/ AddLook(r, address)
            \/ \E authenticated \in BOOLEAN : Login(r, address, authenticated)
        \/ \E row \in 1 .. MaxWallets : RemoveLook(r, row)

AccountsSpec == AccountsInit /\ [][AccountsNext]_accountVars

-----------------------------------------------------------------------------
(* Properties *)

\* "Username is permanent": whatever requests looked at the account before, its name
\* is set once, and only the erasure of the account takes it away.
NameIsPermanent ==
    [][\A u \in DOMAIN users :
           users[u].username \notin {NoName, users'[u].username} => users'[u].deleted]_accountVars

\* What is left of an erased account is nobody identifiable, and no address of the
\* person leads to it: the same wallets sign up again as somebody new.  The only
\* exception is a request that had resolved the account before it was erased.
TombstoneIsNobody ==
    \A u \in DOMAIN users \ overlapped : users[u].deleted =>
        /\ users[u].username = NoName /\ ~users[u].data
        /\ \A i \in DOMAIN wallets : wallets[i].user = u => wallets[i].address = Freed
=============================================================================
