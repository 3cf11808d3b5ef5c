---------------------------- MODULE VaultCatalog ----------------------------
(***************************************************************************)
(* One vault's row in the catalog and those who write it: the discovery    *)
(* job, by its schedule or by hand on any instance, the operator who       *)
(* imports, lists and names vaults, and the manager who has one created on *)
(* the chain.  Every writer reads, waits for others, and then writes.      *)
(***************************************************************************)
EXTENDS Naturals

CONSTANT Calls      \* runs of the job and requests that may overlap

VARIABLES
    catalog,        \* VaultCatalog: absent, or isActive, isCurated and whose name it shows
    managed,        \* ManagedVault of the vault: its status, and whether an address was predicted
    deployed,       \* whether the vault is on the chain
    call,           \* per call: where it is and what it read
    edited,         \* history: an operator named the vault and left it curated
    early,          \* history: runs of the job that found the row before that
    delisted        \* history: the last word on showing it was an operator's no

catVars == <<catalog, managed, deployed, call, edited, early, delisted>>

Names == {"address", "upstream", "admin", "manager"}
ManagedVaultStatus == {"none", "PENDING_SIGNATURE", "SUBMITTED", "CONFIRMED", "FAILED"}

\* UpdateVaultRegistryDto: what it sets of the three.
Dto == [isActive: {"keep", "yes", "no"}, isCurated: {"keep", "yes", "no"}, named: BOOLEAN]

\* The two rows that a vault may have, as far as what the app is shown depends on them.
CatalogRow == [there: BOOLEAN, isActive: BOOLEAN, isCurated: BOOLEAN, name: Names]
ManagedRow == [status: ManagedVaultStatus, predicted: BOOLEAN]

\* What DeFindex says of the transaction: it went through, and here is the vault's
\* address; it went through, with no result to read an address from; it did not.
Answers == {"success", "nameless", "refused"}

Absent == [there |-> FALSE, isActive |-> FALSE, isCurated |-> FALSE, name |-> "address"]
NoCall == [pc |-> "idle", saw |-> "absent", info |-> FALSE, answer |-> "none", predicted |-> FALSE,
           dto |-> [isActive |-> "keep", isCurated |-> "keep", named |-> FALSE]]

CallRow == [pc: {"idle", "enriched", "found", "updating", "importing",
                 "matched", "marked", "answered", "listed"},
            saw: {"absent", "curated", "plain"}, info: BOOLEAN,
            answer: {"none"} \cup Answers, predicted: BOOLEAN, dto: Dto]

CatTypeOK ==
    /\ catalog \in CatalogRow
    /\ managed \in ManagedRow
    /\ deployed \in BOOLEAN
    /\ call \in [Calls -> CallRow]
    /\ edited \in BOOLEAN /\ early \in SUBSET Calls /\ delisted \in BOOLEAN

\* A vault of somebody else's, or one that the manager is still to create.
CatInit ==
    /\ catalog = Absent
    /\ managed = [status |-> "none", predicted |-> FALSE]
    /\ deployed \in BOOLEAN
    /\ call = [c \in Calls |-> NoCall]
    /\ edited = FALSE /\ early = {} /\ delisted = FALSE

At(c, pc) == call[c].pc = pc
CallOver(c) == call' = [call EXCEPT ![c] = NoCall]

-----------------------------------------------------------------------------
(* syncVaultsFromDefindex.                                                 *)

\* discoverVaults names the vault; getVaultInfo may fail, or know no name.
SyncInfo(c, known) ==
    /\ At(c, "idle") /\ deployed
    /\ call' = [call EXCEPT ![c] = [@ EXCEPT !.pc = "enriched", !.info = known]]
    /\ UNCHANGED <<catalog, managed, deployed, edited, early, delisted>>

SyncFind(c) ==
    /\ At(c, "enriched")
    /\ call' = [call EXCEPT ![c] = [@ EXCEPT !.pc = "found",
                   !.saw = IF ~catalog.there THEN "absent" ELSE IF catalog.isCurated THEN "curated" ELSE "plain"]]
    /\ UNCHANGED <<catalog, managed, deployed, edited, early, delisted>>

\* A vault that nobody had entered waits for an operator to list it.
Discovered(c) == [there |-> TRUE, isActive |-> FALSE, isCurated |-> FALSE,
                  name |-> IF call[c].info THEN "upstream" ELSE "address"]

Renames(c) == call[c].saw = "plain" /\ call[c].info

\* The address is unique: a second insert fails, and the vault is left for the next run.
SyncWrite(c) ==
    /\ At(c, "found")
    /\ \/ /\ call[c].saw = "absent" /\ ~catalog.there
          /\ catalog' = Discovered(c) /\ UNCHANGED edited
       \/ /\ Renames(c)    \* A name that was given since the row was read is lost.
          /\ catalog' = [catalog EXCEPT !.name = "upstream"]
          /\ edited' = (edited /\ c \notin early)
       \/ /\ ~Renames(c) /\ (call[c].saw = "absent" => catalog.there)
          /\ UNCHANGED <<catalog, edited>>
    /\ early' = early \ {c}
    /\ CallOver(c)
    /\ UNCHANGED <<managed, deployed, delisted>>

-----------------------------------------------------------------------------
(* The operator: import and update.                                        *)

Import(c) ==
    /\ At(c, "idle") /\ ~catalog.there
    /\ call' = [call EXCEPT ![c].pc = "importing"]
    /\ UNCHANGED <<catalog, managed, deployed, edited, early, delisted>>

ImportEnd(c) ==
    /\ At(c, "importing")
    /\ IF catalog.there
       THEN UNCHANGED <<catalog, edited>>
       ELSE /\ catalog' = [Absent EXCEPT !.there = TRUE, !.isCurated = TRUE, !.name = "admin"]
            /\ edited' = TRUE
    /\ CallOver(c)
    /\ UNCHANGED <<managed, deployed, early, delisted>>

Update(c, dto) ==
    /\ At(c, "idle") /\ catalog.there
    /\ call' = [call EXCEPT ![c] = [@ EXCEPT !.pc = "updating", !.dto = dto]]
    /\ UNCHANGED <<catalog, managed, deployed, edited, early, delisted>>

Said(word, was) == IF word = "keep" THEN was ELSE word = "yes"

\* Mutant: a name is written without a word on who keeps it.
CuratedAsTold(dto) == Said(dto.isCurated, catalog.isCurated)

\* Editing display metadata implies curating it.
Curated(dto) == Said(dto.isCurated, catalog.isCurated \/ dto.named)

\* A vault whose disclosure is missing is not listed (see VaultDisclosure): the
\* update is refused before this.
UpdateEnd(c) ==
    LET dto == call[c].dto IN
    /\ At(c, "updating")
    /\ catalog' = [catalog EXCEPT !.isActive = Said(dto.isActive, @),
                                  !.isCurated = Curated(dto),
                                  !.name = IF dto.named THEN "admin" ELSE @]
    \* An explicit isCurated: false gives the name back to the job.
    /\ edited' = (dto.isCurated # "no" /\ (dto.named \/ edited))
    /\ early' = early \cup {d \in Calls : At(d, "found")}
    /\ delisted' = (dto.isActive = "no" \/ (dto.isActive = "keep" /\ delisted))
    /\ CallOver(c)
    /\ UNCHANGED <<managed, deployed>>

-----------------------------------------------------------------------------
(* createVault and submitVault.                                            *)

CreateVault(predicted) ==
    /\ managed.status = "none" /\ ~deployed /\ ~catalog.there
    /\ managed' = [status |-> "PENDING_SIGNATURE", predicted |-> predicted]
    /\ UNCHANGED <<catalog, deployed, call, edited, early, delisted>>

\* The row was read as pending, and the XDR is the one that was generated.  The
\* predicted address is the one read here.
SubmitVault(c) ==
    /\ At(c, "idle") /\ managed.status = "PENDING_SIGNATURE"
    /\ call' = [call EXCEPT ![c] = [@ EXCEPT !.pc = "matched", !.predicted = managed.predicted]]
    /\ UNCHANGED <<catalog, managed, deployed, edited, early, delisted>>

SubmitMark(c) ==
    /\ At(c, "matched")
    /\ managed' = [managed EXCEPT !.status = "SUBMITTED"]
    /\ call' = [call EXCEPT ![c].pc = "marked"]
    /\ UNCHANGED <<catalog, deployed, edited, early, delisted>>

\* The transaction is applied, before or after DeFindex gives up waiting for it.
Deploys ==
    /\ ~deployed /\ managed.status \in {"SUBMITTED", "FAILED"}
    /\ deployed' = TRUE
    /\ UNCHANGED <<catalog, managed, call, edited, early, delisted>>

SubmitAnswer(c, answer) ==
    /\ At(c, "marked")
    /\ answer # "refused" => deployed
    /\ call' = [call EXCEPT ![c] = [@ EXCEPT !.pc = "answered", !.answer = answer]]
    /\ UNCHANGED <<catalog, managed, deployed, edited, early, delisted>>

\* No answer, whatever became of the transaction.
SubmitThrows(c) ==
    /\ At(c, "marked")
    /\ managed' = [managed EXCEPT !.status = "FAILED"]
    /\ CallOver(c)
    /\ UNCHANGED <<catalog, deployed, edited, early, delisted>>

\* The address that the result names, or else the predicted one, if there was any.
HasAddress(c) == call[c].predicted \/ call[c].answer = "success"

\* Mutant: a row that the job had entered meanwhile is left off the list.
ListedIfNew == [catalog EXCEPT !.there = TRUE, !.isActive = @ \/ ~catalog.there, !.name = "manager"]

\* Both branches of the upsert; the row that is found stays curated or not.
Listed == [catalog EXCEPT !.there = TRUE, !.isActive = TRUE, !.name = "manager"]

\* The upsert is made whatever the answer says of the transaction.
SubmitCatalog(c) ==
    /\ At(c, "answered")
    /\ IF HasAddress(c)
       THEN catalog' = Listed /\ edited' = FALSE /\ delisted' = FALSE
       ELSE UNCHANGED <<catalog, edited, delisted>>
    /\ call' = [call EXCEPT ![c].pc = "listed"]
    /\ UNCHANGED <<managed, deployed, early>>

SubmitRecord(c) ==
    /\ At(c, "listed")
    /\ managed' = [status |-> IF call[c].answer = "refused" THEN "FAILED" ELSE "CONFIRMED",
                   predicted |-> HasAddress(c)]
    /\ CallOver(c)
    /\ UNCHANGED <<catalog, deployed, edited, early, delisted>>

\* A statement fails, the update is refused, or the instance dies.
CallFails(c) ==
    /\ ~At(c, "idle")
    /\ early' = early \ {c}
    /\ CallOver(c)
    /\ UNCHANGED <<catalog, managed, deployed, edited, delisted>>

-----------------------------------------------------------------------------
CatNext ==
    \/ \E c \in Calls :
        \/ \E known \in BOOLEAN : SyncInfo(c, known)
        \/ SyncFind(c) \/ SyncWrite(c)
        \/ Import(c) \/ ImportEnd(c)
        \/ \E dto \in Dto : Update(c, dto)
        \/ UpdateEnd(c)
        \/ SubmitVault(c) \/ SubmitMark(c)
        \/ \E answer \in Answers : SubmitAnswer(c, answer)
        \/ SubmitThrows(c) \/ SubmitCatalog(c) \/ SubmitRecord(c)
        \/ CallFails(c)
    \/ \E predicted \in BOOLEAN : CreateVault(predicted)
    \/ Deploys

CatSpec == CatInit /\ [][CatNext]_catVars

-----------------------------------------------------------------------------
(* Properties *)

\* "Otherwise the discovery job would undo the operator's edit within six hours."
\* The name that an operator gave is the one that is shown, until the name is given
\* back or the vault's creation is submitted, unless the job had found the row
\* before the edit and writes after it.
EditOutlivesSync == edited => catalog.name = "admin"

\* "Após confirmação, cria automaticamente um registro em VaultCatalog": a creation that
\* is recorded as CONFIRMED with its address is on the chain and shown, unless an
\* operator took it off since, although the row is written by one statement and the
\* record by a later one, the job may enter the row hidden before either, the request
\* may die between them, and several submissions of one creation may be on their way.
ConfirmedIsShown ==
    managed.status = "CONFIRMED" /\ managed.predicted => deployed /\ (catalog.isActive \/ delisted)
=============================================================================
