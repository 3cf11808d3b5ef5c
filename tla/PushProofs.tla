----------------------------- MODULE PushProofs -----------------------------
(***************************************************************************)
(* What is said to devices and what is believed of the chain, for any      *)
(* number of events, instances, wallets and calls.                         *)
(***************************************************************************)
EXTENDS PushProperties, SponsoredWallets, PushTarget, FiniteSetTheorems, TLAPS

-----------------------------------------------------------------------------
(* Sponsored wallets.                                                      *)

USE WalletAssumption, BoundAssumption

-----------------------------------------------------------------------------
\* What a request is about to write of the chain is so.
RequestInv(k) ==
    /\ k.pc # "idle" => k.wallet \in Wallets
    /\ k.pc = "record" => /\ k.wallet \in ready
                          /\ k.xdr # 0 => <<k.wallet, "activation", k.xdr>> \in landed
    /\ k.pc = "mark" => /\ k.wallet \in open
                        /\ k.xdr # 0 => <<k.wallet, "line", k.xdr>> \in landed

\* A row is right about the chain.
ActInv(w) ==
    /\ act[w].activated => w \in ready
    /\ act[w].hash # 0 => <<w, "activation", act[w].hash>> \in landed

\* A row of a trustline is right about the chain.
LineInv(w) ==
    /\ trust[w].status = "ACTIVE" => w \in open
    /\ trust[w].hash # 0 => <<w, "line", trust[w].hash>> \in landed

\* The inductive invariant of the wallets.
WalletInv ==
    /\ WalletTypeOK
    /\ \A w \in Wallets : ActInv(w) /\ LineInv(w)
    /\ \A c \in Calls : RequestInv(call[c])

-----------------------------------------------------------------------------
\* A request that has ended is a request.
LEMMA IdleRequest == NoCall \in RequestRow /\ NoCall.pc = "idle"
BY DEF NoCall, RequestRow, Tx

\* The mishaps are counted within their bound.
LEMMA MishapTypes ==
    ASSUME WalletTypeOK, Mishap \/ UNCHANGED trouble
    PROVE  trouble' \in 0 .. MaxTrouble
BY DEF WalletTypeOK, Mishap

\* What is on chain stays there, and at most one row of a wallet is written.
LEMMA WalletSteps ==
    ASSUME WalletInv, linked' \in [Wallets -> {"absent", "active", "removed"}],
           trouble' \in 0 .. MaxTrouble, seq' \in Tx,
           ready' \in SUBSET Wallets, open' \in SUBSET Wallets,
           landed' \in SUBSET (Wallets \X {"activation", "line"} \X Tx),
           ready \subseteq ready', open \subseteq open', landed \subseteq landed',
           act' \in [Wallets -> ActRow], trust' \in [Wallets -> LineRow],
           \A w \in Wallets : (ActInv(w) => ActInv(w)') /\ (LineInv(w) => LineInv(w)'),
           call' \in [Calls -> RequestRow],
           \A c \in Calls : call'[c] = call[c] \/ RequestInv(call[c])'
    PROVE  WalletInv'
<1>1. WalletTypeOK'
  BY DEF WalletTypeOK
<1>2. \A w \in Wallets : ActInv(w)' /\ LineInv(w)'
  BY DEF WalletInv
<1>3. ASSUME NEW c \in Calls PROVE RequestInv(call[c])'
  <2>1. CASE call'[c] = call[c]
    BY <2>1 DEF WalletInv, RequestInv
  <2> QED
    BY <2>1
<1> QED
  BY <1>1, <1>2, <1>3 DEF WalletInv

\* A request goes on to `new`; the rows stay.
LEMMA RequestSteps ==
    ASSUME WalletInv, NEW c \in Calls, NEW new \in RequestRow, call' = [call EXCEPT ![c] = new],
           UNCHANGED walletRows, trouble' \in 0 .. MaxTrouble, seq' \in Tx,
           ready' \in SUBSET Wallets, open' \in SUBSET Wallets,
           landed' \in SUBSET (Wallets \X {"activation", "line"} \X Tx),
           ready \subseteq ready', open \subseteq open', landed \subseteq landed',
           RequestInv(new)'
    PROVE  WalletInv'
<1>1. WalletTypeOK /\ UNCHANGED <<linked, act, trust>>
  BY DEF WalletInv, walletRows
<1>2. \A w \in Wallets : (ActInv(w) => ActInv(w)') /\ (LineInv(w) => LineInv(w)')
  BY <1>1 DEF ActInv, LineInv
<1>3. call' \in [Calls -> RequestRow] /\ \A d \in Calls : call'[d] = IF d = c THEN new ELSE call[d]
  BY <1>1 DEF WalletTypeOK
<1>4. \A d \in Calls : call'[d] = call[d] \/ RequestInv(call[d])'
  <2>1. ASSUME NEW d \in Calls, call'[d] # call[d] PROVE RequestInv(call[d])'
    <3>1. call'[d] = new
      BY <1>3, <2>1
    <3> QED
      BY <3>1 DEF RequestInv
  <2> QED
    BY <2>1
<1>5. linked' \in [Wallets -> {"absent", "active", "removed"}] /\ act' \in [Wallets -> ActRow]
      /\ trust' \in [Wallets -> LineRow]
  BY <1>1 DEF WalletTypeOK
<1> QED
  BY <1>2, <1>3, <1>4, <1>5, WalletSteps

-----------------------------------------------------------------------------
\* A request starts, and goes on without a word of the chain.
LEMMA WalletRequestKeeps ==
    ASSUME WalletInv, NEW c \in Calls,
           \/ \E w \in Wallets :
                ActivateLock(c, w) \/ SubmitLock(c, w) \/ EnsureLook(c, w) \/ LineRead(c, w)
           \/ ActivateBuild(c) \/ SubmitLook(c) \/ EnsureRow(c) \/ EnsureBuild(c) \/ LineCheck(c)
           \/ CallFails(c)
    PROVE  WalletInv'
<1>1. WalletTypeOK /\ call[c] \in RequestRow /\ RequestInv(call[c]) /\ seq \in Tx
      /\ ready \in SUBSET Wallets /\ open \in SUBSET Wallets
      /\ landed \in SUBSET (Wallets \X {"activation", "line"} \X Tx)
  BY DEF WalletInv, WalletTypeOK
<1>2. UNCHANGED <<walletRows, onChain>> /\ (Mishap \/ UNCHANGED trouble)
  BY DEF ActivateLock, SubmitLock, EnsureLook, LineRead, ActivateBuild, SubmitLook, EnsureRow,
         EnsureBuild, LineCheck, CallFails
<1>3. \E new \in RequestRow : call' = [call EXCEPT ![c] = new] /\ RequestInv(new)
  <2>1. ASSUME NEW w \in Wallets, ActivateLock(c, w) \/ SubmitLock(c, w) \/ EnsureLook(c, w) \/ LineRead(c, w)
        PROVE  \E new \in RequestRow : call' = [call EXCEPT ![c] = new] /\ RequestInv(new)
    <3>1. act[w].xdr \in Tx /\ trust[w].xdr \in Tx
      BY <1>1 DEF WalletTypeOK, ActRow, LineRow
    <3>2. CASE ActivateLock(c, w)
      <4> DEFINE new == [pc |-> "build", wallet |-> w, xdr |-> 0]
      <4>1. new \in RequestRow /\ RequestInv(new)
        BY DEF RequestRow, RequestInv, Tx
      <4>2. call' = [call EXCEPT ![c] = new]
        BY <3>2 DEF ActivateLock
      <4> QED
        BY <4>1, <4>2
    <3>3. CASE SubmitLock(c, w)
      <4> DEFINE new == [pc |-> "send", wallet |-> w, xdr |-> act[w].xdr]
      <4>1. new \in RequestRow /\ RequestInv(new)
        BY <3>1 DEF RequestRow, RequestInv
      <4>2. call' = [call EXCEPT ![c] = new]
        BY <3>3 DEF SubmitLock
      <4> QED
        BY <4>1, <4>2
    <3>4. CASE EnsureLook(c, w)
      <4> DEFINE new == [pc |-> IF w \in open THEN "mark" ELSE "look", wallet |-> w, xdr |-> 0]
      <4>1. new \in RequestRow /\ RequestInv(new)
        BY DEF RequestRow, RequestInv, Tx
      <4>2. call' = [call EXCEPT ![c] = new]
        BY <3>4 DEF EnsureLook
      <4> QED
        BY <4>1, <4>2
    <3>5. CASE LineRead(c, w)
      <4> DEFINE new == [pc |-> "lineSend", wallet |-> w, xdr |-> trust[w].xdr]
      <4>1. new \in RequestRow /\ RequestInv(new)
        BY <3>1 DEF RequestRow, RequestInv
      <4>2. call' = [call EXCEPT ![c] = new]
        BY <3>5 DEF LineRead
      <4> QED
        BY <4>1, <4>2
    <3> QED
      BY <2>1, <3>2, <3>3, <3>4, <3>5
  <2>2. \A pc \in {"store", "lineStore", "lineBuild", "lineFail"} :
            pc # "idle" /\ call[c].pc # "idle" =>
                /\ [call[c] EXCEPT !.pc = pc] \in RequestRow
                /\ [call[c] EXCEPT !.pc = pc, !.xdr = seq] \in RequestRow
                /\ RequestInv([call[c] EXCEPT !.pc = pc])
                /\ RequestInv([call[c] EXCEPT !.pc = pc, !.xdr = seq])
    BY <1>1 DEF RequestRow, RequestInv
  <2>3. CASE ActivateBuild(c)
    <3>1. call' = [call EXCEPT ![c] = [call[c] EXCEPT !.pc = "store", !.xdr = seq]] /\ call[c].pc # "idle"
      BY <1>1, <2>3 DEF ActivateBuild, At, WalletTypeOK
    <3> QED
      BY <2>2, <3>1
  <2>4. CASE EnsureBuild(c)
    <3>1. call' = [call EXCEPT ![c] = [call[c] EXCEPT !.pc = "lineStore", !.xdr = seq]]
          /\ call[c].pc # "idle"
      BY <1>1, <2>4 DEF EnsureBuild, At, WalletTypeOK
    <3> QED
      BY <2>2, <3>1
  <2>5. CASE call' = [call EXCEPT ![c] = NoCall]
    BY <2>5, IdleRequest DEF RequestInv
  <2>6. CASE SubmitLook(c)
    <3>1. CASE Found(Of(c)) /\ call' = [call EXCEPT ![c] = [@ EXCEPT !.pc = "record", !.xdr = 0]]
      <4> DEFINE new == [call[c] EXCEPT !.pc = "record", !.xdr = 0]
      <4>1. new \in RequestRow /\ new.pc = "record" /\ new.xdr = 0 /\ new.wallet = call[c].wallet
        BY <1>1 DEF RequestRow, Tx
      <4>2. call' = [call EXCEPT ![c] = new] /\ new.wallet \in ready
        BY <1>1, <3>1, <4>1 DEF Found, Of, WalletTypeOK
      <4>3. RequestInv(new)
        BY <1>1, <4>1, <4>2 DEF RequestInv
      <4> QED
        BY <4>1, <4>2, <4>3
    <3> QED
      BY <2>5, <2>6, <3>1 DEF SubmitLook, Over
  <2>7. CASE EnsureRow(c)
    <3>1. CASE call' = [call EXCEPT ![c].pc = "lineBuild"]
      <4>1. call' = [call EXCEPT ![c] = [call[c] EXCEPT !.pc = "lineBuild"]] /\ call[c].pc # "idle"
        BY <1>1, <2>7, <3>1 DEF EnsureRow, At, WalletTypeOK
      <4> QED
        BY <2>2, <4>1
    <3> QED
      BY <2>5, <2>7, <3>1 DEF EnsureRow, Over, Goto
  <2>8. CASE LineCheck(c)
    <3>1. CASE Of(c) \in open
      <4> DEFINE new == [call[c] EXCEPT !.pc = "mark", !.xdr = 0]
      <4>1. new \in RequestRow /\ new.pc = "mark" /\ new.xdr = 0 /\ new.wallet = call[c].wallet
        BY <1>1 DEF RequestRow, Tx
      <4>2. call' = [call EXCEPT ![c] = new]
        BY <1>1, <2>8, <3>1 DEF LineCheck, WalletTypeOK
      <4>3. RequestInv(new)
        BY <1>1, <3>1, <4>1 DEF RequestInv, Of
      <4> QED
        BY <4>1, <4>2, <4>3
    <3>2. CASE Of(c) \notin open
      <4>1. call' = [call EXCEPT ![c] = [call[c] EXCEPT !.pc = "lineFail"]] /\ call[c].pc # "idle"
        BY <1>1, <2>8, <3>2 DEF LineCheck, At, WalletTypeOK
      <4> QED
        BY <2>2, <4>1
    <3> QED
      BY <3>1, <3>2
  <2>9. CASE CallFails(c)
    BY <2>5, <2>9 DEF CallFails, Over
  <2> QED
    BY <2>1, <2>3, <2>4, <2>6, <2>7, <2>8, <2>9
<1>4. PICK new \in RequestRow : call' = [call EXCEPT ![c] = new] /\ RequestInv(new)
  BY <1>3
<1>5. trouble' \in 0 .. MaxTrouble
  BY <1>1, <1>2, MishapTypes
<1>6. UNCHANGED <<seq, ready, open, landed>>
  BY <1>2 DEF onChain
<1>7. RequestInv(new)'
  BY <1>4, <1>6 DEF RequestInv
<1> QED
  BY <1>1, <1>2, <1>4, <1>5, <1>6, <1>7, RequestSteps

\* The network takes the transaction, or refuses it.
LEMMA RelayKeeps ==
    ASSUME WalletInv, NEW c \in Calls, SubmitRelay(c) \/ LineSend(c)
    PROVE  WalletInv'
<1>1. WalletTypeOK /\ call[c] \in RequestRow /\ RequestInv(call[c]) /\ seq \in Tx
      /\ ready \in SUBSET Wallets /\ open \in SUBSET Wallets
      /\ landed \in SUBSET (Wallets \X {"activation", "line"} \X Tx)
      /\ call[c].pc \in {"send", "lineSend"} /\ UNCHANGED walletRows
  BY DEF WalletInv, WalletTypeOK, SubmitRelay, LineSend, At
<1>2. call[c].wallet \in Wallets
  BY <1>1 DEF RequestInv
<1>3. ASSUME NEW what \in {"activation", "line"}, NEW told \in {"record", "mark"},
             NEW lost \in {"check", "lineCheck"}, Lands(c, what, told, lost),
             IF what = "activation" THEN told = "record" /\ ready' = ready \cup {Of(c)} /\ UNCHANGED open
             ELSE told = "mark" /\ open' = open \cup {Of(c)} /\ UNCHANGED ready
      PROVE  WalletInv'
  <2>1. seq' = seq + 1 /\ landed' = landed \cup {<<call[c].wallet, what, seq>>} /\ call[c].xdr = seq
    BY <1>3 DEF Lands, Of
  <2>2. trouble' \in 0 .. MaxTrouble
    BY <1>1, <1>3, MishapTypes DEF Lands
  <2>3. seq' \in Tx
    BY <1>1, <2>1 DEF Tx
  <2>4. landed' \in SUBSET (Wallets \X {"activation", "line"} \X Tx)
    BY <1>1, <1>2, <2>1
  <2>5. ready' \in SUBSET Wallets /\ open' \in SUBSET Wallets /\ ready \subseteq ready'
        /\ open \subseteq open' /\ landed \subseteq landed'
    BY <1>1, <1>2, <1>3, <2>1 DEF Of
  <2>6. PICK pc \in {told, lost} : call' = [call EXCEPT ![c] = [call[c] EXCEPT !.pc = pc]]
    BY <1>1, <1>3 DEF Lands, Goto, WalletTypeOK
  <2>7. PICK new : new = [call[c] EXCEPT !.pc = pc]
    OBVIOUS
  <2>8. new \in RequestRow /\ new.pc = pc /\ new.wallet = call[c].wallet /\ new.xdr = seq
    BY <1>1, <2>1, <2>7 DEF RequestRow
  <2>9. RequestInv(new)'
    BY <1>2, <1>3, <2>1, <2>8 DEF RequestInv, Of
  <2> QED
    BY <1>1, <2>2, <2>3, <2>4, <2>5, <2>6, <2>7, <2>8, <2>9, RequestSteps
<1>4. ASSUME NEW what, NEW fresh, NEW lost \in {"check", "lineCheck"}, Refused(c, what, fresh, lost)
      PROVE  WalletInv'
  <2>1. seq' \in {seq, seq + 1} /\ (Mishap \/ UNCHANGED trouble) /\ UNCHANGED <<ready, open, landed>>
    BY <1>4 DEF Refused
  <2>2. trouble' \in 0 .. MaxTrouble /\ seq' \in Tx
    BY <1>1, <2>1, MishapTypes DEF Tx
  <2>3. PICK new : new = [call[c] EXCEPT !.pc = lost]
    OBVIOUS
  <2>4. call' = [call EXCEPT ![c] = new]
    BY <1>1, <1>4, <2>3 DEF Refused, Goto, WalletTypeOK
  <2>5. new \in RequestRow /\ new.pc = lost /\ new.wallet = call[c].wallet
    BY <1>1, <2>3 DEF RequestRow
  <2>6. RequestInv(new)'
    BY <1>2, <2>5 DEF RequestInv
  <2> QED
    BY <1>1, <2>1, <2>2, <2>4, <2>5, <2>6, RequestSteps
<1> QED
  BY <1>3, <1>4 DEF SubmitRelay, LineSend

\* A request writes its row, and is over.
LEMMA RowKeeps ==
    ASSUME WalletInv, NEW c \in Calls,
           ActivateStore(c) \/ SubmitRecord(c) \/ EnsureStore(c) \/ LineFail(c) \/ MarkActive(c)
    PROVE  WalletInv'
<1>1. PICK w \in Wallets : w = call[c].wallet
  BY DEF WalletInv, RequestInv, ActivateStore, SubmitRecord, EnsureStore, LineFail, MarkActive, At
<1>2. WalletTypeOK /\ call[c] \in RequestRow /\ RequestInv(call[c]) /\ ActInv(w) /\ LineInv(w)
      /\ act[w] \in ActRow /\ trust[w] \in LineRow /\ call[c].xdr \in Tx
  BY <1>1 DEF WalletInv, WalletTypeOK, RequestRow
<1>3. /\ UNCHANGED <<linked, seq, ready, open, landed, trouble>>
      /\ call' = [call EXCEPT ![c] = NoCall]
  BY DEF ActivateStore, SubmitRecord, EnsureStore, LineFail, MarkActive, onChain, Over
<1>4. call' \in [Calls -> RequestRow] /\ \A d \in Calls : call'[d] = call[d] \/ RequestInv(call[d])'
  BY <1>2, <1>3, IdleRequest DEF WalletTypeOK, RequestInv
<1>5. /\ linked' \in [Wallets -> {"absent", "active", "removed"}] /\ trouble' \in 0 .. MaxTrouble
      /\ seq' \in Tx /\ ready' \in SUBSET Wallets /\ open' \in SUBSET Wallets
      /\ landed' \in SUBSET (Wallets \X {"activation", "line"} \X Tx)
      /\ act \in [Wallets -> ActRow] /\ trust \in [Wallets -> LineRow]
  BY <1>2, <1>3 DEF WalletTypeOK
<1>6. ASSUME NEW new \in ActRow, act' = [act EXCEPT ![w] = new], UNCHANGED trust,
             new.activated => w \in ready,
             new.hash # 0 => <<w, "activation", new.hash>> \in landed
      PROVE  WalletInv'
  <2>1. act' \in [Wallets -> ActRow] /\ trust' \in [Wallets -> LineRow]
    BY <1>5, <1>6
  <2>2. \A v \in Wallets : (ActInv(v) => ActInv(v)') /\ (LineInv(v) => LineInv(v)')
    BY <1>3, <1>5, <1>6 DEF ActInv, LineInv
  <2> QED
    BY <1>3, <1>4, <1>5, <2>1, <2>2, WalletSteps
<1>7. ASSUME NEW new \in LineRow, trust' = [trust EXCEPT ![w] = new], UNCHANGED act,
             new.status = "ACTIVE" => w \in open,
             new.hash # 0 => <<w, "line", new.hash>> \in landed
      PROVE  WalletInv'
  <2>1. act' \in [Wallets -> ActRow] /\ trust' \in [Wallets -> LineRow]
    BY <1>5, <1>7
  <2>2. \A v \in Wallets : (ActInv(v) => ActInv(v)') /\ (LineInv(v) => LineInv(v)')
    BY <1>3, <1>5, <1>7 DEF ActInv, LineInv
  <2> QED
    BY <1>3, <1>4, <1>5, <2>1, <2>2, WalletSteps
<1>8. CASE ActivateStore(c)
  <2> DEFINE new == [act[w] EXCEPT !.xdr = call[c].xdr, !.fresh = TRUE]
  <2>1. act' = [act EXCEPT ![w] = new] /\ UNCHANGED trust
    BY <1>1, <1>5, <1>8 DEF ActivateStore, Of
  <2>2. new \in ActRow /\ new.activated = act[w].activated /\ new.hash = act[w].hash
    BY <1>2 DEF ActRow
  <2> HIDE DEF new
  <2> QED
    BY <1>2, <1>6, <2>1, <2>2 DEF ActInv
<1>9. CASE SubmitRecord(c)
  <2> DEFINE hash == IF call[c].xdr = 0 THEN act[w].hash ELSE call[c].xdr
             new == [activated |-> TRUE, xdr |-> 0, fresh |-> FALSE, hash |-> hash]
  <2>1. act' = [act EXCEPT ![w] = new] /\ UNCHANGED trust /\ call[c].pc = "record"
    BY <1>1, <1>5, <1>9 DEF SubmitRecord, Of, At
  <2>2. w \in ready /\ hash \in Tx /\ (hash # 0 => <<w, "activation", hash>> \in landed)
    BY <1>1, <1>2, <2>1 DEF RequestInv, ActInv, ActRow
  <2>3. new \in ActRow
    BY <2>2 DEF ActRow, Tx
  <2> QED
    BY <1>6, <2>1, <2>2, <2>3
<1>10. CASE EnsureStore(c)
  <2> DEFINE new == [trust[w] EXCEPT !.status = "PENDING_SIGNATURE", !.xdr = call[c].xdr, !.fresh = TRUE]
  <2>1. trust' = [trust EXCEPT ![w] = new] /\ UNCHANGED act
    BY <1>1, <1>5, <1>10 DEF EnsureStore, Of
  <2>2. new \in LineRow /\ new.status # "ACTIVE" /\ new.hash = trust[w].hash
    BY <1>2 DEF LineRow
  <2> HIDE DEF new
  <2> QED
    BY <1>2, <1>7, <2>1, <2>2 DEF LineInv
<1>11. CASE LineFail(c)
  <2> DEFINE new == [trust[w] EXCEPT !.status = "FAILED"]
  <2>1. trust' = [trust EXCEPT ![w] = new] /\ UNCHANGED act
    BY <1>1, <1>5, <1>11 DEF LineFail, Of
  <2>2. new \in LineRow /\ new.status # "ACTIVE" /\ new.hash = trust[w].hash
    BY <1>2 DEF LineRow
  <2> HIDE DEF new
  <2> QED
    BY <1>2, <1>7, <2>1, <2>2 DEF LineInv
<1>12. CASE MarkActive(c)
  <2> DEFINE hash == IF call[c].xdr = 0 THEN trust[w].hash ELSE call[c].xdr
             new == [status |-> "ACTIVE", xdr |-> 0, fresh |-> FALSE, hash |-> hash]
  <2>1. trust' = [trust EXCEPT ![w] = new] /\ UNCHANGED act /\ call[c].pc = "mark"
    BY <1>1, <1>5, <1>12 DEF MarkActive, Of, At
  <2>2. w \in open /\ hash \in Tx /\ (hash # 0 => <<w, "line", hash>> \in landed)
    BY <1>1, <1>2, <2>1 DEF RequestInv, LineInv, LineRow
  <2>3. new \in LineRow
    BY <2>2 DEF LineRow, Tx
  <2> QED
    BY <1>7, <2>1, <2>2, <2>3
<1> QED
  BY <1>8, <1>9, <1>10, <1>11, <1>12

\* What comes from outside: the owner links or removes the wallet, time passes, and the
\* treasury does something else.
LEMMA OutsideKeeps ==
    ASSUME WalletInv, OthersLand \/ \E w \in Wallets : Link(w) \/ Remove(w) \/ Expire(w)
    PROVE  WalletInv'
<1>1. WalletTypeOK /\ call' = call /\ UNCHANGED <<ready, open, landed>>
  BY DEF WalletInv, Link, Remove, Expire, OthersLand, onChain
<1>2. trouble' \in 0 .. MaxTrouble
  BY <1>1, MishapTypes DEF Link, Remove, Expire, Passes, OthersLand
<1>3. seq' \in Tx
  BY <1>1 DEF Link, Remove, Expire, OthersLand, onChain, WalletTypeOK, Tx
<1>4. linked' \in [Wallets -> {"absent", "active", "removed"}]
  BY <1>1 DEF Link, Remove, Expire, OthersLand, walletRows, WalletTypeOK
<1> DEFINE Kept == /\ act' \in [Wallets -> ActRow] /\ trust' \in [Wallets -> LineRow]
                   /\ \A v \in Wallets : (ActInv(v) => ActInv(v)') /\ (LineInv(v) => LineInv(v)')
<1>5. Kept
  <2>1. ASSUME UNCHANGED <<act, trust>> PROVE Kept
    BY <1>1, <2>1 DEF WalletTypeOK, ActInv, LineInv
  <2>2. ASSUME NEW w \in Wallets, act' = [act EXCEPT ![w].fresh = FALSE], UNCHANGED trust
        PROVE  Kept
    <3>1. act' = [act EXCEPT ![w] = [act[w] EXCEPT !.fresh = FALSE]]
      BY <1>1, <2>2 DEF WalletTypeOK
    <3>2. [act[w] EXCEPT !.fresh = FALSE] \in ActRow /\ [act[w] EXCEPT !.fresh = FALSE].hash = act[w].hash
          /\ [act[w] EXCEPT !.fresh = FALSE].activated = act[w].activated
      BY <1>1 DEF WalletTypeOK, ActRow
    <3> QED
      BY <1>1, <2>2, <3>1, <3>2 DEF WalletTypeOK, ActInv, LineInv
  <2>3. ASSUME NEW w \in Wallets, trust' = [trust EXCEPT ![w].fresh = FALSE], UNCHANGED act
        PROVE  Kept
    <3>1. trust' = [trust EXCEPT ![w] = [trust[w] EXCEPT !.fresh = FALSE]]
      BY <1>1, <2>3 DEF WalletTypeOK
    <3>2. [trust[w] EXCEPT !.fresh = FALSE] \in LineRow
          /\ [trust[w] EXCEPT !.fresh = FALSE].hash = trust[w].hash
          /\ [trust[w] EXCEPT !.fresh = FALSE].status = trust[w].status
      BY <1>1 DEF WalletTypeOK, LineRow
    <3> QED
      BY <1>1, <2>3, <3>1, <3>2 DEF WalletTypeOK, ActInv, LineInv
  <2> HIDE DEF Kept
  <2>4. CASE OthersLand
    BY <2>1, <2>4 DEF OthersLand, walletRows
  <2>5. ASSUME NEW w \in Wallets, Link(w) \/ Remove(w) \/ Expire(w) PROVE Kept
    <3>1. CASE Link(w)
      BY <2>1, <3>1 DEF Link
    <3>2. CASE Remove(w)
      BY <2>1, <3>2 DEF Remove
    <3>3. CASE Expire(w)
      BY <2>2, <2>3, <3>3 DEF Expire
    <3> QED
      BY <2>5, <3>1, <3>2, <3>3
  <2> QED
    BY <2>4, <2>5
<1>6. /\ call' \in [Calls -> RequestRow] /\ ready' \in SUBSET Wallets /\ open' \in SUBSET Wallets
      /\ landed' \in SUBSET (Wallets \X {"activation", "line"} \X Tx)
  BY <1>1 DEF WalletTypeOK
<1> QED
  BY <1>1, <1>2, <1>3, <1>4, <1>5, <1>6, WalletSteps

-----------------------------------------------------------------------------
\* Everything the theorem below rests on: WalletInv is inductive.
THEOREM WalletInvariant == WalletSpec => []WalletInv
<1>1. WalletInit => WalletInv
  BY IdleRequest DEF WalletInit, WalletInv, WalletTypeOK, ActInv, LineInv, RequestInv, ActRow, LineRow, Tx
<1>2. WalletInv /\ [WalletNext]_walletVars => WalletInv'
  <2> SUFFICES ASSUME WalletInv, [WalletNext]_walletVars PROVE WalletInv'
    OBVIOUS
  <2>1. CASE UNCHANGED walletVars
    BY <2>1 DEF WalletInv, WalletTypeOK, ActInv, LineInv, RequestInv, walletVars
  <2>2. ASSUME NEW c \in Calls, Proceed(c) PROVE WalletInv'
    BY <2>2, WalletRequestKeeps, RelayKeeps, RowKeeps DEF Proceed
  <2> QED
    BY <2>1, <2>2, WalletRequestKeeps, OutsideKeeps DEF WalletNext
<1> QED
  BY <1>1, <1>2, PTL DEF WalletSpec

\* Whatever becomes of answers, calls and instances, the rows say of the chain only what
\* is so, and name the transactions that did it.
THEOREM RowsFollowTheChain == WalletSpec => []RecordsFollowChain
<1>1. WalletInv => RecordsFollowChain
  BY DEF WalletInv, ActInv, LineInv, RecordsFollowChain
<1> QED
  BY <1>1, WalletInvariant, PTL

-----------------------------------------------------------------------------
(* The outbox of pushes.                                                   *)

USE MaxPushAttemptsAssumption, MaxDevicesAssumption, EventAssumption, NoneAssumption

-----------------------------------------------------------------------------
\* The rows that a run still has: claimed, and neither finished nor deleted.
Live(i) == claimed[i] \ erased[i]

\* The runs that may yet claim the row, and would put it back.
Late(e) == {i \in Dispatchers : e \in seen[i] /\ read[i][e] + 1 < MaxPushAttempts}

\* There are attempts enough for each of them, and for one that would not.
Room(e) == pushAttempts[e] + Cardinality(Late(e)) + 2 <= MaxPushAttempts + Cardinality(Dispatchers)

\* What Expo took, it took without our knowing.
Unheard(e) == delivered[e] # 0 => e \in lostAnswer

\* The receipts of a row came, or Expo is about to drop them, or has.
Answered(e) == age[e] \in {"old", "lost"} \/ \A t \in tickets[e] : <<e, t>> \in answered

\* What the row of an event says of its deliveries.
RowInv(e) ==
    /\ rowStatus[e] = "absent" => pushAttempts[e] = 0 /\ delivered[e] = 0
    /\ delivered[e] <= pushAttempts[e]
    /\ delivered[e] > 1 => e \in lostAnswer
    /\ rowStatus[e] = "PENDING" => Unheard(e) /\ (Dispatchers # {} => Room(e))
    /\ pushAttempts[e] < MaxPushAttempts + Cardinality(Dispatchers)
    /\ checked[e] => rowStatus[e] = "SENT" /\ Answered(e)

\* A row that a run has claimed is no other run's; Expo was not heard to have taken it while
\* the run is on its way to Expo; there is room for the attempt that it would put back.
ClaimInv(i, e) ==
    e \in Live(i) =>
        /\ rowStatus[e] \in {"SENDING", "FAILED"}
        /\ dispatch[i] \in {"claim", "skip"} => Unheard(e) /\ delivered[e] < pushAttempts[e]
        /\ dispatch[i] \in {"disable", "finish"} /\ result[i][e].ok = {} => Unheard(e)
        /\ read[i][e] + 1 < MaxPushAttempts => Room(e)
        /\ \A j \in Dispatchers \ {i} : e \notin Live(j)

\* Of a run: what is idle or has only read has claimed nothing.
RunInv(i) ==
    /\ dispatch[i] # "send"
    /\ dispatch[i] \in {"idle", "scan"} => claimed[i] = {}

\* A check of receipts looks at rows that were sent, and knows which are old.
LookInv(c) ==
    \A p \in looking[c] : /\ rowStatus[p[1]] = "SENT"
                          /\ p[2] = "old" => age[p[1]] \in {"old", "lost"}

\* The inductive invariant of the outbox.
PushInv ==
    /\ PushTypeOK
    /\ \A e \in Events : RowInv(e)
    /\ \A i \in Dispatchers, e \in Events : ClaimInv(i, e)
    /\ \A i \in Dispatchers : RunInv(i)
    /\ \A c \in Checkers : LookInv(c)

-----------------------------------------------------------------------------
\* Of the runs there are finitely many.
LEMMA Runs ==
    /\ Cardinality(Dispatchers) \in Nat
    /\ Dispatchers # {} => Cardinality(Dispatchers) >= 1
    /\ \A S \in SUBSET Dispatchers :
           IsFiniteSet(S) /\ Cardinality(S) \in Nat /\ Cardinality(S) <= Cardinality(Dispatchers)
    /\ \A S \in SUBSET Dispatchers : \A T \in SUBSET S : Cardinality(T) <= Cardinality(S)
<1>1. \A S \in SUBSET Dispatchers :
          IsFiniteSet(S) /\ Cardinality(S) \in Nat /\ Cardinality(S) <= Cardinality(Dispatchers)
  BY FiniteAssumption, FS_Subset, FS_CardinalityType
<1>2. \A S \in SUBSET Dispatchers : \A T \in SUBSET S : Cardinality(T) <= Cardinality(S)
  BY <1>1, FS_Subset
<1>3. Dispatchers # {} => Cardinality(Dispatchers) >= 1
  BY <1>1, FiniteAssumption, FS_EmptySet
<1> QED
  BY <1>1, <1>2, <1>3

\* The late runs are finitely many.
LEMMA LateRuns ==
    \A e : Late(e) \in SUBSET Dispatchers /\ Cardinality(Late(e)) \in Nat
           /\ Cardinality(Late(e)) <= Cardinality(Dispatchers)
BY Runs DEF Late

\* Fewer runs are late: there is still room.
LEMMA RoomKept ==
    ASSUME PushTypeOK, PushTypeOK', NEW e \in Events,
           Late(e)' \subseteq Late(e), pushAttempts'[e] = pushAttempts[e], Room(e)
    PROVE  Room(e)'
<1>1. Late(e) \in SUBSET Dispatchers /\ Late(e)' \in SUBSET Late(e)
  BY LateRuns
<1> DEFINE S == Late(e)
           T == {i \in Dispatchers : e \in seen'[i] /\ read'[i][e] + 1 < MaxPushAttempts}
<1>2. T = Late(e)'
  BY DEF Late
<1>3. Cardinality(T) <= Cardinality(S) /\ Cardinality(T) \in Nat /\ Cardinality(S) \in Nat
  BY <1>1, <1>2, Runs
<1>4. pushAttempts[e] \in Nat
  BY Runs DEF PushTypeOK, Attempts
<1>5. pushAttempts[e] + Cardinality(S) + 2 <= MaxPushAttempts + Cardinality(Dispatchers)
  BY DEF Room
<1> HIDE DEF S, T
<1>6. pushAttempts'[e] + Cardinality(T) + 2 <= MaxPushAttempts + Cardinality(Dispatchers)
  BY <1>3, <1>4, <1>5, Runs
<1> QED
  BY <1>2, <1>6 DEF Room

\* The types of a row, as the steps below use them.
LEMMA AttemptsAre ==
    ASSUME PushTypeOK, NEW e \in Events
    PROVE  /\ pushAttempts[e] \in Nat /\ delivered[e] \in Nat
           /\ \A i \in Dispatchers : read[i][e] \in Nat
           /\ rowStatus[e] \in NotificationStatus \cup {"absent"}
           /\ pushAttempts[e] < MaxPushAttempts + Cardinality(Dispatchers) => pushAttempts[e] \in Attempts
BY Runs DEF PushTypeOK, Attempts

\* Requests of users and of the business, which touch neither rows nor runs.
LEMMA RequestKeeps ==
    ASSUME PushInv, PushTypeOK', UNCHANGED <<row, dispatch, batch, looking, history>>
    PROVE  PushInv'
<1>1. ASSUME NEW e \in Events PROVE RowInv(e)'
  <2>1. Late(e)' = Late(e)
    BY DEF Late, batch
  <2> QED
    BY <2>1 DEF PushInv, RowInv, Room, Unheard, Answered, row, history
<1>2. ASSUME NEW i \in Dispatchers, NEW e \in Events PROVE ClaimInv(i, e)'
  <2>1. Late(e)' = Late(e)
    BY DEF Late, batch
  <2> QED
    BY <2>1 DEF PushInv, ClaimInv, Live, Room, Unheard, row, batch, history
<1>3. ASSUME NEW i \in Dispatchers PROVE RunInv(i)'
  BY DEF PushInv, RunInv, batch
<1>4. ASSUME NEW c \in Checkers PROVE LookInv(c)'
  BY DEF PushInv, LookInv, row
<1> QED
  BY <1>1, <1>2, <1>3, <1>4 DEF PushInv

\* A run ends, or dies: what it had claimed stays as it is.
LEMMA IdleKeeps ==
    ASSUME PushInv, NEW i \in Dispatchers, Idle(i),
           UNCHANGED <<row, devices, deleted, requests, looking, history>>
    PROVE  PushInv'
<1>1. PushTypeOK'
  <2>1. /\ dispatch' \in [Dispatchers -> {"idle", "scan", "claim", "skip", "send", "disable", "finish"}]
        /\ seen' \in [Dispatchers -> SUBSET Events] /\ claimed' \in [Dispatchers -> SUBSET Events]
        /\ erased' \in [Dispatchers -> SUBSET Events] /\ gone' \in [Dispatchers -> SUBSET Tokens]
    BY DEF PushInv, PushTypeOK, Idle
  <2>2. read' \in [Dispatchers -> [Events -> Attempts]]
    <3>1. [e \in Events |-> 0] \in [Events -> Attempts]
      BY Runs DEF Attempts
    <3> QED
      BY <3>1 DEF PushInv, PushTypeOK, Idle
  <2>3. route' \in [Dispatchers -> [Events -> SUBSET Tokens]]
    BY DEF PushInv, PushTypeOK, Idle
  <2>4. result' \in [Dispatchers -> [Events -> [ok: SUBSET Tokens, retry: BOOLEAN]]]
    BY DEF PushInv, PushTypeOK, Idle, NoAnswer
  <2> QED
    BY <2>1, <2>2, <2>3, <2>4 DEF PushInv, PushTypeOK, row, devices, requests, history
<1>2. \A e : Late(e)' \subseteq Late(e)
  BY DEF PushInv, PushTypeOK, Idle, Late
<1>3. PushTypeOK
  BY DEF PushInv
<1>4. ASSUME NEW e \in Events PROVE RowInv(e)'
  <2>1. RowInv(e) /\ UNCHANGED <<rowStatus, pushAttempts, tickets, checked, age>>
        /\ UNCHANGED <<delivered, lostAnswer, answered>>
    BY DEF PushInv, row, history
  <2>2. Room(e) => Room(e)'
    BY <1>1, <1>2, <1>3, <2>1, RoomKept
  <2> QED
    BY <2>1, <2>2 DEF RowInv, Unheard, Answered
<1>5. ASSUME NEW j \in Dispatchers, NEW e \in Events PROVE ClaimInv(j, e)'
  <2>1. ClaimInv(j, e) /\ UNCHANGED <<rowStatus, pushAttempts, delivered, lostAnswer>>
    BY DEF PushInv, row, history
  <2>2. Room(e) => Room(e)'
    BY <1>1, <1>2, <1>3, <2>1, RoomKept
  <2>3. Live(i)' = {} /\ \A d \in Dispatchers \ {i} :
                /\ Live(d)' = Live(d) /\ dispatch'[d] = dispatch[d] /\ result'[d] = result[d]
                /\ read'[d] = read[d]
    BY <1>3 DEF PushTypeOK, Idle, Live
  <2>4. CASE j = i
    BY <2>3, <2>4 DEF ClaimInv
  <2>5. CASE j # i
    BY <2>1, <2>2, <2>3, <2>5 DEF ClaimInv, Unheard
  <2> QED
    BY <2>4, <2>5
<1>6. ASSUME NEW j \in Dispatchers PROVE RunInv(j)'
  BY DEF PushInv, PushTypeOK, RunInv, Idle
<1>7. ASSUME NEW c \in Checkers PROVE LookInv(c)'
  BY DEF PushInv, LookInv, row
<1> QED
  BY <1>1, <1>4, <1>5, <1>6, <1>7 DEF PushInv

\* A run goes on, without a row's changing: it keeps what it claimed.
LEMMA RunKeeps ==
    ASSUME PushInv, NEW i \in Dispatchers, PushTypeOK',
           UNCHANGED <<row, delivered, lostAnswer, answered, seen, read, claimed, erased, looking>>,
           NEW pc, dispatch' = [dispatch EXCEPT ![i] = pc], pc # "send",
           pc \in {"idle", "scan"} => claimed[i] = {},
           pc = "skip" => dispatch[i] \in {"claim", "skip"}, pc # "claim",
           pc \in {"disable", "finish"} => dispatch[i] \in {"disable", "finish"},
           result' = result
    PROVE  PushInv'
<1>1. \A e : Late(e)' = Late(e)
  BY DEF Late
<1>2. ASSUME NEW e \in Events PROVE RowInv(e)'
  BY <1>1 DEF PushInv, RowInv, Room, Unheard, Answered, row
<1>3. ASSUME NEW j \in Dispatchers, NEW e \in Events PROVE ClaimInv(j, e)'
  <2>1. ClaimInv(j, e) /\ UNCHANGED <<rowStatus, pushAttempts, delivered, lostAnswer>>
        /\ \A d : Live(d)' = Live(d)
    BY DEF PushInv, row, Live
  <2>2. CASE j = i
    BY <1>1, <2>1, <2>2 DEF ClaimInv, Room, Unheard, PushInv, PushTypeOK, RunInv, Live
  <2>3. CASE j # i
    BY <1>1, <2>1, <2>3 DEF ClaimInv, Room, Unheard, PushInv, PushTypeOK
  <2> QED
    BY <2>2, <2>3
<1>4. ASSUME NEW j \in Dispatchers PROVE RunInv(j)'
  BY DEF PushInv, PushTypeOK, RunInv
<1>5. ASSUME NEW c \in Checkers PROVE LookInv(c)'
  BY DEF PushInv, LookInv, row
<1> QED
  BY <1>2, <1>3, <1>4, <1>5 DEF PushInv

-----------------------------------------------------------------------------
\* A row is inserted.
LEMMA CreateKeeps ==
    ASSUME PushInv, NEW p \in Producers, Create(p)
    PROVE  PushInv'
<1> DEFINE e == producing[p]
           to == IF enabled[p] THEN "PENDING" ELSE "SKIPPED"
<1>1. PushTypeOK /\ e \in Events
  BY DEF PushInv, PushTypeOK, Create
<1>2. UNCHANGED <<pushAttempts, tickets, checked, age, devices, deleted, registering, dispatch, batch,
                  looking, history>>
  BY DEF Create
<1>3. producing' \in [Producers -> Events \cup {NoEvent}] /\ enabled' \in [Producers -> BOOLEAN]
  BY <1>1 DEF Create, PushTypeOK
<1>4. PushTypeOK'
  <2>1. rowStatus' \in [Events -> NotificationStatus \cup {"absent"}]
    BY <1>1 DEF Create, PushTypeOK, NotificationStatus
  <2> QED
    BY <1>1, <1>2, <1>3, <2>1 DEF PushTypeOK, devices, batch, history
<1>5. CASE rowStatus[e] # "absent"
  <2>1. rowStatus' = rowStatus
    BY <1>5 DEF Create, Creatable
  <2> QED
    BY <1>2, <1>4, <2>1, RequestKeeps DEF row
<1>6. CASE rowStatus[e] = "absent"
  <2>1. rowStatus' = [rowStatus EXCEPT ![e] = to] /\ to \in {"PENDING", "SKIPPED"}
    BY <1>6 DEF Create, Creatable
  <2>2. \A d \in Events : rowStatus'[d] = IF d = e THEN to ELSE rowStatus[d]
    BY <1>1, <2>1 DEF PushTypeOK
  <2> HIDE DEF to
  <2>3. (\A d : Late(d)' = Late(d)) /\ (\A j : Live(j)' = Live(j))
        /\ UNCHANGED <<dispatch, read, result, looking, delivered, lostAnswer, answered>>
    BY <1>2 DEF Late, Live, batch, history
  <2>4. ASSUME NEW d \in Events PROVE RowInv(d)'
    <3>1. RowInv(d) /\ RowInv(e)
      BY <1>1 DEF PushInv
    <3>2. CASE d = e
      <4>1. pushAttempts[e] = 0 /\ delivered[e] = 0 /\ ~ checked[e]
        BY <1>6, <3>1 DEF RowInv
      <4>2. Dispatchers # {} => Room(e)
        <5>1. SUFFICES ASSUME Dispatchers # {} PROVE Room(e)
          OBVIOUS
        <5>2. CASE MaxPushAttempts = 1
          <6>1. Late(e) = {}
            BY <1>1, <5>2, AttemptsAre DEF Late
          <6>2. Cardinality(Late(e)) = 0
            BY <6>1, FS_EmptySet
          <6> QED
            BY <4>1, <5>1, <5>2, <6>2, Runs DEF Room
        <5>3. CASE MaxPushAttempts # 1
          <6>1. MaxPushAttempts >= 2
            BY <5>3
          <6> QED
            BY <4>1, <6>1, Runs, LateRuns DEF Room
        <5> QED
          BY <5>2, <5>3
      <4>3. Room(e) => Room(d)'
        BY <1>2, <2>3, <3>2 DEF Room
      <4> QED
        BY <1>2, <2>1, <2>2, <2>3, <3>1, <3>2, <4>1, <4>2, <4>3 DEF RowInv, Unheard
    <3>3. CASE d # e
      BY <1>2, <2>2, <2>3, <3>1, <3>3 DEF RowInv, Room, Unheard, Answered
    <3> QED
      BY <3>2, <3>3
  <2>5. ASSUME NEW j \in Dispatchers, NEW d \in Events PROVE ClaimInv(j, d)'
    <3>1. ClaimInv(j, d)
      BY DEF PushInv
    <3> QED
      BY <1>2, <1>6, <2>2, <2>3, <3>1 DEF ClaimInv, Room, Unheard
  <2>6. ASSUME NEW j \in Dispatchers PROVE RunInv(j)'
    BY <1>2 DEF PushInv, RunInv, batch
  <2>7. ASSUME NEW c \in Checkers PROVE LookInv(c)'
    <3>1. looking[c] \subseteq Events \X {"ripe", "old"}
      BY <1>1 DEF PushTypeOK
    <3> QED
      BY <1>2, <1>6, <2>2, <3>1 DEF PushInv, LookInv
  <2> QED
    BY <1>4, <2>4, <2>5, <2>6, <2>7 DEF PushInv
<1> QED
  BY <1>5, <1>6

\* A user is scrubbed: the user's rows go, and what a run had of them is nobody's.
LEMMA ScrubKeeps ==
    ASSUME PushInv, NEW u \in Users, ScrubUser(u)
    PROVE  PushInv'
<1> DEFINE mine == EventsOf(u)
<1>1. PushTypeOK /\ mine \subseteq Events
  BY DEF PushInv, EventsOf
<1>2. /\ rowStatus' = [e \in Events |-> IF e \in mine THEN "absent" ELSE rowStatus[e]]
      /\ pushAttempts' = [e \in Events |-> IF e \in mine THEN 0 ELSE pushAttempts[e]]
      /\ tickets' = [e \in Events |-> IF e \in mine THEN {} ELSE tickets[e]]
      /\ checked' = [e \in Events |-> checked[e] /\ e \notin mine]
      /\ age' = [e \in Events |-> IF e \in mine THEN "fresh" ELSE age[e]]
      /\ seen' = [i \in Dispatchers |-> seen[i] \ mine]
      /\ erased' = [i \in Dispatchers |-> erased[i] \cup (claimed[i] \cap mine)]
      /\ looking' = [c \in Checkers |-> {p \in looking[c] : p[1] \notin mine}]
      /\ delivered' = [e \in Events |-> IF e \in mine THEN 0 ELSE delivered[e]]
      /\ lostAnswer' = lostAnswer \ mine
      /\ answered' = {p \in answered : p[1] \notin mine}
      /\ UNCHANGED <<requests, dispatch, read, claimed, route, result, gone>>
  BY DEF ScrubUser
<1>3. /\ deleted' = deleted \cup {u}
      /\ owner' = [t \in Tokens |-> IF owner[t] = u THEN NoUser ELSE owner[t]]
      /\ active' = [t \in Tokens |-> active[t] /\ owner[t] # u]
  BY DEF ScrubUser
<1> HIDE DEF mine
<1>4. PushTypeOK'
  <2>1. /\ rowStatus' \in [Events -> NotificationStatus \cup {"absent"}]
        /\ pushAttempts' \in [Events -> Attempts] /\ delivered' \in [Events -> Attempts]
    BY <1>1, <1>2, Runs DEF PushTypeOK, Attempts
  <2>2. tickets' \in [Events -> SUBSET Tokens]
        /\ age' \in [Events -> {"fresh", "stale", "ripe", "old", "lost"}]
    BY <1>1, <1>2 DEF PushTypeOK
  <2>3. checked' \in [Events -> BOOLEAN]
    <3>1. \A e \in Events : (checked[e] /\ e \notin mine) \in BOOLEAN
      BY <1>1 DEF PushTypeOK
    <3> QED
      BY <1>2, <3>1
  <2>4. owner' \in [Tokens -> Users \cup {NoUser}] /\ deleted' \in SUBSET Users
    BY <1>1, <1>3 DEF PushTypeOK
  <2>5. active' \in [Tokens -> BOOLEAN]
    <3>1. \A t \in Tokens : (active[t] /\ owner[t] # u) \in BOOLEAN
      BY <1>1 DEF PushTypeOK
    <3> QED
      BY <1>3, <3>1
  <2>6. seen' \in [Dispatchers -> SUBSET Events] /\ erased' \in [Dispatchers -> SUBSET Events]
    BY <1>1, <1>2 DEF PushTypeOK
  <2>7. looking' \in [Checkers -> SUBSET (Events \X {"ripe", "old"})]
        /\ lostAnswer' \in SUBSET Events /\ answered' \in SUBSET (Events \X Tokens)
    BY <1>1, <1>2 DEF PushTypeOK
  <2> QED
    BY <1>1, <1>2, <2>1, <2>2, <2>3, <2>4, <2>5, <2>6, <2>7 DEF PushTypeOK, requests
<1>5. \A e : Late(e)' \subseteq Late(e)
  BY <1>1, <1>2 DEF Late, PushTypeOK
<1>6. \A i \in Dispatchers : Live(i)' = Live(i) \ mine
  BY <1>1, <1>2 DEF Live, PushTypeOK
<1>7. ASSUME NEW e \in Events PROVE RowInv(e)'
  <2>1. RowInv(e)
    BY DEF PushInv
  <2>2. CASE e \in mine
    <3>1. rowStatus'[e] = "absent" /\ pushAttempts'[e] = 0 /\ delivered'[e] = 0 /\ ~ checked'[e]
      BY <1>2, <2>2
    <3> QED
      BY <3>1, Runs DEF RowInv
  <2>3. CASE e \notin mine
    <3>1. /\ rowStatus'[e] = rowStatus[e] /\ pushAttempts'[e] = pushAttempts[e]
          /\ delivered'[e] = delivered[e] /\ (checked'[e] => checked[e]) /\ tickets'[e] = tickets[e]
          /\ age'[e] = age[e] /\ (e \in lostAnswer => e \in lostAnswer')
      BY <1>1, <1>2, <2>3 DEF PushTypeOK
    <3>2. \A t : <<e, t>> \in answered => <<e, t>> \in answered'
      BY <1>2, <2>3
    <3>3. Room(e) => Room(e)'
      BY <1>1, <1>4, <1>5, <3>1, RoomKept
    <3> QED
      BY <2>1, <3>1, <3>2, <3>3 DEF RowInv, Unheard, Answered
  <2> QED
    BY <2>2, <2>3
<1>8. ASSUME NEW i \in Dispatchers, NEW e \in Events PROVE ClaimInv(i, e)'
  <2>1. ClaimInv(i, e)
    BY DEF PushInv
  <2>2. CASE e \in mine
    BY <1>6, <2>2 DEF ClaimInv
  <2>3. CASE e \notin mine
    <3>1. /\ rowStatus'[e] = rowStatus[e] /\ pushAttempts'[e] = pushAttempts[e]
          /\ delivered'[e] = delivered[e] /\ (e \in lostAnswer => e \in lostAnswer')
      BY <1>1, <1>2, <2>3 DEF PushTypeOK
    <3>2. Room(e) => Room(e)'
      BY <1>1, <1>4, <1>5, <3>1, RoomKept
    <3> QED
      BY <1>2, <1>6, <2>1, <2>3, <3>1, <3>2 DEF ClaimInv, Unheard
  <2> QED
    BY <2>2, <2>3
<1>9. ASSUME NEW i \in Dispatchers PROVE RunInv(i)'
  BY <1>2 DEF PushInv, RunInv
<1>10. ASSUME NEW c \in Checkers PROVE LookInv(c)'
  <2>1. LookInv(c) /\ looking[c] \subseteq Events \X {"ripe", "old"}
    BY <1>1 DEF PushInv, PushTypeOK
  <2>2. \A p \in looking'[c] : p \in looking[c] /\ p[1] \in Events /\ p[1] \notin mine
    BY <1>1, <1>2, <2>1
  <2>3. \A p \in looking'[c] : rowStatus'[p[1]] = rowStatus[p[1]] /\ age'[p[1]] = age[p[1]]
    BY <1>2, <2>2
  <2> QED
    BY <2>1, <2>2, <2>3 DEF LookInv
<1> QED
  BY <1>4, <1>7, <1>8, <1>9, <1>10 DEF PushInv

-----------------------------------------------------------------------------
\* The sweep of stale rows, the read, and the claim.
LEMMA StartKeeps ==
    ASSUME PushInv, NEW i \in Dispatchers, DispatchStart(i)
    PROVE  PushInv'
<1>1. PushTypeOK
  BY DEF PushInv
<1>2. /\ dispatch[i] = "idle" /\ dispatch' = [dispatch EXCEPT ![i] = "scan"]
      /\ rowStatus' = [e \in Events |->
                    IF rowStatus[e] = "SENDING" /\ age[e] = "stale" THEN "FAILED" ELSE rowStatus[e]]
      /\ UNCHANGED <<pushAttempts, tickets, checked, age, devices, deleted, requests, batch, looking,
                   history>>
  BY DEF DispatchStart, AfterStale
<1>3. PushTypeOK'
  <2>1. rowStatus' \in [Events -> NotificationStatus \cup {"absent"}]
    BY <1>1, <1>2 DEF PushTypeOK, NotificationStatus
  <2>2. dispatch' \in [Dispatchers -> {"idle", "scan", "claim", "skip", "send", "disable", "finish"}]
    BY <1>1, <1>2 DEF PushTypeOK
  <2> QED
    BY <1>1, <1>2, <2>1, <2>2 DEF PushTypeOK, devices, requests, batch, history
<1>4. \A e \in Events : rowStatus'[e] = rowStatus[e] \/ (rowStatus[e] = "SENDING" /\ rowStatus'[e] = "FAILED")
  BY <1>2
<1>5. (\A e : Late(e)' = Late(e)) /\ (\A j : Live(j)' = Live(j))
      /\ UNCHANGED <<read, result, claimed, delivered, lostAnswer, answered>>
  BY <1>2 DEF Late, Live, batch, history
<1>6. ASSUME NEW e \in Events PROVE RowInv(e)'
  BY <1>2, <1>4, <1>5 DEF PushInv, RowInv, Room, Unheard, Answered
<1>7. claimed[i] = {} /\ Live(i) = {}
  BY <1>2 DEF PushInv, RunInv, Live
<1>8. ASSUME NEW j \in Dispatchers, NEW e \in Events PROVE ClaimInv(j, e)'
  <2>1. ClaimInv(j, e)
    BY DEF PushInv
  <2>2. CASE j = i
    BY <1>5, <1>7, <2>2 DEF ClaimInv
  <2>3. CASE j # i
    <3>1. dispatch'[j] = dispatch[j]
      BY <1>1, <1>2, <2>3 DEF PushTypeOK
    <3> QED
      BY <1>2, <1>4, <1>5, <2>1, <3>1 DEF ClaimInv, Room, Unheard
  <2> QED
    BY <2>2, <2>3
<1>9. ASSUME NEW j \in Dispatchers PROVE RunInv(j)'
  BY <1>1, <1>2, <1>5, <1>7 DEF PushInv, RunInv, PushTypeOK
<1>10. ASSUME NEW c \in Checkers PROVE LookInv(c)'
  <2>1. LookInv(c) /\ looking[c] \subseteq Events \X {"ripe", "old"}
    BY <1>1 DEF PushInv, PushTypeOK
  <2> QED
    BY <1>2, <1>4, <2>1 DEF LookInv
<1> QED
  BY <1>3, <1>6, <1>8, <1>9, <1>10 DEF PushInv

\* A run reads the rows that are pending: it is late for each of them, which takes the room
\* that there is.
LEMMA ReadKeeps ==
    ASSUME PushInv, NEW i \in Dispatchers, DispatchRead(i)
    PROVE  PushInv'
<1> DEFINE pending == {e \in Events : rowStatus[e] = "PENDING"}
<1>1. PushTypeOK /\ RunInv(i)
  BY DEF PushInv
<1>2. /\ dispatch[i] = "scan" /\ dispatch' = [dispatch EXCEPT ![i] = IF pending = {} THEN "idle" ELSE "claim"]
      /\ seen' = [seen EXCEPT ![i] = pending]
      /\ read' = [read EXCEPT ![i] = [e \in Events |-> IF e \in pending THEN pushAttempts[e] ELSE 0]]
      /\ UNCHANGED <<row, devices, deleted, requests, claimed, erased, route, result, gone, looking,
                   history>>
  BY DEF DispatchRead
<1>3. PushTypeOK'
  <2>1. dispatch' \in [Dispatchers -> {"idle", "scan", "claim", "skip", "send", "disable", "finish"}]
        /\ seen' \in [Dispatchers -> SUBSET Events]
    BY <1>1, <1>2 DEF PushTypeOK
  <2>2. [e \in Events |-> IF e \in pending THEN pushAttempts[e] ELSE 0] \in [Events -> Attempts]
    BY <1>1, Runs DEF PushTypeOK, Attempts
  <2>3. read' \in [Dispatchers -> [Events -> Attempts]]
    BY <1>1, <1>2, <2>2 DEF PushTypeOK
  <2> QED
    BY <1>1, <1>2, <2>1, <2>3 DEF PushTypeOK, row, devices, requests, history
<1>4. claimed[i] = {} /\ Live(i)' = {} /\ Live(i) = {} /\ (\A j : Live(j)' = Live(j))
  BY <1>1, <1>2 DEF RunInv, Live
<1>5. UNCHANGED <<rowStatus, pushAttempts, tickets, checked, age, delivered, lostAnswer, answered>>
  BY <1>2 DEF row, history
<1>6. ASSUME NEW e \in Events, Room(e), rowStatus[e] # "PENDING" PROVE Room(e)'
  <2>1. Late(e)' \subseteq Late(e)
    BY <1>1, <1>2, <1>6 DEF Late, PushTypeOK
  <2> QED
    BY <1>1, <1>3, <1>5, <1>6, <2>1, RoomKept
<1>7. ASSUME NEW e \in Events, Room(e), rowStatus[e] = "PENDING" PROVE Room(e)'
  <2>1. CASE pushAttempts[e] + 1 < MaxPushAttempts
    <3> DEFINE T == {j \in Dispatchers : e \in seen'[j] /\ read'[j][e] + 1 < MaxPushAttempts}
    <3>1. T = Late(e)'
      BY DEF Late
    <3>2. Cardinality(T) \in Nat /\ Cardinality(T) <= Cardinality(Dispatchers)
      BY Runs
    <3>3. pushAttempts[e] \in Nat
      BY <1>1, AttemptsAre
    <3> HIDE DEF T
    <3>4. pushAttempts[e] + Cardinality(T) + 2 <= MaxPushAttempts + Cardinality(Dispatchers)
      BY <2>1, <3>2, <3>3, Runs
    <3> QED
      BY <1>5, <3>1, <3>4 DEF Room
  <2>2. CASE ~ (pushAttempts[e] + 1 < MaxPushAttempts)
    <3>1. read'[i][e] = pushAttempts[e]
      BY <1>1, <1>2, <1>7 DEF PushTypeOK
    <3>2. \A j \in Dispatchers \ {i} : read'[j] = read[j] /\ seen'[j] = seen[j]
      BY <1>1, <1>2 DEF PushTypeOK
    <3>3. Late(e)' \subseteq Late(e)
      BY <2>2, <3>1, <3>2 DEF Late
    <3> QED
      BY <1>1, <1>3, <1>5, <1>7, <3>3, RoomKept
  <2> QED
    BY <2>1, <2>2
<1>8. \A e \in Events : Room(e) => Room(e)'
  BY <1>6, <1>7
<1>9. ASSUME NEW e \in Events PROVE RowInv(e)'
  BY <1>5, <1>8 DEF PushInv, RowInv, Unheard, Answered
<1>10. ASSUME NEW j \in Dispatchers, NEW e \in Events PROVE ClaimInv(j, e)'
  <2>1. CASE j = i
    BY <1>4, <2>1 DEF ClaimInv
  <2>2. CASE j # i
    <3>1. dispatch'[j] = dispatch[j] /\ read'[j] = read[j] /\ result' = result /\ ClaimInv(j, e)
      BY <1>1, <1>2, <2>2 DEF PushTypeOK, PushInv
    <3> QED
      BY <1>4, <1>5, <1>8, <3>1 DEF ClaimInv, Unheard
  <2> QED
    BY <2>1, <2>2
<1>11. ASSUME NEW j \in Dispatchers PROVE RunInv(j)'
  BY <1>1, <1>2, <1>4 DEF PushInv, RunInv, PushTypeOK
<1>12. ASSUME NEW c \in Checkers PROVE LookInv(c)'
  BY <1>2, <1>5 DEF PushInv, LookInv
<1> QED
  BY <1>3, <1>9, <1>10, <1>11, <1>12 DEF PushInv

\* A run claims a row: the attempt is counted, and the run is not late any more.
LEMMA ClaimKeeps ==
    ASSUME PushInv, NEW i \in Dispatchers, NEW e \in Events, DispatchClaim(i, e)
    PROVE  PushInv'
<1>1. PushTypeOK /\ RowInv(e) /\ dispatch[i] = "claim" /\ e \in seen[i]
  BY DEF PushInv, DispatchClaim
<1>2. /\ seen' = [seen EXCEPT ![i] = seen[i] \ {e}]
      /\ UNCHANGED <<tickets, checked, devices, deleted, requests, dispatch, read, erased, route, result,
                   gone, looking, history>>
  BY <1>1 DEF DispatchClaim, PushTypeOK
<1>3. seen' \in [Dispatchers -> SUBSET Events]
  BY <1>1, <1>2 DEF PushTypeOK
<1>4. \A d : Late(d)' \subseteq Late(d)
  BY <1>1, <1>2 DEF Late, PushTypeOK
<1>5. CASE rowStatus[e] # "PENDING"
  <2>1. UNCHANGED <<rowStatus, pushAttempts, age, claimed>>
    BY <1>5 DEF DispatchClaim, Claimable
  <2>2. PushTypeOK'
    BY <1>1, <1>2, <1>3, <2>1 DEF PushTypeOK, devices, requests, history
  <2>3. \A d \in Events : Room(d) => Room(d)'
    BY <1>1, <1>4, <2>1, <2>2, RoomKept
  <2>4. UNCHANGED <<delivered, lostAnswer, answered>> /\ \A j : Live(j)' = Live(j)
    BY <1>2, <2>1 DEF history, Live
  <2>5. ASSUME NEW d \in Events PROVE RowInv(d)'
    BY <1>2, <2>1, <2>3, <2>4 DEF PushInv, RowInv, Unheard, Answered
  <2>6. ASSUME NEW j \in Dispatchers, NEW d \in Events PROVE ClaimInv(j, d)'
    BY <1>2, <2>1, <2>3, <2>4 DEF PushInv, ClaimInv, Unheard
  <2>7. ASSUME NEW j \in Dispatchers PROVE RunInv(j)'
    BY <1>2, <2>1 DEF PushInv, RunInv
  <2>8. ASSUME NEW c \in Checkers PROVE LookInv(c)'
    BY <1>2, <2>1 DEF PushInv, LookInv
  <2> QED
    BY <2>2, <2>5, <2>6, <2>7, <2>8 DEF PushInv
<1>6. CASE rowStatus[e] = "PENDING"
  <2> DEFINE a == pushAttempts[e]
             N == Cardinality(Dispatchers)
  <2>1. /\ rowStatus' = [rowStatus EXCEPT ![e] = "SENDING"]
        /\ pushAttempts' = [pushAttempts EXCEPT ![e] = a + 1]
        /\ age' = [age EXCEPT ![e] = "fresh"]
        /\ claimed' = [claimed EXCEPT ![i] = claimed[i] \cup {e}]
    BY <1>1, <1>6 DEF DispatchClaim, Claimable, PushTypeOK
  <2>2. Unheard(e) /\ Room(e) /\ ~ checked[e] /\ a \in Nat /\ delivered[e] \in Nat /\ delivered[e] <= a
        /\ N \in Nat
    BY <1>1, <1>6, AttemptsAre, Runs DEF RowInv
  <2>3. a + 1 < MaxPushAttempts + N
    BY <2>2, LateRuns DEF Room
  <2>4. PushTypeOK'
    <3>1. rowStatus' \in [Events -> NotificationStatus \cup {"absent"}]
          /\ age' \in [Events -> {"fresh", "stale", "ripe", "old", "lost"}]
      BY <1>1, <2>1 DEF PushTypeOK, NotificationStatus
    <3>2. a + 1 \in Attempts
      BY <2>2, <2>3 DEF Attempts
    <3>3. pushAttempts' \in [Events -> Attempts]
      BY <1>1, <2>1, <3>2 DEF PushTypeOK
    <3>4. claimed' \in [Dispatchers -> SUBSET Events]
      BY <1>1, <2>1 DEF PushTypeOK
    <3> QED
      BY <1>1, <1>2, <1>3, <3>1, <3>3, <3>4 DEF PushTypeOK, devices, requests, history
  <2>5. \A d \in Events \ {e} :
            /\ rowStatus'[d] = rowStatus[d] /\ pushAttempts'[d] = pushAttempts[d] /\ age'[d] = age[d]
    BY <1>1, <2>1 DEF PushTypeOK
  <2>6. rowStatus'[e] = "SENDING" /\ pushAttempts'[e] = a + 1
    BY <1>1, <2>1 DEF PushTypeOK
  <2>7. \A d \in Events \ {e} : Room(d) => Room(d)'
    BY <1>1, <1>4, <2>4, <2>5, RoomKept
  <2>8. read[i][e] + 1 < MaxPushAttempts => Room(e)'
    <3>1. SUFFICES ASSUME read[i][e] + 1 < MaxPushAttempts PROVE Room(e)'
      OBVIOUS
    <3>2. i \in Late(e) /\ Late(e)' = Late(e) \ {i}
      BY <1>1, <1>2, <3>1 DEF Late, PushTypeOK
    <3>3. IsFiniteSet(Late(e)) /\ Cardinality(Late(e)) \in Nat
      BY Runs, LateRuns
    <3> DEFINE T == Late(e) \ {i}
    <3>4. Cardinality(T) = Cardinality(Late(e)) - 1
      BY <3>2, <3>3, FS_RemoveElement
    <3>5. a + Cardinality(Late(e)) + 2 <= MaxPushAttempts + N
      BY <2>2 DEF Room
    <3> HIDE DEF T
    <3>6. (a + 1) + Cardinality(T) + 2 <= MaxPushAttempts + N
      BY <2>2, <3>3, <3>4, <3>5
    <3>7. pushAttempts'[e] = a + 1 /\ T = Late(e)'
      BY <2>6, <3>2 DEF T
    <3> QED
      BY <3>6, <3>7 DEF Room
  <2>9. UNCHANGED <<delivered, lostAnswer, answered>>
    BY <1>2 DEF history
  <2>10. \A j \in Dispatchers : Live(j)' = IF j = i THEN Live(j) \cup ({e} \ erased[i]) ELSE Live(j)
    BY <1>1, <1>2, <2>1 DEF Live, PushTypeOK
  <2>11. \A j \in Dispatchers : e \notin Live(j)
    BY <1>6 DEF PushInv, ClaimInv
  <2>12. ASSUME NEW d \in Events PROVE RowInv(d)'
    <3>1. CASE d = e
      BY <1>1, <1>2, <2>2, <2>3, <2>6, <2>9, <3>1 DEF RowInv
    <3>2. CASE d # e
      <4>1. RowInv(d) /\ checked' = checked /\ tickets' = tickets
        BY <1>2 DEF PushInv
      <4> QED
        BY <2>5, <2>7, <2>9, <3>2, <4>1 DEF RowInv, Unheard, Answered
    <3> QED
      BY <3>1, <3>2
  <2>13. ASSUME NEW j \in Dispatchers, NEW d \in Events PROVE ClaimInv(j, d)'
    <3>1. ClaimInv(j, d) /\ dispatch' = dispatch /\ read' = read /\ result' = result
      BY <1>2 DEF PushInv
    <3>2. CASE d = e
      <4>1. CASE j = i
        BY <1>1, <2>2, <2>6, <2>8, <2>9, <2>10, <2>11, <3>1, <3>2, <4>1 DEF ClaimInv, Unheard
      <4>2. CASE j # i
        BY <2>10, <2>11, <3>2, <4>2 DEF ClaimInv
      <4> QED
        BY <4>1, <4>2
    <3>3. CASE d # e
      <4>1. \A k \in Dispatchers : (d \in Live(k)') <=> (d \in Live(k))
        BY <2>10, <3>3
      <4> QED
        BY <2>5, <2>7, <2>9, <3>1, <3>3, <4>1 DEF ClaimInv, Unheard
    <3> QED
      BY <3>2, <3>3
  <2>14. ASSUME NEW j \in Dispatchers PROVE RunInv(j)'
    <3>1. RunInv(j) /\ dispatch' = dispatch
      BY <1>2 DEF PushInv
    <3>2. j # i => claimed'[j] = claimed[j]
      BY <1>1, <2>1 DEF PushTypeOK
    <3> QED
      BY <1>1, <3>1, <3>2 DEF RunInv
  <2>15. ASSUME NEW c \in Checkers PROVE LookInv(c)'
    <3>1. LookInv(c) /\ looking[c] \subseteq Events \X {"ripe", "old"} /\ looking' = looking
      BY <1>1, <1>2 DEF PushInv, PushTypeOK
    <3>2. \A p \in looking[c] : p[1] \in Events \ {e}
      BY <1>6, <3>1 DEF LookInv
    <3> QED
      BY <2>5, <3>1, <3>2 DEF LookInv
  <2> QED
    BY <2>4, <2>12, <2>13, <2>14, <2>15 DEF PushInv
<1> QED
  BY <1>5, <1>6

-----------------------------------------------------------------------------
\* The messages go to Expo.
LEMMA SendKeeps ==
    ASSUME PushInv, NEW i \in Dispatchers, DispatchSend(i)
    PROVE  PushInv'
<1>1. PushTypeOK /\ dispatch[i] = "skip" /\ UNCHANGED <<row, devices, deleted, requests, looking, answered>>
  BY DEF PushInv, DispatchSend
<1>2. CASE claimed[i] = {}
  <2>1. Idle(i) /\ UNCHANGED <<delivered, lostAnswer>>
    BY <1>2 DEF DispatchSend
  <2> QED
    BY <1>1, <2>1, IdleKeeps DEF history
<1>3. CASE claimed[i] # {}
  <2> DEFINE Choice(ans, dead, lost) ==
            /\ dispatch' = [dispatch EXCEPT ![i] = "disable"]
            /\ result' = [result EXCEPT ![i] = [e \in Events |->
                              IF e \in claimed[i] THEN ans[e] ELSE NoAnswer]]
            /\ gone' = [gone EXCEPT ![i] = dead]
            /\ delivered' = [e \in Events |->
                  IF e \in claimed[i] \ erased[i] /\ (ans[e].ok # {} \/ e \in lost)
                  THEN delivered[e] + 1 ELSE delivered[e]]
            /\ lostAnswer' = lostAnswer \cup (lost \ erased[i])
            /\ route' = [route EXCEPT ![i] = [e \in Events |-> {}]]
            /\ UNCHANGED <<seen, read, claimed, erased>>
  <2>0. \E ans \in [claimed[i] -> [ok: SUBSET Tokens, retry: BOOLEAN]], dead \in SUBSET Tokens,
           lost \in SUBSET claimed[i] :
              /\ \A e \in claimed[i] :
                    /\ ans[e].ok \subseteq route[i][e] \ dead
                    /\ ans[e].retry => ans[e].ok \cup dead # route[i][e]
                    /\ e \in lost => ans[e].retry
              /\ dead \subseteq UNION {route[i][e] : e \in claimed[i]}
              /\ Choice(ans, dead, lost)
    BY <1>3, Zenon DEF DispatchSend
  <2>1. PICK ans \in [claimed[i] -> [ok: SUBSET Tokens, retry: BOOLEAN]], dead \in SUBSET Tokens,
             lost \in SUBSET claimed[i] : Choice(ans, dead, lost)
    <3> HIDE DEF Choice
    <3> QED
      BY <2>0
  <2>2. UNCHANGED <<rowStatus, pushAttempts, tickets, checked, age>>
    BY <1>1 DEF row
  <2>3. \A e \in Events :
            IF e \in Live(i) /\ (ans[e].ok # {} \/ e \in lost) THEN delivered'[e] = delivered[e] + 1
            ELSE delivered'[e] = delivered[e]
    BY <2>1 DEF Live
  <2>4. \A e \in Events : e \in Live(i) => ((e \in lost) => (e \in lostAnswer'))
    BY <2>1 DEF Live
  <2>5. lostAnswer \subseteq lostAnswer'
    BY <2>1
  <2>6. ASSUME NEW e \in Events
        PROVE  /\ delivered'[e] \in Nat /\ delivered'[e] <= pushAttempts[e]
               /\ delivered'[e] > 1 => e \in lostAnswer'
               /\ e \notin Live(i) => delivered'[e] = delivered[e]
               /\ e \in Live(i) /\ ans[e].ok = {} => Unheard(e)'
               /\ pushAttempts[e] < MaxPushAttempts + Cardinality(Dispatchers)
    <3>1. RowInv(e) /\ ClaimInv(i, e) /\ delivered[e] \in Nat /\ pushAttempts[e] \in Nat
      BY <1>1, AttemptsAre DEF PushInv
    <3>2. CASE e \in Live(i)
      <4>1. Unheard(e) /\ delivered[e] < pushAttempts[e]
        BY <1>1, <3>1, <3>2 DEF ClaimInv
      <4> QED
        BY <2>3, <2>4, <2>5, <3>1, <3>2, <4>1 DEF RowInv, Unheard
    <3>3. CASE e \notin Live(i)
      BY <2>3, <2>5, <3>1, <3>3 DEF RowInv
    <3> QED
      BY <3>2, <3>3
  <2>7. PushTypeOK'
    <3>1. delivered' \in [Events -> Attempts]
      <4>1. \A e \in Events : delivered'[e] \in Attempts
        BY <1>1, <2>6, AttemptsAre, Runs DEF Attempts
      <4>2. delivered' = [e \in Events |-> delivered'[e]]
        BY <2>1
      <4> QED
        BY <4>1, <4>2
    <3>2. result' \in [Dispatchers -> [Events -> [ok: SUBSET Tokens, retry: BOOLEAN]]]
      <4>1. [e \in Events |-> IF e \in claimed[i] THEN ans[e] ELSE NoAnswer]
                \in [Events -> [ok: SUBSET Tokens, retry: BOOLEAN]]
        BY DEF NoAnswer
      <4> QED
        BY <1>1, <2>1, <4>1 DEF PushTypeOK
    <3>3. /\ dispatch' \in [Dispatchers -> {"idle", "scan", "claim", "skip", "send", "disable", "finish"}]
          /\ gone' \in [Dispatchers -> SUBSET Tokens]
          /\ route' \in [Dispatchers -> [Events -> SUBSET Tokens]]
      BY <1>1, <2>1 DEF PushTypeOK
    <3>4. lostAnswer' \in SUBSET Events
      BY <1>1, <2>1 DEF PushTypeOK
    <3> QED
      BY <1>1, <2>1, <2>2, <3>1, <3>2, <3>3, <3>4 DEF PushTypeOK, devices, requests
  <2>8. (\A e : Late(e)' = Late(e)) /\ (\A j : Live(j)' = Live(j))
    BY <2>1 DEF Late, Live
  <2>9. ASSUME NEW e \in Events PROVE RowInv(e)'
    <3>1. RowInv(e) /\ ClaimInv(i, e) /\ answered' = answered
      BY <1>1 DEF PushInv
    <3>2. rowStatus[e] \in {"absent", "PENDING"} => delivered'[e] = delivered[e]
      BY <2>6, <3>1 DEF ClaimInv
    <3> QED
      BY <2>2, <2>5, <2>6, <2>8, <3>1, <3>2 DEF RowInv, Unheard, Room, Answered
  <2>10. ASSUME NEW j \in Dispatchers, NEW e \in Events PROVE ClaimInv(j, e)'
    <3>1. ClaimInv(j, e)
      BY DEF PushInv
    <3>2. CASE j = i
      <4>1. dispatch'[i] = "disable" /\ (e \in Live(i) => result'[i][e] = ans[e])
        BY <1>1, <2>1 DEF PushTypeOK, Live
      <4> QED
        BY <2>1, <2>2, <2>6, <2>8, <3>1, <3>2, <4>1 DEF ClaimInv, Room
    <3>3. CASE j # i
      <4>1. dispatch'[j] = dispatch[j] /\ result'[j] = result[j] /\ read' = read
        BY <1>1, <2>1, <3>3 DEF PushTypeOK
      <4>2. e \in Live(j) => delivered'[e] = delivered[e]
        BY <2>6, <3>1, <3>3 DEF ClaimInv
      <4> QED
        BY <2>2, <2>5, <2>8, <3>1, <4>1, <4>2 DEF ClaimInv, Room, Unheard
    <3> QED
      BY <3>2, <3>3
  <2>11. ASSUME NEW j \in Dispatchers PROVE RunInv(j)'
    BY <1>1, <2>1 DEF PushInv, RunInv, PushTypeOK
  <2>12. ASSUME NEW c \in Checkers PROVE LookInv(c)'
    BY <1>1, <2>2 DEF PushInv, LookInv
  <2> QED
    BY <2>7, <2>9, <2>10, <2>11, <2>12 DEF PushInv
<1> QED
  BY <1>2, <1>3

\* A run finishes a row that it has.
LEMMA FinishKeeps ==
    ASSUME PushInv, NEW i \in Dispatchers, NEW e \in Live(i), NEW to,
           to \in {"SKIPPED", "SENT", "FAILED", "PENDING"},
           to = "PENDING" => Unheard(e) /\ Room(e),
           rowStatus' = [rowStatus EXCEPT ![e] = to],
           claimed' = [claimed EXCEPT ![i] = claimed[i] \ {e}],
           tickets' \in [Events -> SUBSET Tokens],
           age' \in [Events -> {"fresh", "stale", "ripe", "old", "lost"}],
           \A d \in Events \ {e} : tickets'[d] = tickets[d] /\ age'[d] = age[d],
           UNCHANGED <<dispatch, seen, read, erased, route, result, gone>>,
           UNCHANGED <<pushAttempts, checked, devices, deleted, requests, looking, history>>
    PROVE  PushInv'
<1>1. PushTypeOK /\ e \in Events
  BY DEF PushInv, PushTypeOK, Live
<1>2. PushTypeOK'
  <2>1. rowStatus' \in [Events -> NotificationStatus \cup {"absent"}]
    BY <1>1 DEF PushTypeOK, NotificationStatus
  <2>2. claimed' \in [Dispatchers -> SUBSET Events]
    BY <1>1 DEF PushTypeOK
  <2> QED
    BY <1>1, <2>1, <2>2 DEF PushTypeOK, devices, requests, history
<1>3. \A d \in Events : rowStatus'[d] = IF d = e THEN to ELSE rowStatus[d]
  BY <1>1 DEF PushTypeOK
<1>4. (\A d : Late(d)' = Late(d))
      /\ \A j \in Dispatchers : Live(j)' = IF j = i THEN Live(i) \ {e} ELSE Live(j)
  BY <1>1 DEF Late, Live, PushTypeOK
<1>5. UNCHANGED <<delivered, lostAnswer, answered>>
  BY DEF history
<1>6. rowStatus[e] \in {"SENDING", "FAILED"} /\ RowInv(e) /\ \A j \in Dispatchers \ {i} : e \notin Live(j)
  BY <1>1 DEF PushInv, ClaimInv
<1>7. ASSUME NEW d \in Events PROVE RowInv(d)'
  <2>1. CASE d = e
    BY <1>3, <1>4, <1>5, <1>6, <2>1 DEF RowInv, Unheard, Room
  <2>2. CASE d # e
    <3>1. RowInv(d)
      BY DEF PushInv
    <3> QED
      BY <1>3, <1>4, <1>5, <2>2, <3>1 DEF RowInv, Unheard, Room, Answered
  <2> QED
    BY <2>1, <2>2
<1>8. ASSUME NEW j \in Dispatchers, NEW d \in Events PROVE ClaimInv(j, d)'
  <2>1. ClaimInv(j, d)
    BY DEF PushInv
  <2>2. CASE d = e
    BY <1>4, <1>6, <2>2 DEF ClaimInv
  <2>3. CASE d # e
    BY <1>3, <1>4, <1>5, <2>1, <2>3 DEF ClaimInv, Unheard, Room
  <2> QED
    BY <2>2, <2>3
<1>9. ASSUME NEW j \in Dispatchers PROVE RunInv(j)'
  BY <1>1 DEF PushInv, RunInv, PushTypeOK
<1>10. ASSUME NEW c \in Checkers PROVE LookInv(c)'
  <2>1. LookInv(c) /\ looking[c] \subseteq Events \X {"ripe", "old"}
    BY <1>1 DEF PushInv, PushTypeOK
  <2>2. \A p \in looking[c] : p[1] \in Events \ {e}
    BY <1>6, <2>1 DEF LookInv
  <2> QED
    BY <1>3, <2>1, <2>2 DEF LookInv
<1> QED
  BY <1>2, <1>7, <1>8, <1>9, <1>10 DEF PushInv

\* The outcome of a row that a run has, or the end of the run if it was deleted.
LEMMA DispatchKeeps ==
    ASSUME PushInv, NEW i \in Dispatchers, DispatchNext(i)
    PROVE  PushInv'
<1>1. PushTypeOK
  BY DEF PushInv
<1>2. CASE DispatchRoute(i)
  <2>1. /\ dispatch[i] = "claim" /\ UNCHANGED <<row, delivered, lostAnswer, answered, seen, read, claimed, erased, looking>>
        /\ result' = result /\ UNCHANGED <<devices, deleted, requests, gone>>
        /\ dispatch' = [dispatch EXCEPT ![i] = IF claimed[i] = {} THEN "idle" ELSE "skip"]
        /\ route' = [route EXCEPT ![i] = [e \in Events |->
                    IF e \notin claimed[i] THEN {}
                    ELSE {t \in Target[e] : owner[t] = UserOf[e] /\ active[t]}]]
    BY <1>2 DEF DispatchRoute, history
  <2>2. PushTypeOK'
    <3>1. [e \in Events |-> IF e \notin claimed[i] THEN {}
                            ELSE {t \in Target[e] : owner[t] = UserOf[e] /\ active[t]}]
              \in [Events -> SUBSET Tokens]
      OBVIOUS
    <3>2. route' \in [Dispatchers -> [Events -> SUBSET Tokens]]
      BY <1>1, <2>1, <3>1 DEF PushTypeOK
    <3>3. dispatch' \in [Dispatchers -> {"idle", "scan", "claim", "skip", "send", "disable", "finish"}]
      BY <1>1, <2>1 DEF PushTypeOK
    <3> QED
      BY <1>1, <2>1, <3>2, <3>3 DEF PushTypeOK, row, devices, requests
  <2>3. PICK pc : /\ pc = (IF claimed[i] = {} THEN "idle" ELSE "skip")
                  /\ dispatch' = [dispatch EXCEPT ![i] = pc]
    BY <2>1
  <2> QED
    BY <2>1, <2>2, <2>3, RunKeeps
<1>3. CASE DispatchDisable(i)
  <2>1. /\ dispatch[i] = "disable" /\ UNCHANGED <<row, delivered, lostAnswer, answered, seen, read, claimed, erased, looking>>
        /\ result' = result /\ UNCHANGED <<owner, deleted, requests, route>>
        /\ dispatch' = [dispatch EXCEPT ![i] = "finish"]
        /\ active' = [t \in Tokens |-> active[t] /\ t \notin gone[i]]
        /\ gone' = [gone EXCEPT ![i] = {}]
    BY <1>3 DEF DispatchDisable, history
  <2>2. PushTypeOK'
    <3>1. \A t \in Tokens : (active[t] /\ t \notin gone[i]) \in BOOLEAN
      BY <1>1 DEF PushTypeOK
    <3>2. active' \in [Tokens -> BOOLEAN]
      BY <2>1, <3>1
    <3>3. /\ dispatch' \in [Dispatchers -> {"idle", "scan", "claim", "skip", "send", "disable", "finish"}]
          /\ gone' \in [Dispatchers -> SUBSET Tokens]
      BY <1>1, <2>1 DEF PushTypeOK
    <3> QED
      BY <1>1, <2>1, <3>2, <3>3 DEF PushTypeOK, row, requests
  <2> QED
    BY <2>1, <2>2, RunKeeps
<1>4. ASSUME NEW e \in Events, DispatchSkip(i, e) PROVE PushInv'
  <2>1. /\ e \in claimed[i] /\ Finish(i, e, "SKIPPED")
        /\ UNCHANGED <<pushAttempts, tickets, checked, age, devices, deleted, requests, looking, history>>
    BY <1>4 DEF DispatchSkip, Unroutable
  <2>2. CASE e \in erased[i]
    BY <2>1, <2>2, IdleKeeps DEF Finish, row
  <2>3. CASE e \notin erased[i]
    <3>1. /\ rowStatus' = [rowStatus EXCEPT ![e] = "SKIPPED"]
          /\ claimed' = [claimed EXCEPT ![i] = claimed[i] \ {e}]
          /\ UNCHANGED <<dispatch, seen, read, erased, route, result, gone>> /\ e \in Live(i)
      BY <1>1, <2>1, <2>3 DEF Finish, Live, PushTypeOK
    <3> QED
      BY <1>1, <2>1, <3>1, FinishKeeps DEF PushTypeOK
  <2> QED
    BY <2>2, <2>3
<1>5. ASSUME NEW e \in Events, DispatchFinish(i, e) PROVE PushInv'
  <2>1. /\ e \in claimed[i] /\ Finish(i, e, Outcome(i, e)) /\ dispatch[i] = "finish"
        /\ UNCHANGED <<pushAttempts, checked, devices, deleted, requests, looking, history>>
    BY <1>5 DEF DispatchFinish
  <2>2. CASE e \in erased[i]
    <3>1. UNCHANGED <<tickets, age>>
      BY <1>5, <2>2 DEF DispatchFinish
    <3> QED
      BY <2>1, <2>2, <3>1, IdleKeeps DEF Finish, row
  <2>3. CASE e \notin erased[i]
    <3>1. PICK to : to = Outcome(i, e)
      OBVIOUS
    <3>2. /\ rowStatus' = [rowStatus EXCEPT ![e] = to]
          /\ claimed' = [claimed EXCEPT ![i] = claimed[i] \ {e}]
          /\ UNCHANGED <<dispatch, seen, read, erased, route, result, gone>> /\ e \in Live(i)
      BY <1>1, <2>1, <2>3, <3>1 DEF Finish, Live, PushTypeOK
    <3>3. to \in {"SKIPPED", "SENT", "FAILED", "PENDING"}
      BY <3>1 DEF Outcome
    <3>4. to = "PENDING" => Unheard(e) /\ Room(e)
      <4>1. to = "PENDING" => result[i][e].ok = {} /\ read[i][e] + 1 < MaxPushAttempts
        BY <3>1 DEF Outcome
      <4> QED
        BY <2>1, <3>2, <4>1 DEF PushInv, ClaimInv
    <3>5. result[i][e].ok \in SUBSET Tokens
      BY <1>1 DEF PushTypeOK
    <3>6. /\ tickets' \in [Events -> SUBSET Tokens]
          /\ age' \in [Events -> {"fresh", "stale", "ripe", "old", "lost"}]
          /\ \A d \in Events \ {e} : tickets'[d] = tickets[d] /\ age'[d] = age[d]
      <4>1. CASE to = "SENT"
        <5>1. tickets' = [tickets EXCEPT ![e] = result[i][e].ok] /\ age' = [age EXCEPT ![e] = "fresh"]
          BY <1>5, <2>3, <3>1, <4>1 DEF DispatchFinish
        <5> QED
          BY <1>1, <3>5, <5>1 DEF PushTypeOK
      <4>2. CASE to # "SENT"
        <5>1. UNCHANGED <<tickets, age>>
          BY <1>5, <3>1, <4>2 DEF DispatchFinish
        <5> QED
          BY <1>1, <5>1 DEF PushTypeOK
      <4> QED
        BY <4>1, <4>2
    <3> QED
      BY <2>1, <3>2, <3>3, <3>4, <3>6, FinishKeeps
  <2> QED
    BY <2>2, <2>3
<1>6. CASE DispatchEnd(i) \/ DispatchCrash(i)
  BY <1>6, IdleKeeps DEF DispatchEnd, DispatchCrash
<1> QED
  BY <1>2, <1>3, <1>4, <1>5, <1>6, StartKeeps, ReadKeeps, ClaimKeeps, SendKeeps DEF DispatchNext

-----------------------------------------------------------------------------
\* The receipts job, and the clock.
LEMMA CheckKeeps ==
    ASSUME PushInv, NEW c \in Checkers, CheckRead(c) \/ CheckReceipts(c)
    PROVE  PushInv'
<1>1. PushTypeOK
  BY DEF PushInv
<1>2. UNCHANGED <<rowStatus, pushAttempts, tickets, age, owner, deleted, requests, dispatch, batch,
                  delivered, lostAnswer>>
  BY DEF CheckRead, CheckReceipts, row, devices, history
<1>3. (\A e : Late(e)' = Late(e)) /\ (\A j : Live(j)' = Live(j)) /\ UNCHANGED <<read, result, claimed>>
  BY <1>2 DEF Late, Live, batch
<1>4. ASSUME NEW i \in Dispatchers, NEW e \in Events PROVE ClaimInv(i, e)'
  <2>1. ClaimInv(i, e)
    BY DEF PushInv
  <2> QED
    BY <1>2, <1>3, <2>1 DEF ClaimInv, Room, Unheard
<1>5. ASSUME NEW i \in Dispatchers PROVE RunInv(i)'
  BY <1>2, <1>3 DEF PushInv, RunInv
<1>6. CASE CheckRead(c)
  <2>1. looking' = [looking EXCEPT ![c] = {<<e, age[e]>> : e \in Ripe}]
        /\ UNCHANGED <<checked, active, answered>>
    BY <1>6 DEF CheckRead, row, devices, history
  <2>2. {<<e, age[e]>> : e \in Ripe} \subseteq Events \X {"ripe", "old"}
    BY DEF Ripe
  <2>3. PushTypeOK'
    <3>1. looking' \in [Checkers -> SUBSET (Events \X {"ripe", "old"})]
      BY <1>1, <2>1, <2>2 DEF PushTypeOK
    <3> QED
      BY <1>1, <1>2, <2>1, <3>1 DEF PushTypeOK, requests, batch
  <2>4. ASSUME NEW e \in Events PROVE RowInv(e)'
    BY <1>2, <1>3, <2>1 DEF PushInv, RowInv, Room, Unheard, Answered
  <2>5. ASSUME NEW b \in Checkers PROVE LookInv(b)'
    <3>1. CASE b = c
      <4>1. looking'[c] = {<<e, age[e]>> : e \in Ripe}
        BY <1>1, <2>1 DEF PushTypeOK
      <4> QED
        BY <1>2, <3>1, <4>1 DEF LookInv, Ripe
    <3>2. CASE b # c
      BY <1>1, <1>2, <2>1, <3>2 DEF PushInv, LookInv, PushTypeOK
    <3> QED
      BY <3>1, <3>2
  <2> QED
    BY <1>4, <1>5, <2>3, <2>4, <2>5 DEF PushInv
<1>7. CASE CheckReceipts(c)
  <2>1. PICK came \in SUBSET Awaited(c) :
          \E dead \in SUBSET {p[2] : p \in came}, close \in {{}, Closable(c, came)} :
             /\ active' = [t \in Tokens |-> active[t] /\ t \notin dead]
             /\ answered' = answered \cup came
             /\ checked' = [e \in Events |-> checked[e] \/ (e \in close)]
    BY <1>7 DEF CheckReceipts
  <2>2. PICK dead \in SUBSET {p[2] : p \in came}, close \in {{}, Closable(c, came)} :
             /\ active' = [t \in Tokens |-> active[t] /\ t \notin dead]
             /\ answered' = answered \cup came
             /\ checked' = [e \in Events |-> checked[e] \/ (e \in close)]
    BY <2>1
  <2>3. looking' = [looking EXCEPT ![c] = {}]
    BY <1>7 DEF CheckReceipts
  <2>4. LookInv(c) /\ looking[c] \subseteq Events \X {"ripe", "old"}
    BY <1>1 DEF PushInv, PushTypeOK
  <2>5. PushTypeOK'
    <3>1. \A t \in Tokens : (active[t] /\ t \notin dead) \in BOOLEAN
      BY <1>1 DEF PushTypeOK
    <3>2. active' \in [Tokens -> BOOLEAN]
      BY <2>2, <3>1
    <3>3. \A e \in Events : (checked[e] \/ (e \in close)) \in BOOLEAN
      BY <1>1 DEF PushTypeOK
    <3>4. checked' \in [Events -> BOOLEAN]
      BY <2>2, <3>3
    <3>5. came \subseteq Events \X Tokens
      BY <2>4 DEF Awaited
    <3>6. answered' \in SUBSET (Events \X Tokens)
      BY <1>1, <2>2, <3>5 DEF PushTypeOK
    <3>7. looking' \in [Checkers -> SUBSET (Events \X {"ripe", "old"})]
      BY <1>1, <2>3 DEF PushTypeOK
    <3> QED
      BY <1>1, <1>2, <3>2, <3>4, <3>6, <3>7 DEF PushTypeOK, requests, batch
  <2>6. ASSUME NEW e \in Events, checked'[e] PROVE rowStatus[e] = "SENT" /\ Answered(e)'
    <3>1. CASE checked[e]
      <4>1. rowStatus[e] = "SENT" /\ Answered(e)
        BY <3>1 DEF PushInv, RowInv
      <4> QED
        BY <1>2, <2>2, <4>1 DEF Answered
    <3>2. CASE ~ checked[e]
      <4>1. e \in Closable(c, came)
        BY <2>2, <2>6, <3>2
      <4>2. CASE <<e, "old">> \in looking[c]
        <5>1. rowStatus[e] = "SENT" /\ age[e] \in {"old", "lost"}
          BY <2>4, <4>2 DEF LookInv
        <5> QED
          BY <1>2, <5>1 DEF Answered
      <4>3. CASE <<e, "ripe">> \in looking[c] /\ AllCame(e, came)
        <5>1. rowStatus[e] = "SENT"
          BY <2>4, <4>3 DEF LookInv
        <5> QED
          BY <1>2, <2>2, <4>3, <5>1 DEF Answered, AllCame
      <4> QED
        BY <4>1, <4>2, <4>3 DEF Closable
    <3> QED
      BY <3>1, <3>2
  <2>7. ASSUME NEW e \in Events PROVE RowInv(e)'
    <3>1. RowInv(e)
      BY DEF PushInv
    <3> QED
      BY <1>2, <1>3, <2>6, <3>1 DEF RowInv, Room, Unheard
  <2>8. ASSUME NEW b \in Checkers PROVE LookInv(b)'
    BY <1>1, <1>2, <2>3 DEF PushInv, LookInv, PushTypeOK
  <2> QED
    BY <1>4, <1>5, <2>5, <2>7, <2>8 DEF PushInv
<1> QED
  BY <1>6, <1>7

\* A row ages.
LEMMA AgesKeeps ==
    ASSUME PushInv, NEW e \in Events, Ages(e)
    PROVE  PushInv'
<1>1. PushTypeOK
  BY DEF PushInv
<1>2. UNCHANGED <<rowStatus, pushAttempts, tickets, checked, devices, deleted, requests, dispatch, batch,
                  looking, history>>
  BY DEF Ages
<1>3. PICK a \in {"stale", "ripe", "old", "lost"} :
          /\ age' = [age EXCEPT ![e] = a]
          /\ \/ rowStatus[e] = "SENDING"
             \/ rowStatus[e] = "SENT" /\ ~ checked[e] /\ (age[e] \in {"old", "lost"} => a \in {"old", "lost"})
  BY DEF Ages
<1>4. PushTypeOK'
  <2>1. age' \in [Events -> {"fresh", "stale", "ripe", "old", "lost"}]
    BY <1>1, <1>3 DEF PushTypeOK
  <2> QED
    BY <1>1, <1>2, <2>1 DEF PushTypeOK, devices, requests, batch, history
<1>5. (\A d : Late(d)' = Late(d)) /\ (\A j : Live(j)' = Live(j)) /\ UNCHANGED <<read, result, claimed>>
      /\ UNCHANGED <<delivered, lostAnswer, answered>>
  BY <1>2 DEF Late, Live, batch, history
<1>6. \A d \in Events \ {e} : age'[d] = age[d]
  BY <1>1, <1>3 DEF PushTypeOK
<1>7. age'[e] = a
  BY <1>1, <1>3 DEF PushTypeOK
<1>8. ASSUME NEW d \in Events PROVE RowInv(d)'
  <2>1. RowInv(d)
    BY DEF PushInv
  <2>2. checked[d] => d # e
    BY <1>3, <2>1 DEF RowInv
  <2> QED
    BY <1>2, <1>5, <1>6, <2>1, <2>2 DEF RowInv, Room, Unheard, Answered
<1>9. ASSUME NEW i \in Dispatchers, NEW d \in Events PROVE ClaimInv(i, d)'
  <2>1. ClaimInv(i, d)
    BY DEF PushInv
  <2> QED
    BY <1>2, <1>5, <2>1 DEF ClaimInv, Room, Unheard
<1>10. ASSUME NEW i \in Dispatchers PROVE RunInv(i)'
  BY <1>2, <1>5 DEF PushInv, RunInv
<1>11. ASSUME NEW c \in Checkers PROVE LookInv(c)'
  <2>1. LookInv(c) /\ looking[c] \subseteq Events \X {"ripe", "old"}
    BY <1>1 DEF PushInv, PushTypeOK
  <2>2. ASSUME NEW p \in looking[c], p[2] = "old" PROVE age'[p[1]] \in {"old", "lost"}
    BY <1>3, <1>6, <1>7, <2>1, <2>2 DEF LookInv
  <2> QED
    BY <1>2, <2>1, <2>2 DEF LookInv
<1> QED
  BY <1>4, <1>8, <1>9, <1>10, <1>11 DEF PushInv

-----------------------------------------------------------------------------
\* What users and the business ask for has the types it should.
LEMMA RequestTypes ==
    ASSUME PushInv,
           \/ \E p \in Producers, e \in Events : NotifyRead(p, e) \/ BroadcastRead(p, e)
           \/ \E p \in Producers : ProducerFails(p)
           \/ \E u \in Users, t \in Tokens : RemoveDevice(u, t)
           \/ \E r \in Registrations : Register(r) \/ \E u \in Users, t \in Tokens : RegisterCheck(r, u, t)
    PROVE  PushTypeOK' /\ UNCHANGED <<row, dispatch, batch, looking, history>>
<1>1. PushTypeOK
  BY DEF PushInv
<1>2. ASSUME NEW p \in Producers, NEW e \in Events, NotifyRead(p, e) \/ BroadcastRead(p, e)
      PROVE  PushTypeOK' /\ UNCHANGED <<row, dispatch, batch, looking, history>>
  <2>1. producing' \in [Producers -> Events \cup {NoEvent}] /\ enabled' \in [Producers -> BOOLEAN]
        /\ UNCHANGED <<row, devices, deleted, registering, dispatch, batch, looking, history>>
    <3>1. CASE NotifyRead(p, e)
      <4>1. PICK yes \in BOOLEAN : enabled' = [enabled EXCEPT ![p] = yes]
        BY <3>1 DEF NotifyRead
      <4> QED
        BY <1>1, <3>1, <4>1 DEF NotifyRead, PushTypeOK
    <3>2. CASE BroadcastRead(p, e)
      BY <1>1, <3>2 DEF BroadcastRead, PushTypeOK
    <3> QED
      BY <1>2, <3>1, <3>2
  <2> QED
    BY <1>1, <2>1 DEF PushTypeOK, row, devices, batch, history
<1>3. ASSUME NEW p \in Producers, ProducerFails(p)
      PROVE  PushTypeOK' /\ UNCHANGED <<row, dispatch, batch, looking, history>>
  <2>1. producing' \in [Producers -> Events \cup {NoEvent}] /\ enabled' \in [Producers -> BOOLEAN]
        /\ UNCHANGED <<row, devices, deleted, registering, dispatch, batch, looking, history>>
    BY <1>1, <1>3 DEF ProducerFails, PushTypeOK
  <2> QED
    BY <1>1, <2>1 DEF PushTypeOK, row, devices, batch, history
<1>4. ASSUME NEW u \in Users, NEW t \in Tokens, RemoveDevice(u, t)
      PROVE  PushTypeOK' /\ UNCHANGED <<row, dispatch, batch, looking, history>>
  <2>1. owner' \in [Tokens -> Users \cup {NoUser}] /\ active' \in [Tokens -> BOOLEAN]
        /\ UNCHANGED <<row, deleted, requests, dispatch, batch, looking, history>>
    BY <1>1, <1>4 DEF RemoveDevice, PushTypeOK
  <2> QED
    BY <1>1, <2>1 DEF PushTypeOK, row, requests, batch, history
<1>5. ASSUME NEW r \in Registrations, NEW u \in Users, NEW t \in Tokens, RegisterCheck(r, u, t)
      PROVE  PushTypeOK' /\ UNCHANGED <<row, dispatch, batch, looking, history>>
  <2>1. registering' \in [Registrations -> (Users \X Tokens) \cup {NoUser}]
        /\ UNCHANGED <<row, devices, deleted, producing, enabled, dispatch, batch, looking, history>>
    BY <1>1, <1>5 DEF RegisterCheck, PushTypeOK
  <2> QED
    BY <1>1, <2>1 DEF PushTypeOK, row, devices, batch, history
<1>6. ASSUME NEW r \in Registrations, Register(r)
      PROVE  PushTypeOK' /\ UNCHANGED <<row, dispatch, batch, looking, history>>
  <2> DEFINE u == registering[r][1]
             t == registering[r][2]
             mine == {d \in Tokens : owner[d] = u} \cup {t}
  <2>1. u \in Users /\ t \in Tokens
    BY <1>1, <1>6 DEF Register, PushTypeOK
  <2>2. PICK kept \in SUBSET mine :
            /\ owner' = [d \in Tokens |-> IF d \in kept THEN u
                                          ELSE IF d \in mine THEN NoUser ELSE owner[d]]
            /\ active' = [d \in Tokens |-> IF d = t THEN TRUE
                                           ELSE active[d] /\ d \notin mine \ kept]
    BY <1>6 DEF Register
  <2>3. registering' = [registering EXCEPT ![r] = NoUser]
        /\ UNCHANGED <<row, deleted, producing, enabled, dispatch, batch, looking, history>>
    BY <1>6 DEF Register
  <2> HIDE DEF mine
  <2>4. owner' \in [Tokens -> Users \cup {NoUser}]
    BY <1>1, <2>1, <2>2 DEF PushTypeOK
  <2>5. \A d \in Tokens : (active[d] /\ d \notin mine \ kept) \in BOOLEAN
    BY <1>1 DEF PushTypeOK
  <2>6. active' \in [Tokens -> BOOLEAN]
    BY <2>2, <2>5
  <2>7. registering' \in [Registrations -> (Users \X Tokens) \cup {NoUser}]
    BY <1>1, <2>3 DEF PushTypeOK
  <2> QED
    BY <1>1, <2>3, <2>4, <2>6, <2>7 DEF PushTypeOK, row, batch, history
<1> QED
  BY <1>2, <1>3, <1>4, <1>5, <1>6

\* Everything the other theorems rest on: PushInv is inductive.
THEOREM PushInvariant == PushSpec => []PushInv
<1>1. PushInit => PushInv
  <2> SUFFICES ASSUME PushInit PROVE PushInv
    OBVIOUS
  <2>1. 0 \in Attempts
    BY Runs DEF Attempts
  <2>2. PushTypeOK
    BY <2>1 DEF PushInit, PushTypeOK, NotificationStatus, NoAnswer
  <2>3. \A e \in Events : RowInv(e)
    BY Runs DEF PushInit, RowInv
  <2>4. \A i \in Dispatchers, e \in Events : ClaimInv(i, e)
    BY DEF PushInit, ClaimInv, Live
  <2> QED
    BY <2>2, <2>3, <2>4 DEF PushInv, PushInit, RunInv, LookInv
<1>2. PushInv /\ [PushNext]_pushVars => PushInv'
  <2> SUFFICES ASSUME PushInv, [PushNext]_pushVars PROVE PushInv'
    OBVIOUS
  <2>1. ASSUME NEW p \in Producers, ProducerNext(p) PROVE PushInv'
    BY <2>1, RequestTypes, RequestKeeps, CreateKeeps DEF ProducerNext
  <2>2. CASE DeviceNext
    BY <2>2, RequestTypes, RequestKeeps, ScrubKeeps DEF DeviceNext
  <2>3. CASE UNCHANGED pushVars
    <3>1. PushTypeOK' /\ UNCHANGED <<row, dispatch, batch, looking, history>>
      BY <2>3 DEF PushInv, PushTypeOK, pushVars, row, batch, history
    <3> QED
      BY <3>1, RequestKeeps
  <2> QED
    BY <2>1, <2>2, <2>3, DispatchKeeps, CheckKeeps, AgesKeeps DEF PushNext
<1> QED
  BY <1>1, <1>2, PTL DEF PushSpec

\* Only an answer of Expo that was lost makes a second push of an event: no crash, overlap
\* of instances or row taken for stale does.
THEOREM DuplicatesNeedLostAnswers == PushSpec => []DuplicateNeedsLostAnswer
<1>1. PushInv => DuplicateNeedsLostAnswer
  BY DEF PushInv, RowInv, DuplicateNeedsLostAnswer
<1> QED
  BY <1>1, PushInvariant, PTL

\* However many instances there are, attempts exceed the limit by at most one less than
\* their number.
THEOREM AttemptsAreBounded == PushSpec => []AttemptsStayNearLimit
<1>1. PushInv => AttemptsStayNearLimit
  <2> SUFFICES ASSUME PushInv, NEW e \in Events
               PROVE  pushAttempts[e] <= MaxPushAttempts + Cardinality(Dispatchers) - 1
    BY DEF AttemptsStayNearLimit
  <2>1. pushAttempts[e] < MaxPushAttempts + Cardinality(Dispatchers) /\ pushAttempts[e] \in Nat
    BY AttemptsAre DEF PushInv, RowInv
  <2> QED
    BY <2>1, Runs
<1> QED
  BY <1>1, PushInvariant, PTL

\* A row is closed when its receipts came, or when Expo is about to drop them.
THEOREM ClosedRowsAreAnswered == PushSpec => []ClosedMeansAnswered
<1>1. PushInv => ClosedMeansAnswered
  BY DEF PushInv, RowInv, Answered, ClosedMeansAnswered
<1> QED
  BY <1>1, PushInvariant, PTL

-----------------------------------------------------------------------------
(* The target of a broadcast.                                              *)

\* The three numbers of a version.
Cores == [1 .. 3 -> Nat]

\* Of two cores at most one is below the other.
LEMMA CoresHaveOneOrder ==
    ASSUME NEW a \in Cores, NEW b \in Cores, CoreBelow(a, b)
    PROVE  ~CoreBelow(b, a) /\ a # b
<1>1. PICK i \in 1 .. 3 : FirstDifference(a, b, i) /\ a[i] < b[i]
  BY DEF CoreBelow
<1>2. ASSUME NEW k \in 1 .. 3, FirstDifference(b, a, k), b[k] < a[k]
      PROVE  FALSE
  <2>1. a[i] \in Nat /\ b[i] \in Nat /\ a[k] \in Nat /\ b[k] \in Nat
    BY DEF Cores
  <2>2. CASE i = k
    BY <1>1, <1>2, <2>1, <2>2
  <2>3. CASE i < k
    BY <1>1, <1>2, <2>3 DEF FirstDifference
  <2>4. CASE k < i
    BY <1>1, <1>2, <2>4 DEF FirstDifference
  <2> QED
    BY <2>2, <2>3, <2>4
<1>3. a # b
  BY <1>1 DEF FirstDifference
<1> QED
  BY <1>2, <1>3 DEF CoreBelow

\* "Only devices with an appVersion strictly lower than this one" (push-target.ts:6): a
\* device that a target reaches because of its version is not reached any more by a
\* target at a version that is lower, nor one at its own, as long as the versions are
\* releases.
THEOREM ReachedIsStrictlyLower ==
    ASSUME NEW device, NEW target, NEW other,
           DeviceMatches(device, target), other.maxAppVersion = device.appVersion,
           target.maxAppVersion # NoVersion,
           device.appVersion.core \in Cores, target.maxAppVersion.core \in Cores,
           device.appVersion.prerelease = <<>>, target.maxAppVersion.prerelease = <<>>
    PROVE  /\ ~DeviceMatches(device, other)
           /\ CompareVersions(target.maxAppVersion, device.appVersion) # -1
<1> DEFINE v == device.appVersion
           w == target.maxAppVersion
<1>1. v # NoVersion /\ CompareVersions(v, w) = -1
  BY DEF DeviceMatches
<1>2. Below(v, w)
  BY <1>1 DEF CompareVersions
<1>3. CoreBelow(v.core, w.core)
  BY <1>2 DEF Below, PrereleaseBelow
<1>4. ~CoreBelow(w.core, v.core) /\ v.core # w.core
  BY <1>3, CoresHaveOneOrder
<1>5. ~Below(w, v)
  BY <1>4 DEF Below
<1>6. ~Below(v, v)
  BY DEF Below, CoreBelow, PrereleaseBelow, FirstDifference
<1>7. CompareVersions(w, v) # -1
  BY <1>5 DEF CompareVersions
<1>8. CompareVersions(v, v) # -1
  BY <1>6 DEF CompareVersions
<1>9. ~DeviceMatches(device, other)
  BY <1>1, <1>8 DEF DeviceMatches
<1> QED
  BY <1>7, <1>9
=============================================================================
