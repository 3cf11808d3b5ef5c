---------------------------- MODULE MCPushWallet ----------------------------
(* The push outbox and the sponsored wallets share no row: a behaviour      *)
(* exercises one of them, and the other stays where it begins.              *)
EXTENDS PushProperties, SponsoredWallets, Integers, TLC

CONSTANT u1
VARIABLE focus

MCUserOf == [e \in Events |-> u1]
MCTarget == [e \in Events |-> Tokens]

MCInit == focus \in {"push", "wallets"} /\ PushInit /\ WalletInit

MCNext ==
    /\ UNCHANGED focus
    /\ \/ focus = "push" /\ PushNext /\ UNCHANGED walletVars
       \/ focus = "wallets" /\ WalletNext /\ UNCHANGED pushVars

MCSpec == MCInit /\ [][MCNext]_<<focus, pushVars, walletVars>>

-----------------------------------------------------------------------------
(* The target of a broadcast, on small versions.                           *)

Filter == INSTANCE PushTarget

Ids == {Filter!Number(1, 0), Filter!Number(1, 1), Filter!Number(2, 0), Filter!Word(1)}
Prereleases == {<<>>} \cup {<<i>> : i \in Ids} \cup {<<i, j>> : i, j \in Ids}
AppVersions == {Filter!Version(c, p) : c \in {<<1, 0, 0>>, <<1, 0, 2>>}, p \in Prereleases}
Spelled(v) == \A i \in DOMAIN v.prerelease : v.prerelease[i].zeros = 0

\* Of versions without zeros before their numbers, exactly one is lower, or they are the same.
ASSUME VersionsHaveOneOrder ==
    \A v, w \in AppVersions : Spelled(v) /\ Spelled(w) =>
        Filter!CompareVersions(v, w) = -Filter!CompareVersions(w, v)

\* Otherwise each of two may be above the other, and a target at either reaches neither.
ASSUME ZerosDisagree ==
    \E v, w \in AppVersions : v # w /\ Filter!CompareVersions(v, w) = 1 /\ Filter!CompareVersions(w, v) = 1

\* "The target is a filter": who a narrower one reaches, a wider one reaches too.
ASSUME WiderReachesMore ==
    \A v \in AppVersions \cup {Filter!Malformed, Filter!NoVersion}, w, x \in AppVersions :
        LET device == [platform |-> "IOS", appVersion |-> v]
            at(max) == Filter!ReadTarget([platform |-> "IOS", maxAppVersion |-> max])
        IN  /\ Spelled(v) /\ Spelled(w) /\ Spelled(x) /\ Filter!CompareVersions(w, x) = -1
            => (Filter!DeviceMatches(device, at(w)) => Filter!DeviceMatches(device, at(x)))

\* Dispatchers and calls are named alike.
Symmetry == Permutations(Dispatchers) \cup Permutations(Tokens)
=============================================================================
