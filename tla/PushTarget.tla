----------------------------- MODULE PushTarget -----------------------------
(***************************************************************************)
(* Which devices a broadcast is for: the target stored in the              *)
(* notification's data, read again by every dispatch, and the comparison   *)
(* of the versions of apps.  PushOutbox says what is sent to them.         *)
(***************************************************************************)
EXTENDS Integers, Sequences

\* An identifier of a prerelease is its spelling: a number, written with some zeros
\* before it, or a word; words are numbered in their order.
Number(n, zeros) == [numeric |-> TRUE, value |-> n, zeros |-> zeros]
Word(w) == [numeric |-> FALSE, value |-> w, zeros |-> 0]

\* parseVersion: missing parts of the core are 0, the build does not count.
Version(core, prerelease) == [core |-> core, prerelease |-> prerelease]

\* What does not parse, and what is not there.
Malformed == Version(<<>>, <<>>)
NoVersion == Version(<<0>>, <<>>)

\* p === q, and otherwise numbers before words.
IdBelow(p, q) ==
    /\ p # q
    /\ \/ p.numeric /\ ~q.numeric
       \/ p.numeric = q.numeric /\ p.value < q.value

\* The first difference of two sequences decides; Lower compares what differs there.
FirstDifference(a, b, i) == a[i] # b[i] /\ \A j \in 1 .. i - 1 : a[j] = b[j]

CoreBelow(a, b) == \E i \in 1 .. 3 : FirstDifference(a, b, i) /\ a[i] < b[i]

\* A version without a prerelease comes after those with one; a prefix comes first.
PrereleaseBelow(a, b) ==
    \/ a # <<>> /\ b = <<>>
    \/ /\ a # <<>> /\ b # <<>>
       /\ \/ Len(a) < Len(b) /\ \A i \in DOMAIN a : a[i] = b[i]
          \/ \E i \in DOMAIN a : i \in DOMAIN b /\ FirstDifference(a, b, i) /\ IdBelow(a[i], b[i])

Below(v, w) ==
    \/ CoreBelow(v.core, w.core)
    \/ v.core = w.core /\ PrereleaseBelow(v.prerelease, w.prerelease)

\* compareVersions: null when one does not parse, and otherwise -1, 0 or 1.  Two versions
\* that differ only in the zeros of a number compare as 1, both ways.
Comparable(v, w) == v # Malformed /\ w # Malformed
CompareVersions(v, w) == IF Below(v, w) THEN -1 ELSE IF v = w THEN 0 ELSE 1

\* readPushData: of the stored target, what is not valid is left out; a platform that is
\* not known, or a version that is not a text, is no restriction; what is no object at all restricts nothing.
ReadTarget(stored) ==
    [platform |-> IF stored.platform \in {"IOS", "ANDROID"} THEN stored.platform ELSE "any",
     maxAppVersion |-> stored.maxAppVersion]

\* deviceMatchesTarget: "of a missing or invalid version one cannot say that it is lower".
DeviceMatches(device, target) ==
    /\ target.platform \in {"any", device.platform}
    /\ target.maxAppVersion # NoVersion =>
        /\ device.appVersion # NoVersion
        /\ Comparable(device.appVersion, target.maxAppVersion)
        /\ CompareVersions(device.appVersion, target.maxAppVersion) = -1
=============================================================================
