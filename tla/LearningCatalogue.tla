------------------------- MODULE LearningCatalogue --------------------------
(***************************************************************************)
(* The editorial catalogue of the introduction, what the seed makes of the *)
(* rows that an earlier edition left, and the trail that a user then       *)
(* reads.  Titles and wording are left out: a step is its kind, its number *)
(* and its place on the trail (a lesson's one reflection is number 0), and *)
(* a question also its right option and the number of the step to review.  *)
(* LearningXp says what answers earn.                                      *)
(***************************************************************************)
EXTENDS Naturals, FiniteSets, Sequences

Screen(n, order) == [kind |-> "EXPLANATION", n |-> n, order |-> order]
Reflection(order) == [kind |-> "REFLECTION", n |-> 0, order |-> order]
Asked(n, order, correct, review) ==
    [kind |-> "QUESTION", n |-> n, order |-> order, correct |-> correct, review |-> review]

\* Screens come at these places, and the lesson's reflection at the last.
Told(places, last) ==
    {Screen(n, places[n]) : n \in DOMAIN places} \cup {Reflection(last)}

Told1 == Told(<<1, 3, 4, 6, 7, 9, 11>>, 14)
Questions1 == {Asked(1, 2, "B", 1),  Asked(2, 5, "A", 3),  Asked(3, 8, "C", 5),
               Asked(4, 10, "A", 6), Asked(5, 12, "B", 7), Asked(6, 13, "C", 7)}
Told2 == Told(<<1, 3, 5, 7, 9, 11>>, 13)
Questions2 == {Asked(2, 2, "A", 1), Asked(1, 4, "C", 2),  Asked(3, 6, "B", 3),
               Asked(4, 8, "C", 4), Asked(5, 10, "A", 5), Asked(6, 12, "B", 6)}
Told3 == Told(<<1, 2, 3, 5, 7, 9, 11>>, 14)
Questions3 == {Asked(1, 4, "B", 3),  Asked(2, 6, "A", 4),  Asked(3, 8, "C", 5),
               Asked(4, 10, "B", 6), Asked(5, 12, "C", 7), Asked(6, 13, "A", 6)}
Told4 == Told(<<1, 3, 5, 8>>, 11)
Questions4 == {Asked(1, 2, "B", 1), Asked(4, 4, "B", 2), Asked(2, 6, "C", 3),
               Asked(3, 7, "A", 3), Asked(5, 9, "C", 4), Asked(6, 10, "A", 4)}
Told5 == Told(<<1, 4, 6, 8>>, 11)
Questions5 == {Asked(1, 2, "B", 1), Asked(4, 3, "B", 1), Asked(2, 5, "A", 2),
               Asked(3, 7, "C", 3), Asked(5, 9, "A", 4), Asked(6, 10, "C", 3)}

Catalogue == <<[content |-> Told1, questions |-> Questions1],
               [content |-> Told2, questions |-> Questions2],
               [content |-> Told3, questions |-> Questions3],
               [content |-> Told4, questions |-> Questions4],
               [content |-> Told5, questions |-> Questions5]>>

\* The welcome and the glossary belong to no lesson.
Standalone == {"WELCOME", "GLOSSARY"}

Options == {"A", "B", "C"}

\* A key names the lesson, the kind and the number.
Key(l, s) == <<"L", l, s.kind, s.n>>
LegacyKey(l, q) == <<"M", l, "QUESTION", q.n>>

Steps(lesson) == lesson.content \cup lesson.questions
Keys(C) == UNION {{Key(l, s) : s \in Steps(C[l])} : l \in DOMAIN C}
OfKind(lesson, kind) == {s \in Steps(lesson) : s.kind = kind}
Count(C, kind) == Cardinality(UNION {{<<l, s>> : s \in OfKind(C[l], kind)} : l \in DOMAIN C})

\* validateCatalog, at the start of the seed: what it does not throw at.
Valid(C) ==
    /\ \A l \in DOMAIN C :
        /\ Cardinality(C[l].questions) = 6
        /\ \A q \in C[l].questions :
            /\ \E s \in C[l].content : s.n = q.review
            /\ q.correct \in Options
        /\ \A s, t \in Steps(C[l]) : Key(l, s) = Key(l, t) => s = t
    /\ Count(C, "EXPLANATION") = 28 /\ Count(C, "QUESTION") = 30 /\ Count(C, "REFLECTION") = 5

-----------------------------------------------------------------------------
(* The seed's transaction, on the rows of the questions: a function from   *)
(* keys to rows.  An answer refers to the row's id, not to its key.        *)
(*                                                                         *)
(* An edition E is a set of entries; what it inserts gets the ids of new.  *)

Entries(C) ==
    UNION {{[key |-> Key(l, q), legacy |-> LegacyKey(l, q), lesson |-> l] : q \in C[l].questions}
           : l \in DOMAIN C}

KeysOf(E) == {e.key : e \in E}
LessonsOf(E) == {e.lesson : e \in E}
Entry(E, k) == CHOOSE e \in E : e.key = k

\* A row that has only the legacy key takes the new one, and keeps its id.
Takes(rows, e) == e.key \notin DOMAIN rows /\ e.legacy \in DOMAIN rows
TakenKeys(rows, E) == {e.legacy : e \in {f \in E : Takes(rows, f)}}

SeededId(rows, new, e) ==
    IF e.key \in DOMAIN rows THEN rows[e.key].id
    ELSE IF e.legacy \in DOMAIN rows THEN rows[e.legacy].id
    ELSE new[e.key]

\* What the edition does not name is made inactive, in the edition's own lessons.
Withdrawn(rows, E, k) ==
    IF rows[k].lesson \in LessonsOf(E) THEN [rows[k] EXCEPT !.active = FALSE] ELSE rows[k]

Seeded(rows, E, new) ==
    [k \in (DOMAIN rows \ TakenKeys(rows, E)) \cup KeysOf(E) |->
        IF k \in KeysOf(E)
        THEN [id |-> SeededId(rows, new, Entry(E, k)), lesson |-> Entry(E, k).lesson, active |-> TRUE]
        ELSE Withdrawn(rows, E, k)]

\* An edition whose entries can be taken in any order, as the seed takes them one by one.
WellKeyed(E) ==
    /\ \A e, f \in E : e # f => e.key # f.key /\ e.legacy # f.legacy
    /\ \A e, f \in E : e.legacy # f.key

\* lastContentItemKey of a lesson: a step that is gone is the first screen again.
None == <<>>
FirstStep(C, l) == Key(l, CHOOSE s \in C[l].content : s.kind = "EXPLANATION" /\ s.n = 1)
SeededPosition(C, l, position) ==
    IF position = None \/ position \in {Key(l, s) : s \in Steps(C[l])}
    THEN position ELSE FirstStep(C, l)

-----------------------------------------------------------------------------
(* What the user reads.                                                    *)

\* getModule: content and questions in one list, by their places.
Trail(lesson) ==
    [i \in 1 .. Cardinality(Steps(lesson)) |->
        CHOOSE s \in Steps(lesson) : Cardinality({t \in Steps(lesson) : t.order < s.order}) = i - 1]

\* markContent: an active step of a published lesson, or a 404.
MayMark(C, l, key) == l \in DOMAIN C /\ key \in {Key(l, s) : s \in Steps(C[l])}

\* progress: the answered questions that are active, by their keys of today.
CompletedKeys(rows, answered) == {k \in DOMAIN rows : rows[k].active /\ rows[k].id \in answered}

\* progress: the lesson that is not complete and was touched last.
Resume(touched, completed, position) ==
    LET open == {l \in DOMAIN touched : l \notin completed} IN
    IF open = {} THEN None
    ELSE LET l == CHOOSE l \in open : \A m \in open : touched[m] <= touched[l]
         IN <<l, position[l]>>

\* Places are taken once, without a gap: the trail has one order, whatever sorts it.
OneOrder(C) == \A l \in DOMAIN C : {s.order : s \in Steps(C[l])} = 1 .. Cardinality(Steps(C[l]))

\* The step that a wrong answer sends back to has been read by then.
ReviewIsBehind(C) ==
    \A l \in DOMAIN C : \A q \in C[l].questions :
        \A s \in C[l].content : s.n = q.review => s.order < q.order
=============================================================================
