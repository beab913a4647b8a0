--------------------------- MODULE MCResultPolicy ---------------------------
(* Instances of ResultPolicy for TLC. *)
EXTENDS ResultPolicy, TLC

CONSTANTS e1, e2, m1, m2, a, b, s1, s2, s3

MCMaxOf == e1 :> 2 @@ e2 :> 3
Silent == [e \in Exams |-> Unset]
ThreeEach == [e \in Exams |-> 3]     \* weighs as one each does

(* One student, every choice of papers in two subjects, every outcome of   *)
(* the policies of the school and of the academic year.                    *)
OneStudent ==
    [schedules: SUBSET (Exams \X Subjects \X {a}),
     policies: {<<school, year>> : school \in {Silent, e1 :> Unset @@ e2 :> 0},
                                  year \in [Exams -> {Unset, 1, 3}] \ {ThreeEach}},
     home: {s1 :> a}]
(* Two students of a section and one of another, one subject. *)
OneSubject ==
    [schedules: SUBSET (Exams \X {m1} \X Sections),
     policies: {<<Silent>>, <<Silent, [e \in Exams |-> 1]>>},
     home: {s1 :> a @@ s2 :> a @@ s3 :> b}]
MCSituations == OneStudent \cup OneSubject
Symmetry == Permutations(Subjects) \cup Permutations({s1, s2})
=============================================================================
