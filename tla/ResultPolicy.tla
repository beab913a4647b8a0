---------------------------- MODULE ResultPolicy ----------------------------
(***************************************************************************)
(* What a report card says of the marks: the pure part of                  *)
(* services/report_card.py.  Percentages are whole hundredths of a         *)
(* percent, as the code rounds them to two decimals; the weighted sums     *)
(* are exact here, floating point there.                                   *)
(*                                                                         *)
(* A paper is a schedule: examination, subject and section.  A sheet gives *)
(* the rows of marks that a student has, each with a value: an absent      *)
(* student's row has one, zero, when a mark sheet was uploaded.            *)
(*                                                                         *)
(* The state is what a report card is compiled from at some moment; the    *)
(* steps are what can happen to it between two compilations: one more row  *)
(* of marks, or one row changed for the better.                            *)
(***************************************************************************)
EXTENDS Integers, Sequences, FiniteSetsExt, Functions

CONSTANTS
    Exams, Subjects, Sections,
    MaxOf,          \* maximum marks of the papers of an examination
    Config,         \* weights that a policy may give to an examination
    Unset,          \* what a policy that does not mention it says
    Situations      \* classes: [schedules, policies, home]

Paper == Exams \X Subjects \X Sections
Weightings == [Exams -> Config]

ASSUME PolicyAssumption ==
    /\ IsFiniteSet(Exams) /\ MaxOf \in [Exams -> Nat \ {0}]
    /\ Config \subseteq Nat \cup {Unset} /\ Unset \notin Int
    /\ \A s \in Situations : /\ s.schedules \subseteq Paper /\ IsFiniteSet(s.schedules)
                            /\ s.policies \in Seq(Weightings)
                            /\ IsFiniteSet(DOMAIN s.home)
                            /\ \A st \in DOMAIN s.home : s.home[st] \in Sections

VARIABLES
    situation,  \* schedules and weights of a class, the sections of its students
    entered     \* the sheet of each of its students

resultVars == <<situation, entered>>

Product(f) == FoldFunction(LAMBDA x, y : x * y, 1, f)
(* round(100 * a / b, 2), in hundredths. *)
Percent(a, b) == IF b = 0 THEN 0 ELSE (20000 * a + b) \div (2 * b)

-----------------------------------------------------------------------------
(* Grades and weights.                                                     *)

DefaultBands == <<[grade |-> "A+", low |-> 9000, high |-> 10000],
                  [grade |-> "A", low |-> 8000, high |-> 8999],
                  [grade |-> "B", low |-> 7000, high |-> 7999],
                  [grade |-> "C", low |-> 6000, high |-> 6999],
                  [grade |-> "D", low |-> 5000, high |-> 5999],
                  [grade |-> "E", low |-> 3500, high |-> 4999],
                  [grade |-> "F", low |-> 0, high |-> 3499]>>

(* Slip: the upper end of a band is not part of it. *)
HalfOpen(band, pct) == band.low <= pct /\ pct < band.high

InBand(band, pct) == band.low <= pct /\ pct <= band.high

(* get_grade_for_percentage: the first band that fits, or else an F. *)
Grade(pct) ==
    LET fits == {i \in DOMAIN DefaultBands : InBand(DefaultBands[i], pct)}
    IN  IF fits = {} THEN "F" ELSE DefaultBands[Min(fits)].grade

(* The examinations that have a paper for the class: for the section, or   *)
(* else for others.                                                        *)
Active(schedules) == {p[1] : p \in schedules}

(* resolve_examination_weightages: the first policy that mentions the      *)
(* examination decides, also when it gives it no weight.                   *)
Weight(e, policies) ==
    LET found == {i \in DOMAIN policies : policies[i][e] # Unset}
    IN  IF found = {} THEN 0 ELSE policies[Min(found)][e]

(* Only active examinations are given to it; the others have no weight. *)
Weights(schedules, policies) ==
    [e \in Exams |-> IF e \in Active(schedules) THEN Weight(e, policies) ELSE 0]

(* WEIGHTED_POLICY if an active examination has a weight, or else           *)
(* PROPORTIONAL_MAX_MARKS, where all of them weigh the same.                *)
Weighted(ws) == \E e \in Exams : ws[e] > 0

-----------------------------------------------------------------------------
(* The consolidated result: Branch 2 of validate_report_card_data.  Papers *)
(* without a mark count in no percentage, and leave the decision open.     *)

(* A common denominator of the percentages of the examinations. *)
Scale == Product(MaxOf)
ScaledMark(sh, p) == sh[p].value * (Scale \div MaxOf[p[1]])

(* Percentage of one subject over the examinations that have a paper in    *)
(* it; by the totals if none of those has a weight.                        *)
SubjectPercent(sh, s, ws) ==
    LET ps == {p \in DOMAIN sh : p[2] = s}
        weight == SumFunction([p \in ps |-> ws[p[1]]])
    IN  IF Weighted(ws) /\ weight > 0
        THEN Percent(SumFunction([p \in ps |-> ws[p[1]] * ScaledMark(sh, p)]),
                     weight * Scale)
        ELSE Percent(SumFunction([p \in ps |-> sh[p].value]),
                     SumFunction([p \in ps |-> MaxOf[p[1]]]))

PapersIn(sh, e) == {p \in DOMAIN sh : p[1] = e}
Obtained(sh, e) == SumFunction([p \in PapersIn(sh, e) |-> sh[p].value])
Attainable(sh, e) == MaxOf[e] * Cardinality(PapersIn(sh, e))

(* Slip: an examination counts if something was obtained in it. *)
SatFor(sh) == {e \in Exams : Obtained(sh, e) > 0}

(* e_max > 0: the examinations that count. *)
Counted(sh) == {e \in Exams : Attainable(sh, e) > 0}

(* The mean of the examinations by weight, or the share of the grand total. *)
OverallPercent(sh, ws) ==
    LET es == Counted(sh)
        size == Product([e \in es |-> Attainable(sh, e)])
    IN  IF Weighted(ws)
        THEN Percent(SumFunction([e \in es |-> ws[e] * Obtained(sh, e)
                                                * (size \div Attainable(sh, e))]),
                     SumFunction([e \in es |-> ws[e]]) * size)
        ELSE Percent(SumFunction([e \in es |-> Obtained(sh, e)]),
                     SumFunction([e \in es |-> Attainable(sh, e)]))

SubjectsOf(sh) == {p[2] : p \in DOMAIN sh}
Failed(sh, ws) ==
    Cardinality({s \in SubjectsOf(sh) : SubjectPercent(sh, s, ws) < 3500})

(* Attendance decides before the marks do; how many subjects may be failed *)
(* is fixed, whatever max_failed_subjects of the policy says.              *)
Promotion(overall, failed, attendance) ==
    CASE attendance < 7500 -> "PROMOTION_UNDER_REVIEW"
      [] attendance >= 7500 /\ (overall < 3500 \/ failed > 1) -> "DETAINED"
      [] attendance >= 7500 /\ overall >= 3500 /\ failed = 1 ->
            "CONDITIONALLY_PROMOTED"
      [] OTHER -> "PROMOTED"

-----------------------------------------------------------------------------
(* The result of one examination, Branch 1, from the sheet of its papers:  *)
(* the absent have obtained nothing, and failed.                           *)
Scored(row) == row.result \in {"PRESENT", "EXEMPTED"}
ExamPercent(sh) ==
    Percent(SumFunction([p \in DOMAIN sh |-> IF Scored(sh[p]) THEN sh[p].value ELSE 0]),
            SumFunction([p \in DOMAIN sh |-> MaxOf[p[1]]]))

(* Slip: the papers of the absent are left out. *)
FailedAmongScored(sh) ==
    Cardinality({p \in DOMAIN sh : /\ Scored(sh[p])
                                      /\ 100 * sh[p].value < 35 * MaxOf[p[1]]})

ExamFailed(sh) ==
    Cardinality({p \in DOMAIN sh : \/ ~Scored(sh[p])
                                      \/ 100 * sh[p].value < 35 * MaxOf[p[1]]})

-----------------------------------------------------------------------------
(* Ranks in the section and in the class: schedules are the papers of the  *)
(* class, sheets maps its students to the marks they have.                 *)

(* The papers of a section; an examination it has none in counts with the  *)
(* papers of the other sections.                                           *)
PapersOf(schedules, section) ==
    {p \in schedules : \/ p[3] = section
                       \/ ~\E q \in schedules : q[1] = p[1] /\ q[3] = section}
Expected(schedules, section) == {p \in schedules : p[3] = section}

Has(sh, ps) == ps # {} /\ ps \subseteq DOMAIN sh
Restriction(sh, ps) == [p \in ps |-> sh[p]]

(* Both rankings score the students whose papers have all been marked. *)
SectionScores(schedules, sheets, section, peers, ws) ==
    LET ps == PapersOf(schedules, section)
    IN  [st \in {x \in peers : Has(sheets[x], ps)} |->
            OverallPercent(Restriction(sheets[st], ps), ws)]

(* Slip: the class is ranked by the plain totals. *)
PlainClassScores(schedules, sheets, home, ws) ==
    LET ps(st) == Expected(schedules, home[st])
    IN  [st \in {x \in DOMAIN sheets : Has(sheets[x], ps(x))} |->
            OverallPercent(Restriction(sheets[st], ps(st)), [e \in Exams |-> 0])]

ClassScores(schedules, sheets, home, ws) ==
    LET ps(st) == Expected(schedules, home[st])
    IN  [st \in {x \in DOMAIN sheets : Has(sheets[x], ps(x))} |->
            OverallPercent(Restriction(sheets[st], ps(st)), ws)]

Rank(scores, st) == 1 + Cardinality({x \in DOMAIN scores : scores[x] > scores[st]})

-----------------------------------------------------------------------------
(* A student's results, and what may happen to them.                       *)

WeightsNow == Weights(situation.schedules, situation.policies)
AllMarked(st, sh) ==
    LET ps == PapersOf(situation.schedules, situation.home[st]) IN Has(sh, ps)
Consolidated(st, sh) ==
    [overall |-> OverallPercent(sh, WeightsNow),
     verdict |-> IF AllMarked(st, sh)
                 THEN Promotion(OverallPercent(sh, WeightsNow),
                                Failed(sh, WeightsNow), 7500)
                 ELSE "PENDING_RESULTS"]
SingleExam(sh, e) ==
    LET of == Restriction(sh, PapersIn(sh, e))
    IN  [overall |-> ExamPercent(of),
         verdict |-> Promotion(ExamPercent(of), ExamFailed(of), 7500)]

Absent == [result |-> "ABSENT", value |-> 0]
Present(v) == [result |-> "PRESENT", value |-> v]

ResultsInit ==
    /\ situation \in Situations
    /\ entered = [st \in DOMAIN situation.home |-> <<>>]

Write(st, p, row) ==
    /\ entered' = [entered EXCEPT ![st] =
                      [q \in DOMAIN @ \cup {p} |-> IF q = p THEN row ELSE @[q]]]
    /\ UNCHANGED situation

(* A first row for a paper of the student's section. *)
Enter(st, p) ==
    /\ p \notin DOMAIN entered[st]
    /\ \E row \in {Absent, Present(0)} : Write(st, p, row)

(* An absent student sits the paper, or a mark is raised. *)
Improve(st, p) ==
    /\ p \in DOMAIN entered[st]
    /\ \/ entered[st][p] = Absent /\ Write(st, p, Present(0))
       \/ /\ entered[st][p].result = "PRESENT" /\ entered[st][p].value < MaxOf[p[1]]
          /\ Write(st, p, Present(entered[st][p].value + 1))

ResultsNext ==
    \E st \in DOMAIN situation.home :
        \E p \in Expected(situation.schedules, situation.home[st]) :
            Enter(st, p) \/ Improve(st, p)

ResultsSpec == ResultsInit /\ [][ResultsNext]_resultVars

-----------------------------------------------------------------------------
(* Properties.                                                             *)

Verdicts == <<"DETAINED", "CONDITIONALLY_PROMOTED", "PROMOTED">>
Grades == <<"F", "E", "D", "C", "B", "A", "A+">>
NotBelow(order, a, b) ==
    \A i, j \in DOMAIN order : order[i] = a /\ order[j] = b => i >= j
NoWorse(new, old) ==
    /\ new.overall >= old.overall
    /\ NotBelow(Verdicts, new.verdict, old.verdict)
    /\ NotBelow(Grades, Grade(new.overall), Grade(old.overall))

(* However weights, rounding, absences and examinations without a paper in *)
(* a subject interact, a better mark, or sitting a paper at all, never     *)
(* lowers a student's overall percentage or grade and never turns the      *)
(* decision on promotion for the worse, in either kind of report card.     *)
(* Papers that the policies weigh and those that they forget, examinations *)
(* without a paper of the class, and the fallback to the plain totals are  *)
(* all among the situations.                                               *)
BetterMarksNeverHurt ==
    [][\A st \in DOMAIN situation.home :
          DOMAIN entered'[st] = DOMAIN entered[st] =>
              /\ NoWorse(Consolidated(st, entered'[st]), Consolidated(st, entered[st]))
              /\ \A e \in Exams :
                    NoWorse(SingleExam(entered'[st], e), SingleExam(entered[st], e))
      ]_resultVars

(* The two ranks printed on one card never contradict each other: whatever *)
(* papers the sections have and whichever marks are missing, a ranked      *)
(* student of a section is ranked in the class, at least as far down as in *)
(* the section and at most by the ranked students of the other sections.   *)
RanksAgree ==
    \A section \in Sections :
        LET peers == {st \in DOMAIN situation.home : situation.home[st] = section}
            near == SectionScores(situation.schedules, entered, section, peers,
                                  WeightsNow)
            all == ClassScores(situation.schedules, entered, situation.home, WeightsNow)
        IN  \A st \in DOMAIN near :
                /\ st \in DOMAIN all
                /\ Rank(near, st) <= Rank(all, st)
                /\ Rank(all, st) <= Rank(near, st) + Cardinality(DOMAIN all \ peers)
=============================================================================
