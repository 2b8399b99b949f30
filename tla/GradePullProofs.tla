---------------------------- MODULE GradePullProofs ----------------------------
(***************************************************************************)
(* Theorems about GradePull, for any students, assignments, slugs,          *)
(* repositories, names and bounds.                                         *)
(*                                                                         *)
(* Three invariants carry them: PullInv about the assignments and the end   *)
(* of the last pull, MatchInv about the names a match is giving out, and    *)
(* PhaseInv about what the phases of a pull leave behind while the course   *)
(* stays as it is.  Each is disturbed by one of the two commands only.      *)
(***************************************************************************)
EXTENDS GradePull, FiniteSetTheorems, TLAPS

\* Until an assignment that a row has recorded is deleted or renamed, each row with an id is
\* the row of that assignment's slug.
RowsNamed ==
  ~strayed =>
    \A s \in Linked : rows[s].id \in DOMAIN course.assignments /\ course.assignments[rows[s].id] = s

\* While a pull runs it has not ended, and what ends one by itself has a cause.
PullInv ==
  /\ course \in Courses
  /\ pull \in Pulls
  /\ pull.pc # "idle" => outcome = "none"
  /\ RowsNamed
  /\ FailureHasCause

\* Students on offer, and those about to be given a name, have none.
OffersFree ==
  /\ \A s \in match.free : s \in DOMAIN students /\ students[s] = NoName
  /\ \A r \in DOMAIN match.save : match.save[r] \in match.free
  /\ \A r, q \in DOMAIN match.save : match.save[r] = match.save[q] => r = q

\* A name found is still to be given or asked about, was left, or has an owner.
NamesCounted ==
  match.pc = "saving" =>
    \A r \in match.names : r \in DOMAIN match.save \union match.ask \union match.left \/ Owner(r) # {}

MatchInv ==
  /\ match \in Matches
  /\ fromGitHub \subseteq Repos
  /\ DOMAIN students \subseteq Students
  /\ OffersFree
  /\ NamesCounted
  /\ ClearedMeansMatched

\* The parts of PullComplete, in the order in which the phases bring them about.
StudentsIn == course.roster \subseteq DOMAIN students

AssignmentsIn ==
  \A id \in DOMAIN course.assignments : Alone(id) =>
    course.assignments[id] \in DOMAIN rows /\ rows[course.assignments[id]].id = id

LinksNamed ==
  \A s \in Linked : rows[s].id \in DOMAIN course.assignments => course.assignments[rows[s].id] = s

SubmissionsIn ==
  \A id \in DOMAIN course.assignments : Alone(id) => <<course.assignments[id], id>> \in fromCanvas

LinksKnown == \A s \in Linked : rows[s].id \in DOMAIN course.assignments

Merged ==
  /\ pull.todo \subseteq course.classroom
  /\ \A slug \in course.classroom \ pull.todo : slug \in DOMAIN rows /\ rows[slug].gh

RepositoriesIn ==
  /\ pull.todo = {}
  /\ fromGitHub = {r \in course.accepted : On[r] \in course.classroom}

\* The last pull is at one of these phases, or has ended well.
Reached(phases) == pull.pc \in phases \/ outcome = "ok"

\* What the phases behind a pull have left in the tables while nothing else changed.
PhaseInv ==
  quiet =>
    /\ Reached({"assignments", "submissions", "classroom", "merge", "finish"}) => StudentsIn
    /\ Reached({"submissions", "classroom", "merge", "finish"}) => AssignmentsIn /\ LinksNamed
    /\ Reached({"classroom", "merge", "finish"}) => SubmissionsIn /\ LinksKnown
    /\ pull.pc \in {"classroom", "merge"} => fromGitHub = {}
    /\ Reached({"merge", "finish"}) => Merged
    /\ Reached({"finish"}) => RepositoriesIn

-----------------------------------------------------------------------------
(* Partial functions. *)

LEMMA NamingType ==
  ASSUME NEW f
  PROVE  f \in UNION {[S -> Slugs] : S \in SUBSET Ids} <=>
           /\ f = [i \in DOMAIN f |-> f[i]]
           /\ DOMAIN f \subseteq Ids
           /\ \A i \in DOMAIN f : f[i] \in Slugs
<1>1. ASSUME f \in UNION {[S -> Slugs] : S \in SUBSET Ids}
      PROVE  /\ f = [i \in DOMAIN f |-> f[i]] /\ DOMAIN f \subseteq Ids
             /\ \A i \in DOMAIN f : f[i] \in Slugs
  <2>1. PICK S \in SUBSET Ids : f \in [S -> Slugs]
    BY <1>1
  <2> QED BY <2>1
<1>2. ASSUME f = [i \in DOMAIN f |-> f[i]], DOMAIN f \subseteq Ids, \A i \in DOMAIN f : f[i] \in Slugs
      PROVE  f \in UNION {[S -> Slugs] : S \in SUBSET Ids}
  <2>1. f \in [DOMAIN f -> Slugs]
    BY <1>2
  <2> QED BY <1>2, <2>1
<1> QED BY <1>1, <1>2

LEMMA SaveType ==
  ASSUME NEW f
  PROVE  f \in UNION {[S -> Students] : S \in SUBSET Repos} <=>
           /\ f = [i \in DOMAIN f |-> f[i]]
           /\ DOMAIN f \subseteq Repos
           /\ \A i \in DOMAIN f : f[i] \in Students
<1>1. ASSUME f \in UNION {[S -> Students] : S \in SUBSET Repos}
      PROVE  /\ f = [i \in DOMAIN f |-> f[i]] /\ DOMAIN f \subseteq Repos
             /\ \A i \in DOMAIN f : f[i] \in Students
  <2>1. PICK S \in SUBSET Repos : f \in [S -> Students]
    BY <1>1
  <2> QED BY <2>1
<1>2. ASSUME f = [i \in DOMAIN f |-> f[i]], DOMAIN f \subseteq Repos, \A i \in DOMAIN f : f[i] \in Students
      PROVE  f \in UNION {[S -> Students] : S \in SUBSET Repos}
  <2>1. f \in [DOMAIN f -> Students]
    BY <1>2
  <2> QED BY <1>2, <2>1
<1> QED BY <1>1, <1>2

-----------------------------------------------------------------------------
(* What Canvas lists, and what the upsert makes of it. *)

\* A finite set of numbers has a greatest element: inclusion is well founded among
\* its end segments.
LEMMA GreatestNumber ==
  ASSUME NEW T \in SUBSET Nat, T # {}, IsFiniteSet(T)
  PROVE  \E n \in T : \A m \in T : m <= n
<1> DEFINE From(n) == {m \in T : n <= m}
           U == {From(n) : n \in T}
<1>1. U \subseteq FiniteSubsetsOf(T)
  BY FS_Subset DEF FiniteSubsetsOf
<1>2. U # {}
  OBVIOUS
<1>3. PICK A \in U : \A B \in U : <<B, A>> \notin StrictSubsetOrdering(T)
  BY <1>1, <1>2, WFMin, FS_StrictSubsetOrderingWellFounded
<1>4. PICK n \in T : A = From(n)
  OBVIOUS
<1>5. ASSUME NEW m \in T, n < m PROVE FALSE
  <2>0. m \in Nat /\ n \in Nat
    OBVIOUS
  <2>1. From(m) \in U /\ From(m) \subseteq From(n) /\ n \notin From(m) /\ n \in From(n)
    <3>1. From(m) \subseteq From(n)
      <4>1. ASSUME NEW k \in T, m <= k PROVE n <= k
        BY <1>5, <2>0, <4>1
      <4> QED BY <4>1
    <3>2. n \notin From(m) /\ n \in From(n)
      BY <1>5, <2>0
    <3> QED BY <3>1, <3>2
  <2>2. <<From(m), A>> \in StrictSubsetOrdering(T)
    BY <2>1, <1>4 DEF StrictSubsetOrdering
  <2> QED BY <2>1, <2>2, <1>3
<1> QED BY <1>5

\* Canvas lists every assignment.
LEMMA ListingFacts ==
  ASSUME Assumption, course \in Courses, NEW list \in Listings(course.assignments)
  PROVE  /\ IsFiniteSet(DOMAIN list) /\ DOMAIN list \subseteq Nat
         /\ \A n \in DOMAIN list : list[n] \in DOMAIN course.assignments
         /\ \A id \in DOMAIN course.assignments : \E n \in DOMAIN list : list[n] = id
<1> DEFINE D == DOMAIN course.assignments
<1>1. IsFiniteSet(D) /\ Cardinality(D) \in Nat
  <2>1. D \subseteq Ids
    BY NamingType DEF Courses
  <2> QED BY <2>1, FS_Subset, FS_CardinalityType DEF Assumption
<1>2. list \in [1..Cardinality(D) -> D] /\ DOMAIN list = 1..Cardinality(D)
  BY DEF Listings
<1>3. IsFiniteSet(1..Cardinality(D)) /\ Cardinality(1..Cardinality(D)) = Cardinality(D)
  BY <1>1, FS_Interval
<1>4. list \in Injection(1..Cardinality(D), D)
  BY <1>2 DEF Injection, IsInjective, Listings
<1>5. list \in Surjection(1..Cardinality(D), D)
  <2> DEFINE N == 1..Cardinality(D)
  <2>1. IsFiniteSet(N) /\ Cardinality(N) = Cardinality(D) /\ list \in Injection(N, D)
    BY <1>3, <1>4
  <2> HIDE DEF N, D
  <2>2. list \in Surjection(N, D)
    BY <1>1, <2>1, FS_Injection
  <2> QED BY <2>2 DEF N
<1> QED BY <1>1, <1>2, <1>3, <1>5 DEF Surjection

\* What the upsert leaves in a row: an entry that names its slug, or what it held before.
LEMMA UpsertedRows ==
  ASSUME Assumption, course \in Courses, NEW list \in Listings(course.assignments),
         NEW s \in DOMAIN Upserted(list)
  PROVE  \/ /\ \E n \in DOMAIN list : /\ course.assignments[list[n]] = s
                                    /\ Upserted(list)[s] = [id |-> list[n], gh |-> FALSE]
         \/ /\ \A n \in DOMAIN list : course.assignments[list[n]] # s
            /\ s \in DOMAIN rows /\ Upserted(list)[s] = rows[s]
<1> DEFINE named == {n \in DOMAIN list : course.assignments[list[n]] = s}
<1>1. CASE named = {}
  BY <1>1 DEF Upserted
<1>2. CASE named # {}
  <2>1. IsFiniteSet(named) /\ named \in SUBSET Nat
    BY ListingFacts, FS_Subset
  <2>2. \E n \in named : \A m \in named : m <= n
    BY <1>2, <2>1, GreatestNumber
  <2> DEFINE last == CHOOSE n \in named : \A m \in named : m <= n
  <2>3. last \in named
    BY <2>2
  <2>4. Upserted(list)[s] = [id |-> list[last], gh |-> FALSE]
    BY <1>2 DEF Upserted
  <2> QED BY <2>3, <2>4
<1> QED BY <1>1, <1>2

\* The slugs that have a row after the upsert.
LEMMA UpsertedSlugs ==
  ASSUME NEW list
  PROVE  DOMAIN Upserted(list) = DOMAIN rows \union {course.assignments[list[n]] : n \in DOMAIN list}
BY DEF Upserted

-----------------------------------------------------------------------------
(* The pull. *)

\* What changes the course keeps its type and touches nothing of the pull.
LEMMA CourseKeepsPullInv ==
  ASSUME PullInv, NameAssignment \/ DeleteAssignment \/ Enrol \/ AddToClassroom \/ Accept
  PROVE  PullInv'
<1> USE Assumption DEF PullInv
<1>1. ASSUME NEW c \in Courses, Became(c)
      PROVE  PullInv'
  <2>1. UNCHANGED <<rows, pull, outcome>> /\ course' = c /\ (strayed => strayed')
    BY <1>1 DEF Became, pullVars
  <2>2. RowsNamed'
    <3> SUFFICES ASSUME ~strayed', NEW s \in Linked
                 PROVE  rows[s].id \in DOMAIN c.assignments /\ c.assignments[rows[s].id] = s
      BY <2>1 DEF RowsNamed, Linked
    <3>1. rows[s].id \in Recorded /\ rows[s].id \in DOMAIN course.assignments /\ course.assignments[rows[s].id] = s
      BY <2>1 DEF RowsNamed, Linked, Recorded
    <3> QED BY <1>1, <3>1 DEF Became
  <2> QED BY <2>1, <2>2 DEF FailureHasCause
<1>2. ASSUME NEW f, f = [i \in DOMAIN f |-> f[i]], DOMAIN f \subseteq Ids, \A i \in DOMAIN f : f[i] \in Slugs
      PROVE  [course EXCEPT !.assignments = f] \in Courses
  <2>1. f \in UNION {[S -> Slugs] : S \in SUBSET Ids}
    BY <1>2, NamingType
  <2> QED BY <2>1 DEF Courses
<1>3. /\ course.assignments = [i \in DOMAIN course.assignments |-> course.assignments[i]]
      /\ DOMAIN course.assignments \subseteq Ids
      /\ \A i \in DOMAIN course.assignments : course.assignments[i] \in Slugs
  BY NamingType DEF Courses
<1>4. CASE NameAssignment
  <2>1. PICK id \in Ids, slug \in Slugs :
          Became([course EXCEPT !.assignments =
                    [i \in DOMAIN @ \union {id} |-> IF i = id THEN slug ELSE @[i]]])
    BY <1>4 DEF NameAssignment
  <2> DEFINE f == [i \in DOMAIN course.assignments \union {id} |->
                     IF i = id THEN slug ELSE course.assignments[i]]
  <2>2. [course EXCEPT !.assignments = f] \in Courses
    <3>1. DOMAIN f \subseteq Ids /\ \A i \in DOMAIN f : f[i] \in Slugs
      BY <1>3
    <3>2. f = [i \in DOMAIN f |-> f[i]]
      OBVIOUS
    <3> HIDE DEF f
    <3> QED BY <3>1, <3>2, <1>2
  <2> QED BY <2>1, <2>2, <1>1
<1>5. CASE DeleteAssignment
  <2>1. PICK id \in DOMAIN course.assignments :
          Became([course EXCEPT !.assignments = [i \in DOMAIN @ \ {id} |-> @[i]]])
    BY <1>5 DEF DeleteAssignment
  <2> DEFINE f == [i \in DOMAIN course.assignments \ {id} |-> course.assignments[i]]
  <2>2. [course EXCEPT !.assignments = f] \in Courses
    <3>1. DOMAIN f \subseteq Ids /\ \A i \in DOMAIN f : f[i] \in Slugs
      BY <1>3
    <3>2. f = [i \in DOMAIN f |-> f[i]]
      OBVIOUS
    <3> HIDE DEF f
    <3> QED BY <3>1, <3>2, <1>2
  <2> QED BY <2>1, <2>2, <1>1
<1>6. CASE Enrol
  <2>1. PICK s \in Students : Became([course EXCEPT !.roster = @ \union {s}])
    BY <1>6 DEF Enrol
  <2>2. [course EXCEPT !.roster = @ \union {s}] \in Courses
    BY DEF Courses
  <2> QED BY <2>1, <2>2, <1>1
<1>7. CASE AddToClassroom
  <2>1. PICK slug \in Slugs : Became([course EXCEPT !.classroom = @ \union {slug}])
    BY <1>7 DEF AddToClassroom
  <2>2. [course EXCEPT !.classroom = @ \union {slug}] \in Courses
    BY DEF Courses
  <2> QED BY <2>1, <2>2, <1>1
<1>8. CASE Accept
  <2>1. PICK r \in Repos : Became([course EXCEPT !.accepted = @ \union {r}])
    BY <1>8 DEF Accept
  <2>2. [course EXCEPT !.accepted = @ \union {r}] \in Courses
    BY DEF Courses
  <2> QED BY <2>1, <2>2, <1>1
<1> QED BY <1>4, <1>5, <1>6, <1>7, <1>8

\* An id that collides belongs to a row of another slug, and one that is gone to a row
\* that Canvas no longer knows.
LEMMA FailureStrayed ==
  ASSUME PullInv
  PROVE  /\ \A list \in Listings(course.assignments) : \A i \in DOMAIN list, s \in DOMAIN rows :
              Collides(list, i, s) => strayed
         /\ \A s \in Linked : rows[s].id \notin DOMAIN course.assignments => strayed
<1>1. DOMAIN course.assignments \subseteq Ids
  BY NamingType DEF PullInv, Courses
<1>2. ASSUME NEW list \in Listings(course.assignments), NEW i \in DOMAIN list, NEW s \in DOMAIN rows,
             Collides(list, i, s)
      PROVE  strayed
  <2>1. list[i] \in DOMAIN course.assignments
    BY DEF Listings
  <2>2. rows[s].id = list[i] /\ s # course.assignments[list[i]]
    BY <1>2 DEF Collides
  <2> QED BY <1>1, <2>1, <2>2, Assumption DEF PullInv, RowsNamed, Linked
<1> QED BY <1>2 DEF PullInv, RowsNamed

\* The upsert leaves the rows of other slugs as they are and gives the others an id of theirs.
LEMMA UpsertKeepsNames ==
  ASSUME PullInv, NEW list \in Listings(course.assignments), rows' = Upserted(list),
         UNCHANGED <<course, strayed>>
  PROVE  RowsNamed'
<1> SUFFICES ASSUME ~strayed, NEW s \in DOMAIN rows', rows'[s].id # NoId
             PROVE  rows'[s].id \in DOMAIN course.assignments /\ course.assignments[rows'[s].id] = s
  BY DEF RowsNamed, Linked
<1>1. CASE \E n \in DOMAIN list : course.assignments[list[n]] = s /\ rows'[s] = [id |-> list[n], gh |-> FALSE]
  BY <1>1 DEF Listings
<1>2. CASE s \in DOMAIN rows /\ rows'[s] = rows[s]
  BY <1>2 DEF PullInv, RowsNamed, Linked
<1>3. course \in Courses
  BY DEF PullInv
<1> QED BY <1>1, <1>2, <1>3, UpsertedRows, Assumption

LEMMA PullKeepsPullInv ==
  ASSUME PullInv, Pull
  PROVE  PullInv'
<1> USE DEF PullInv
<1>1. CASE StartPull
  BY <1>1 DEF StartPull, GoTo, Pulls, FailureHasCause, RowsNamed, Linked
<1>2. CASE PullStudents
  BY <1>2 DEF PullStudents, GoTo, Pulls, FailureHasCause, RowsNamed, Linked, history
<1>3. CASE PullAssignments
  <2>1. PICK list \in Listings(course.assignments) :
          IF \E i \in DOMAIN list, s \in DOMAIN rows : Collides(list, i, s)
          THEN End("collision") /\ UNCHANGED rows
          ELSE rows' = Upserted(list) /\ GoTo("submissions") /\ UNCHANGED outcome
    BY <1>3 DEF PullAssignments
  <2>2. pull.pc = "assignments" /\ outcome = "none" /\ UNCHANGED <<course, strayed>>
    BY <1>3 DEF PullAssignments, history
  <2>3. CASE \E i \in DOMAIN list, s \in DOMAIN rows : Collides(list, i, s)
    <3>1. pull' \in Pulls /\ pull'.pc = "idle" /\ outcome' = "collision" /\ UNCHANGED rows
      BY <2>1, <2>3 DEF End, Pulls
    <3>2. strayed
      BY <2>3, FailureStrayed
    <3> QED BY <2>2, <3>1, <3>2 DEF FailureHasCause, RowsNamed
  <2>4. CASE ~\E i \in DOMAIN list, s \in DOMAIN rows : Collides(list, i, s)
    <3>1. rows' = Upserted(list) /\ pull' \in Pulls /\ outcome' = "none"
      BY <2>1, <2>2, <2>4 DEF GoTo, Pulls
    <3>2. RowsNamed'
      BY <2>2, <3>1, UpsertKeepsNames
    <3> QED BY <2>2, <3>1, <3>2 DEF FailureHasCause
  <2> QED BY <2>3, <2>4
<1>4. CASE PullSubmissions
  <2>1. pull.pc = "submissions" /\ outcome = "none" /\ UNCHANGED <<course, strayed, rows>>
    BY <1>4 DEF PullSubmissions, history
  <2>2. CASE \E s \in Linked : rows[s].id \notin DOMAIN course.assignments
    <3>1. pull' \in Pulls /\ pull'.pc = "idle" /\ outcome' = "gone"
      BY <1>4, <2>2 DEF PullSubmissions, End, Pulls
    <3>2. strayed
      BY <2>2, FailureStrayed
    <3> QED BY <2>1, <3>1, <3>2 DEF FailureHasCause, RowsNamed
  <2>3. CASE ~\E s \in Linked : rows[s].id \notin DOMAIN course.assignments
    <3>1. pull' \in Pulls /\ outcome' = "none"
      BY <1>4, <2>1, <2>3 DEF PullSubmissions, GoTo, Pulls
    <3> QED BY <2>1, <3>1 DEF FailureHasCause, RowsNamed, Linked
  <2> QED BY <2>2, <2>3
<1>5. CASE SkipClassroom \/ FinishPull \/ AbortPull
  <2>1. pull' \in Pulls /\ pull'.pc = "idle" /\ outcome' \in {"canvas", "ok", "aborted"}
    BY <1>5 DEF SkipClassroom, FinishPull, AbortPull, End, Pulls
  <2>2. UNCHANGED <<course, strayed, rows>>
    BY <1>5 DEF SkipClassroom, FinishPull, AbortPull, history
  <2> QED BY <2>1, <2>2 DEF FailureHasCause, RowsNamed, Linked
<1>6. CASE ListClassroom
  BY <1>6 DEF ListClassroom, Pulls, Courses, FailureHasCause, RowsNamed, Linked, history
<1>7. ASSUME NEW slug \in Slugs, MergeAssignment(slug)
      PROVE  PullInv'
  <2>1. pull' \in Pulls /\ outcome = "none" /\ UNCHANGED <<course, outcome, strayed>>
    BY <1>7 DEF MergeAssignment, Pulls, history
  <2>2. \A s \in Linked' : s \in Linked /\ rows'[s] = rows[s]
    BY <1>7 DEF MergeAssignment, Linked
  <2> QED BY <2>1, <2>2 DEF FailureHasCause, RowsNamed
<1>8. CASE PullGHSubmissions
  BY <1>8 DEF PullGHSubmissions, GoTo, Pulls, FailureHasCause, RowsNamed, Linked, history
<1> QED BY <1>1, <1>2, <1>3, <1>4, <1>5, <1>6, <1>7, <1>8 DEF Pull

\* A match touches nothing of the pull.
LEMMA OthersKeepPullInv ==
  ASSUME PullInv, Match \/ UNCHANGED vars
  PROVE  PullInv'
<1>1. UNCHANGED <<course, pullVars, history>>
  BY DEF Match, vars, StartMatch, SaveMatch, FinishMatch, AbortMatch, Choose, Leave, Give
<1> QED BY <1>1 DEF PullInv, pullVars, history, FailureHasCause, RowsNamed, Linked

LEMMA PullInvariant == Spec => []PullInv
<1>1. Init => PullInv
  BY Assumption DEF Init, PullInv, Pulls, FailureHasCause, RowsNamed, Linked
<1>2. PullInv /\ [Next]_vars => PullInv'
  BY CourseKeepsPullInv, PullKeepsPullInv, OthersKeepPullInv DEF Next
<1> QED BY <1>1, <1>2, PTL DEF Spec

\* As long as no assignment that a row has recorded is deleted or renamed, no pull ever
\* fails of itself, whatever else happens to the course, to the pulls before and to the
\* matches between (PullAssignments, PullSubmissions).
THEOREM FailuresExplained == Spec => []FailureHasCause
<1>1. PullInv => FailureHasCause
  BY DEF PullInv
<1> QED BY <1>1, PullInvariant, PTL

-----------------------------------------------------------------------------
(* The match. *)

\* A match that has not begun gives nothing out.
LEMMA NoMatchInv ==
  /\ NoMatch \in Matches /\ [NoMatch EXCEPT !.pc = "done"] \in Matches
  /\ NoMatch.free = {} /\ DOMAIN NoMatch.save = {} /\ NoMatch.pc = "idle" /\ NoMatch.names = {}
<1>1. DOMAIN <<>> = {}
  OBVIOUS
<1>2. <<>> \in UNION {[S -> Students] : S \in SUBSET Repos}
  <2>1. <<>> = [r \in DOMAIN <<>> |-> <<>>[r]]
    OBVIOUS
  <2> QED BY <2>1, <1>1, SaveType
<1> QED BY <1>1, <1>2 DEF NoMatch, Matches

\* Students only become more, with the names they have.
LEMMA CourseAndPullKeepMatchInv ==
  ASSUME MatchInv, Assumption, course \in Courses,
         NameAssignment \/ DeleteAssignment \/ Enrol \/ AddToClassroom \/ Accept \/ Pull \/ UNCHANGED vars
  PROVE  MatchInv'
<1>1. UNCHANGED <<match, pending>>
  BY DEF NameAssignment, DeleteAssignment, Enrol, AddToClassroom, Accept, Became, Pull, vars, matchVars,
         StartPull, PullStudents, PullAssignments, PullSubmissions, SkipClassroom, ListClassroom,
         MergeAssignment, PullGHSubmissions, FinishPull, AbortPull
<1>2. \/ UNCHANGED students
      \/ PullStudents
  BY DEF NameAssignment, DeleteAssignment, Enrol, AddToClassroom, Accept, Became, Pull, vars,
         StartPull, PullAssignments, PullSubmissions, SkipClassroom, ListClassroom,
         MergeAssignment, PullGHSubmissions, FinishPull, AbortPull
<1>3. /\ DOMAIN students' \subseteq Students
      /\ \A s \in DOMAIN students : s \in DOMAIN students' /\ students'[s] = students[s]
  <2>1. CASE UNCHANGED students
    BY <2>1 DEF MatchInv
  <2>2. CASE PullStudents
    BY <2>2 DEF PullStudents, MatchInv, Courses
  <2> QED BY <1>2, <2>1, <2>2
<1>4. fromGitHub' \subseteq Repos
  BY DEF MatchInv, NameAssignment, DeleteAssignment, Enrol, AddToClassroom, Accept, Became, Pull, vars, pullVars,
         StartPull, PullStudents, PullAssignments, PullSubmissions, SkipClassroom, ListClassroom,
         MergeAssignment, PullGHSubmissions, FinishPull, AbortPull, Courses
<1>5. \A r : Owner(r) \subseteq Owner(r)'
  BY <1>3 DEF Owner
<1>6. OffersFree'
  BY <1>1, <1>3 DEF MatchInv, OffersFree
<1>7. NamesCounted'
  <2>1. ASSUME match'.pc = "saving", NEW r \in match'.names
        PROVE  r \in DOMAIN match'.save \union match'.ask \union match'.left \/ Owner(r)' # {}
    BY <2>1, <1>1, <1>5 DEF MatchInv, NamesCounted
  <2> QED BY <2>1 DEF NamesCounted
<1>8. ClearedMeansMatched'
  <2>1. ASSUME match'.pc = "done", pending' = "false", NEW r \in match'.names
        PROVE  Owner(r)' # {}
    BY <2>1, <1>1, <1>5 DEF MatchInv, ClearedMeansMatched
  <2> QED BY <2>1 DEF ClearedMeansMatched
<1> QED BY <1>1, <1>3, <1>4, <1>6, <1>7, <1>8 DEF MatchInv

\* Giving repository r to a student on offer, who leaves the offer.
LEMMA GiveKeepsMatchInv ==
  ASSUME MatchInv, Assumption, NEW r \in Repos, NEW s \in match.free, NEW then \in Matches, Give(r, s, then),
         then.pc = "saving", then.names = match.names, match.pc = "saving",
         then.free = match.free \ {s},
         \A q \in DOMAIN then.save : q \in DOMAIN match.save /\ then.save[q] = match.save[q] /\ then.save[q] # s,
         \A q \in DOMAIN match.save \union match.ask \union match.left :
           q # r => q \in DOMAIN then.save \union then.ask \union then.left
  PROVE  MatchInv'
<1>1. s \in DOMAIN students /\ students[s] = NoName
  BY DEF MatchInv, OffersFree
<1>2. UNCHANGED <<fromGitHub, pending>>
  BY DEF Give, pullVars
<1>3. CASE Owner(r) \ {s} = {}
  <2>1. match' = then /\ students' = [students EXCEPT ![s] = r]
    BY <1>3 DEF Give
  <2>2. DOMAIN students' = DOMAIN students /\ students'[s] = r
        /\ \A t \in DOMAIN students : t # s => students'[t] = students[t]
    BY <1>1, <2>1
  <2>3. \A q \in Repos : Owner(q) # {} => Owner(q)' # {}
    BY <1>1, <2>2, Assumption DEF Owner
  <2>4. Owner(r)' # {}
    BY <1>1, <2>2 DEF Owner
  <2>5. OffersFree'
    BY <2>1, <2>2 DEF MatchInv, OffersFree
  <2>6. NamesCounted'
    <3>1. ASSUME NEW q \in match'.names
          PROVE  q \in DOMAIN match'.save \union match'.ask \union match'.left \/ Owner(q)' # {}
      <4>1. q \in Repos /\ q \in match.names
        BY <2>1 DEF MatchInv, Matches
      <4>2. q \in DOMAIN match.save \union match.ask \union match.left \/ Owner(q) # {}
        BY <4>1 DEF MatchInv, NamesCounted
      <4> QED BY <4>1, <4>2, <2>1, <2>3, <2>4
    <3> QED BY <3>1 DEF NamesCounted
  <2> QED BY <1>2, <2>1, <2>2, <2>5, <2>6 DEF MatchInv, ClearedMeansMatched
<1>4. CASE Owner(r) \ {s} # {}
  <2>1. match' = NoMatch /\ UNCHANGED students
    BY <1>4 DEF Give
  <2> QED BY <2>1, <1>2, NoMatchInv DEF MatchInv, OffersFree, NamesCounted, ClearedMeansMatched
<1> QED BY <1>3, <1>4

\* What AutoMatch returns gives each student on offer at most one name.
LEMMA AutoMatchType ==
  ASSUME NEW names \in SUBSET Repos, NEW free \in SUBSET Students, NEW m \in AutoMatches(names, free)
  PROVE  /\ m \in UNION {[S -> Students] : S \in SUBSET Repos}
         /\ \A r \in DOMAIN m : m[r] \in free
         /\ \A r, q \in DOMAIN m : m[r] = m[q] => r = q
<1>1. PICK S \in SUBSET names : m \in [S -> free]
  BY DEF AutoMatches
<1>2. m = [i \in DOMAIN m |-> m[i]] /\ DOMAIN m \subseteq Repos /\ \A i \in DOMAIN m : m[i] \in Students
  BY <1>1
<1> QED BY <1>1, <1>2, SaveType DEF AutoMatches

LEMMA StartKeepsMatchInv ==
  ASSUME MatchInv, StartMatch
  PROVE  MatchInv'
<1> DEFINE free == {s \in DOMAIN students : students[s] = NoName}
           names == fromGitHub
           rest(m) == names \ DOMAIN m
           begun(m, auto) == [pc |-> "saving", names |-> names, free |-> free, save |-> m, auto |-> auto,
                              ask |-> IF auto THEN {} ELSE rest(m), left |-> IF auto THEN rest(m) ELSE {}]
<1>1. UNCHANGED <<students, fromGitHub>>
  BY DEF StartMatch, pullVars
<1>2. CASE free = {} \/ names = {}
  <2>1. match' = [NoMatch EXCEPT !.pc = "done"]
    BY <1>2 DEF StartMatch
  <2>2. match'.pc = "done" /\ match'.free = {} /\ DOMAIN match'.save = {} /\ match'.names = {}
    BY <2>1, NoMatchInv DEF NoMatch
  <2> QED BY <1>1, <2>1, <2>2, NoMatchInv DEF MatchInv, OffersFree, NamesCounted, ClearedMeansMatched
<1>3. CASE ~(free = {} \/ names = {})
  <2>1. PICK auto \in BOOLEAN, m \in AutoMatches(names, free) : match' = begun(m, auto)
    BY <1>3 DEF StartMatch
  <2>2. free \in SUBSET Students /\ names \in SUBSET Repos
    BY DEF MatchInv
  <2>3. /\ m \in UNION {[S -> Students] : S \in SUBSET Repos}
        /\ \A r \in DOMAIN m : m[r] \in free
        /\ \A r, q \in DOMAIN m : m[r] = m[q] => r = q
    BY <2>2, AutoMatchType
  <2>4. match' \in Matches
    BY <2>1, <2>2, <2>3 DEF Matches
  <2>5. OffersFree'
    BY <1>1, <2>1, <2>3 DEF OffersFree
  <2>6. NamesCounted'
    BY <2>1 DEF NamesCounted
  <2>7. ClearedMeansMatched'
    BY <2>1 DEF ClearedMeansMatched
  <2> QED BY <1>1, <2>4, <2>5, <2>6, <2>7 DEF MatchInv
<1> QED BY <1>2, <1>3

LEMMA MatchKeepsMatchInv ==
  ASSUME MatchInv, Assumption, Match
  PROVE  MatchInv'
<1>1. CASE SaveMatch
  <2>1. PICK r \in DOMAIN match.save :
          Give(r, match.save[r], [match EXCEPT !.save = [q \in DOMAIN @ \ {r} |-> @[q]],
                                               !.free = @ \ {match.save[r]}])
    BY <1>1 DEF SaveMatch
  <2> DEFINE save == [q \in DOMAIN match.save \ {r} |-> match.save[q]]
             then == [match EXCEPT !.save = save, !.free = @ \ {match.save[r]}]
  <2>2. r \in Repos /\ match.save[r] \in match.free /\ match.pc = "saving"
    BY <1>1, SaveType DEF SaveMatch, MatchInv, Matches, OffersFree
  <2>3. save \in UNION {[S -> Students] : S \in SUBSET Repos}
    <3>1. DOMAIN save \subseteq Repos /\ \A q \in DOMAIN save : save[q] \in Students
      BY SaveType DEF MatchInv, Matches
    <3>2. save = [q \in DOMAIN save |-> save[q]]
      OBVIOUS
    <3> HIDE DEF save
    <3> QED BY <3>1, <3>2, SaveType
  <2>4. then \in Matches
    BY <2>3 DEF MatchInv, Matches
  <2>5. then.pc = "saving" /\ then.names = match.names /\ then.free = match.free \ {match.save[r]}
        /\ then.save = save /\ then.ask = match.ask /\ then.left = match.left
    BY <2>2 DEF MatchInv, Matches
  <2>6. \A q \in DOMAIN save : q \in DOMAIN match.save /\ save[q] = match.save[q] /\ save[q] # match.save[r]
    BY DEF MatchInv, OffersFree
  <2>7. Give(r, match.save[r], then)
    BY <2>1
  <2>8. DOMAIN save = DOMAIN match.save \ {r}
    OBVIOUS
  <2> HIDE DEF then, save
  <2> QED BY <2>2, <2>4, <2>5, <2>6, <2>7, <2>8, GiveKeepsMatchInv
<1>2. ASSUME NEW r \in Repos, Choose(r)
      PROVE  MatchInv'
  <2>1. PICK s \in Similar[r] \intersect match.free :
          Give(r, s, [match EXCEPT !.ask = @ \ {r}, !.free = @ \ {s}])
    BY <1>2 DEF Choose
  <2> DEFINE then == [match EXCEPT !.ask = @ \ {r}, !.free = @ \ {s}]
  <2>2. match.pc = "saving" /\ DOMAIN match.save = {} /\ s \in match.free
    BY <1>2 DEF Choose, Asking
  <2>3. then \in Matches
    BY DEF MatchInv, Matches
  <2>4. then.pc = "saving" /\ then.names = match.names /\ then.free = match.free \ {s}
        /\ then.save = match.save /\ then.ask = match.ask \ {r} /\ then.left = match.left
    BY <2>2 DEF MatchInv, Matches
  <2>5. Give(r, s, then)
    BY <2>1
  <2> HIDE DEF then
  <2> QED BY <2>2, <2>3, <2>4, <2>5, GiveKeepsMatchInv
<1>3. ASSUME NEW r \in Repos, Leave(r)
      PROVE  MatchInv'
  <2>1. UNCHANGED <<students, fromGitHub, pending>> /\ match.pc = "saving"
    BY <1>3 DEF Leave, Asking, pullVars
  <2>2. /\ match' \in Matches /\ match'.pc = "saving" /\ match'.names = match.names /\ match'.free = match.free
        /\ match'.save = match.save /\ match'.ask = match.ask \ {r} /\ match'.left = match.left \union {r}
    BY <1>3, <2>1 DEF Leave, MatchInv, Matches
  <2>3. OffersFree' /\ ClearedMeansMatched'
    BY <2>1, <2>2 DEF MatchInv, OffersFree, ClearedMeansMatched
  <2>4. NamesCounted'
    BY <2>1, <2>2 DEF MatchInv, NamesCounted, Owner
  <2> QED BY <2>1, <2>2, <2>3, <2>4 DEF MatchInv
<1>4. CASE FinishMatch
  <2>1. /\ UNCHANGED <<students, fromGitHub>> /\ match.pc = "saving"
        /\ DOMAIN match.save = {} /\ match.ask = {}
        /\ pending' = IF match.left = {} THEN "false" ELSE "true"
    BY <1>4 DEF FinishMatch, pullVars
  <2>2. /\ match' \in Matches /\ match'.pc = "done" /\ match'.names = match.names /\ match'.free = match.free
        /\ match'.save = match.save /\ match'.ask = match.ask /\ match'.left = match.left
    BY <1>4 DEF FinishMatch, MatchInv, Matches
  <2>3. OffersFree' /\ NamesCounted'
    BY <2>1, <2>2 DEF MatchInv, OffersFree, NamesCounted
  <2>4. ClearedMeansMatched'
    BY <2>1, <2>2 DEF MatchInv, NamesCounted, ClearedMeansMatched, Owner
  <2> QED BY <2>1, <2>2, <2>3, <2>4 DEF MatchInv
<1>5. CASE AbortMatch
  <2>1. match' = NoMatch /\ UNCHANGED <<students, fromGitHub>>
    BY <1>5 DEF AbortMatch, pullVars
  <2> QED BY <2>1, NoMatchInv DEF MatchInv, OffersFree, NamesCounted, ClearedMeansMatched
<1> QED BY <1>1, <1>2, <1>3, <1>4, <1>5, StartKeepsMatchInv DEF Match

LEMMA MatchInvariant == Spec => []MatchInv
<1>1. Init => MatchInv
  <2>1. DOMAIN <<>> = {}
    OBVIOUS
  <2> QED BY <2>1, NoMatchInv DEF Init, MatchInv, OffersFree, NamesCounted, ClearedMeansMatched
<1>2. PullInv /\ MatchInv /\ [Next]_vars => MatchInv'
  BY CourseAndPullKeepMatchInv, MatchKeepsMatchInv, Assumption DEF Next, PullInv
<1> QED BY <1>1, <1>2, PullInvariant, PTL DEF Spec

\* When a match ends with match_pending cleared, every name it found has an owner (RunMatch).
THEOREM ClearedIsMatched == Spec => []ClearedMeansMatched
<1>1. MatchInv => ClearedMeansMatched
  BY DEF MatchInv
<1> QED BY <1>1, MatchInvariant, PTL

\* No step of a pull, of a match or of the course takes a student's GitHub name away
\* (UpsertStudents, SetStudentGitHubUsername).
THEOREM NamesStay == Spec => NamesKept
<1> DEFINE Kept == \A s \in DOMAIN students : s \in DOMAIN students' /\
                     (students[s] # NoName => students'[s] = students[s])
<1>1. ASSUME MatchInv, Next
      PROVE  Kept
  <2>1. CASE PullStudents
    BY <2>1 DEF PullStudents
  <2>2. ASSUME NEW r, NEW s \in match.free, NEW then, Give(r, s, then)
        PROVE  Kept
    BY <1>1, <2>2 DEF Give, MatchInv, OffersFree
  <2>3. CASE SaveMatch
    BY <1>1, <2>2, <2>3 DEF SaveMatch, MatchInv, OffersFree
  <2>4. ASSUME NEW r \in Repos, Choose(r)
        PROVE  Kept
    BY <2>2, <2>4 DEF Choose
  <2>5. \/ UNCHANGED students
        \/ PullStudents \/ SaveMatch \/ \E r \in Repos : Choose(r)
    BY <1>1 DEF Next, NameAssignment, DeleteAssignment, Enrol, AddToClassroom, Accept, Became, Pull, Match,
         StartPull, PullAssignments, PullSubmissions, SkipClassroom, ListClassroom, MergeAssignment,
         PullGHSubmissions, FinishPull, AbortPull, StartMatch, Leave, FinishMatch, AbortMatch
  <2> QED BY <2>1, <2>3, <2>4, <2>5
<1>2. ASSUME MatchInv, [Next]_vars
      PROVE  [Kept]_vars
  BY <1>1, <1>2
<1> QED BY <1>2, MatchInvariant, PTL DEF Spec, NamesKept

-----------------------------------------------------------------------------
(* Types. *)

LEMMA PullKeepsTypes ==
  ASSUME Assumption, TypeOK, Pull
  PROVE  /\ DOMAIN students' \subseteq Students
         /\ \A s \in DOMAIN students' : students'[s] \in Repos \union {NoName}
         /\ DOMAIN rows' \subseteq Slugs
         /\ \A s \in DOMAIN rows' : rows'[s] \in [id : Ids \union {NoId}, gh : BOOLEAN]
         /\ fromCanvas' \subseteq Slugs \X Ids
         /\ lastPull' \in BOOLEAN /\ quiet' \in BOOLEAN /\ strayed' \in BOOLEAN /\ pending' = pending
         /\ outcome' \in {"none", "ok", "canvas", "collision", "gone", "aborted"}
<1> USE DEF TypeOK, history, matchVars
<1>1. CASE StartPull
  BY <1>1 DEF StartPull
<1>2. CASE PullStudents
  BY <1>2 DEF PullStudents, matchVars, Courses
<1>3. CASE PullAssignments
  <2>1. UNCHANGED <<students, fromCanvas, lastPull, history, pending>>
    BY <1>3 DEF PullAssignments
  <2>2. PICK list \in Listings(course.assignments) :
          \/ outcome' = "collision" /\ UNCHANGED rows
          \/ outcome' = outcome /\ rows' = Upserted(list)
    BY <1>3 DEF PullAssignments, End
  <2>3. CASE rows' = Upserted(list)
    <3>1. /\ DOMAIN course.assignments \subseteq Ids
          /\ \A i \in DOMAIN course.assignments : course.assignments[i] \in Slugs
      BY NamingType DEF Courses
    <3>2. DOMAIN rows' \subseteq Slugs
      <4>1. DOMAIN rows' = DOMAIN rows \union {course.assignments[list[n]] : n \in DOMAIN list}
        BY <2>3, UpsertedSlugs
      <4>2. \A n \in DOMAIN list : list[n] \in DOMAIN course.assignments
        BY ListingFacts
      <4> QED BY <3>1, <4>1, <4>2
    <3>3. ASSUME NEW s \in DOMAIN rows'
          PROVE  rows'[s] \in [id : Ids \union {NoId}, gh : BOOLEAN]
      <4>1. CASE \E n \in DOMAIN list : rows'[s] = [id |-> list[n], gh |-> FALSE]
        BY <4>1, <3>1, ListingFacts
      <4>2. CASE s \in DOMAIN rows /\ rows'[s] = rows[s]
        BY <4>2
      <4> QED BY <2>3, <3>3, <4>1, <4>2, UpsertedRows
    <3> QED BY <2>1, <2>2, <3>2, <3>3
  <2> QED BY <2>1, <2>2, <2>3
<1>4. CASE PullSubmissions
  <2>1. UNCHANGED <<students, rows, lastPull, history, pending>>
    BY <1>4 DEF PullSubmissions
  <2>2. fromCanvas' \subseteq Slugs \X Ids
    <3>1. {<<s, rows[s].id>> : s \in Linked} \subseteq Slugs \X Ids
      BY DEF Linked
    <3> QED BY <1>4, <3>1 DEF PullSubmissions
  <2>3. outcome' \in {outcome, "gone"}
    BY <1>4 DEF PullSubmissions, End
  <2> QED BY <2>1, <2>2, <2>3
<1>5. CASE SkipClassroom \/ FinishPull \/ AbortPull
  BY <1>5 DEF SkipClassroom, FinishPull, AbortPull, End
<1>6. CASE ListClassroom \/ PullGHSubmissions
  BY <1>6 DEF ListClassroom, PullGHSubmissions
<1>7. ASSUME NEW slug \in Slugs, MergeAssignment(slug)
      PROVE  /\ DOMAIN rows' \subseteq Slugs
             /\ \A s \in DOMAIN rows' : rows'[s] \in [id : Ids \union {NoId}, gh : BOOLEAN]
             /\ UNCHANGED <<students, fromCanvas, lastPull, outcome, history, pending>>
  BY <1>7 DEF MergeAssignment
<1> QED BY <1>1, <1>2, <1>3, <1>4, <1>5, <1>6, <1>7 DEF Pull

LEMMA MatchKeepsTypes ==
  ASSUME Assumption, TypeOK, MatchInv, Match
  PROVE  /\ DOMAIN students' = DOMAIN students
         /\ \A s \in DOMAIN students' : students'[s] \in Repos \union {NoName}
         /\ UNCHANGED <<course, pullVars, history>>
         /\ pending' \in {"unset", "true", "false"}
<1> USE DEF TypeOK
<1>1. ASSUME NEW r \in Repos, NEW s, NEW then, Give(r, s, then)
      PROVE  /\ DOMAIN students' = DOMAIN students
             /\ \A t \in DOMAIN students' : students'[t] \in Repos \union {NoName}
             /\ UNCHANGED <<course, pullVars, history, pending>>
  BY <1>1 DEF Give
<1>2. CASE SaveMatch
  <2>1. \A r \in DOMAIN match.save : r \in Repos
    BY SaveType DEF Matches
  <2> QED BY <1>1, <1>2, <2>1 DEF SaveMatch
<1>3. ASSUME NEW r \in Repos, Choose(r)
      PROVE  /\ DOMAIN students' = DOMAIN students
             /\ \A t \in DOMAIN students' : students'[t] \in Repos \union {NoName}
             /\ UNCHANGED <<course, pullVars, history, pending>>
  BY <1>1, <1>3 DEF Choose
<1>4. CASE StartMatch
  BY <1>4 DEF StartMatch
<1>5. CASE FinishMatch \/ AbortMatch \/ \E r \in Repos : Leave(r)
  BY <1>5 DEF FinishMatch, AbortMatch, Leave
<1> QED BY <1>2, <1>3, <1>4, <1>5 DEF Match

\* The state stays typed through pulls, matches and changes of the course.
THEOREM TypeCorrect == Spec => []TypeOK
<1>1. Init => TypeOK
  <2>1. DOMAIN <<>> = {}
    OBVIOUS
  <2>2. Init => match \in Matches /\ course \in Courses /\ pull \in Pulls
    BY NoMatchInv, Assumption DEF Init, Pulls
  <2>3. Init => /\ students = <<>> /\ rows = <<>> /\ fromCanvas = {} /\ fromGitHub = {}
                /\ lastPull = FALSE /\ pending = "unset" /\ outcome = "none"
                /\ quiet = FALSE /\ strayed = FALSE
    BY DEF Init
  <2> QED BY <2>1, <2>2, <2>3 DEF TypeOK
<1>2. ASSUME PullInv', MatchInv', MatchInv, TypeOK, [Next]_vars
      PROVE  TypeOK'
  <2>0. course' \in Courses /\ pull' \in Pulls /\ match' \in Matches /\ fromGitHub' \subseteq Repos
        /\ DOMAIN students' \subseteq Students
    BY <1>2 DEF PullInv, MatchInv
  <2>1. CASE NameAssignment \/ DeleteAssignment \/ Enrol \/ AddToClassroom \/ Accept
    <3>1. quiet' = FALSE /\ strayed' \in BOOLEAN /\ UNCHANGED <<students, pullVars, matchVars>>
      BY <1>2, <2>1 DEF NameAssignment, DeleteAssignment, Enrol, AddToClassroom, Accept, Became, TypeOK
    <3> QED BY <1>2, <2>0, <3>1 DEF TypeOK, pullVars, matchVars
  <2>2. CASE Pull
    BY <1>2, <2>0, <2>2, PullKeepsTypes, Assumption DEF TypeOK
  <2>3. CASE Match
    BY <1>2, <2>0, <2>3, MatchKeepsTypes, Assumption DEF TypeOK, pullVars, history
  <2>4. CASE UNCHANGED vars
    BY <1>2, <2>4 DEF TypeOK, vars, pullVars, history, matchVars
  <2> QED BY <1>2, <2>1, <2>2, <2>3, <2>4 DEF Next
<1> QED BY <1>1, <1>2, PullInvariant, MatchInvariant, PTL DEF Spec

-----------------------------------------------------------------------------
(* The phases of a pull. *)

\* A course that changes is not the one the pull began with.
LEMMA CourseKeepsPhaseInv ==
  ASSUME NameAssignment \/ DeleteAssignment \/ Enrol \/ AddToClassroom \/ Accept
  PROVE  PhaseInv'
<1>1. quiet' = FALSE
  BY DEF NameAssignment, DeleteAssignment, Enrol, AddToClassroom, Accept, Became
<1> QED BY <1>1 DEF PhaseInv

\* A match adds and drops no student.
LEMMA MatchKeepsPhaseInv ==
  ASSUME PhaseInv, Assumption, TypeOK, MatchInv, Match \/ UNCHANGED vars
  PROVE  PhaseInv'
<1>1. DOMAIN students' = DOMAIN students /\ UNCHANGED <<course, pullVars, history>>
  BY MatchKeepsTypes DEF vars
<1>2. UNCHANGED <<course, rows, fromCanvas, fromGitHub, pull, outcome, quiet>>
  BY <1>1 DEF pullVars, history
<1> QED BY <1>1, <1>2 DEF PhaseInv, Reached, StudentsIn, AssignmentsIn, LinksNamed, SubmissionsIn, LinksKnown,
                          Merged, RepositoriesIn, Linked, Alone

\* Without a collision the upsert leaves every assignment of a slug of its own in its row,
\* and no other row with the id of one that Canvas has.
LEMMA UpsertBringsAssignments ==
  ASSUME Assumption, TypeOK, NEW list \in Listings(course.assignments),
         ~\E i \in DOMAIN list, s \in DOMAIN rows : Collides(list, i, s),
         rows' = Upserted(list), course' = course
  PROVE  AssignmentsIn' /\ LinksNamed'
<1>0. course \in Courses
  BY DEF TypeOK
<1>1. AssignmentsIn'
  <2>1. ASSUME NEW id \in DOMAIN course.assignments, Alone(id)
        PROVE  course.assignments[id] \in DOMAIN rows' /\ rows'[course.assignments[id]].id = id
    <3> DEFINE s == course.assignments[id]
    <3>1. PICK n \in DOMAIN list : list[n] = id
      BY <1>0, ListingFacts
    <3>2. s \in DOMAIN Upserted(list)
      BY <3>1, UpsertedSlugs
    <3>3. PICK k \in DOMAIN list : course.assignments[list[k]] = s /\ Upserted(list)[s] = [id |-> list[k], gh |-> FALSE]
      BY <1>0, <3>1, <3>2, UpsertedRows
    <3>4. list[k] = id
      BY <1>0, <2>1, <3>3, ListingFacts DEF Alone
    <3> QED BY <3>2, <3>3, <3>4
  <2> QED BY <2>1 DEF AssignmentsIn, Alone
<1>2. LinksNamed'
  <2>1. ASSUME NEW s \in DOMAIN rows', rows'[s].id \in DOMAIN course.assignments
        PROVE  course.assignments[rows'[s].id] = s
    <3>1. CASE \E n \in DOMAIN list : course.assignments[list[n]] = s /\ rows'[s] = [id |-> list[n], gh |-> FALSE]
      BY <3>1
    <3>2. CASE /\ \A n \in DOMAIN list : course.assignments[list[n]] # s
               /\ s \in DOMAIN rows /\ rows'[s] = rows[s]
      <4>1. PICK i \in DOMAIN list : list[i] = rows[s].id
        BY <1>0, <2>1, <3>2, ListingFacts
      <4>2. Collides(list, i, s)
        BY <3>2, <4>1 DEF Collides
      <4> QED BY <3>2, <4>2
    <3> QED BY <1>0, <3>1, <3>2, UpsertedRows
  <2> QED BY <2>1 DEF LinksNamed, Linked
<1> QED BY <1>1, <1>2

LEMMA PullKeepsPhaseInv ==
  ASSUME PhaseInv, Assumption, TypeOK, PullInv, Pull
  PROVE  PhaseInv'
<1> USE DEF PhaseInv, Reached, history
<1>0. course' = course /\ (pull.pc # "idle" => outcome = "none")
  BY DEF PullInv, Pull, StartPull, PullStudents, PullAssignments, PullSubmissions, SkipClassroom,
         ListClassroom, MergeAssignment, PullGHSubmissions, FinishPull, AbortPull
<1>1. CASE StartPull
  <2>1. pull'.pc = "students" /\ outcome' = "none"
    BY <1>1 DEF StartPull, GoTo, TypeOK, Pulls
  <2> QED BY <2>1
<1>2. CASE PullStudents
  <2>1. pull'.pc = "assignments" /\ outcome' = "none"
    BY <1>0, <1>2 DEF PullStudents, GoTo, TypeOK, Pulls
  <2>2. StudentsIn'
    BY <1>2 DEF PullStudents, StudentsIn
  <2> QED BY <2>1, <2>2
<1>3. CASE PullAssignments
  <2>1. PICK list \in Listings(course.assignments) :
          IF \E i \in DOMAIN list, s \in DOMAIN rows : Collides(list, i, s)
          THEN End("collision") /\ UNCHANGED rows
          ELSE rows' = Upserted(list) /\ GoTo("submissions") /\ UNCHANGED outcome
    BY <1>3 DEF PullAssignments
  <2>2. CASE \E i \in DOMAIN list, s \in DOMAIN rows : Collides(list, i, s)
    BY <2>1, <2>2 DEF End
  <2>3. CASE ~\E i \in DOMAIN list, s \in DOMAIN rows : Collides(list, i, s)
    <3>1. pull'.pc = "submissions" /\ outcome' = "none" /\ quiet' = quiet
      BY <1>0, <1>3, <2>1, <2>3 DEF PullAssignments, GoTo, TypeOK, Pulls
    <3>2. AssignmentsIn' /\ LinksNamed'
      BY <1>0, <2>1, <2>3, UpsertBringsAssignments
    <3>3. StudentsIn <=> StudentsIn'
      BY <1>0, <1>3 DEF PullAssignments, StudentsIn
    <3>4. pull.pc = "assignments"
      BY <1>3 DEF PullAssignments
    <3> QED BY <3>1, <3>2, <3>3, <3>4
  <2> QED BY <2>2, <2>3
<1>4. CASE PullSubmissions
  <2>1. pull.pc = "submissions" /\ UNCHANGED <<students, rows, quiet>>
    BY <1>4 DEF PullSubmissions
  <2>2. CASE \E s \in Linked : rows[s].id \notin DOMAIN course.assignments
    BY <1>4, <2>2 DEF PullSubmissions, End
  <2>3. CASE ~\E s \in Linked : rows[s].id \notin DOMAIN course.assignments
    <3>1. /\ pull'.pc = "classroom" /\ outcome' = "none" /\ fromGitHub' = {}
          /\ fromCanvas' = {<<s, rows[s].id>> : s \in Linked}
      BY <1>0, <1>4, <2>3 DEF PullSubmissions, GoTo, TypeOK, Pulls
    <3>2. StudentsIn /\ AssignmentsIn /\ LinksNamed => StudentsIn' /\ AssignmentsIn' /\ LinksNamed'
      BY <1>0, <2>1 DEF StudentsIn, AssignmentsIn, LinksNamed, Linked, Alone
    <3>3. LinksKnown'
      BY <1>0, <2>1, <2>3 DEF LinksKnown, Linked
    <3>4. ASSUME AssignmentsIn PROVE SubmissionsIn'
      <4>1. \A id \in DOMAIN course.assignments : id # NoId
        BY NamingType DEF TypeOK, Courses, Assumption
      <4>2. ASSUME NEW id \in DOMAIN course.assignments, Alone(id)
            PROVE  <<course.assignments[id], id>> \in fromCanvas'
        BY <3>1, <3>4, <4>1, <4>2 DEF AssignmentsIn, Linked
      <4> QED BY <1>0, <4>2 DEF SubmissionsIn, Alone
    <3> QED BY <2>1, <3>1, <3>2, <3>3, <3>4
  <2> QED BY <2>2, <2>3
<1>5. CASE SkipClassroom \/ AbortPull
  <2>1. pull'.pc = "idle" /\ outcome' \in {"canvas", "aborted"}
    BY <1>5 DEF SkipClassroom, AbortPull, End
  <2> QED BY <2>1
<1>6. CASE ListClassroom
  <2>1. /\ pull.pc = "classroom" /\ pull' = [pc |-> "merge", todo |-> course.classroom] /\ outcome' = "none"
        /\ UNCHANGED <<course, students, rows, fromCanvas, fromGitHub, quiet>>
    BY <1>0, <1>6 DEF ListClassroom
  <2>2. Merged'
    BY <2>1 DEF Merged
  <2> QED BY <2>1, <2>2 DEF StudentsIn, AssignmentsIn, LinksNamed, SubmissionsIn, LinksKnown, Linked, Alone
<1>7. ASSUME NEW slug \in Slugs, MergeAssignment(slug)
      PROVE  PhaseInv'
  <2>1. /\ pull.pc = "merge" /\ slug \in pull.todo /\ pull'.pc = "merge" /\ pull'.todo = pull.todo \ {slug}
        /\ outcome' = "none" /\ UNCHANGED <<course, students, fromCanvas, fromGitHub, quiet>>
    BY <1>0, <1>7 DEF MergeAssignment, TypeOK, Pulls
  <2>2. /\ DOMAIN rows' = DOMAIN rows \union {slug}
        /\ \A s \in DOMAIN rows \ {slug} : rows'[s] = rows[s]
        /\ rows'[slug].gh
        /\ slug \in Linked' => slug \in Linked /\ rows'[slug] = rows[slug]
    BY <1>7 DEF MergeAssignment, Linked
  <2>3. CASE ~quiet
    BY <2>1, <2>3
  <2>4. CASE quiet
    <3>1. Merged /\ StudentsIn /\ AssignmentsIn /\ LinksNamed /\ SubmissionsIn /\ LinksKnown /\ fromGitHub = {}
      BY <2>1, <2>4
    <3>2. slug \in course.classroom
      BY <2>1, <3>1 DEF Merged
    <3>3. Merged'
      BY <2>1, <2>2, <3>1 DEF Merged
    <3>4. AssignmentsIn'
      BY <2>1, <2>2, <3>1, <3>2 DEF AssignmentsIn, Alone
    <3>5. \A s \in Linked' : s \in Linked /\ rows'[s] = rows[s]
      BY <2>2 DEF Linked
    <3>6. LinksNamed' /\ LinksKnown'
      BY <2>1, <3>1, <3>5 DEF LinksNamed, LinksKnown
    <3>7. StudentsIn' /\ SubmissionsIn'
      BY <2>1, <3>1 DEF StudentsIn, SubmissionsIn, Alone
    <3> QED BY <2>1, <3>1, <3>3, <3>4, <3>6, <3>7
  <2> QED BY <2>3, <2>4
<1>8. CASE PullGHSubmissions
  <2>1. /\ pull.pc = "merge" /\ pull'.pc = "finish" /\ pull'.todo = {} /\ pull.todo = {}
        /\ fromGitHub' = fromGitHub \union {r \in course.accepted : On[r] \in course.classroom}
        /\ outcome' = "none" /\ UNCHANGED <<course, students, rows, fromCanvas, quiet>>
    BY <1>0, <1>8 DEF PullGHSubmissions, GoTo, TypeOK, Pulls
  <2>2. fromGitHub = {} => RepositoriesIn'
    BY <2>1 DEF RepositoriesIn
  <2> QED BY <2>1, <2>2 DEF StudentsIn, AssignmentsIn, LinksNamed, SubmissionsIn, LinksKnown, Merged, Linked, Alone
<1>9. CASE FinishPull
  <2>1. /\ pull.pc = "finish" /\ pull'.pc = "idle" /\ pull'.todo = {}
        /\ UNCHANGED <<course, students, rows, fromCanvas, fromGitHub, quiet>>
    BY <1>9 DEF FinishPull, End
  <2>2. RepositoriesIn /\ Merged => RepositoriesIn' /\ Merged'
    BY <2>1 DEF RepositoriesIn, Merged
  <2> QED BY <2>1, <2>2 DEF StudentsIn, AssignmentsIn, LinksNamed, SubmissionsIn, LinksKnown, Linked, Alone
<1> QED BY <1>1, <1>2, <1>3, <1>4, <1>5, <1>6, <1>7, <1>8, <1>9 DEF Pull

LEMMA PhaseInvariant == Spec => []PhaseInv
<1>1. Init => PhaseInv
  BY DEF Init, PhaseInv
<1>2. PhaseInv /\ TypeOK /\ PullInv /\ MatchInv /\ [Next]_vars => PhaseInv'
  BY CourseKeepsPhaseInv, MatchKeepsPhaseInv, PullKeepsPhaseInv, Assumption DEF Next
<1> QED BY <1>1, <1>2, TypeCorrect, PullInvariant, MatchInvariant, PTL DEF Spec

\* When a pull has ended well and the course has not changed since it began, the database
\* is the course (cassPullCommand, pull.go, db.go).
THEOREM CompletePull == Spec => []PullComplete
<1>1. PhaseInv => PullComplete
  <2>1. ASSUME PhaseInv, outcome = "ok", quiet
        PROVE  StudentsIn /\ AssignmentsIn /\ LinksNamed /\ SubmissionsIn /\ LinksKnown /\ Merged /\ RepositoriesIn
    BY <2>1 DEF PhaseInv, Reached
  <2> QED BY <2>1 DEF PullComplete, StudentsIn, AssignmentsIn, LinksNamed, SubmissionsIn, LinksKnown, Merged,
                      RepositoriesIn
<1> QED BY <1>1, PhaseInvariant, PTL
=============================================================================
