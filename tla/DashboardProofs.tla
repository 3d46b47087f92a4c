-------------------------- MODULE DashboardProofs --------------------------
(***************************************************************************)
(* Proofs about the dashboard, for any number of scans, records, findings  *)
(* and shown rows, and for any set of occasions: what its pages show, what *)
(* its dialog deletes, what the end of the application leaves to its       *)
(* threads, and what a scan's summary says.                                *)
(*                                                                         *)
(* The parts of the inductive invariant IInv are nearly independent: all   *)
(* rest on the types (TypesOK, with the holder of emit_mutex_ and the page *)
(* of a dialog), and each has a partner of its own where it is not         *)
(* inductive by itself. The frame lemmas say once which steps touch which  *)
(* group of variables.                                                     *)
(***************************************************************************)
EXTENDS Dashboard, SequenceTheorems, FiniteSetTheorems, TLAPS

-----------------------------------------------------------------------------
(* Sequences                                                               *)

LEMMA RangeAppend ==
  ASSUME NEW S, NEW q \in Seq(S), NEW e \in S
  PROVE  Range(Append(q, e)) = Range(q) \cup {e}
<1>1. /\ Append(q, e) \in Seq(S) /\ Len(Append(q, e)) = Len(q) + 1
      /\ \A i \in 1..Len(q) : Append(q, e)[i] = q[i]
      /\ Append(q, e)[Len(q) + 1] = e
  BY AppendProperties
<1>2. /\ Range(Append(q, e)) = {Append(q, e)[i] : i \in 1..(Len(q) + 1)}
      /\ Range(q) = {q[i] : i \in 1..Len(q)}
  BY <1>1, RangeEquality
<1>3. Len(q) \in Nat
  BY LenProperties
<1>4. 1..(Len(q) + 1) = 1..Len(q) \cup {Len(q) + 1}
  BY <1>3
<1> QED
  BY <1>1, <1>2, <1>4

LEMMA RangeTail ==
  ASSUME NEW S, NEW q \in Seq(S), q # <<>>
  PROVE  Range(q) = Range(Tail(q)) \cup {Head(q)}
<1>1. /\ Tail(q) \in Seq(S) /\ Len(Tail(q)) = Len(q) - 1 /\ Head(q) = q[1]
      /\ \A i \in 1..Len(Tail(q)) : Tail(q)[i] = q[i + 1]
  BY HeadTailProperties
<1>2. /\ Range(Tail(q)) = {Tail(q)[i] : i \in 1..Len(Tail(q))}
      /\ Range(q) = {q[i] : i \in 1..Len(q)}
  BY <1>1, RangeEquality
<1>3. Len(q) \in Nat \ {0}
  BY LenProperties, EmptySeq
<1>4. ASSUME NEW x \in Range(q) PROVE x \in Range(Tail(q)) \cup {Head(q)}
  <2>1. PICK i \in 1..Len(q) : x = q[i]
    BY <1>2
  <2>2. CASE i = 1
    BY <1>1, <2>1, <2>2
  <2>3. CASE i # 1
    <3>1. i - 1 \in 1..Len(Tail(q)) /\ Tail(q)[i - 1] = q[i]
      BY <1>1, <1>3, <2>1, <2>3
    <3> QED
      BY <1>2, <2>1, <3>1
  <2> QED
    BY <2>2, <2>3
<1>5. ASSUME NEW x \in Range(Tail(q)) PROVE x \in Range(q)
  <2>1. PICK i \in 1..Len(Tail(q)) : x = Tail(q)[i]
    BY <1>2
  <2>2. i + 1 \in 1..Len(q) /\ x = q[i + 1]
    BY <1>1, <1>3, <2>1
  <2> QED
    BY <1>2, <2>2
<1>6. Head(q) \in Range(q)
  BY <1>1, <1>2, <1>3
<1> QED
  BY <1>4, <1>5, <1>6

\* The positions of a sequence at which a member of T stands.
At(q, T) == {i \in DOMAIN q : q[i] \in T}

LEMMA AtFinite ==
  ASSUME NEW S, NEW q \in Seq(S), NEW T
  PROVE  IsFiniteSet(At(q, T)) /\ Cardinality(At(q, T)) \in Nat
<1>1. IsFiniteSet(1..Len(q)) /\ DOMAIN q = 1..Len(q)
  BY LenProperties, FS_Interval
<1> QED
  BY <1>1, FS_Subset, FS_CardinalityType DEF At

LEMMA AtAppend ==
  ASSUME NEW S, NEW q \in Seq(S), NEW e \in S, NEW T
  PROVE  Cardinality(At(Append(q, e), T)) = Cardinality(At(q, T)) + IF e \in T THEN 1 ELSE 0
<1>1. /\ Append(q, e) \in Seq(S) /\ Len(Append(q, e)) = Len(q) + 1
      /\ \A i \in 1..Len(q) : Append(q, e)[i] = q[i]
      /\ Append(q, e)[Len(q) + 1] = e
  BY AppendProperties
<1>2. Len(q) \in Nat /\ DOMAIN q = 1..Len(q) /\ DOMAIN Append(q, e) = 1..(Len(q) + 1)
  BY <1>1, LenProperties
<1>3. At(Append(q, e), T) = At(q, T) \cup (IF e \in T THEN {Len(q) + 1} ELSE {})
  BY <1>1, <1>2 DEF At
<1>4. Len(q) + 1 \notin At(q, T)
  BY <1>2 DEF At
<1>5. IsFiniteSet(At(q, T)) /\ Cardinality(At(q, T)) \in Nat
  BY AtFinite
<1>6. CASE e \in T
  BY <1>3, <1>4, <1>5, <1>6, FS_AddElement
<1>7. CASE e \notin T
  BY <1>3, <1>5, <1>7
<1> QED
  BY <1>6, <1>7

\* Taking the first away loses at most that one.
LEMMA AtTail ==
  ASSUME NEW S, NEW q \in Seq(S), q # <<>>, NEW T
  PROVE  Cardinality(At(q, T)) <= Cardinality(At(Tail(q), T)) + IF Head(q) \in T THEN 1 ELSE 0
<1>1. /\ Tail(q) \in Seq(S) /\ Len(Tail(q)) = Len(q) - 1 /\ Head(q) = q[1]
      /\ \A i \in 1..Len(Tail(q)) : Tail(q)[i] = q[i + 1]
  BY HeadTailProperties
<1>2. /\ Len(q) \in Nat \ {0} /\ DOMAIN q = 1..Len(q) /\ DOMAIN Tail(q) = 1..(Len(q) - 1)
  BY <1>1, LenProperties, EmptySeq
<1> DEFINE rest == At(q, T) \ {1}
           shift == [i \in rest |-> i - 1]
<1>3. ASSUME NEW i \in rest PROVE i - 1 \in At(Tail(q), T) /\ i \in Int
  <2>1. i \in 2..Len(q) /\ q[i] \in T
    BY <1>2 DEF At
  <2>2. i - 1 \in 1..Len(Tail(q)) /\ Tail(q)[i - 1] = q[i]
    BY <1>1, <1>2, <2>1
  <2> QED
    BY <1>1, <1>2, <2>1, <2>2 DEF At
<1>4. shift \in Injection(rest, At(Tail(q), T))
  <2>1. shift \in [rest -> At(Tail(q), T)]
    BY <1>3
  <2>2. \A i, j \in rest : shift[i] = shift[j] => i = j
    BY <1>3
  <2> QED
    BY <2>1, <2>2 DEF Injection, IsInjective
<1>5. IsFiniteSet(At(Tail(q), T)) /\ Cardinality(At(Tail(q), T)) \in Nat
  BY <1>1, AtFinite
<1>6. Cardinality(rest) <= Cardinality(At(Tail(q), T))
  BY <1>4, <1>5, FS_Injection
<1>7. IsFiniteSet(At(q, T)) /\ Cardinality(At(q, T)) \in Nat
  BY AtFinite
<1>8. CASE Head(q) \in T
  <2>1. Cardinality(rest) = Cardinality(At(q, T)) \/ Cardinality(rest) = Cardinality(At(q, T)) - 1
    BY <1>7, FS_RemoveElement
  <2> QED
    BY <1>5, <1>6, <1>7, <1>8, <2>1
<1>9. CASE Head(q) \notin T
  <2>1. rest = At(q, T)
    BY <1>1, <1>9 DEF At
  <2>2. Cardinality(At(q, T)) <= Cardinality(At(Tail(q), T))
    BY <1>6, <2>1
  <2> QED
    BY <1>5, <1>7, <1>9, <2>2
<1> QED
  BY <1>8, <1>9

-----------------------------------------------------------------------------
(* What the pages are filled with                                          *)

\* A finite set of numbers listed in descending order: each of its members once.
LEMMA Listed ==
  ASSUME NEW n \in Nat, NEW ids \in SUBSET (1..n)
  PROVE  /\ DOMAIN ListQuarantine(ids) \subseteq 1..n
         /\ Range(ListQuarantine(ids)) \subseteq ids
<1> DEFINE newer(id) == {x \in ids : x > id}
           k == Cardinality(ids)
           rank == [id \in ids |-> Cardinality(newer(id))]
<1>1. IsFiniteSet(ids) /\ k \in Nat /\ k <= n
  <2>1. IsFiniteSet(1..n) /\ Cardinality(1..n) = n
    BY FS_Interval
  <2> QED
    BY <2>1, FS_Subset, FS_CardinalityType
<1>2. ASSUME NEW id \in ids PROVE Cardinality(newer(id)) \in 0..(k - 1)
  <2>1. IsFiniteSet(newer(id)) /\ Cardinality(newer(id)) <= k /\ Cardinality(newer(id)) # k
    <3>1. newer(id) \in SUBSET ids /\ id \notin newer(id)
      OBVIOUS
    <3> QED
      BY <1>1, <3>1, FS_Subset
  <2> QED
    BY <1>1, <2>1, FS_CardinalityType
<1>3. ASSUME NEW x \in ids, NEW y \in ids, x < y
      PROVE  Cardinality(newer(y)) # Cardinality(newer(x))
  <2>1. newer(y) \in SUBSET newer(x) /\ y \in newer(x) /\ y \notin newer(y)
    <3>1. x \in Int /\ y \in Int /\ \A z \in ids : z \in Int
      OBVIOUS
    <3>2. \A z \in newer(y) : z \in newer(x)
      BY <1>3, <3>1
    <3>3. ~(y > y) /\ y > x
      BY <1>3, <3>1
    <3> QED
      BY <3>2, <3>3
  <2>2. IsFiniteSet(newer(x))
    BY <1>1, FS_Subset
  <2> QED
    BY <2>1, <2>2, FS_Subset
<1>4. rank \in Injection(ids, 0..(k - 1))
  <2>1. rank \in [ids -> 0..(k - 1)]
    BY <1>2
  <2>2. ASSUME NEW x \in ids, NEW y \in ids, rank[x] = rank[y] PROVE x = y
    BY <1>3, <2>2
  <2> QED
    BY <2>1, <2>2 DEF Injection, IsInjective
<1>5. IsFiniteSet(0..(k - 1)) /\ Cardinality(0..(k - 1)) = k
  <2> HIDE DEF k
  <2>1. k - 1 \in Int
    BY <1>1
  <2> QED
    BY <1>1, <2>1, FS_Interval
<1>6. rank \in Surjection(ids, 0..(k - 1))
  BY <1>4, <1>5, FS_Injection
<1>7. ASSUME NEW i \in 1..k PROVE ListQuarantine(ids)[i] \in ids
  <2>1. PICK id \in ids : rank[id] = i - 1
    <3> HIDE DEF rank, k
    <3>1. i - 1 \in 0..(k - 1)
      BY <1>1, <1>7
    <3> QED
      BY <1>6, <3>1 DEF Surjection
  <2>2. Cardinality(newer(id)) = i - 1
    BY <2>1
  <2>3. ListQuarantine(ids)[i] = CHOOSE x \in ids : Cardinality(newer(x)) = i - 1
    BY <1>7 DEF ListQuarantine
  <2> QED
    BY <2>2, <2>3
<1>8. DOMAIN ListQuarantine(ids) = 1..k
  BY DEF ListQuarantine
<1> QED
  BY <1>1, <1>7, <1>8 DEF Range

LEMMA LesserOf ==
  ASSUME NEW a \in Int, NEW b \in Int
  PROVE  Min({a, b}) = IF a <= b THEN a ELSE b
  BY DEF Min

LEMMA GreaterOf ==
  ASSUME NEW a \in Int, NEW b \in Int
  PROVE  Max({a, b}) = IF a >= b THEN a ELSE b
  BY DEF Max

LEMMA ScoreBounds ==
  ASSUME NEW n \in Nat, NEW etw, NEW driver
  PROVE  Score(n, etw, driver) \in 5..100
<1> DEFINE lost == {l \in {"etw", "driver"} : ~(IF l = "etw" THEN etw ELSE driver)}
           missing == Cardinality(lost)
           score == 100 - missing * 12 - Min({n * 5, 30})
<1>1. missing \in Nat
  <2>1. IsFiniteSet({"etw", "driver"})
    <3>1. IsFiniteSet({"etw"})
      BY FS_Singleton
    <3>2. {"etw", "driver"} = {"etw"} \cup {"driver"}
      OBVIOUS
    <3> QED
      BY <3>1, <3>2, FS_AddElement
  <2>2. lost \in SUBSET {"etw", "driver"}
    OBVIOUS
  <2> QED
    BY <2>1, <2>2, FS_Subset, FS_CardinalityType
<1>2. Min({n * 5, 30}) \in Nat
  BY LesserOf
<1>3. score \in Int /\ score <= 100
  BY <1>1, <1>2
<1>4. Min({score, 100}) = score
  <2> HIDE DEF score
  <2> QED
    BY <1>3, LesserOf
<1>5. Max({5, score}) \in 5..100
  <2> HIDE DEF score
  <2>1. Max({5, score}) = IF 5 >= score THEN 5 ELSE score
    BY <1>3, GreaterOf
  <2> QED
    BY <1>3, <2>1
<1> QED
  BY <1>4, <1>5 DEF Score

\* What is counted of the history.
LEMMA SizeOfHistory ==
  ASSUME NEW S, detections \in Seq(S)
  PROVE  /\ HistorySize \in Nat /\ HistorySize <= HistoryCap
         /\ HistorySize = IF Len(detections) <= HistoryCap THEN Len(detections) ELSE HistoryCap
<1> DEFINE n == Len(detections)  m == Max({1, (n + 1) - HistoryCap})
<1>1. n \in Nat /\ HistoryCap \in Nat /\ \A i \in 1..n : detections[i] \in S
  BY DashboardAssumption, LenProperties, ElementOfSeq
<1>2. m = IF 1 >= (n + 1) - HistoryCap THEN 1 ELSE (n + 1) - HistoryCap
  <2>1. (n + 1) - HistoryCap \in Int
    BY <1>1
  <2> QED
    BY <2>1, GreaterOf
<1>3. Len(SubSeq(detections, m, n)) = IF m <= n THEN n - m + 1 ELSE 0
  <2>1. \A i \in m..n : detections[i] \in S
    BY <1>1, <1>2
  <2> QED
    BY <1>1, <1>2, <2>1, SubSeqProperties
<1> QED
  BY <1>1, <1>2, <1>3 DEF HistorySize, RecentDetections

-----------------------------------------------------------------------------
(* Types, in the form in which they are inductive                          *)

Call == {Row(rule) : rule \in Stored \cup StatusRule}
        \cup {[call |-> "summary"], [call |-> "finished"]}

Doing == {"looking", "calls", "moving", "moved", "failed", "callsMoved", "callsFailed"}

ScanRecord == [st: {"none", "begun", "working", "ended"}, kind: Kind, before: Nat,
               found: Nat, said: {"nothing", "clean", "threats"}, cleared: BOOLEAN,
               overlapped: BOOLEAN]

\* Whoever calls back is in Emit.
FeedOK ==
  /\ inserted \in Nat /\ records \in Nat
  /\ detections \in Seq([rule: Stored, n: 1..inserted])
  /\ quarantine \subseteq 1..records
  /\ queue \in Seq(Call)
  /\ emit_mutex_ \in Thread \cup {NoOne}
  /\ doing \in [Thread -> Doing]
  /\ etwFails \in BOOLEAN /\ finds \in 0..MaxFinds
  /\ \A t \in Thread : doing[t] \in DOMAIN CallOf => emit_mutex_ = t

PagesOK ==
  /\ page \in 0..3
  /\ rows \in [Stored \cup StatusRule -> Nat] /\ detection_unread_ \in Nat
  /\ DOMAIN table \subseteq 1..records /\ Range(table) \subseteq 1..records
  /\ home.score \in 5..100
  /\ etw_ok_ \in BOOLEAN /\ driver_ok_ \in BOOLEAN

\* The dialogs are of the quarantine page.
DialogOK ==
  /\ dialog \in {"none", "partial", "delete"} \X SUBSET (1..records)
  /\ asked \in SUBSET (1..records) /\ deleted \in SUBSET (1..records)
  /\ reloaded \in BOOLEAN
  /\ dialog[1] # "none" => page = 2

ScansOK ==
  /\ buttons \in BOOLEAN /\ scan_cancel \in BOOLEAN
  /\ cancel_button \in {"hidden", "enabled", "disabled"}
  /\ status \in {"", "scanning", "cancelling", "cancelled", "summary", "cleared"}
  /\ scan \in [Scan -> ScanRecord]

LookupsOK ==
  /\ card \in {"none", "asking", "checked", "orphan", "orphan checked"}
  /\ ask \in {"none", "asking"} /\ row_ask \in {"none", "asking", "checked"}
  /\ late \subseteq {"scan", "card", "investigation", "table", "deleted button"}

LifeOK ==
  /\ uses \subseteq Use
  /\ phase \in {"open", "quitting", "gone", "crashed"}
  /\ elsewhere \in {"nothing", "added", "removed", "cleared"}

TypesOK == FeedOK /\ PagesOK /\ DialogOK /\ ScansOK /\ LookupsOK /\ LifeOK

LEMMA TypesSuffice == TypesOK => TypeOK
<1> SUFFICES ASSUME TypesOK PROVE TypeOK
  OBVIOUS
<1>1. FeedTypeOK
  <2>1. \A d \in Range(detections) : d \in [rule: Stored, n: 1..inserted]
    BY RangeOfSeq DEF TypesOK, FeedOK
  <2> QED
    BY <2>1 DEF TypesOK, FeedOK, FeedTypeOK, Doing
<1>2. \A s \in Scan : /\ scan[s].st \in {"none", "begun", "working", "ended"}
                      /\ scan[s].kind \in Kind
  BY DEF TypesOK, ScansOK, ScanRecord
<1> QED
  BY <1>1, <1>2 DEF TypesOK, PagesOK, DialogOK, ScansOK, LookupsOK, LifeOK, TypeOK

-----------------------------------------------------------------------------
(* Who changes what                                                        *)

ScansStep == \E s \in Scan : ScanWorks(s) \/ ScanFinds(s) \/ ScanEnds(s)

Lookup == \/ CardLookup \/ RefreshCards \/ CardAnswered \/ CardShown \/ RowLookup
          \/ RowAnswered \/ RowShown \/ Investigate \/ Investigated

\* The steps that leave the two tables and the way to the UI thread as they are.
LEMMA FeedFrame ==
  ASSUME [Next]_vars
  PROVE  \/ UNCHANGED feedVars
         \/ Engine \/ ExecutesCall \/ OnClearHistory \/ OnRestoreQuarantine \/ AnswersDelete
         \/ \E s \in Scan : ScanFinds(s) \/ ScanEnds(s)
         \/ WindowDestroyed \/ Console
<1>1. CASE User
  BY <1>1 DEF User, GoToPage, OnDeleteQuarantine, ClosesPartial, OnScan, OnCancelScan,
              CardLookup, RefreshCards, RowLookup, Investigate, Quit
<1>2. CASE Window
  BY <1>2 DEF Window, CardAnswered, CardShown, RowAnswered, RowShown, Investigated, Terminates
<1>3. ASSUME NEW s \in Scan, ScanWorks(s) PROVE UNCHANGED feedVars
  BY <1>3 DEF ScanWorks
<1>4. CASE UNCHANGED vars
  BY <1>4 DEF vars
<1> QED
  BY <1>1, <1>2, <1>3, <1>4 DEF Next, ScanThread

LEMMA PageFrame ==
  ASSUME [Next]_vars
  PROVE  \/ UNCHANGED pageVars
         \/ ExecutesCall \/ \E i \in 0..3 : GoToPage(i)
         \/ OnClearHistory \/ OnRestoreQuarantine \/ AnswersDelete \/ ClosesPartial
         \/ \E s \in Scan, kind \in Kind : OnScan(s, kind)
<1>1. CASE User
  BY <1>1 DEF User, OnDeleteQuarantine, OnCancelScan, CardLookup, RefreshCards, RowLookup,
              Investigate, Quit
<1>2. CASE Window
  BY <1>2 DEF Window, CardAnswered, CardShown, RowAnswered, RowShown, Investigated,
              Terminates, WindowDestroyed
<1>3. CASE Engine \/ Console
  BY <1>3 DEF Engine, Console
<1>4. ASSUME NEW s \in Scan, ScanThread(s) PROVE UNCHANGED pageVars
  BY <1>4 DEF ScanThread, ScanWorks, ScanFinds, ScanEnds
<1>5. CASE UNCHANGED vars
  BY <1>5 DEF vars
<1> QED
  BY <1>1, <1>2, <1>3, <1>4, <1>5 DEF Next

LEMMA DialogFrame ==
  ASSUME [Next]_vars
  PROVE  \/ UNCHANGED deleteVars
         \/ ExecutesCall \/ OnRestoreQuarantine \/ OnDeleteQuarantine \/ AnswersDelete
         \/ ClosesPartial
<1>1. CASE User
  BY <1>1 DEF User, GoToPage, OnClearHistory, OnScan, OnCancelScan, CardLookup, RefreshCards,
              RowLookup, Investigate, Quit
<1>2. CASE Window
  BY <1>2 DEF Window, CardAnswered, CardShown, RowAnswered, RowShown, Investigated,
              Terminates, WindowDestroyed
<1>3. CASE Engine \/ Console
  BY <1>3 DEF Engine, Console
<1>4. ASSUME NEW s \in Scan, ScanThread(s) PROVE UNCHANGED deleteVars
  BY <1>4 DEF ScanThread, ScanWorks, ScanFinds, ScanEnds
<1>5. CASE UNCHANGED vars
  BY <1>5 DEF vars
<1> QED
  BY <1>1, <1>2, <1>3, <1>4, <1>5 DEF Next

LEMMA ScanFrame ==
  ASSUME [Next]_vars
  PROVE  \/ UNCHANGED scanVars
         \/ ExecutesCall \/ OnClearHistory \/ OnCancelScan \/ Console \/ ScansStep
         \/ \E s \in Scan, kind \in Kind : OnScan(s, kind)
<1>1. CASE User
  BY <1>1 DEF User, GoToPage, OnRestoreQuarantine, OnDeleteQuarantine, AnswersDelete,
              ClosesPartial, CardLookup, RefreshCards, RowLookup, Investigate, Quit
<1>2. CASE Window
  BY <1>2 DEF Window, CardAnswered, CardShown, RowAnswered, RowShown, Investigated,
              Terminates, WindowDestroyed
<1>3. CASE Engine
  BY <1>3 DEF Engine
<1>4. ASSUME NEW s \in Scan, ScanThread(s) PROVE ScansStep
  BY <1>4 DEF ScanThread, ScansStep
<1>5. CASE UNCHANGED vars
  BY <1>5 DEF vars
<1> QED
  BY <1>1, <1>2, <1>3, <1>4, <1>5 DEF Next

LEMMA LookupFrame ==
  ASSUME [Next]_vars
  PROVE  \/ UNCHANGED lookupVars
         \/ Lookup \/ Quit \/ \E s \in Scan : ScanEnds(s)
<1>1. CASE User
  BY <1>1 DEF User, GoToPage, OnClearHistory, OnRestoreQuarantine, OnDeleteQuarantine,
              AnswersDelete, ClosesPartial, OnScan, OnCancelScan, Lookup
<1>2. CASE Window
  BY <1>2 DEF Window, ExecutesCall, WindowDestroyed, Lookup
<1>3. CASE Engine \/ Console
  BY <1>3 DEF Engine, Console
<1>4. ASSUME NEW s \in Scan, ScanWorks(s) \/ ScanFinds(s) PROVE UNCHANGED lookupVars
  BY <1>4 DEF ScanWorks, ScanFinds
<1>5. CASE UNCHANGED vars
  BY <1>5 DEF vars
<1> QED
  BY <1>1, <1>2, <1>3, <1>4, <1>5 DEF Next, ScanThread

\* The end is the user's doing, or that of a lookup whose answer cannot be read.
LEMMA PhaseFrame ==
  ASSUME [Next]_vars
  PROVE  /\ UNCHANGED uses
         /\ UNCHANGED phase \/ Quit \/ WindowDestroyed \/ (Lookup /\ Terminates)
         /\ UNCHANGED elsewhere \/ Console
<1>1. CASE User /\ UNCHANGED <<uses, elsewhere>>
  BY <1>1 DEF User, GoToPage, OnClearHistory, OnRestoreQuarantine, OnDeleteQuarantine,
              AnswersDelete, ClosesPartial, OnScan, OnCancelScan, CardLookup, RefreshCards,
              RowLookup, Investigate
<1>2. CASE Window
  BY <1>2 DEF Window, ExecutesCall, CardAnswered, CardShown, RowAnswered, RowShown,
              Investigated, Lookup
<1>3. CASE Engine \/ Console
  BY <1>3 DEF Engine, Console
<1>4. ASSUME NEW s \in Scan, ScanThread(s) PROVE UNCHANGED <<uses, phase, elsewhere>>
  BY <1>4 DEF ScanThread, ScanWorks, ScanFinds, ScanEnds
<1>5. CASE UNCHANGED vars
  BY <1>5 DEF vars
<1> QED
  BY <1>1, <1>2, <1>3, <1>4, <1>5 DEF Next

-----------------------------------------------------------------------------
(* Types are kept                                                          *)

LEMMA CallsAre ==
  /\ \A rule \in Stored \cup StatusRule : Row(rule) \in Call
  /\ [call |-> "summary"] \in Call /\ [call |-> "finished"] \in Call
  BY DEF Call

\* The mutex is taken by the one who inserts, and given back by the one who calls.
LEMMA GoesOn ==
  ASSUME FeedOK, NEW t \in Thread, NEW from, NEW to \in Doing, Goes(t, from, to)
  PROVE  /\ doing' \in [Thread -> Doing] /\ doing[t] = from /\ doing'[t] = to
         /\ \A u \in Thread : u # t => doing'[u] = doing[u]
  BY DEF FeedOK, Goes

LEMMA DetectionAdded ==
  ASSUME FeedOK, NEW rule \in Stored, InsertDetection(rule)
  PROVE  /\ inserted' \in Nat
         /\ detections' \in Seq([rule: Stored, n: 1..inserted'])
         /\ Len(detections') = Len(detections) + 1
         /\ detections' = Append(detections, [rule |-> rule, n |-> inserted'])
         /\ [rule |-> rule, n |-> inserted'] \in [rule: Stored, n: 1..inserted']
         /\ detections \in Seq([rule: Stored, n: 1..inserted'])
<1> DEFINE D(k) == [rule: Stored, n: 1..k]
<1>1. inserted \in Nat /\ inserted' = inserted + 1 /\ detections \in Seq(D(inserted))
  BY DEF FeedOK, InsertDetection
<1>2. D(inserted) \subseteq D(inserted')
  BY <1>1
<1>3. detections \in Seq(D(inserted'))
  <2> HIDE DEF D
  <2> QED
    BY <1>1, <1>2, SeqMonotonic
<1>4. [rule |-> rule, n |-> inserted'] \in D(inserted')
  BY <1>1
<1>5. detections' = Append(detections, [rule |-> rule, n |-> inserted'])
  BY <1>1 DEF InsertDetection
<1> QED
  BY <1>1, <1>3, <1>4, <1>5, AppendProperties

LEMMA InsertsFeed ==
  ASSUME FeedOK, NEW t \in Thread, NEW rule \in Stored,
         NEW from, NEW to \in {"calls", "callsMoved", "callsFailed"},
         Goes(t, from, to), Inserts(t, rule), finds' \in 0..MaxFinds,
         UNCHANGED <<quarantine, records, etwFails, queue>>
  PROVE  FeedOK'
<1>1. /\ doing' \in [Thread -> Doing] /\ doing'[t] = to
      /\ \A u \in Thread : u # t => doing'[u] = doing[u]
  BY GoesOn DEF Doing
<1>2. \A u \in Thread : doing[u] \notin DOMAIN CallOf
  BY EventFeedAssumption DEF Inserts, FeedOK, Thread, NoOne
<1>3. \A u \in Thread : doing'[u] \in DOMAIN CallOf => emit_mutex_' = u
  BY <1>1, <1>2 DEF Inserts
<1>4. inserted' \in Nat /\ detections' \in Seq([rule: Stored, n: 1..inserted'])
  BY DetectionAdded DEF Inserts
<1> QED
  BY <1>1, <1>3, <1>4 DEF FeedOK, Inserts

LEMMA CallsFeed ==
  ASSUME FeedOK, NEW t \in Thread, NEW rule \in Stored,
         NEW from \in DOMAIN CallOf, NEW to \in {"looking", "moving"},
         Goes(t, from, to), CallsBack(rule), UNCHANGED <<tableVars, etwFails, finds>>
  PROVE  FeedOK'
<1>1. /\ doing' \in [Thread -> Doing] /\ doing'[t] = to /\ doing[t] \in DOMAIN CallOf
      /\ \A u \in Thread : u # t => doing'[u] = doing[u]
  BY GoesOn DEF Doing
<1>2. \A u \in Thread : doing[u] \in DOMAIN CallOf => u = t
  BY <1>1 DEF FeedOK
<1>3. \A u \in Thread : doing'[u] \notin DOMAIN CallOf
  BY <1>1, <1>2 DEF CallOf
<1>4. queue' \in Seq(Call)
  BY CallsAre, AppendProperties DEF CallsBack, FeedOK
<1> QED
  BY <1>1, <1>3, <1>4 DEF FeedOK, CallsBack, tableVars

LEMMA EngineFeed ==
  ASSUME FeedOK, NEW t \in Thread,
         \/ Finds(t) \/ (\E isFile : Reports(t, isFile)) \/ Quarantines(t) \/ EtwReports
  PROVE  FeedOK'
<1>1. CASE Finds(t)
  <2>1. finds' \in 0..MaxFinds
    BY <1>1, EventFeedAssumption DEF Finds, FeedOK
  <2> QED
    BY <1>1, <2>1, InsertsFeed DEF Finds, Stored
<1>2. ASSUME NEW isFile, Reports(t, isFile) PROVE FeedOK'
  <2>1. \E to \in {"looking", "moving"} : Goes(t, "calls", to)
    BY <1>2 DEF Reports
  <2>2. "calls" \in DOMAIN CallOf /\ "malware" \in Stored
    BY DEF CallOf, Stored
  <2> QED
    BY <1>2, <2>1, <2>2, CallsFeed DEF Reports
<1>3. CASE Moves(t)
  <2>1. \E to \in {"moved", "failed"} : Goes(t, "moving", to)
    BY <1>3 DEF Moves
  <2>2. PICK to \in {"moved", "failed"} : Goes(t, "moving", to)
    BY <2>1
  <2>3. /\ doing' \in [Thread -> Doing] /\ doing'[t] = to
        /\ \A u \in Thread : u # t => doing'[u] = doing[u]
    BY <2>2, GoesOn DEF Doing
  <2>4. \A u \in Thread : doing'[u] \in DOMAIN CallOf => emit_mutex_ = u
    BY <2>3 DEF FeedOK, CallOf
  <2>5. records' \in Nat /\ quarantine' \subseteq 1..records'
    <3>1. CASE UNCHANGED <<records, quarantine>>
      BY <3>1 DEF FeedOK
    <3>2. CASE records' = records + 1 /\ quarantine' = quarantine \cup {records + 1}
      <4>1. records \in Nat /\ \A id \in quarantine : id \in 1..records
        BY DEF FeedOK
      <4> QED
        BY <3>2, <4>1
    <3> QED
      BY <1>3, <3>1, <3>2 DEF Moves
  <2> QED
    BY <1>3, <2>3, <2>4, <2>5 DEF Moves, FeedOK
<1>4. CASE InsertsStatus(t)
  <2>1. "SYS.QUARANTINED" \in Stored /\ "SYS.QUARANTINE_FAILED" \in Stored
    BY DEF Stored
  <2>2. finds' \in 0..MaxFinds
    BY <1>4 DEF InsertsStatus, FeedOK
  <2> QED
    BY <1>4, <2>1, <2>2, InsertsFeed DEF InsertsStatus
<1>5. CASE ReportsStatus(t)
  <2>1. /\ "SYS.QUARANTINED" \in Stored /\ "SYS.QUARANTINE_FAILED" \in Stored
        /\ "callsMoved" \in DOMAIN CallOf /\ "callsFailed" \in DOMAIN CallOf
    BY DEF Stored, CallOf
  <2> QED
    BY <1>5, <2>1, CallsFeed DEF ReportsStatus
<1>6. CASE EtwReports
  <2>1. queue' \in Seq(Call)
    BY <1>6, CallsAre, AppendProperties DEF EtwReports, FeedOK, StatusRule
  <2> QED
    BY <1>6, <2>1 DEF EtwReports, FeedOK, tableVars
<1> QED
  BY <1>1, <1>2, <1>3, <1>4, <1>5, <1>6 DEF Quarantines

\* What a scan posts when it ends: a summary, unless it is of the registry, and the end.
LEMMA PostedCalls ==
  ASSUME FeedOK, NEW s \in Scan, ScanEnds(s), phase = "open"
  PROVE  \E posted \in Seq({[call |-> "summary"], [call |-> "finished"]}) :
           queue' = queue \o posted
<1> DEFINE S == {[call |-> "summary"], [call |-> "finished"]}
           summary == IF scan[s].kind = "registry" THEN <<>> ELSE <<[call |-> "summary"]>>
           end == <<[call |-> "finished"]>>
<1>1. summary \in Seq(S) /\ end \in Seq(S)
  <2>1. <<>> \in Seq(S) /\ <<[call |-> "summary"]>> \in Seq(S) /\ end \in Seq(S)
    OBVIOUS
  <2> QED
    BY <2>1
<1>2. summary \in Seq(Call) /\ end \in Seq(Call) /\ queue \in Seq(Call)
  BY <1>1, CallsAre, SeqMonotonic DEF FeedOK
<1>3. queue' = (queue \o summary) \o end
  BY DEF ScanEnds
<1>4. queue' = queue \o (summary \o end) /\ summary \o end \in Seq(S)
  <2> HIDE DEF summary, end, S
  <2> QED
    BY <1>1, <1>2, <1>3, ConcatAssociative, ConcatProperties
<1> QED
  BY <1>4

LEMMA FeedKept ==
  ASSUME TypesOK, [Next]_vars
  PROVE  FeedOK'
<1> USE DEF TypesOK
<1>1. CASE UNCHANGED feedVars
  BY <1>1 DEF feedVars, tableVars, FeedOK
<1>2. CASE Engine
  <2>1. "realtime" \in Thread /\ \A s \in Scan : s \in Thread
    BY DEF Thread
  <2>2. ASSUME NEW s \in Scan, Reports(s, scan[s].kind \in ReadsFiles) \/ Quarantines(s)
        PROVE  FeedOK'
    BY <2>1, <2>2, EngineFeed
  <2>3. CASE \/ Finds("realtime") \/ Reports("realtime", TRUE) \/ Quarantines("realtime")
             \/ EtwReports
    BY <2>1, <2>3, EngineFeed
  <2> QED
    BY <1>2, <2>2, <2>3 DEF Engine
<1>3. CASE ExecutesCall
  <2>1. queue' \in Seq(Call)
    BY <1>3, HeadTailProperties DEF ExecutesCall, FeedOK
  <2> QED
    BY <1>3, <2>1 DEF ExecutesCall, FeedOK, tableVars
<1>4. CASE OnClearHistory
  <2>1. detections' \in Seq([rule: Stored, n: 1..inserted'])
    BY <1>4 DEF OnClearHistory, ClearDetections
  <2> QED
    BY <1>4, <2>1 DEF OnClearHistory, FeedOK
<1>5. CASE OnRestoreQuarantine \/ AnswersDelete
  <2>1. quarantine' \subseteq quarantine
    BY <1>5 DEF OnRestoreQuarantine, AnswersDelete, Concludes
  <2>2. UNCHANGED detections
    BY <1>5 DEF OnRestoreQuarantine, AnswersDelete, Concludes
  <2> QED
    BY <1>5, <2>1, <2>2 DEF OnRestoreQuarantine, AnswersDelete, FeedOK
<1>6. ASSUME NEW s \in Scan, ScanFinds(s) PROVE FeedOK'
  BY <1>6, EngineFeed DEF ScanFinds, Thread
<1>7. ASSUME NEW s \in Scan, ScanEnds(s) PROVE FeedOK'
  <2>1. queue' \in Seq(Call)
    <3>1. CASE phase = "open"
      <4>1. PICK posted \in Seq({[call |-> "summary"], [call |-> "finished"]}) :
              queue' = queue \o posted
        BY <1>7, <3>1, PostedCalls
      <4>2. posted \in Seq(Call)
        BY CallsAre, SeqMonotonic
      <4> QED
        BY <4>1, <4>2, ConcatProperties DEF FeedOK
    <3>2. CASE phase # "open"
      BY <1>7, <3>2 DEF ScanEnds, FeedOK
    <3> QED
      BY <3>1, <3>2
  <2> QED
    BY <1>7, <2>1 DEF ScanEnds, FeedOK, tableVars
<1>8. CASE WindowDestroyed
  <2>1. queue' \in Seq(Call)
    BY <1>8 DEF WindowDestroyed
  <2> QED
    BY <1>8, <2>1 DEF WindowDestroyed, FeedOK, tableVars
<1>9. CASE Console
  <2>1. CASE ConsoleScans
    <3>1. inserted' \in Nat /\ detections' \in Seq([rule: Stored, n: 1..inserted'])
      BY <2>1, DetectionAdded DEF ConsoleScans, Stored
    <3>2. finds' \in 0..MaxFinds
      BY <2>1, EventFeedAssumption DEF ConsoleScans, FeedOK
    <3> QED
      BY <1>9, <2>1, <3>1, <3>2 DEF Console, ConsoleScans, FeedOK
  <2>2. CASE ConsoleRemoves
    <3>1. quarantine' \subseteq quarantine
      BY <2>2 DEF ConsoleRemoves
    <3> QED
      BY <1>9, <2>2, <3>1 DEF Console, ConsoleRemoves, FeedOK
  <2>3. CASE ConsoleClears
    <3>1. detections' \in Seq([rule: Stored, n: 1..inserted'])
      BY <2>3 DEF ConsoleClears, ClearDetections
    <3> QED
      BY <1>9, <2>3, <3>1 DEF Console, ConsoleClears, FeedOK
  <2> QED
    BY <1>9, <2>1, <2>2, <2>3 DEF Console
<1> QED
  BY <1>1, <1>2, <1>3, <1>4, <1>5, <1>6, <1>7, <1>8, <1>9, FeedFrame

\* Ids of records are never given again.
LEMMA RecordsGrow ==
  ASSUME TypesOK, [Next]_vars
  PROVE  1..records \subseteq 1..records'
<1>1. records' = records \/ records' = records + 1
  <2>1. CASE Engine
    BY <2>1 DEF Engine, Finds, Reports, Quarantines, Moves, InsertsStatus, ReportsStatus,
                EtwReports, tableVars
  <2>2. CASE ExecutesCall \/ OnClearHistory \/ OnRestoreQuarantine \/ AnswersDelete
    BY <2>2 DEF ExecutesCall, OnClearHistory, OnRestoreQuarantine, AnswersDelete, tableVars
  <2>3. ASSUME NEW s \in Scan, ScanFinds(s) \/ ScanEnds(s) PROVE records' = records
    BY <2>3 DEF ScanFinds, ScanEnds, Finds, tableVars
  <2>4. CASE WindowDestroyed \/ Console
    BY <2>4 DEF WindowDestroyed, Console, ConsoleScans, ConsoleRemoves, ConsoleClears, tableVars
  <2> QED
    BY <2>1, <2>2, <2>3, <2>4, FeedFrame DEF feedVars, tableVars
<1> QED
  BY <1>1 DEF TypesOK, FeedOK

LEMMA HomeScore ==
  ASSUME FeedOK, NEW etw, NEW driver
  PROVE  Home(etw, driver).score \in 5..100
<1>1. IsFiniteSet(1..records)
  BY FS_Interval DEF FeedOK
<1>2. Cardinality(quarantine) \in Nat
  BY <1>1, FS_Subset, FS_CardinalityType DEF FeedOK
<1> QED
  BY <1>2, ScoreBounds DEF Home, GetStats

LEMMA HomeScoreAfter ==
  ASSUME FeedOK', NEW etw, NEW driver
  PROVE  Home(etw, driver)'.score \in 5..100
<1>1. IsFiniteSet(1..records')
  BY FS_Interval DEF FeedOK
<1>2. Cardinality(quarantine') \in Nat
  BY <1>1, FS_Subset, FS_CardinalityType DEF FeedOK
<1> QED
  BY <1>2, ScoreBounds DEF Home, GetStats

LEMMA TableListed ==
  ASSUME FeedOK
  PROVE  /\ DOMAIN ListQuarantine(quarantine) \subseteq 1..records
         /\ Range(ListQuarantine(quarantine)) \subseteq 1..records
  BY Listed DEF FeedOK

LEMMA RowAdded ==
  ASSUME TypesOK, NEW rule \in Stored \cup StatusRule, AppendDetectionRow(rule), UNCHANGED page
  PROVE  /\ rows' \in [Stored \cup StatusRule -> Nat] /\ detection_unread_' \in Nat
         /\ table' = table \/ table' = ListQuarantine(quarantine)
         /\ home'.score \in 5..100
         /\ etw_ok_' \in BOOLEAN /\ driver_ok_' \in BOOLEAN
<1>1. rows' \in [Stored \cup StatusRule -> Nat] /\ detection_unread_' \in Nat
  BY DEF AppendDetectionRow, TypesOK, PagesOK
<1>2. table' = table \/ table' = ListQuarantine(quarantine)
  BY DEF AppendDetectionRow, ReloadQuarantineTable
<1>3. home'.score \in 5..100
  <2>1. home' = home \/ \E etw, driver : home' = Home(etw, driver)
    BY DEF AppendDetectionRow
  <2> QED
    BY <2>1, HomeScore DEF TypesOK, PagesOK
<1>4. etw_ok_' \in BOOLEAN /\ driver_ok_' \in BOOLEAN
  BY DEF AppendDetectionRow, TypesOK, PagesOK
<1> QED
  BY <1>1, <1>2, <1>3, <1>4

\* The first queued call is one of three.
LEMMA FirstCall ==
  ASSUME FeedOK, queue # <<>>
  PROVE  /\ \/ \E rule \in Stored \cup StatusRule : Head(queue) = Row(rule)
            \/ Head(queue) = [call |-> "summary"]
            \/ Head(queue) = [call |-> "finished"]
         /\ Tail(queue) \in Seq(Call) /\ Head(queue) \in Call
  BY HeadTailProperties DEF FeedOK, Call

LEMMA PagesKept ==
  ASSUME TypesOK, [Next]_vars
  PROVE  PagesOK'
<1>0. /\ FeedOK /\ FeedOK' /\ 1..records \subseteq 1..records'
      /\ PagesOK
  BY FeedKept, RecordsGrow DEF TypesOK
<1>1. /\ DOMAIN ListQuarantine(quarantine) \subseteq 1..records'
      /\ Range(ListQuarantine(quarantine)) \subseteq 1..records'
      /\ DOMAIN table \subseteq 1..records' /\ Range(table) \subseteq 1..records'
  BY <1>0, TableListed DEF PagesOK
<1>2. /\ DOMAIN ListQuarantine(quarantine') \subseteq 1..records'
      /\ Range(ListQuarantine(quarantine')) \subseteq 1..records'
  BY <1>0, Listed DEF FeedOK
<1>3. CASE UNCHANGED pageVars
  BY <1>0, <1>1, <1>3 DEF pageVars, PagesOK
<1>4. CASE ExecutesCall
  <2>1. ASSUME NEW rule \in Stored \cup StatusRule, Head(queue) = Row(rule) PROVE PagesOK'
    <3>1. AppendDetectionRow(rule) /\ UNCHANGED page
      BY <1>4, <2>1 DEF ExecutesCall, Row
    <3> QED
      BY <1>0, <1>1, <3>1, RowAdded DEF PagesOK
  <2>2. CASE Head(queue) = [call |-> "summary"]
    <3>1. UNCHANGED pageVars
      BY <1>4, <2>2 DEF ExecutesCall
    <3> QED
      BY <1>3, <3>1
  <2>3. CASE Head(queue) = [call |-> "finished"]
    <3>1. ScanFinished /\ UNCHANGED <<page, rows, detection_unread_, table, etw_ok_, driver_ok_>>
      BY <1>4, <2>3 DEF ExecutesCall
    <3>2. home'.score \in 5..100
      BY <1>0, <3>1, HomeScore DEF ScanFinished, HomeNow
    <3> QED
      BY <1>0, <1>1, <3>1, <3>2 DEF PagesOK
  <2> QED
    BY <1>0, <1>4, <2>1, <2>2, <2>3, FirstCall DEF ExecutesCall
<1>5. ASSUME NEW i \in 0..3, GoToPage(i) PROVE PagesOK'
  <2>1. home'.score \in 5..100
    BY <1>0, <1>5, HomeScore DEF GoToPage, HomeNow, PagesOK
  <2>2. table' = table \/ table' = ListQuarantine(quarantine)
    BY <1>5 DEF GoToPage, ReloadQuarantineTable
  <2> QED
    BY <1>0, <1>1, <1>5, <2>1, <2>2 DEF GoToPage, PagesOK
<1>6. CASE OnClearHistory
  <2>1. rows' \in [Stored \cup StatusRule -> Nat]
    BY <1>6 DEF OnClearHistory, NoRows
  <2>2. home'.score \in 5..100
    BY <1>0, <1>6, HomeScoreAfter DEF OnClearHistory, HomeNow
  <2> QED
    BY <1>0, <1>1, <1>6, <2>1, <2>2 DEF OnClearHistory, PagesOK
<1>7. CASE OnRestoreQuarantine \/ AnswersDelete
  <2>1. /\ UNCHANGED <<page, rows, detection_unread_, etw_ok_, driver_ok_>>
        /\ \/ UNCHANGED <<table, home>>
           \/ table' = ListQuarantine(quarantine') /\ home' = HomeNow'
    BY <1>7 DEF OnRestoreQuarantine, AnswersDelete, Concludes, ReloadQuarantineTable
  <2>2. home'.score \in 5..100
    BY <1>0, <2>1, HomeScoreAfter DEF HomeNow, PagesOK
  <2> QED
    BY <1>0, <1>1, <1>2, <2>1, <2>2 DEF PagesOK
<1>8. CASE ClosesPartial
  <2>1. home'.score \in 5..100
    BY <1>0, <1>8, HomeScore DEF ClosesPartial, HomeNow
  <2> QED
    BY <1>0, <1>1, <1>8, <2>1 DEF ClosesPartial, PagesOK, ReloadQuarantineTable
<1>9. ASSUME NEW s \in Scan, NEW kind \in Kind, OnScan(s, kind) PROVE PagesOK'
  <2>1. page' = 1 /\ detection_unread_' \in Nat
    BY <1>0, <1>9 DEF OnScan, PagesOK
  <2>2. UNCHANGED <<rows, table, home, etw_ok_, driver_ok_>>
    BY <1>9 DEF OnScan
  <2> QED
    BY <1>0, <1>1, <2>1, <2>2 DEF PagesOK
<1> QED
  BY <1>3, <1>4, <1>5, <1>6, <1>7, <1>8, <1>9, PageFrame

LEMMA DialogKept ==
  ASSUME TypesOK, [Next]_vars
  PROVE  DialogOK'
<1>0. DialogOK /\ PagesOK /\ 1..records \subseteq 1..records' /\ quarantine \subseteq 1..records
  BY RecordsGrow DEF TypesOK, FeedOK
<1>1. dialog[1] \in {"none", "partial", "delete"} /\ dialog[2] \in SUBSET (1..records)
  BY <1>0 DEF DialogOK
<1>2. ASSUME UNCHANGED <<page, dialog>> \/ (UNCHANGED dialog /\ page' = 2)
      PROVE  /\ dialog' \in {"none", "partial", "delete"} \X SUBSET (1..records')
             /\ dialog'[1] # "none" => page' = 2
  BY <1>0, <1>2 DEF DialogOK
<1>3. CASE UNCHANGED deleteVars
  <2>1. page' = page \/ dialog[1] = "none"
    <3>1. ASSUME NEW i \in 0..3, GoToPage(i) PROVE dialog[1] = "none"
      BY <3>1 DEF GoToPage, UserMay
    <3>2. ASSUME NEW s \in Scan, NEW kind \in Kind, OnScan(s, kind) PROVE dialog[1] = "none"
      BY <3>2 DEF OnScan, UserMay
    <3>3. CASE \/ ExecutesCall \/ OnClearHistory \/ OnRestoreQuarantine \/ AnswersDelete
               \/ ClosesPartial
      BY <3>3 DEF ExecutesCall, OnClearHistory, OnRestoreQuarantine, AnswersDelete, ClosesPartial,
                  pageVars
    <3> QED
      BY <3>1, <3>2, <3>3, PageFrame DEF pageVars
  <2> QED
    BY <1>0, <1>3, <2>1 DEF deleteVars, DialogOK
<1>4. CASE ExecutesCall
  <2>1. UNCHANGED <<dialog, asked, deleted, page>> /\ reloaded' \in BOOLEAN
    BY <1>0, <1>4 DEF ExecutesCall, AppendDetectionRow, deleteVars, pageVars, DialogOK
  <2> QED
    BY <1>0, <2>1 DEF DialogOK
<1>5. CASE OnRestoreQuarantine
  <2>1. /\ page = 2 /\ UNCHANGED <<page, asked, deleted, reloaded>>
        /\ dialog' = <<"none", {}>> \/ dialog' = <<"partial", {}>>
    BY <1>5 DEF OnRestoreQuarantine, Concludes
  <2> QED
    BY <1>0, <2>1 DEF DialogOK
<1>6. CASE OnDeleteQuarantine
  <2>1. PICK chosen \in SUBSET (DOMAIN table) :
          dialog' = <<"delete", chosen>> /\ asked' = {table[r] : r \in chosen}
    BY <1>6 DEF OnDeleteQuarantine
  <2>2. asked' \subseteq Range(table) /\ chosen \subseteq 1..records
    BY <1>0, <2>1 DEF Range, PagesOK
  <2>3. page = 2 /\ page' = 2 /\ UNCHANGED <<deleted, reloaded>>
    BY <1>6 DEF OnDeleteQuarantine, pageVars
  <2> QED
    BY <1>0, <2>1, <2>2, <2>3 DEF DialogOK, PagesOK
<1>7. CASE AnswersDelete
  <2>1. /\ dialog[1] = "delete" /\ UNCHANGED <<page, reloaded>> /\ asked' = {}
        /\ dialog' = <<"none", {}>> \/ dialog' = <<"partial", {}>>
        /\ deleted' \subseteq deleted \cup quarantine
    BY <1>7 DEF AnswersDelete, Concludes
  <2> QED
    BY <1>0, <2>1 DEF DialogOK
<1>8. CASE ClosesPartial
  BY <1>0, <1>8 DEF ClosesPartial, DialogOK
<1> QED
  BY <1>3, <1>4, <1>5, <1>6, <1>7, <1>8, DialogFrame

LEMMA ScansKept ==
  ASSUME TypesOK, [Next]_vars
  PROVE  ScansOK'
<1>0. ScansOK
  BY DEF TypesOK
<1>1. CASE UNCHANGED scanVars
  BY <1>0, <1>1 DEF scanVars, ScansOK
<1>2. CASE ExecutesCall
  BY <1>0, <1>2 DEF ExecutesCall, ScanFinished, scanVars, ScansOK
<1>3. CASE OnClearHistory \/ Console
  <2>1. \/ UNCHANGED scan
        \/ scan' = [s \in Scan |-> [scan[s] EXCEPT !.cleared = @ \/ Running(s)]]
    BY <1>3 DEF OnClearHistory, Console, ConsoleScans, ConsoleRemoves, ConsoleClears
  <2>2. ASSUME NEW s \in Scan PROVE [scan[s] EXCEPT !.cleared = @ \/ Running(s)] \in ScanRecord
    <3>1. scan[s] \in ScanRecord
      BY <1>0 DEF ScansOK
    <3>2. (scan[s].cleared \/ Running(s)) \in BOOLEAN
      BY <3>1 DEF ScanRecord, Running
    <3> QED
      BY <3>1, <3>2 DEF ScanRecord
  <2>3. scan' \in [Scan -> ScanRecord]
    BY <1>0, <2>1, <2>2 DEF ScansOK
  <2> QED
    BY <1>0, <1>3, <2>3 DEF OnClearHistory, Console, ScansOK
<1>4. CASE OnCancelScan
  BY <1>0, <1>4 DEF OnCancelScan, ScansOK
<1>5. CASE ScansStep
  <2>1. PICK s \in Scan : ScanWorks(s) \/ ScanFinds(s) \/ ScanEnds(s)
    BY <1>5 DEF ScansStep
  <2>2. scan[s] \in ScanRecord
    BY <1>0 DEF ScansOK
  <2>3. scan' \in [Scan -> ScanRecord]
    <3>1. CASE ScanWorks(s)
      <4>1. [scan[s] EXCEPT !.st = "working"] \in ScanRecord
        BY <2>2 DEF ScanRecord
      <4> QED
        BY <1>0, <3>1, <4>1 DEF ScanWorks, ScansOK
    <3>2. CASE ScanFinds(s)
      <4>1. [scan[s] EXCEPT !.found = @ + 1] \in ScanRecord
        BY <2>2 DEF ScanRecord
      <4> QED
        BY <1>0, <3>2, <4>1 DEF ScanFinds, ScansOK
    <3>3. CASE ScanEnds(s)
      <4>1. PICK said \in {"nothing", "clean", "threats"} :
              scan' = [scan EXCEPT ![s].st = "ended", ![s].said = said]
        BY <3>3 DEF ScanEnds
      <4>2. [scan[s] EXCEPT !.st = "ended", !.said = said] \in ScanRecord
        BY <2>2 DEF ScanRecord
      <4> QED
        BY <1>0, <4>1, <4>2 DEF ScansOK
    <3> QED
      BY <2>1, <3>1, <3>2, <3>3
  <2>4. UNCHANGED <<buttons, cancel_button, status>> /\ scan_cancel' \in BOOLEAN
    BY <1>0, <2>1 DEF ScanWorks, ScanFinds, ScanEnds, ScansOK
  <2> QED
    BY <1>0, <2>3, <2>4 DEF ScansOK
<1>6. ASSUME NEW s \in Scan, NEW kind \in Kind, OnScan(s, kind) PROVE ScansOK'
  <2>1. HistorySize \in Nat
    BY SizeOfHistory DEF TypesOK, FeedOK
  <2>2. ASSUME NEW o \in Scan PROVE scan'[o] \in ScanRecord
    <3>1. scan[o] \in ScanRecord
      BY <1>0 DEF ScansOK
    <3>2. PICK b \in BOOLEAN : scan'[o] = IF o = s THEN [Idle EXCEPT !.st = "begun", !.kind = kind,
                                                   !.before = HistorySize, !.overlapped = b]
                               ELSE [scan[o] EXCEPT !.overlapped = b]
      <4> DEFINE others == {x \in Scan : Running(x)}
                 ends == \E m \in Range(queue) : m.call = "finished"
                 b1 == ends \/ others # {}
                 b2 == scan[o].overlapped \/ o \in others
      <4>1. b1 \in BOOLEAN /\ b2 \in BOOLEAN
        BY <3>1 DEF ScanRecord
      <4>2. scan'[o] = IF o = s THEN [Idle EXCEPT !.st = "begun", !.kind = kind,
                                          !.before = HistorySize, !.overlapped = b1]
                       ELSE [scan[o] EXCEPT !.overlapped = b2]
        BY <1>6 DEF OnScan
      <4> HIDE DEF b1, b2
      <4> QED
        BY <4>1, <4>2
    <3>3. CASE o = s
      <4>1. Idle \in ScanRecord
        BY DEF Idle, ScanRecord, Kind
      <4>2. [Idle EXCEPT !.st = "begun", !.kind = kind] \in ScanRecord
        BY <4>1 DEF ScanRecord
      <4>3. [Idle EXCEPT !.st = "begun", !.kind = kind, !.before = HistorySize,
                         !.overlapped = b] \in ScanRecord
        <5> DEFINE begun == [Idle EXCEPT !.st = "begun", !.kind = kind]
        <5>1. begun \in ScanRecord
          BY <4>2
        <5>2. [begun EXCEPT !.before = HistorySize, !.overlapped = b] \in ScanRecord
          <6> HIDE DEF begun
          <6> QED
            BY <2>1, <5>1 DEF ScanRecord
        <5> QED
          BY <5>2
      <4> QED
        BY <3>2, <3>3, <4>3
    <3>4. CASE o # s
      <4>1. [scan[o] EXCEPT !.overlapped = b] \in ScanRecord
        BY <3>1 DEF ScanRecord
      <4> QED
        BY <3>2, <3>4, <4>1
    <3> QED
      BY <3>3, <3>4
  <2>3. scan' \in [Scan -> ScanRecord]
    BY <1>6, <2>2 DEF OnScan
  <2> QED
    BY <1>0, <1>6, <2>3 DEF OnScan, ScansOK
<1> QED
  BY <1>1, <1>2, <1>3, <1>4, <1>5, <1>6, ScanFrame

LEMMA LookupsKept ==
  ASSUME TypesOK, [Next]_vars
  PROVE  LookupsOK'
<1>0. LookupsOK
  BY DEF TypesOK
<1>1. CASE UNCHANGED lookupVars
  BY <1>0, <1>1 DEF lookupVars, LookupsOK
<1>2. CASE Lookup
  BY <1>0, <1>2 DEF Lookup, CardLookup, RefreshCards, CardAnswered, CardShown, RowLookup,
         RowAnswered, RowShown, Investigate, Investigated, Terminates, lookupVars, LookupsOK
<1>3. CASE Quit \/ \E s \in Scan : ScanEnds(s)
  BY <1>0, <1>3 DEF Quit, ScanEnds, LookupsOK
<1> QED
  BY <1>1, <1>2, <1>3, LookupFrame

LEMMA LifeKept ==
  ASSUME TypesOK, [Next]_vars
  PROVE  LifeOK'
  BY PhaseFrame DEF TypesOK, LifeOK, Quit, WindowDestroyed, Terminates, Console, ConsoleScans,
     ConsoleRemoves, ConsoleClears

LEMMA TypesKept == TypesOK /\ [Next]_vars => TypesOK'
  BY FeedKept, PagesKept, DialogKept, ScansKept, LookupsKept, LifeKept DEF TypesOK

LEMMA TypesFirst == Init => TypesOK
<1> SUFFICES ASSUME Init PROVE TypesOK
  OBVIOUS
<1> DEFINE old == IF "full" \in uses THEN HistoryCap ELSE OldRows
<1>1. uses \subseteq Use /\ old \in Nat
  BY DashboardAssumption DEF Init
<1>2. \E drivers \in {DriverRule, {"SYS.MINIFILTER_CONNECT_FAILED"}}, etws \in {BOOLEAN, {FALSE}} :
        FeedInit(old, drivers, etws)
  BY DEF Init
<1>3. detections = [i \in 1..old |-> [rule |-> "malware", n |-> i]] /\ inserted = old
  BY <1>2 DEF FeedInit
<1>4. detections \in Seq([rule: Stored, n: 1..inserted])
  <2> HIDE DEF old
  <2>1. \A i \in 1..old : [rule |-> "malware", n |-> i] \in [rule: Stored, n: 1..old]
    BY DEF Stored
  <2>2. detections \in [1..old -> [rule: Stored, n: 1..inserted]]
    BY <1>3, <2>1
  <2> DEFINE D == [rule: Stored, n: 1..inserted]
  <2>3. detections \in [1..old -> D] /\ old \in Nat
    BY <1>1, <2>2
  <2> HIDE DEF D
  <2>4. detections \in Seq(D)
    BY <2>3, SeqDef
  <2> QED
    BY <2>4 DEF D
<1>5. queue \in Seq(Call)
  <2>1. PICK driver \in DriverRule : queue = <<Row("SYS.REALTIME_STARTED"), Row(driver)>>
    BY <1>2 DEF FeedInit, DriverRule
  <2>2. "SYS.REALTIME_STARTED" \in StatusRule /\ driver \in StatusRule
    BY DEF StatusRule
  <2>3. Row("SYS.REALTIME_STARTED") \in Call /\ Row(driver) \in Call
    BY <2>2, CallsAre
  <2> HIDE DEF Call, Row
  <2> QED
    BY <2>1, <2>3
<1>6. \A t \in Thread : doing[t] \notin DOMAIN CallOf
  BY <1>2 DEF FeedInit, CallOf
<1>7. FeedOK
  <2>1. /\ quarantine = 1..Held /\ records = Held /\ emit_mutex_ = NoOne /\ finds = 0
        /\ doing = [t \in Thread |-> "looking"] /\ etwFails \in BOOLEAN
    BY <1>2 DEF FeedInit
  <2>2. inserted \in Nat
    BY <1>1, <1>3
  <2> QED
    BY <1>4, <1>5, <1>6, <2>1, <2>2, EventFeedAssumption DEF FeedOK, Doing
<1>8. rows \in [Stored \cup StatusRule -> Nat] /\ detection_unread_ \in Nat
  BY <1>1 DEF Init, LoadHistory, NoRows
<1>9. home.score \in 5..100
  BY <1>7, HomeScore DEF Init
<1>10. DOMAIN table \subseteq 1..records /\ Range(table) \subseteq 1..records
  <2>1. table = <<>>
    BY DEF Init
  <2>2. DOMAIN table = {}
    BY <2>1
  <2> QED
    BY <2>2 DEF Range
<1>11. PagesOK
  <2>1. page = 0 /\ etw_ok_ \in BOOLEAN /\ driver_ok_ \in BOOLEAN
    BY DEF Init
  <2> QED
    BY <1>8, <1>9, <1>10, <2>1 DEF PagesOK
<1>12. DialogOK
  BY DEF Init, DialogOK
<1>13. ScansOK
  <2>1. Idle \in ScanRecord
    BY DEF Idle, ScanRecord, Kind
  <2> QED
    BY <2>1 DEF Init, ScansOK
<1>14. LookupsOK /\ LifeOK
  BY <1>1 DEF Init, LookupsOK, LifeOK
<1> QED
  BY <1>7, <1>11, <1>12, <1>13, <1>14 DEF TypesOK

-----------------------------------------------------------------------------
(* The badge                                                               *)

\* While the history is in front nothing is unread.
BadgeCleared == page = 1 => detection_unread_ = 0

LEMMA BadgeFirst == Init => BadgeCounted /\ BadgeCleared
<1> SUFFICES ASSUME Init PROVE BadgeCounted /\ BadgeCleared
  OBVIOUS
<1>1. rows["malware"] = detection_unread_ /\ detection_unread_ \in Nat
  BY DashboardAssumption DEF Init, LoadHistory, NoRows, Stored
<1>2. page = 0
  BY DEF Init
<1> QED
  BY <1>1, <1>2 DEF BadgeCounted, BadgeCleared

LEMMA BadgeKept ==
  ASSUME TypesOK, [Next]_vars, BadgeCounted, BadgeCleared
  PROVE  BadgeCounted' /\ BadgeCleared'
<1> DEFINE Rules == Stored \cup StatusRule
<1>0. /\ "malware" \in Rules
      /\ rows \in [Rules -> Nat] /\ detection_unread_ \in Nat
      /\ detection_unread_ <= rows["malware"]
      /\ page = 1 => detection_unread_ = 0
  BY DEF TypesOK, PagesOK, Stored, BadgeCounted, BadgeCleared
<1> SUFFICES /\ detection_unread_' <= rows'["malware"]
             /\ page' = 1 => detection_unread_' = 0
  BY DEF BadgeCounted, BadgeCleared
<1>1. CASE UNCHANGED <<page, rows, detection_unread_>>
  BY <1>0, <1>1
<1>2. ASSUME NEW rule \in Rules, AppendDetectionRow(rule), UNCHANGED page
      PROVE  /\ detection_unread_' <= rows'["malware"]
             /\ page' = 1 => detection_unread_' = 0
  <2>1. rows' = [rows EXCEPT ![rule] = @ + 1]
    BY <1>2 DEF AppendDetectionRow
  <2>2. rows'["malware"] = IF rule = "malware" THEN rows["malware"] + 1 ELSE rows["malware"]
    BY <1>0, <2>1
  <2>3. detection_unread_' = IF rule = "malware" /\ page # 1
                             THEN detection_unread_ + 1 ELSE detection_unread_
    BY <1>2 DEF AppendDetectionRow
  <2>4. rows["malware"] \in Nat
    BY <1>0
  <2> QED
    BY <1>0, <1>2, <2>2, <2>3, <2>4
<1>3. CASE ExecutesCall
  <2>1. ASSUME NEW rule \in Rules, Head(queue) = Row(rule)
        PROVE  AppendDetectionRow(rule) /\ UNCHANGED page
    BY <1>3, <2>1 DEF ExecutesCall, Row
  <2>2. CASE Head(queue) = [call |-> "summary"] \/ Head(queue) = [call |-> "finished"]
    BY <1>1, <1>3, <2>2 DEF ExecutesCall, pageVars
  <2>3. FeedOK /\ queue # <<>>
    BY <1>3 DEF ExecutesCall, TypesOK
  <2> QED
    BY <1>2, <2>1, <2>2, <2>3, FirstCall
<1>4. ASSUME NEW i \in 0..3, GoToPage(i)
      PROVE  /\ detection_unread_' <= rows'["malware"]
             /\ page' = 1 => detection_unread_' = 0
  <2>1. rows' = rows /\ page' = i /\ detection_unread_' = IF i = 1 THEN 0 ELSE detection_unread_
    BY <1>4 DEF GoToPage
  <2>2. rows["malware"] \in Nat
    BY <1>0
  <2> QED
    BY <1>0, <2>1, <2>2
<1>5. CASE OnClearHistory
  <2>1. rows' = NoRows /\ page = 1 /\ UNCHANGED <<page, detection_unread_>>
    BY <1>5 DEF OnClearHistory
  <2>2. rows'["malware"] = 0
    BY <1>0, <2>1 DEF NoRows
  <2> QED
    BY <1>0, <2>1, <2>2
<1>6. CASE OnRestoreQuarantine \/ AnswersDelete \/ ClosesPartial
  BY <1>1, <1>6 DEF OnRestoreQuarantine, AnswersDelete, ClosesPartial
<1>7. ASSUME NEW s \in Scan, NEW kind \in Kind, OnScan(s, kind)
      PROVE  /\ detection_unread_' <= rows'["malware"]
             /\ page' = 1 => detection_unread_' = 0
  <2>1. /\ rows' = rows /\ (page = 0 \/ page = 1)
        /\ detection_unread_' = IF page = 0 THEN 0 ELSE detection_unread_
    BY <1>7 DEF OnScan
  <2>2. rows["malware"] \in Nat
    BY <1>0
  <2> QED
    BY <1>0, <2>1, <2>2
<1>8. CASE UNCHANGED pageVars
  BY <1>1, <1>8 DEF pageVars
<1> QED
  BY <1>3, <1>4, <1>5, <1>6, <1>7, <1>8, PageFrame

-----------------------------------------------------------------------------
(* What is on its way                                                      *)

LEMMA CallQueued ==
  ASSUME FeedOK, NEW rule \in Stored \cup StatusRule, queue' = Append(queue, Row(rule))
  PROVE  QueuedRules' = QueuedRules \cup {rule}
<1>1. Range(queue') = Range(queue) \cup {Row(rule)}
  BY CallsAre, RangeAppend DEF FeedOK
<1> QED
  BY <1>1 DEF QueuedRules, Row

LEMMA CallsPosted ==
  ASSUME FeedOK, NEW s \in Scan, ScanEnds(s)
  PROVE  QueuedRules' = QueuedRules
<1> DEFINE S == {[call |-> "summary"], [call |-> "finished"]}
<1>1. CASE phase = "open"
  <2>1. PICK posted \in Seq(S) : queue' = queue \o posted
    BY <1>1, PostedCalls
  <2>2. posted \in Seq(Call) /\ queue \in Seq(Call)
    BY CallsAre, SeqMonotonic DEF FeedOK
  <2>3. Range(queue') = Range(queue) \cup Range(posted)
    BY <2>1, <2>2, RangeConcatenation
  <2>4. Range(posted) \subseteq S
    BY RangeOfSeq
  <2> QED
    BY <2>3, <2>4 DEF QueuedRules
<1>2. CASE phase # "open"
  BY <1>2 DEF ScanEnds, QueuedRules
<1> QED
  BY <1>1, <1>2

LEMMA CallTaken ==
  ASSUME FeedOK, queue # <<>>, queue' = Tail(queue)
  PROVE  /\ QueuedRules' \subseteq QueuedRules
         /\ \A rule \in QueuedRules : rule \in QueuedRules' \/ Head(queue) = Row(rule)
<1>1. Range(queue) = Range(queue') \cup {Head(queue)}
  BY RangeTail DEF FeedOK
<1>2. ASSUME NEW m \in Range(queue), m.call = "AppendDetectionRow"
      PROVE  \E rule : m = Row(rule) /\ m.rule = rule
  BY <1>2, RangeOfSeq DEF FeedOK, Call, Row
<1>3. ASSUME NEW rule \in QueuedRules PROVE rule \in QueuedRules' \/ Head(queue) = Row(rule)
  <2>1. PICK m \in Range(queue) : m.call = "AppendDetectionRow" /\ m.rule = rule
    BY <1>3 DEF QueuedRules
  <2> QED
    BY <1>1, <1>2, <2>1 DEF QueuedRules
<1> QED
  BY <1>1, <1>3 DEF QueuedRules

\* What the engine's threads and the scans do to the tables is on its way until
\* the UI thread has heard of it.
LEMMA ThreadTells ==
  ASSUME FeedOK, NEW t \in Thread,
         \/ Finds(t) \/ (\E isFile : Reports(t, isFile)) \/ Quarantines(t) \/ EtwReports
  PROVE  /\ QuarantineUntold => QuarantineUntold'
         /\ AnythingUntold => AnythingUntold'
         /\ UNCHANGED quarantine \/ QuarantineUntold'
         /\ UNCHANGED <<detections, quarantine>> \/ AnythingUntold'
<1> DEFINE Goal == /\ QuarantineUntold => QuarantineUntold'
                   /\ AnythingUntold => AnythingUntold'
                   /\ UNCHANGED quarantine \/ QuarantineUntold'
                   /\ UNCHANGED <<detections, quarantine>> \/ AnythingUntold'
<1>0. \A r \in {"malware", "SYS.QUARANTINED", "SYS.QUARANTINE_FAILED", "SYS.ETW_START_FAILED"} :
        r \in Stored \cup StatusRule
  BY DEF Stored, StatusRule
<1>1. ASSUME NEW from \in Doing, NEW to \in Doing, Goes(t, from, to)
      PROVE  /\ doing[t] = from /\ doing'[t] = to /\ \A u \in Thread : u # t => doing'[u] = doing[u]
  BY <1>1, GoesOn
<1>2. CASE Finds(t)
  <2>1. Goes(t, "looking", "calls") /\ UNCHANGED <<quarantine, queue>>
    BY <1>2 DEF Finds
  <2>2. /\ doing[t] = "looking" /\ doing'[t] = "calls"
        /\ \A u \in Thread : u # t => doing'[u] = doing[u]
    BY <1>1, <2>1 DEF Doing
  <2>3. QueuedRules' = QueuedRules
    BY <2>1 DEF QueuedRules
  <2> QED
    BY <2>1, <2>2, <2>3 DEF QuarantineUntold, AnythingUntold
<1>3. ASSUME NEW isFile, Reports(t, isFile) PROVE Goal
  <2>1. PICK to \in {"looking", "moving"} : Goes(t, "calls", to)
    BY <1>3 DEF Reports
  <2>2. /\ doing[t] = "calls" /\ \A u \in Thread : u # t => doing'[u] = doing[u]
    BY <1>1, <2>1 DEF Doing
  <2>3. QueuedRules' = QueuedRules \cup {"malware"}
    BY <1>0, <1>3, CallQueued DEF Reports, CallsBack
  <2>4. UNCHANGED <<detections, quarantine>>
    BY <1>3 DEF Reports, tableVars
  <2> QED
    BY <2>2, <2>3, <2>4 DEF QuarantineUntold, AnythingUntold
<1>4. CASE Moves(t)
  <2>1. /\ \/ Goes(t, "moving", "moved")
           \/ Goes(t, "moving", "failed") /\ UNCHANGED quarantine
        /\ UNCHANGED <<detections, queue>>
    BY <1>4 DEF Moves
  <2>2. /\ doing[t] = "moving" /\ \A u \in Thread : u # t => doing'[u] = doing[u]
        /\ doing'[t] = "moved" \/ UNCHANGED quarantine
    BY <1>1, <2>1 DEF Doing
  <2>3. QueuedRules' = QueuedRules
    BY <2>1 DEF QueuedRules
  <2> QED
    BY <2>1, <2>2, <2>3 DEF QuarantineUntold, AnythingUntold
<1>5. CASE InsertsStatus(t)
  <2>1. /\ \/ Goes(t, "moved", "callsMoved") \/ Goes(t, "failed", "callsFailed")
        /\ UNCHANGED <<quarantine, queue>>
    BY <1>5 DEF InsertsStatus
  <2>2. /\ \/ doing[t] = "moved" /\ doing'[t] = "callsMoved"
           \/ doing[t] = "failed" /\ doing'[t] = "callsFailed"
        /\ \A u \in Thread : u # t => doing'[u] = doing[u]
    BY <1>1, <2>1 DEF Doing
  <2>3. QueuedRules' = QueuedRules
    BY <2>1 DEF QueuedRules
  <2> QED
    BY <2>1, <2>2, <2>3 DEF QuarantineUntold, AnythingUntold
<1>6. CASE ReportsStatus(t)
  <2>1. PICK rule \in {"SYS.QUARANTINED", "SYS.QUARANTINE_FAILED"} :
          /\ CallsBack(rule)
          /\ \/ Goes(t, "callsMoved", "looking") /\ rule = "SYS.QUARANTINED"
             \/ Goes(t, "callsFailed", "looking")
    BY <1>6 DEF ReportsStatus
  <2>2. /\ doing[t] = "callsFailed" \/ rule = "SYS.QUARANTINED"
        /\ \A u \in Thread : u # t => doing'[u] = doing[u]
    BY <1>1, <2>1 DEF Doing
  <2>3. QueuedRules' = QueuedRules \cup {rule}
    BY <1>0, <2>1, CallQueued DEF CallsBack
  <2>4. UNCHANGED <<detections, quarantine>>
    BY <1>6 DEF ReportsStatus, tableVars
  <2> QED
    BY <2>2, <2>3, <2>4 DEF QuarantineUntold, AnythingUntold
<1>7. CASE EtwReports
  <2>1. QueuedRules' = QueuedRules \cup {"SYS.ETW_START_FAILED"}
    BY <1>0, <1>7, CallQueued DEF EtwReports
  <2>2. UNCHANGED <<doing, detections, quarantine>>
    BY <1>7 DEF EtwReports, tableVars
  <2> QED
    BY <2>1, <2>2 DEF QuarantineUntold, AnythingUntold
<1> QED
  BY <1>2, <1>3, <1>4, <1>5, <1>6, <1>7 DEF Quarantines

LEMMA EngineTells ==
  ASSUME TypesOK, Engine \/ ScansStep
  PROVE  /\ QuarantineUntold => QuarantineUntold'
         /\ AnythingUntold => AnythingUntold'
         /\ UNCHANGED quarantine \/ QuarantineUntold'
         /\ UNCHANGED <<detections, quarantine>> \/ AnythingUntold'
<1> DEFINE Goal == /\ QuarantineUntold => QuarantineUntold'
                   /\ AnythingUntold => AnythingUntold'
                   /\ UNCHANGED quarantine \/ QuarantineUntold'
                   /\ UNCHANGED <<detections, quarantine>> \/ AnythingUntold'
<1>0. FeedOK /\ "realtime" \in Thread /\ \A s \in Scan : s \in Thread
  BY DEF TypesOK, Thread
<1>1. CASE UNCHANGED <<queue, doing, detections, quarantine>>
  BY <1>1 DEF QuarantineUntold, AnythingUntold, QueuedRules
<1>2. CASE Engine
  <2>1. ASSUME NEW s \in Scan, Reports(s, scan[s].kind \in ReadsFiles) \/ Quarantines(s)
        PROVE  Goal
    <3>1. s \in Thread /\ ((\E isFile : Reports(s, isFile)) \/ Quarantines(s))
      BY <1>0, <2>1
    <3> HIDE DEF Goal
    <3>2. Goal
      <4> USE DEF Goal
      <4> QED
        BY <1>0, <3>1, ThreadTells
    <3> QED
      BY <3>2
  <2>2. CASE \/ Finds("realtime") \/ Reports("realtime", TRUE) \/ Quarantines("realtime")
             \/ EtwReports
    BY <1>0, <2>2, ThreadTells
  <2> QED
    BY <1>2, <2>1, <2>2 DEF Engine
<1>3. ASSUME NEW s \in Scan, ScanWorks(s) \/ ScanFinds(s) \/ ScanEnds(s) PROVE Goal
  <2>1. CASE ScanWorks(s)
    BY <1>1, <2>1 DEF ScanWorks, feedVars, tableVars
  <2>2. CASE ScanFinds(s)
    BY <1>0, <2>2, ThreadTells DEF ScanFinds
  <2>3. CASE ScanEnds(s)
    <3>1. QueuedRules' = QueuedRules /\ UNCHANGED <<doing, detections, quarantine>>
      BY <1>0, <2>3, CallsPosted DEF ScanEnds, tableVars
    <3> QED
      BY <3>1 DEF QuarantineUntold, AnythingUntold
  <2> QED
    BY <1>3, <2>1, <2>2, <2>3
<1> QED
  BY <1>2, <1>3 DEF ScansStep

-----------------------------------------------------------------------------
(* The quarantine page and the home page                                   *)

LEMMA TableFirst == Init => TableTrue
<1>1. Init => page = 0
  BY DEF Init
<1> QED
  BY <1>1 DEF TableTrue

\* Whatever does not touch the page leaves it true: a new record is untold.
LEMMA TableUntouched ==
  ASSUME TypesOK, [Next]_vars, TableTrue, UNCHANGED <<page, table>>,
         Engine \/ ScansStep \/ Console \/ UNCHANGED feedVars,
         dialog[1] # "partial" \/ dialog'[1] = "partial"
  PROVE  TableTrue'
<1> SUFFICES ASSUME page' = 2, phase' = "open", dialog'[1] # "partial", ~QuarantineUntold',
                    elsewhere' # "removed"
             PROVE  table' = ListQuarantine(quarantine')
  BY DEF TableTrue
<1>1. ~QuarantineUntold /\ UNCHANGED quarantine
  <2>1. CASE Engine \/ ScansStep
    BY <2>1, EngineTells
  <2>2. CASE UNCHANGED feedVars
    BY <2>2 DEF feedVars, tableVars, QuarantineUntold, QueuedRules
  <2>3. CASE Console
    BY <2>3 DEF Console, ConsoleScans, ConsoleRemoves, ConsoleClears, QuarantineUntold, QueuedRules
  <2> QED
    BY <2>1, <2>2, <2>3
<1>2. page = 2 /\ dialog[1] # "partial"
  OBVIOUS
<1>3. phase = "open"
  BY PhaseFrame DEF Quit, WindowDestroyed, Terminates
<1>4. elsewhere # "removed"
  BY PhaseFrame DEF Console
<1> QED
  BY <1>1, <1>2, <1>3, <1>4 DEF TableTrue

LEMMA TableKept ==
  ASSUME TypesOK, [Next]_vars, TableTrue
  PROVE  TableTrue'
<1>0. CASE Console
  BY <1>0, TableUntouched DEF Console, pageVars, deleteVars
<1> SUFFICES ASSUME ~Console PROVE TableTrue'
  BY <1>0
<1>a. FeedOK /\ DialogOK /\ UNCHANGED elsewhere
  BY PhaseFrame DEF TypesOK
<1>1. CASE table' = ListQuarantine(quarantine')
  BY <1>1 DEF TableTrue
<1>2. CASE page' # 2 \/ phase' # "open" \/ dialog'[1] = "partial"
  BY <1>2 DEF TableTrue
<1>3. CASE ExecutesCall
  <2>0. /\ queue # <<>> /\ queue' = Tail(queue)
        /\ UNCHANGED <<page, phase, doing, quarantine, elsewhere>>
    BY <1>a, <1>3 DEF ExecutesCall, tableVars, AppendDetectionRow, pageVars
  <2>1. ASSUME NEW rule \in Stored \cup StatusRule, Head(queue) = Row(rule)
        PROVE  TableTrue'
    <3>1. AppendDetectionRow(rule) /\ UNCHANGED dialog
      BY <1>3, <2>1 DEF ExecutesCall, Row
    <3>2. CASE rule = "SYS.QUARANTINED"
      BY <1>1, <2>0, <3>1, <3>2 DEF AppendDetectionRow, ReloadQuarantineTable
    <3>3. CASE rule # "SYS.QUARANTINED"
      <4>1. QuarantineUntold => QuarantineUntold'
        <5>1. "SYS.QUARANTINED" \in QueuedRules => "SYS.QUARANTINED" \in QueuedRules'
          BY <1>a, <2>0, <2>1, <3>3, CallTaken DEF Row
        <5> QED
          BY <2>0, <5>1 DEF QuarantineUntold
      <4>2. UNCHANGED table
        BY <3>1, <3>3 DEF AppendDetectionRow
      <4> QED
        BY <2>0, <3>1, <4>1, <4>2 DEF TableTrue
    <3> QED
      BY <3>2, <3>3
  <2>2. CASE Head(queue) = [call |-> "summary"] \/ Head(queue) = [call |-> "finished"]
    <3>1. UNCHANGED <<table, dialog>>
      BY <1>3, <2>2 DEF ExecutesCall, pageVars, deleteVars
    <3>2. QuarantineUntold => QuarantineUntold'
      <4>1. QueuedRules \subseteq QueuedRules'
        BY <1>a, <2>0, <2>2, CallTaken DEF Row
      <4> QED
        BY <2>0, <4>1 DEF QuarantineUntold
    <3> QED
      BY <2>0, <3>1, <3>2 DEF TableTrue
  <2> QED
    BY <1>a, <2>0, <2>1, <2>2, FirstCall
<1>4. ASSUME NEW i \in 0..3, GoToPage(i) PROVE TableTrue'
  BY <1>1, <1>2, <1>4 DEF GoToPage, ReloadQuarantineTable, feedVars, tableVars
<1>5. CASE OnClearHistory
  BY <1>2, <1>5 DEF OnClearHistory
<1>6. ASSUME NEW tried, NEW gone, Concludes(tried, gone, "partial"), dialog[1] # "partial",
             UNCHANGED <<page, phase, queue, doing, elsewhere>>
      PROVE  TableTrue'
  <2>1. CASE gone = {}
    <3>1. UNCHANGED <<quarantine, table>> /\ dialog'[1] = "none"
      BY <1>6, <2>1 DEF Concludes
    <3> QED
      BY <1>6, <3>1 DEF TableTrue, QuarantineUntold, QueuedRules
  <2>2. CASE gone # {} /\ gone = tried
    BY <1>1, <1>6, <2>2 DEF Concludes, ReloadQuarantineTable
  <2>3. CASE gone \notin {{}, tried}
    BY <1>2, <1>6, <2>3 DEF Concludes
  <2> QED
    BY <2>1, <2>2, <2>3
<1>7. CASE OnRestoreQuarantine
  <2>1. \E tried, gone : Concludes(tried, gone, "partial")
    BY <1>7 DEF OnRestoreQuarantine
  <2>2. dialog[1] # "partial" /\ UNCHANGED <<page, phase, queue, doing>>
    BY <1>7 DEF OnRestoreQuarantine, UserMay
  <2> QED
    BY <1>a, <1>6, <2>1, <2>2
<1>8. CASE AnswersDelete
  <2>1. dialog[1] # "partial" /\ UNCHANGED <<page, phase, queue, doing>>
    BY <1>8 DEF AnswersDelete
  <2>3. CASE dialog' = <<"none", {}>> /\ UNCHANGED <<quarantine, table>>
    BY <1>a, <2>1, <2>3 DEF TableTrue, QuarantineUntold, QueuedRules
  <2>4. CASE \E tried, gone : Concludes(tried, gone, "partial")
    BY <1>a, <1>6, <2>1, <2>4
  <2> QED
    BY <1>8, <2>3, <2>4 DEF AnswersDelete
<1>9. CASE ClosesPartial
  BY <1>1, <1>9 DEF ClosesPartial, ReloadQuarantineTable, feedVars, tableVars
<1>10. ASSUME NEW s \in Scan, NEW kind \in Kind, OnScan(s, kind) PROVE TableTrue'
  <2>1. page' = 1
    BY <1>10 DEF OnScan
  <2> QED
    BY <1>2, <2>1
<1>11. CASE /\ UNCHANGED pageVars
            /\ ~(ExecutesCall \/ OnClearHistory \/ OnRestoreQuarantine \/ AnswersDelete
                  \/ ClosesPartial)
  <2>1. UNCHANGED <<page, table>>
    BY <1>11 DEF pageVars
  <2>2. CASE WindowDestroyed
    BY <1>2, <2>2 DEF WindowDestroyed
  <2>3. CASE ~WindowDestroyed
    <3>1. Engine \/ ScansStep \/ Console \/ UNCHANGED feedVars
      BY <1>11, <2>3, FeedFrame DEF ScansStep
    <3>2. dialog[1] # "partial" \/ dialog'[1] = "partial"
      BY <1>11, DialogFrame DEF deleteVars, OnDeleteQuarantine, UserMay
    <3> QED
      BY <2>1, <3>1, <3>2, TableUntouched
  <2> QED
    BY <2>2, <2>3
<1> QED
  BY <1>3, <1>4, <1>5, <1>7, <1>8, <1>9, <1>10, <1>11, PageFrame

LEMMA HomeFirst == Init => HomeTrue
<1>1. Init => home = HomeNow
  BY DEF Init, HomeNow
<1> QED
  BY <1>1 DEF HomeTrue

LEMMA SameHome ==
  ASSUME UNCHANGED <<detections, quarantine>>
  PROVE  /\ UNCHANGED <<etw_ok_, driver_ok_>> => HomeNow' = HomeNow
         /\ HomeNow' = Home(etw_ok_', driver_ok_')
  BY DEF HomeNow, Home, GetStats, RecentDetections

\* Whatever does not touch the page leaves it true: what it shows is untold.
LEMMA HomeUntouched ==
  ASSUME TypesOK, [Next]_vars, HomeTrue, UNCHANGED <<page, home, etw_ok_, driver_ok_>>,
         Engine \/ ScansStep \/ Console \/ UNCHANGED feedVars
  PROVE  HomeTrue'
<1> SUFFICES ASSUME page' = 0, phase' = "open", ~AnythingUntold', elsewhere' = "nothing"
             PROVE  home' = HomeNow'
  BY DEF HomeTrue
<1>0. ~Console /\ UNCHANGED elsewhere
  <2>1. ~Console
    BY DEF Console, ConsoleScans, ConsoleRemoves, ConsoleClears
  <2> QED
    BY <2>1, PhaseFrame
<1>1. ~AnythingUntold /\ UNCHANGED <<detections, quarantine>>
  <2>1. CASE Engine \/ ScansStep
    BY <2>1, EngineTells
  <2>2. CASE UNCHANGED feedVars
    BY <2>2 DEF feedVars, tableVars, AnythingUntold, QueuedRules
  <2> QED
    BY <1>0, <2>1, <2>2
<1>2. page = 0
  OBVIOUS
<1>3. phase = "open"
  BY PhaseFrame DEF Quit, WindowDestroyed, Terminates
<1>4. home = HomeNow
  BY <1>0, <1>1, <1>2, <1>3 DEF HomeTrue
<1> QED
  BY <1>1, <1>4, SameHome

LEMMA HomeKept ==
  ASSUME TypesOK, [Next]_vars, HomeTrue
  PROVE  HomeTrue'
<1>0. CASE Console
  BY <1>0, HomeUntouched DEF Console, pageVars
<1> SUFFICES ASSUME ~Console PROVE HomeTrue'
  BY <1>0
<1>a. FeedOK /\ DialogOK /\ UNCHANGED elsewhere
  BY PhaseFrame DEF TypesOK
<1>1. CASE home' = HomeNow'
  BY <1>1 DEF HomeTrue
<1>2. CASE page' # 0 \/ phase' # "open"
  BY <1>2 DEF HomeTrue
<1>3. CASE ExecutesCall
  <2>0. /\ queue # <<>> /\ queue' = Tail(queue)
        /\ UNCHANGED <<page, phase, doing, detections, quarantine, elsewhere>>
    BY <1>a, <1>3 DEF ExecutesCall, tableVars, AppendDetectionRow, pageVars
  <2>1. ASSUME NEW rule \in Stored \cup StatusRule, Head(queue) = Row(rule)
        PROVE  HomeTrue'
    <3>1. AppendDetectionRow(rule)
      BY <1>3, <2>1 DEF ExecutesCall, Row
    <3>2. CASE page = 0
      <4>1. home' = Home(etw_ok_', driver_ok_')
        BY <3>1, <3>2 DEF AppendDetectionRow
      <4> QED
        BY <1>1, <2>0, <4>1, SameHome
    <3>3. CASE page # 0
      BY <1>2, <2>0, <3>3
    <3> QED
      BY <3>2, <3>3
  <2>2. CASE Head(queue) = [call |-> "summary"]
    <3>1. UNCHANGED <<home, etw_ok_, driver_ok_>>
      BY <1>3, <2>2 DEF ExecutesCall, pageVars
    <3>2. AnythingUntold => AnythingUntold'
      <4>1. QueuedRules \subseteq QueuedRules'
        BY <1>a, <2>0, <2>2, CallTaken DEF Row
      <4> QED
        BY <2>0, <4>1 DEF AnythingUntold
    <3>3. HomeNow' = HomeNow
      BY <2>0, <3>1, SameHome
    <3> QED
      BY <2>0, <3>1, <3>2, <3>3 DEF HomeTrue
  <2>3. CASE Head(queue) = [call |-> "finished"]
    <3>1. home' = HomeNow /\ UNCHANGED <<etw_ok_, driver_ok_>>
      BY <1>3, <2>3 DEF ExecutesCall, ScanFinished
    <3> QED
      BY <1>1, <2>0, <3>1, SameHome
  <2> QED
    BY <1>a, <2>0, <2>1, <2>2, <2>3, FirstCall
<1>4. ASSUME NEW i \in 0..3, GoToPage(i) PROVE HomeTrue'
  <2>1. /\ page' = i /\ home' = IF i = 0 THEN HomeNow ELSE home
        /\ UNCHANGED <<detections, quarantine, etw_ok_, driver_ok_>>
    BY <1>4 DEF GoToPage, feedVars, tableVars
  <2> QED
    BY <1>1, <1>2, <2>1, SameHome
<1>5. CASE OnClearHistory
  BY <1>1, <1>5 DEF OnClearHistory
<1>6. CASE OnRestoreQuarantine
  BY <1>2, <1>6 DEF OnRestoreQuarantine
<1>7. CASE AnswersDelete
  <2>1. page = 2
    BY <1>a, <1>7 DEF AnswersDelete, DialogOK
  <2> QED
    BY <1>2, <1>7, <2>1 DEF AnswersDelete
<1>8. CASE ClosesPartial
  <2>1. home' = HomeNow /\ UNCHANGED <<detections, quarantine, etw_ok_, driver_ok_>>
    BY <1>8 DEF ClosesPartial, feedVars, tableVars
  <2> QED
    BY <1>1, <2>1, SameHome
<1>9. ASSUME NEW s \in Scan, NEW kind \in Kind, OnScan(s, kind) PROVE HomeTrue'
  <2>1. page' = 1
    BY <1>9 DEF OnScan
  <2> QED
    BY <1>2, <2>1
<1>10. CASE /\ UNCHANGED pageVars
            /\ ~(ExecutesCall \/ OnClearHistory \/ OnRestoreQuarantine \/ AnswersDelete)
  <2>1. UNCHANGED <<page, home, etw_ok_, driver_ok_>>
    BY <1>10 DEF pageVars
  <2>2. CASE WindowDestroyed
    BY <1>2, <2>2 DEF WindowDestroyed
  <2>3. CASE ~WindowDestroyed
    <3>1. Engine \/ ScansStep \/ UNCHANGED feedVars
      BY <1>10, <2>3, FeedFrame DEF ScansStep
    <3> QED
      BY <2>1, <3>1, HomeUntouched
  <2> QED
    BY <2>2, <2>3
<1> QED
  BY <1>3, <1>4, <1>5, <1>6, <1>7, <1>8, <1>9, <1>10, PageFrame

-----------------------------------------------------------------------------
(* Every detection is shown                                                *)

Of(rule) == [rule: {rule}, n: Nat]

LEMMA Tally ==
  ASSUME NEW k \in Nat, NEW s \in Seq([rule: Stored, n: 1..k]), NEW rule
  PROVE  {i \in DOMAIN s : s[i].rule = rule} = At(s, Of(rule))
<1>1. ASSUME NEW i \in DOMAIN s PROVE s[i].rule = rule <=> s[i] \in Of(rule)
  <2>1. s[i] \in [rule: Stored, n: 1..k]
    BY <1>1, ElementOfSeq, LenProperties
  <2> QED
    BY <2>1 DEF Of
<1> QED
  BY <1>1 DEF At

LEMMA Counts ==
  ASSUME FeedOK, NEW rule
  PROVE  /\ Made(rule) = Cardinality(At(detections, Of(rule))) /\ Made(rule) \in Nat
         /\ Queued(rule) = Cardinality(At(queue, {Row(rule)})) /\ Queued(rule) \in Nat
<1>1. Made(rule) = Cardinality(At(detections, Of(rule)))
  BY Tally DEF FeedOK, Made
<1>2. Queued(rule) = Cardinality(At(queue, {Row(rule)}))
  BY DEF Queued, At
<1> QED
  BY <1>1, <1>2, AtFinite DEF FeedOK

LEMMA DetectionTallied ==
  ASSUME FeedOK, NEW made \in Stored, InsertDetection(made), NEW rule
  PROVE  Made(rule)' = Made(rule) + IF made = rule THEN 1 ELSE 0
<1> DEFINE d == [rule |-> made, n |-> inserted']
           D == [rule: Stored, n: 1..inserted']
<1>1. /\ inserted' \in Nat /\ detections \in Seq(D) /\ d \in D
      /\ detections' = Append(detections, d) /\ detections' \in Seq(D)
  BY DetectionAdded
<1>2. d \in Of(rule) <=> made = rule
  BY <1>1 DEF Of
<1> HIDE DEF d, D
<1>3. Cardinality(At(detections', Of(rule)))
        = Cardinality(At(detections, Of(rule))) + IF made = rule THEN 1 ELSE 0
  BY <1>1, <1>2, AtAppend
<1>4. Made(rule)' = Cardinality(At(detections', Of(rule)))
  <2>1. {i \in DOMAIN detections' : detections'[i].rule = rule} = At(detections', Of(rule))
    BY <1>1, Tally DEF D
  <2> QED
    BY <2>1 DEF Made
<1> QED
  BY <1>3, <1>4, Counts

LEMMA CallTallied ==
  ASSUME FeedOK, NEW called \in Stored \cup StatusRule, queue' = Append(queue, Row(called)),
         NEW rule
  PROVE  Queued(rule)' = Queued(rule) + IF called = rule THEN 1 ELSE 0
<1>1. Row(called) \in {Row(rule)} <=> called = rule
  BY DEF Row
<1>2. Cardinality(At(queue', {Row(rule)}))
        = Cardinality(At(queue, {Row(rule)})) + IF called = rule THEN 1 ELSE 0
  BY <1>1, CallsAre, AtAppend DEF FeedOK
<1> QED
  BY <1>2 DEF Queued, At

LEMMA TakenTallied ==
  ASSUME FeedOK, queue # <<>>, queue' = Tail(queue), NEW rule
  PROVE  /\ Queued(rule) <= Queued(rule)' + IF Head(queue) = Row(rule) THEN 1 ELSE 0
         /\ Queued(rule)' \in Nat
<1>1. Cardinality(At(queue, {Row(rule)}))
        <= Cardinality(At(queue', {Row(rule)})) + IF Head(queue) = Row(rule) THEN 1 ELSE 0
  BY AtTail DEF FeedOK
<1>2. queue' \in Seq(Call)
  BY HeadTailProperties DEF FeedOK
<1>3. Cardinality(At(queue', {Row(rule)})) \in Nat
  BY <1>2, AtFinite
<1> QED
  BY <1>1, <1>3 DEF Queued, At

LEMMA EndTallied ==
  ASSUME FeedOK, NEW s \in Scan, ScanEnds(s), NEW rule
  PROVE  Queued(rule)' \in Nat /\ Queued(rule) <= Queued(rule)'
<1>1. CASE phase = "open"
  <2>1. PICK posted \in Seq({[call |-> "summary"], [call |-> "finished"]}) :
          queue' = queue \o posted
    BY <1>1, PostedCalls
  <2>2. posted \in Seq(Call) /\ queue \in Seq(Call)
    BY CallsAre, SeqMonotonic DEF FeedOK
  <2>3. /\ queue' \in Seq(Call) /\ Len(queue') = Len(queue) + Len(posted)
        /\ \A i \in 1..Len(queue) : queue'[i] = queue[i]
    BY <2>1, <2>2, ConcatProperties
  <2>4. At(queue, {Row(rule)}) \subseteq At(queue', {Row(rule)})
    <3>1. /\ Len(queue) \in Nat /\ Len(posted) \in Nat
          /\ DOMAIN queue = 1..Len(queue) /\ DOMAIN queue' = 1..Len(queue')
      BY <2>2, <2>3, LenProperties
    <3> QED
      BY <2>3, <3>1 DEF At
  <2>5. IsFiniteSet(At(queue', {Row(rule)})) /\ Cardinality(At(queue', {Row(rule)})) \in Nat
    BY <2>3, AtFinite
  <2>6. Cardinality(At(queue, {Row(rule)})) <= Cardinality(At(queue', {Row(rule)}))
    BY <2>4, <2>5, FS_Subset
  <2> QED
    BY <2>5, <2>6 DEF Queued, At
<1>2. CASE phase # "open"
  <2>1. queue' = queue
    BY <1>2 DEF ScanEnds
  <2>2. Queued(rule)' = Queued(rule) /\ Queued(rule) \in Nat
    BY <2>1, Counts DEF Queued
  <2> QED
    BY <2>2
<1> QED
  BY <1>1, <1>2

\* At most one call is in flight, that of the one who holds the mutex.
LEMMA OneCalls ==
  ASSUME NEW at, NEW mutex, NEW rule,
         \A t \in Thread : at[t] \in DOMAIN CallOf => mutex = t
  PROVE  Cardinality({t \in Thread : at[t] \in DOMAIN CallOf /\ CallOf[at[t]] = rule})
           = IF \E t \in Thread : at[t] \in DOMAIN CallOf /\ CallOf[at[t]] = rule THEN 1 ELSE 0
<1> DEFINE calling == {t \in Thread : at[t] \in DOMAIN CallOf /\ CallOf[at[t]] = rule}
<1>1. CASE calling = {}
  BY <1>1, FS_EmptySet
<1>2. CASE calling # {}
  <2>1. calling = {mutex}
    BY <1>2
  <2> QED
    BY <1>2, <2>1, FS_Singleton
<1> QED
  BY <1>1, <1>2

LEMMA InFlightIs ==
  ASSUME NEW rule
  PROVE  /\ FeedOK => InFlight(rule) =
                       IF \E t \in Thread : doing[t] \in DOMAIN CallOf /\ CallOf[doing[t]] = rule
                       THEN 1 ELSE 0
         /\ FeedOK' => InFlight(rule)' =
                        IF \E t \in Thread : doing'[t] \in DOMAIN CallOf /\ CallOf[doing'[t]] = rule
                        THEN 1 ELSE 0
  BY OneCalls DEF FeedOK, InFlight

LEMMA InFlightNumber ==
  ASSUME NEW rule
  PROVE  (FeedOK => InFlight(rule) \in Nat) /\ (FeedOK' => InFlight(rule)' \in Nat)
<1>1. FeedOK => InFlight(rule) \in {0, 1}
  BY InFlightIs
<1>2. FeedOK' => InFlight(rule)' \in {0, 1}
  BY InFlightIs
<1> QED
  BY <1>1, <1>2

\* What a step adds to the table it adds to the calls.
Balance(rule) ==
  /\ Made(rule)' \in Nat /\ Queued(rule)' \in Nat /\ InFlight(rule)' \in Nat
  /\ Made(rule)' + Queued(rule) + InFlight(rule) <= Made(rule) + Queued(rule)' + InFlight(rule)'

LEMMA InsertBalances ==
  ASSUME FeedOK, FeedOK', NEW t \in Thread, NEW made \in Stored, NEW from,
         NEW to \in DOMAIN CallOf, CallOf[to] = made,
         Goes(t, from, to), Inserts(t, made), UNCHANGED queue, NEW rule \in Stored
  PROVE  Balance(rule)
<1>1. Made(rule)' = Made(rule) + (IF made = rule THEN 1 ELSE 0)
  BY DetectionTallied DEF Inserts
<1>2. Queued(rule)' = Queued(rule)
  BY DEF Queued
<1>3. /\ doing'[t] = to /\ \A u \in Thread : u # t => doing'[u] = doing[u]
  BY DEF FeedOK, Goes
<1>4. \A u \in Thread : doing[u] \notin DOMAIN CallOf
  BY EventFeedAssumption DEF Inserts, FeedOK, Thread, NoOne
<1>5. InFlight(rule) = 0
  BY <1>4, InFlightIs
<1>6. InFlight(rule)' = IF made = rule THEN 1 ELSE 0
  <2>1. (\E u \in Thread : doing'[u] \in DOMAIN CallOf /\ CallOf[doing'[u]] = rule) <=> made = rule
    BY <1>3, <1>4
  <2> QED
    BY <2>1, InFlightIs
<1>7. Made(rule) \in Nat /\ Queued(rule) \in Nat
  BY Counts
<1> QED
  BY <1>1, <1>2, <1>5, <1>6, <1>7 DEF Balance

LEMMA CallBalances ==
  ASSUME FeedOK, FeedOK', NEW t \in Thread, NEW called \in Stored,
         NEW from \in DOMAIN CallOf, CallOf[from] = called, NEW to, to \notin DOMAIN CallOf,
         Goes(t, from, to), CallsBack(called), UNCHANGED detections, NEW rule \in Stored
  PROVE  Balance(rule)
<1>1. Made(rule)' = Made(rule)
  BY DEF Made
<1>2. Queued(rule)' = Queued(rule) + IF called = rule THEN 1 ELSE 0
  BY CallTallied DEF CallsBack
<1>3. /\ doing[t] = from /\ doing'[t] = to /\ \A u \in Thread : u # t => doing'[u] = doing[u]
  BY DEF FeedOK, Goes
<1>4. \A u \in Thread : doing[u] \in DOMAIN CallOf => u = t
  BY <1>3 DEF FeedOK
<1>5. InFlight(rule) = IF called = rule THEN 1 ELSE 0
  <2>1. (\E u \in Thread : doing[u] \in DOMAIN CallOf /\ CallOf[doing[u]] = rule) <=> called = rule
    BY <1>3, <1>4
  <2> QED
    BY <2>1, InFlightIs
<1>6. InFlight(rule)' = 0
  <2>1. ~(\E u \in Thread : doing'[u] \in DOMAIN CallOf /\ CallOf[doing'[u]] = rule)
    BY <1>3, <1>4
  <2> QED
    BY <2>1, InFlightIs
<1>7. Made(rule) \in Nat /\ Queued(rule) \in Nat
  BY Counts
<1> QED
  BY <1>1, <1>2, <1>5, <1>6, <1>7 DEF Balance

LEMMA ThreadBalances ==
  ASSUME FeedOK, FeedOK', NEW t \in Thread, NEW rule \in Stored,
         \/ Finds(t) \/ (\E isFile : Reports(t, isFile)) \/ Quarantines(t) \/ EtwReports
  PROVE  Balance(rule)
<1>0. /\ {"calls", "callsMoved", "callsFailed"} = DOMAIN CallOf
      /\ CallOf["calls"] = "malware" /\ CallOf["callsMoved"] = "SYS.QUARANTINED"
      /\ CallOf["callsFailed"] = "SYS.QUARANTINE_FAILED"
      /\ \A r \in {"malware", "SYS.QUARANTINED", "SYS.QUARANTINE_FAILED"} : r \in Stored
  BY DEF CallOf, Stored
<1>a. /\ Made(rule) \in Nat /\ Queued(rule) \in Nat /\ InFlight(rule) \in Nat
      /\ InFlight(rule)' \in Nat
  BY Counts, InFlightNumber
<1>1. CASE Finds(t)
  BY <1>0, <1>1, InsertBalances DEF Finds
<1>2. ASSUME NEW isFile, Reports(t, isFile) PROVE Balance(rule)
  <2>1. PICK to \in {"looking", "moving"} : Goes(t, "calls", to)
    BY <1>2 DEF Reports
  <2> QED
    BY <1>0, <1>2, <2>1, CallBalances DEF Reports, tableVars
<1>3. CASE Moves(t)
  <2>1. PICK to \in {"moved", "failed"} : Goes(t, "moving", to)
    BY <1>3 DEF Moves
  <2>2. /\ doing[t] = "moving" /\ doing'[t] = to
        /\ \A u \in Thread : u # t => doing'[u] = doing[u]
    BY <2>1 DEF FeedOK, Goes
  <2>3. InFlight(rule)' = InFlight(rule)
    <3>1. (\E u \in Thread : doing'[u] \in DOMAIN CallOf /\ CallOf[doing'[u]] = rule)
            <=> (\E u \in Thread : doing[u] \in DOMAIN CallOf /\ CallOf[doing[u]] = rule)
      BY <1>0, <2>2
    <3> QED
      BY <3>1, InFlightIs
  <2>4. Made(rule)' = Made(rule) /\ Queued(rule)' = Queued(rule)
    BY <1>3 DEF Moves, Made, Queued
  <2> QED
    BY <1>a, <2>3, <2>4 DEF Balance
<1>4. CASE InsertsStatus(t)
  BY <1>0, <1>4, InsertBalances DEF InsertsStatus
<1>5. CASE ReportsStatus(t)
  <2>1. "looking" \notin DOMAIN CallOf /\ UNCHANGED detections
    BY <1>0, <1>5 DEF ReportsStatus, tableVars
  <2> QED
    BY <1>0, <1>5, <2>1, CallBalances DEF ReportsStatus
<1>6. CASE EtwReports
  <2>1. Queued(rule)' = Queued(rule) + IF "SYS.ETW_START_FAILED" = rule THEN 1 ELSE 0
    BY <1>6, CallTallied DEF EtwReports, StatusRule
  <2>2. Made(rule)' = Made(rule) /\ InFlight(rule)' = InFlight(rule)
    BY <1>6 DEF EtwReports, tableVars, Made, InFlight
  <2> QED
    BY <1>a, <2>1, <2>2 DEF Balance
<1> QED
  BY <1>1, <1>2, <1>3, <1>4, <1>5, <1>6 DEF Quarantines

LEMMA EngineBalances ==
  ASSUME FeedOK, FeedOK', Engine \/ ScansStep, NEW rule \in Stored
  PROVE  Balance(rule)
<1>0. "realtime" \in Thread /\ \A s \in Scan : s \in Thread
  BY DEF Thread
<1>a. /\ Made(rule) \in Nat /\ Queued(rule) \in Nat /\ InFlight(rule) \in Nat
      /\ InFlight(rule)' \in Nat
  BY Counts, InFlightNumber
<1>1. CASE Engine
  <2>1. ASSUME NEW s \in Scan, Reports(s, scan[s].kind \in ReadsFiles) \/ Quarantines(s)
        PROVE  Balance(rule)
    <3>1. s \in Thread /\ ((\E isFile : Reports(s, isFile)) \/ Quarantines(s))
      BY <1>0, <2>1
    <3> QED
      BY <3>1, ThreadBalances
  <2>2. CASE \/ Finds("realtime") \/ Reports("realtime", TRUE) \/ Quarantines("realtime")
             \/ EtwReports
    BY <1>0, <2>2, ThreadBalances
  <2> QED
    BY <1>1, <2>1, <2>2 DEF Engine
<1>2. ASSUME NEW s \in Scan, ScanWorks(s) \/ ScanFinds(s) \/ ScanEnds(s) PROVE Balance(rule)
  <2>1. CASE ScanWorks(s)
    BY <1>a, <2>1 DEF ScanWorks, feedVars, tableVars, Balance, Made, Queued, InFlight
  <2>2. CASE ScanFinds(s)
    BY <1>0, <2>2, ThreadBalances DEF ScanFinds
  <2>3. CASE ScanEnds(s)
    <3>1. Queued(rule)' \in Nat /\ Queued(rule) <= Queued(rule)'
      BY <2>3, EndTallied
    <3>2. Made(rule)' = Made(rule) /\ InFlight(rule)' = InFlight(rule)
      BY <2>3 DEF ScanEnds, tableVars, Made, InFlight
    <3> QED
      BY <1>a, <3>1, <3>2 DEF Balance
  <2> QED
    BY <1>2, <2>1, <2>2, <2>3
<1> QED
  BY <1>1, <1>2 DEF ScansStep

LEMMA ShownFirst == Init => EveryDetectionShown
<1> SUFFICES ASSUME Init PROVE EveryDetectionShown
  OBVIOUS
<1> DEFINE old == IF "full" \in uses THEN HistoryCap ELSE OldRows
<1>1. FeedOK /\ PagesOK /\ old \in Nat
  BY TypesFirst, DashboardAssumption DEF TypesOK, Init
<1>2. detections = [i \in 1..old |-> [rule |-> "malware", n |-> i]]
  BY DEF Init, FeedInit
<1>3. rows["malware"] = old
  BY <1>1 DEF Init, LoadHistory, NoRows, Stored
<1> HIDE DEF old
<1>4. ASSUME NEW rule \in Stored PROVE Made(rule) <= rows[rule]
  <2>1. CASE rule = "malware"
    <3>1. {i \in DOMAIN detections : detections[i].rule = rule} = 1..old
      BY <1>2, <2>1
    <3>2. Cardinality(1..old) = old
      BY <1>1, FS_Interval
    <3>3. Made(rule) = old
      BY <3>1, <3>2 DEF Made
    <3> QED
      BY <1>1, <1>3, <2>1, <3>3
  <2>2. CASE rule # "malware"
    <3>1. {i \in DOMAIN detections : detections[i].rule = rule} = {}
      BY <1>2, <2>2
    <3> QED
      BY <1>1, <3>1, FS_EmptySet DEF Made, PagesOK
  <2> QED
    BY <2>1, <2>2
<1>5. ASSUME NEW rule \in Stored
      PROVE  /\ Made(rule) \in Nat /\ Queued(rule) \in Nat /\ InFlight(rule) \in Nat
             /\ rows[rule] \in Nat
  BY <1>1, Counts, InFlightNumber DEF PagesOK
<1> QED
  BY <1>4, <1>5 DEF EveryDetectionShown

LEMMA ShownKept ==
  ASSUME TypesOK, [Next]_vars, EveryDetectionShown
  PROVE  EveryDetectionShown'
<1> SUFFICES ASSUME phase' = "open", elsewhere' # "added", NEW rule \in Stored
             PROVE  Made(rule)' <= rows'[rule] + Queued(rule)' + InFlight(rule)'
  BY DEF EveryDetectionShown
<1>0. FeedOK /\ FeedOK' /\ PagesOK /\ PagesOK'
  BY FeedKept, PagesKept DEF TypesOK
<1>a. /\ Made(rule) \in Nat /\ Queued(rule) \in Nat /\ InFlight(rule) \in Nat
      /\ InFlight(rule)' \in Nat /\ rows[rule] \in Nat /\ rows'[rule] \in Nat
  BY <1>0, Counts, InFlightNumber DEF PagesOK
<1>b. phase = "open"
  BY PhaseFrame DEF Quit, WindowDestroyed, Terminates
<1>c. elsewhere # "added"
  BY PhaseFrame DEF Console
<1>d. Made(rule) <= rows[rule] + Queued(rule) + InFlight(rule)
  BY <1>b, <1>c DEF EveryDetectionShown
<1>1. CASE UNCHANGED <<detections, queue, doing, rows>>
  BY <1>1, <1>d DEF Made, Queued, InFlight
<1>2. CASE Engine \/ ScansStep
  <2>1. Balance(rule)
    BY <1>0, <1>2, EngineBalances
  <2>2. UNCHANGED rows
    BY <1>2 DEF Engine, ScansStep, ScanWorks, ScanFinds, ScanEnds, pageVars
  <2> QED
    BY <1>a, <1>d, <2>1, <2>2 DEF Balance
<1>3. CASE ExecutesCall
  <2>0. /\ queue # <<>> /\ queue' = Tail(queue) /\ UNCHANGED <<detections, doing>>
    BY <1>3 DEF ExecutesCall, tableVars
  <2>1. /\ Queued(rule) <= Queued(rule)' + (IF Head(queue) = Row(rule) THEN 1 ELSE 0)
        /\ Queued(rule)' \in Nat
    BY <1>0, <2>0, TakenTallied
  <2>2. Made(rule)' = Made(rule) /\ InFlight(rule)' = InFlight(rule)
    BY <2>0 DEF Made, InFlight
  <2>3. rows'[rule] = rows[rule] + IF Head(queue) = Row(rule) THEN 1 ELSE 0
    <3>1. ASSUME NEW r \in Stored \cup StatusRule, Head(queue) = Row(r)
          PROVE  rows' = [rows EXCEPT ![r] = @ + 1] /\ (Head(queue) = Row(rule) <=> r = rule)
      <4>1. AppendDetectionRow(r)
        BY <1>3, <3>1 DEF ExecutesCall, Row
      <4>2. Row(r) = Row(rule) <=> r = rule
        BY DEF Row
      <4> QED
        BY <3>1, <4>1, <4>2 DEF AppendDetectionRow
    <3>2. CASE Head(queue) = [call |-> "summary"] \/ Head(queue) = [call |-> "finished"]
      BY <1>3, <1>a, <3>2 DEF ExecutesCall, pageVars, Row
    <3> QED
      BY <1>0, <1>a, <2>0, <3>1, <3>2, FirstCall DEF PagesOK
  <2> QED
    BY <1>a, <1>d, <2>1, <2>2, <2>3
<1>4. CASE detections' = <<>>
  <2>1. Made(rule)' = 0
    <3>1. {i \in DOMAIN detections' : detections'[i].rule = rule} = {}
      BY <1>4
    <3> QED
      BY <3>1, FS_EmptySet DEF Made
  <2>2. Queued(rule)' \in Nat
    <3>1. Queued(rule)' = Cardinality(At(queue', {Row(rule)}))
      BY DEF Queued, At
    <3> QED
      BY <1>0, <3>1, AtFinite DEF FeedOK
  <2> QED
    BY <1>a, <2>1, <2>2
<1>5. CASE OnClearHistory
  BY <1>4, <1>5 DEF OnClearHistory, ClearDetections
<1>6. CASE Console
  <2>1. CASE ConsoleScans
    BY <2>1 DEF ConsoleScans
  <2>2. CASE ConsoleRemoves
    BY <1>1, <1>6, <2>2 DEF Console, ConsoleRemoves, pageVars
  <2>3. CASE ConsoleClears
    BY <1>4, <2>3 DEF ConsoleClears, ClearDetections
  <2> QED
    BY <1>6, <2>1, <2>2, <2>3 DEF Console
<1>7. CASE OnRestoreQuarantine \/ AnswersDelete
  BY <1>1, <1>7 DEF OnRestoreQuarantine, AnswersDelete, Concludes
<1>8. CASE UNCHANGED feedVars /\ ~(ExecutesCall \/ OnClearHistory)
  <2>1. UNCHANGED rows
    BY <1>8, PageFrame DEF pageVars, GoToPage, OnRestoreQuarantine, AnswersDelete, ClosesPartial,
       OnScan
  <2> QED
    BY <1>1, <1>8, <2>1 DEF feedVars, tableVars
<1> QED
  BY <1>2, <1>3, <1>5, <1>6, <1>7, <1>8, FeedFrame DEF ScansStep, WindowDestroyed

-----------------------------------------------------------------------------
(* A running scan can be cancelled                                         *)

EndsQueued == \E m \in Range(queue) : m.call = "finished"

\* A scan that no other overlapped is alone, and no end is waiting to hide its button.
Alone ==
  phase = "open" => \A s \in Scan :
    Running(s) /\ ~scan[s].overlapped =>
      /\ ~EndsQueued
      /\ \A o \in Scan : Running(o) => o = s

LEMMA EngineAppends ==
  ASSUME Engine
  PROVE  queue' = queue \/ \E r \in Stored \cup StatusRule : queue' = Append(queue, Row(r))
<1>0. \A r \in {"malware", "SYS.QUARANTINED", "SYS.QUARANTINE_FAILED", "SYS.ETW_START_FAILED"} :
        r \in Stored \cup StatusRule
  BY DEF Stored, StatusRule
<1>1. ASSUME NEW t, NEW isFile, Finds(t) \/ Reports(t, isFile) \/ Quarantines(t) \/ EtwReports
      PROVE  queue' = queue \/ \E r \in Stored \cup StatusRule : queue' = Append(queue, Row(r))
  BY <1>0, <1>1 DEF Finds, Reports, Quarantines, Moves, InsertsStatus, ReportsStatus, EtwReports,
                    CallsBack
<1> QED
  BY <1>1 DEF Engine

\* Only the end of a scan queues one.
LEMMA EndsPosted ==
  ASSUME TypesOK, [Next]_vars, phase' = "open", EndsQueued'
  PROVE  EndsQueued \/ \E s \in Scan : ScanEnds(s)
<1>0. FeedOK
  BY DEF TypesOK
<1>1. CASE queue' = queue
  BY <1>1 DEF EndsQueued
<1>2. CASE Engine
  <2>1. ASSUME NEW r \in Stored \cup StatusRule, queue' = Append(queue, Row(r))
        PROVE  EndsQueued
    <3>1. Range(queue') = Range(queue) \cup {Row(r)}
      BY <1>0, <2>1, CallsAre, RangeAppend DEF FeedOK
    <3> QED
      BY <3>1 DEF EndsQueued, Row
  <2> QED
    BY <1>1, <1>2, <2>1, EngineAppends
<1>3. CASE ExecutesCall
  <2>1. Range(queue) = Range(queue') \cup {Head(queue)}
    BY <1>0, <1>3, RangeTail DEF ExecutesCall, FeedOK
  <2> QED
    BY <2>1 DEF EndsQueued
<1>4. ASSUME NEW s \in Scan, ScanFinds(s) PROVE queue' = queue
  BY <1>4 DEF ScanFinds, Finds
<1>5. CASE OnClearHistory \/ OnRestoreQuarantine \/ AnswersDelete \/ Console
  BY <1>1, <1>5 DEF OnClearHistory, OnRestoreQuarantine, AnswersDelete, Console
<1>6. ~WindowDestroyed
  BY DEF WindowDestroyed
<1>7. CASE UNCHANGED feedVars
  BY <1>1, <1>7 DEF feedVars
<1> QED
  BY <1>1, <1>2, <1>3, <1>4, <1>5, <1>6, <1>7, FeedFrame

LEMMA AloneFirst == Init => Alone /\ CancelThere
<1>1. Init => \A s \in Scan : ~Running(s)
  <2>1. Init => scan = [s \in Scan |-> Idle]
    BY DEF Init
  <2> QED
    BY <2>1 DEF Running, Idle
<1> QED
  BY <1>1 DEF Alone, CancelThere

\* What does not touch the scans' course leaves them alone.
LEMMA AloneUntouched ==
  ASSUME TypesOK, [Next]_vars, Alone, CancelThere,
         \A s \in Scan : scan'[s].overlapped = scan[s].overlapped /\ (Running(s)' <=> Running(s)),
         cancel_button' = cancel_button \/ cancel_button' # "hidden",
         ~(\E s \in Scan : ScanEnds(s))
  PROVE  Alone' /\ CancelThere'
<1>1. CASE phase' # "open"
  BY <1>1 DEF Alone, CancelThere
<1>2. CASE phase' = "open"
  <2>1. phase = "open"
    BY <1>2, PhaseFrame DEF Quit, WindowDestroyed, Terminates
  <2>2. EndsQueued' => EndsQueued
    BY <1>2, EndsPosted
  <2>3. Alone'
    BY <2>1, <2>2 DEF Alone
  <2>4. CancelThere'
    BY <2>1 DEF CancelThere
  <2> QED
    BY <2>3, <2>4
<1> QED
  BY <1>1, <1>2

LEMMA AloneKept ==
  ASSUME TypesOK, [Next]_vars, Alone, CancelThere
  PROVE  Alone' /\ CancelThere'
<1>0. scan \in [Scan -> ScanRecord] /\ FeedOK
  BY DEF TypesOK, ScansOK
<1> SUFFICES ASSUME phase' = "open" PROVE Alone' /\ CancelThere'
  BY DEF Alone, CancelThere
<1>a. phase = "open"
  BY PhaseFrame DEF Quit, WindowDestroyed, Terminates
<1>1. ASSUME NEW s \in Scan, ScanEnds(s) PROVE Alone' /\ CancelThere'
  <2>1. Running(s) /\ ~Running(s)' /\ UNCHANGED cancel_button
    BY <1>0, <1>1 DEF ScanEnds, Running, ScanRecord
  <2>2. \A o \in Scan : o # s => scan'[o] = scan[o]
    BY <1>0, <1>1 DEF ScanEnds
  <2>3. ASSUME NEW o \in Scan, Running(o)', ~scan'[o].overlapped PROVE FALSE
    <3>1. o # s
      BY <2>1, <2>3
    <3>2. Running(o) /\ ~scan[o].overlapped
      BY <2>2, <2>3, <3>1 DEF Running
    <3> QED
      BY <1>a, <2>1, <3>1, <3>2 DEF Alone
  <2> QED
    BY <2>3 DEF Alone, CancelThere
<1> SUFFICES ASSUME ~(\E s \in Scan : ScanEnds(s)) PROVE Alone' /\ CancelThere'
  BY <1>1
<1>2. CASE UNCHANGED scanVars
  BY <1>2, AloneUntouched DEF scanVars, Running
<1>3. CASE ExecutesCall
  <2>1. CASE Head(queue).call = "finished"
    <3>1. Range(queue) = Range(queue') \cup {Head(queue)}
      BY <1>0, <1>3, RangeTail DEF ExecutesCall, FeedOK
    <3>2. EndsQueued /\ UNCHANGED scan
      BY <1>3, <2>1, <3>1 DEF ExecutesCall, EndsQueued
    <3>3. \A s \in Scan : ~(Running(s)' /\ ~scan'[s].overlapped)
      BY <1>a, <3>2 DEF Alone, Running
    <3> QED
      BY <3>3 DEF Alone, CancelThere
  <2>2. CASE Head(queue).call # "finished"
    <3>1. UNCHANGED <<scan, cancel_button>>
      BY <1>3, <2>2 DEF ExecutesCall, scanVars
    <3> QED
      BY <3>1, AloneUntouched DEF Running
  <2> QED
    BY <2>1, <2>2
<1>4. CASE OnClearHistory \/ Console
  <2>1. \/ UNCHANGED scan
        \/ scan' = [s \in Scan |-> [scan[s] EXCEPT !.cleared = @ \/ Running(s)]]
    BY <1>4 DEF OnClearHistory, Console, ConsoleScans, ConsoleRemoves, ConsoleClears
  <2>2. ASSUME NEW s \in Scan
        PROVE  scan'[s].overlapped = scan[s].overlapped /\ (Running(s)' <=> Running(s))
    <3>1. scan[s] \in ScanRecord
      BY <1>0
    <3>2. scan'[s].overlapped = scan[s].overlapped /\ scan'[s].st = scan[s].st
      BY <2>1, <3>1 DEF ScanRecord
    <3> QED
      BY <3>2 DEF Running
  <2>3. UNCHANGED cancel_button
    BY <1>4 DEF OnClearHistory, Console
  <2> QED
    BY <2>2, <2>3, AloneUntouched
<1>5. CASE OnCancelScan
  BY <1>5, AloneUntouched DEF OnCancelScan, Running
<1>6. ASSUME NEW s \in Scan, ScanWorks(s) \/ ScanFinds(s) PROVE Alone' /\ CancelThere'
  <2>1. ASSUME NEW o \in Scan
        PROVE  scan'[o].overlapped = scan[o].overlapped /\ (Running(o)' <=> Running(o))
    BY <1>0, <1>6 DEF ScanWorks, ScanFinds, Running, ScanRecord
  <2>2. UNCHANGED cancel_button
    BY <1>6 DEF ScanWorks, ScanFinds
  <2> QED
    BY <2>1, <2>2, AloneUntouched
<1>7. ASSUME NEW s \in Scan, NEW kind \in Kind, OnScan(s, kind) PROVE Alone' /\ CancelThere'
  <2> DEFINE others == {o \in Scan : Running(o)}
  <2>1. cancel_button' = "enabled" /\ UNCHANGED queue
    BY <1>7 DEF OnScan, feedVars
  <2>2. /\ scan'[s].overlapped = (EndsQueued \/ others # {})
        /\ \A o \in Scan : o # s => /\ scan'[o].overlapped = (scan[o].overlapped \/ o \in others)
                                    /\ scan'[o].st = scan[o].st
    BY <1>0, <1>7 DEF OnScan, EndsQueued, Idle, ScanRecord
  <2>3. \A o \in Scan : o # s => (Running(o)' <=> o \in others)
    BY <2>2 DEF Running
  <2>4. EndsQueued' = EndsQueued
    BY <2>1 DEF EndsQueued
  <2>5. Alone'
    BY <2>2, <2>3, <2>4 DEF Alone
  <2>6. CancelThere'
    BY <2>1 DEF CancelThere
  <2> QED
    BY <2>5, <2>6
<1> QED
  BY <1>2, <1>3, <1>4, <1>5, <1>6, <1>7, ScanFrame DEF ScansStep

-----------------------------------------------------------------------------
(* The buttons wait for an end that comes                                  *)

Busy == ~buttons \/ cancel_button # "hidden" \/ status = "cancelling"
SomeoneRuns == \E s \in Scan : Running(s)

\* A scan that ends says so, as long as there is a window to be told.
LEMMA EndPosted ==
  ASSUME FeedOK, NEW s \in Scan, ScanEnds(s)
  PROVE  IF phase = "open" THEN EndsQueued' ELSE queue' = queue
<1>1. CASE phase = "open"
  <2> DEFINE front == queue \o (IF scan[s].kind = "registry" THEN <<>>
                                ELSE <<[call |-> "summary"]>>)
             end == [call |-> "finished"]
  <2>1. queue' = front \o <<end>>
    BY <1>1 DEF ScanEnds
  <2>2. front \in Seq(Call) /\ end \in Call
    BY CallsAre DEF FeedOK
  <2>3. Append(front, end) = front \o <<end>>
    <3> HIDE DEF front, end
    <3> QED
      BY <2>2, AppendIsConcat
  <2>4. end \in Range(queue')
    <3> HIDE DEF front, end
    <3>1. Range(Append(front, end)) = Range(front) \cup {end}
      BY <2>2, RangeAppend
    <3> QED
      BY <2>1, <2>3, <3>1
  <2>5. \E m \in Range(queue') : m.call = "finished"
    BY <2>4
  <2> QED
    BY <1>1, <2>5 DEF EndsQueued
<1>2. CASE phase # "open"
  BY <1>2 DEF ScanEnds
<1> QED
  BY <1>1, <1>2

LEMMA AwaitedFirst == Init => EndAwaited
  BY DEF Init, EndAwaited

\* A queued end leaves the queue by being executed, or with the window.
LEMMA EndTaken ==
  ASSUME TypesOK, [Next]_vars, EndsQueued
  PROVE  EndsQueued' \/ WindowDestroyed \/ (ExecutesCall /\ Head(queue).call = "finished")
<1>0. FeedOK
  BY DEF TypesOK
<1>1. ASSUME queue' = queue PROVE EndsQueued'
  BY <1>1 DEF EndsQueued
<1>2. ASSUME NEW c \in Call, queue' = Append(queue, c) PROVE EndsQueued'
  <2>1. Range(queue') = Range(queue) \cup {c}
    BY <1>0, <1>2, RangeAppend DEF FeedOK
  <2> QED
    BY <2>1 DEF EndsQueued
<1>3. CASE Engine
  BY <1>1, <1>2, <1>3, CallsAre, EngineAppends
<1>4. CASE ExecutesCall
  <2>1. Range(queue) = Range(queue') \cup {Head(queue)}
    BY <1>0, <1>4, RangeTail DEF ExecutesCall, FeedOK
  <2> QED
    BY <1>4, <2>1 DEF EndsQueued
<1>5. ASSUME NEW s \in Scan, ScanEnds(s) PROVE EndsQueued'
  <2>1. IF phase = "open" THEN EndsQueued' ELSE queue' = queue
    BY <1>0, <1>5, EndPosted
  <2> QED
    BY <1>1, <2>1
<1>6. ASSUME NEW s \in Scan, ScanFinds(s) PROVE queue' = queue
  BY <1>6 DEF ScanFinds, Finds
<1>7. CASE OnClearHistory \/ OnRestoreQuarantine \/ AnswersDelete \/ Console
  BY <1>1, <1>7 DEF OnClearHistory, OnRestoreQuarantine, AnswersDelete, Console
<1>8. CASE UNCHANGED feedVars
  BY <1>1, <1>8 DEF feedVars
<1> QED
  BY <1>1, <1>3, <1>4, <1>5, <1>6, <1>7, <1>8, FeedFrame

\* While the window is open, a running scan leaves only by queueing its end.
LEMMA RunnerStays ==
  ASSUME TypesOK, [Next]_vars, phase = "open", SomeoneRuns
  PROVE  SomeoneRuns' \/ EndsQueued'
<1>0. scan \in [Scan -> ScanRecord] /\ FeedOK
  BY DEF TypesOK, ScansOK
<1>1. PICK s \in Scan : Running(s)
  BY DEF SomeoneRuns
<1>2. scan[s] \in ScanRecord
  BY <1>0
<1>3. CASE ScanEnds(s)
  BY <1>0, <1>3, EndPosted
<1>4. CASE ~ScanEnds(s)
  <2>1. Running(s)'
    <3>1. CASE UNCHANGED scan
      BY <1>1, <3>1 DEF Running
    <3>2. ASSUME NEW o \in Scan, ScanWorks(o) \/ ScanFinds(o) \/ ScanEnds(o) PROVE Running(s)'
      BY <1>0, <1>1, <1>2, <1>4, <3>2 DEF ScanWorks, ScanFinds, ScanEnds, Running, ScanRecord
    <3>3. CASE scan' = [o \in Scan |-> [scan[o] EXCEPT !.cleared = @ \/ Running(o)]]
      <4>1. scan'[s].st = scan[s].st
        BY <1>2, <3>3 DEF ScanRecord
      <4> QED
        BY <1>1, <4>1 DEF Running
    <3>4. ASSUME NEW o \in Scan, NEW kind \in Kind, OnScan(o, kind) PROVE Running(s)'
      <4>1. scan[o].st = "none"
        BY <3>4 DEF OnScan, Unused
      <4>2. o # s
        BY <1>1, <4>1 DEF Running
      <4>3. scan'[s].st = scan[s].st
        BY <1>0, <1>2, <3>4, <4>2 DEF OnScan, ScanRecord
      <4> QED
        BY <1>1, <4>3 DEF Running
    <3>5. \/ UNCHANGED scan
          \/ scan' = [o \in Scan |-> [scan[o] EXCEPT !.cleared = @ \/ Running(o)]]
          \/ \E o \in Scan : ScanWorks(o) \/ ScanFinds(o) \/ ScanEnds(o)
          \/ \E o \in Scan, kind \in Kind : OnScan(o, kind)
      BY ScanFrame DEF ScansStep, scanVars, ExecutesCall, OnClearHistory, OnCancelScan, Console,
                       ConsoleScans, ConsoleRemoves, ConsoleClears
    <3> QED
      BY <3>1, <3>2, <3>3, <3>4, <3>5
  <2> QED
    BY <2>1 DEF SomeoneRuns
<1> QED
  BY <1>3, <1>4

LEMMA AwaitedKept ==
  ASSUME TypesOK, [Next]_vars, EndAwaited
  PROVE  EndAwaited'
<1>0. scan \in [Scan -> ScanRecord]
  BY DEF TypesOK, ScansOK
<1> SUFFICES ASSUME phase' = "open", Busy' PROVE SomeoneRuns' \/ EndsQueued'
  BY DEF EndAwaited, Busy, SomeoneRuns, EndsQueued
<1>a. phase = "open" /\ ~WindowDestroyed
  BY PhaseFrame DEF Quit, WindowDestroyed, Terminates
<1>1. ASSUME Busy, ~(ExecutesCall /\ Head(queue).call = "finished")
      PROVE  SomeoneRuns' \/ EndsQueued'
  <2>1. SomeoneRuns \/ EndsQueued
    BY <1>a, <1>1 DEF EndAwaited, Busy, SomeoneRuns, EndsQueued
  <2> QED
    BY <1>a, <1>1, <2>1, EndTaken, RunnerStays
<1>2. CASE ExecutesCall /\ Head(queue).call = "finished"
  BY <1>2 DEF ExecutesCall, ScanFinished, Busy
<1>3. ASSUME NEW s \in Scan, NEW kind \in Kind, OnScan(s, kind) PROVE SomeoneRuns'
  <2>1. scan'[s].st = "begun"
    BY <1>0, <1>3 DEF OnScan, Idle
  <2> QED
    BY <2>1 DEF SomeoneRuns, Running
<1>4. CASE OnCancelScan
  <2>1. Busy /\ UNCHANGED <<scan, queue>>
    BY <1>4 DEF OnCancelScan, Busy, feedVars
  <2> QED
    BY <1>a, <2>1 DEF EndAwaited, Busy, SomeoneRuns, Running, EndsQueued
<1>5. CASE ScansStep \/ Console \/ UNCHANGED scanVars
  <2>1. UNCHANGED <<buttons, cancel_button, status>>
    BY <1>5 DEF ScansStep, ScanWorks, ScanFinds, ScanEnds, Console, scanVars
  <2> QED
    BY <1>1, <1>2, <2>1 DEF Busy
<1>6. CASE OnClearHistory
  <2>1. UNCHANGED <<buttons, cancel_button>> /\ status' = "cleared"
    BY <1>6 DEF OnClearHistory
  <2> QED
    BY <1>1, <1>2, <2>1 DEF Busy
<1>7. CASE ExecutesCall /\ Head(queue).call # "finished"
  <2>1. UNCHANGED <<buttons, cancel_button>> /\ status' \in {status, "summary"}
    BY <1>7 DEF ExecutesCall, scanVars
  <2> QED
    BY <1>1, <1>7, <2>1 DEF Busy
<1> QED
  BY <1>2, <1>3, <1>4, <1>5, <1>6, <1>7, ScanFrame

-----------------------------------------------------------------------------
(* What is deleted                                                         *)

\* What the rows of the question hold is what the question was about, as long as
\* the table is not refilled under it.
AskedAbout ==
  dialog[1] = "delete" /\ ~reloaded =>
    {table[r] : r \in dialog[2] \cap DOMAIN table} \subseteq asked

LEMMA AskedFirst == Init => AskedAbout /\ DeletedAsAsked
<1>1. Init => dialog = <<"none", {}>> /\ deleted = {}
  BY DEF Init
<1> QED
  BY <1>1 DEF AskedAbout, DeletedAsAsked

LEMMA AskedKept ==
  ASSUME TypesOK, [Next]_vars, AskedAbout, DeletedAsAsked
  PROVE  AskedAbout' /\ DeletedAsAsked'
<1>1. CASE UNCHANGED <<deleteVars, table>>
  BY <1>1 DEF deleteVars, AskedAbout, DeletedAsAsked
<1>2. CASE dialog'[1] # "delete" /\ UNCHANGED <<deleted, reloaded>>
  BY <1>2 DEF AskedAbout, DeletedAsAsked
<1>3. CASE ExecutesCall
  <2>1. UNCHANGED <<dialog, asked, deleted>>
    BY <1>3 DEF ExecutesCall, deleteVars
  <2>2. \/ UNCHANGED <<table, reloaded>>
        \/ reloaded' = (reloaded \/ dialog[1] = "delete")
    BY <1>3 DEF ExecutesCall, AppendDetectionRow, deleteVars, pageVars, TypesOK, DialogOK
  <2>3. reloaded \in BOOLEAN
    BY DEF TypesOK, DialogOK
  <2> QED
    BY <2>1, <2>2, <2>3 DEF AskedAbout, DeletedAsAsked
<1>4. CASE OnRestoreQuarantine
  <2>1. dialog'[1] # "delete" /\ UNCHANGED <<deleted, reloaded>>
    BY <1>4 DEF OnRestoreQuarantine, Concludes
  <2> QED
    BY <1>2, <2>1
<1>5. CASE OnDeleteQuarantine
  <2>1. PICK chosen \in SUBSET (DOMAIN table) :
          dialog' = <<"delete", chosen>> /\ asked' = {table[r] : r \in chosen}
    BY <1>5 DEF OnDeleteQuarantine
  <2>2. UNCHANGED <<table, deleted, reloaded>>
    BY <1>5 DEF OnDeleteQuarantine, pageVars
  <2> QED
    BY <2>1, <2>2 DEF AskedAbout, DeletedAsAsked
<1>6. CASE AnswersDelete
  <2>1. dialog[1] = "delete" /\ UNCHANGED reloaded /\ dialog'[1] # "delete"
    BY <1>6 DEF AnswersDelete, Concludes
  <2>2. CASE UNCHANGED deleted
    BY <1>2, <2>1, <2>2
  <2>3. CASE \E gone \in SUBSET {table[r] : r \in dialog[2] \cap DOMAIN table} :
               deleted' = deleted \cup (gone \ asked)
    <3>1. ~reloaded => deleted' = deleted
      BY <2>1, <2>3 DEF AskedAbout
    <3> QED
      BY <2>1, <3>1 DEF AskedAbout, DeletedAsAsked
  <2> QED
    BY <1>6, <2>2, <2>3 DEF AnswersDelete, IdAt
<1>7. CASE ClosesPartial
  BY <1>2, <1>7 DEF ClosesPartial
<1>8. CASE /\ UNCHANGED deleteVars
           /\ ~(ExecutesCall \/ OnRestoreQuarantine \/ AnswersDelete \/ ClosesPartial)
  <2>1. CASE UNCHANGED table
    BY <1>1, <1>8, <2>1
  <2>2. ASSUME NEW i \in 0..3, GoToPage(i) PROVE dialog'[1] # "delete"
    BY <1>8, <2>2 DEF GoToPage, UserMay, deleteVars
  <2>3. ASSUME NEW s \in Scan, NEW kind \in Kind, OnScan(s, kind) PROVE UNCHANGED table
    BY <2>3 DEF OnScan
  <2>4. OnClearHistory => UNCHANGED table
    BY DEF OnClearHistory
  <2> QED
    BY <1>2, <1>8, <2>1, <2>2, <2>3, <2>4, PageFrame DEF pageVars, deleteVars
<1> QED
  BY <1>3, <1>4, <1>5, <1>6, <1>7, <1>8, DialogFrame

-----------------------------------------------------------------------------
(* What the threads find when the window is gone                           *)

\* Those that may use it afterwards were running, or past their test, when the
\* user left.
Foreseen ==
  /\ phase = "open" => late \subseteq {"deleted button"}
  /\ phase \in {"quitting", "gone"} =>
       /\ \A s \in Scan : Running(s) => "scan" \in unguarded
       /\ ask = "asking" => "investigation" \in unguarded
       /\ card \in {"checked", "orphan checked"} => "card" \in unguarded
       /\ row_ask = "checked" => "table" \in unguarded

LEMMA ForeseenFirst == Init => Foreseen /\ QuitRespected
<1>1. Init => phase = "open" /\ late = {}
  BY DEF Init
<1> QED
  BY <1>1 DEF Foreseen, QuitRespected

\* Once the user has left no scan begins.
LEMMA RunningOn ==
  ASSUME TypesOK, [Next]_vars, phase # "open", NEW s \in Scan, Running(s)'
  PROVE  Running(s)
<1>0. scan \in [Scan -> ScanRecord]
  BY DEF TypesOK, ScansOK
<1>1. CASE UNCHANGED scanVars
  BY <1>1 DEF scanVars, Running
<1>2. ~(ExecutesCall \/ OnClearHistory \/ OnCancelScan \/ Console)
  BY DEF ExecutesCall, OnClearHistory, OnCancelScan, Console, UserMay
<1>3. \A o \in Scan, kind \in Kind : ~OnScan(o, kind)
  BY DEF OnScan, UserMay
<1>4. ASSUME NEW o \in Scan, ScanWorks(o) \/ ScanFinds(o) \/ ScanEnds(o) PROVE Running(s)
  BY <1>0, <1>4 DEF ScanWorks, ScanFinds, ScanEnds, Running, ScanRecord
<1> QED
  BY <1>1, <1>2, <1>3, <1>4, ScanFrame DEF ScansStep

LEMMA ForeseenKept ==
  ASSUME TypesOK, [Next]_vars, Foreseen, QuitRespected
  PROVE  Foreseen' /\ QuitRespected'
<1>0. LookupsOK /\ LifeOK
  BY DEF TypesOK
<1>1. CASE Quit
  <2>1. /\ phase = "open" /\ phase' = "quitting" /\ UNCHANGED <<scan, card, ask, row_ask, late>>
        /\ unguarded' = {"scan" : s \in {o \in Scan : Running(o)}}
                        \cup {"investigation" : a \in {ask} \cap {"asking"}}
                        \cup {"card" : c \in {card} \cap {"checked", "orphan checked"}}
                        \cup {"table" : r \in {row_ask} \cap {"checked"}}
    BY <1>1 DEF Quit, UserMay, scanVars
  <2>2. \A s \in Scan : Running(s)' => "scan" \in unguarded'
    BY <2>1 DEF Running
  <2>3. /\ ask' = "asking" => "investigation" \in unguarded'
        /\ card' \in {"checked", "orphan checked"} => "card" \in unguarded'
        /\ row_ask' = "checked" => "table" \in unguarded'
    BY <2>1
  <2>4. late' \subseteq {"deleted button"}
    BY <2>1 DEF Foreseen
  <2> QED
    BY <2>1, <2>2, <2>3, <2>4 DEF Foreseen, QuitRespected
<1>2. CASE WindowDestroyed
  <2>1. phase = "quitting" /\ phase' = "gone" /\ UNCHANGED <<scan, lookupVars>>
    BY <1>2 DEF WindowDestroyed, scanVars
  <2> QED
    BY <2>1 DEF Foreseen, QuitRespected, lookupVars, Running
<1>3. CASE Lookup /\ Terminates
  <2>1. phase' = "crashed" /\ UNCHANGED lookupVars
    BY <1>3 DEF Terminates
  <2> QED
    BY <2>1 DEF Foreseen, QuitRespected, lookupVars
<1>4. CASE UNCHANGED phase
  <2>a. /\ late' \subseteq late \cup (IF phase = "open" THEN {"deleted button"} ELSE unguarded)
        /\ UNCHANGED unguarded
    <3>1. CASE UNCHANGED lookupVars \/ CardLookup \/ RefreshCards \/ CardAnswered \/ RowLookup
               \/ RowAnswered \/ Investigate
      <4>1. UNCHANGED <<late, unguarded>>
        BY <3>1 DEF lookupVars, CardLookup, RefreshCards, CardAnswered, RowLookup, RowAnswered,
                    Investigate, Terminates
      <4> QED
        BY <4>1
    <3>2. CASE CardShown
      <4>1. /\ card \in {"checked", "orphan checked"} /\ UNCHANGED unguarded /\ phase # "crashed"
            /\ late' = late \cup (IF phase = "gone" THEN {"card"}
                                  ELSE IF card = "orphan checked" /\ phase = "open"
                                  THEN {"deleted button"} ELSE {})
        BY <3>2 DEF CardShown
      <4> QED
        BY <4>1 DEF Foreseen
    <3>3. CASE RowShown
      <4>1. /\ row_ask = "checked" /\ UNCHANGED unguarded
            /\ late' = IF phase = "gone" THEN late \cup {"table"} ELSE late
        BY <3>3 DEF RowShown
      <4> QED
        BY <4>1 DEF Foreseen
    <3>4. CASE Investigated
      <4>1. /\ ask = "asking" /\ UNCHANGED unguarded
            /\ late' = late \/ (phase = "gone" /\ late' = late \cup {"investigation"})
        BY <3>4 DEF Investigated, Terminates, lookupVars
      <4> QED
        BY <4>1 DEF Foreseen
    <3>5. ASSUME NEW s \in Scan, ScanEnds(s)
          PROVE  /\ late' \subseteq late \cup (IF phase = "open" THEN {"deleted button"} ELSE unguarded)
                 /\ UNCHANGED unguarded
      <4>1. /\ Running(s) /\ UNCHANGED unguarded
            /\ late' = IF phase = "gone" THEN late \cup {"scan"} ELSE late
        BY <3>5 DEF ScanEnds, Running
      <4> QED
        BY <4>1 DEF Foreseen
    <3>6. CASE Quit
      BY <1>4, <3>6 DEF Quit, UserMay
    <3> QED
      BY <3>1, <3>2, <3>3, <3>4, <3>5, <3>6, LookupFrame DEF Lookup
  <2>1. CASE phase = "open"
    BY <1>4, <2>a, <2>1 DEF Foreseen, QuitRespected
  <2>2. CASE phase # "open"
    <3>1. /\ ask' = "asking" => ask = "asking"
          /\ card' \in {"checked", "orphan checked"} => card \in {"checked", "orphan checked"}
          /\ row_ask' = "checked" => row_ask = "checked"
      <4>1. ~(CardLookup \/ RefreshCards \/ RowLookup \/ Investigate \/ Quit)
        BY <2>2 DEF CardLookup, RefreshCards, RowLookup, Investigate, Quit, UserMay
      <4>2. CASE UNCHANGED lookupVars \/ \E s \in Scan : ScanEnds(s)
        BY <4>2 DEF lookupVars, ScanEnds
      <4>3. CASE CardAnswered
        BY <2>2, <4>3 DEF CardAnswered, BailsOut, Terminates, lookupVars
      <4>4. CASE CardShown \/ RowShown
        BY <4>4 DEF CardShown, RowShown
      <4>5. CASE RowAnswered
        BY <2>2, <4>5 DEF RowAnswered, BailsOut, Terminates, lookupVars
      <4>6. CASE Investigated
        BY <4>6 DEF Investigated, Terminates, lookupVars
      <4> QED
        BY <4>1, <4>2, <4>3, <4>4, <4>5, <4>6, LookupFrame DEF Lookup
    <3>2. \A s \in Scan : Running(s)' => Running(s)
      BY <2>2, RunningOn
    <3>3. Foreseen'
      BY <1>4, <2>a, <2>2, <3>1, <3>2 DEF Foreseen
    <3>4. QuitRespected'
      BY <2>a, <2>2 DEF QuitRespected
    <3> QED
      BY <3>3, <3>4
  <2> QED
    BY <2>1, <2>2
<1> QED
  BY <1>1, <1>2, <1>3, <1>4, PhaseFrame

-----------------------------------------------------------------------------
(* What the summary of a scan says                                         *)

\* The history has grown by at least what a running scan found, unless it was
\* cleared meanwhile; and only a scan that has ended says anything.
Growth ==
  \A s \in Scan :
    /\ scan[s].before <= HistoryCap
    /\ scan[s].said # "nothing" => scan[s].st = "ended"
    /\ Running(s) /\ ~scan[s].cleared => Len(detections) >= scan[s].before + scan[s].found

LEMMA GrowthFirst == Init => Growth /\ SummaryHonest
<1> SUFFICES ASSUME Init PROVE Growth /\ SummaryHonest
  OBVIOUS
<1>1. scan = [s \in Scan |-> Idle]
  BY DEF Init
<1>2. HistoryCap \in Nat
  BY DashboardAssumption
<1> QED
  BY <1>1, <1>2 DEF Growth, SummaryHonest, Running, Idle

\* Only clearing the history makes it shorter.
LEMMA HistoryGrows ==
  ASSUME TypesOK, [Next]_vars
  PROVE  \/ Len(detections') \in Nat /\ Len(detections') >= Len(detections)
         \/ scan' = [s \in Scan |-> [scan[s] EXCEPT !.cleared = @ \/ Running(s)]]
<1>0. FeedOK /\ Len(detections) \in Nat
  BY LenProperties DEF TypesOK, FeedOK
<1>1. CASE UNCHANGED detections
  BY <1>0, <1>1
<1>2. ASSUME NEW rule \in Stored, InsertDetection(rule)
      PROVE  Len(detections') \in Nat /\ Len(detections') >= Len(detections)
  <2>1. Len(detections') = Len(detections) + 1
    BY <1>0, <1>2, DetectionAdded
  <2> QED
    BY <1>0, <2>1
<1>3. ASSUME NEW t, NEW isFile, Finds(t) \/ Reports(t, isFile) \/ Quarantines(t) \/ EtwReports
      PROVE  Len(detections') \in Nat /\ Len(detections') >= Len(detections)
  <2>1. UNCHANGED detections \/ \E rule \in Stored : InsertDetection(rule)
    BY <1>3 DEF Finds, Reports, Quarantines, Moves, InsertsStatus, ReportsStatus, EtwReports,
                Inserts, tableVars, Stored
  <2> QED
    BY <1>1, <1>2, <2>1, <1>0
<1>4. CASE Engine
  BY <1>3, <1>4 DEF Engine
<1>5. CASE OnClearHistory
  BY <1>5 DEF OnClearHistory
<1>6. CASE Console
  <2>1. CASE ConsoleScans
    BY <1>2, <2>1 DEF ConsoleScans, Stored
  <2>2. CASE ConsoleRemoves
    BY <1>1, <2>2 DEF ConsoleRemoves
  <2>3. CASE ConsoleClears
    BY <2>3 DEF ConsoleClears
  <2> QED
    BY <1>6, <2>1, <2>2, <2>3 DEF Console
<1>7. CASE ExecutesCall \/ OnRestoreQuarantine \/ AnswersDelete \/ WindowDestroyed
  BY <1>1, <1>7 DEF ExecutesCall, OnRestoreQuarantine, AnswersDelete, Concludes, WindowDestroyed,
                    tableVars
<1>8. ASSUME NEW s \in Scan, ScanFinds(s) \/ ScanEnds(s)
      PROVE  Len(detections') \in Nat /\ Len(detections') >= Len(detections)
  <2>1. UNCHANGED detections \/ Finds(s)
    BY <1>8 DEF ScanFinds, ScanEnds, tableVars
  <2> QED
    BY <1>0, <1>3, <2>1
<1>9. CASE UNCHANGED feedVars
  BY <1>1, <1>9 DEF feedVars, tableVars
<1> QED
  BY <1>4, <1>5, <1>6, <1>7, <1>8, <1>9, FeedFrame

\* What happens to a scan while another step is taken: nothing, but that the
\* history may be cleared under it.
GoesOnAsBefore(s) ==
  /\ scan'[s].before = scan[s].before /\ scan'[s].found = scan[s].found
  /\ scan'[s].said = scan[s].said
  /\ scan'[s].st = "ended" <=> scan[s].st = "ended"
  /\ Running(s)' => Running(s)
  /\ scan[s].cleared => scan'[s].cleared

LEMMA OthersGoOn ==
  ASSUME TypesOK, [Next]_vars, NEW s \in Scan,
         ~ScanFinds(s), ~ScanEnds(s), \A kind \in Kind : ~OnScan(s, kind)
  PROVE  GoesOnAsBefore(s)
<1>0. scan \in [Scan -> ScanRecord] /\ scan[s] \in ScanRecord
  BY DEF TypesOK, ScansOK
<1>1. CASE UNCHANGED scan
  BY <1>1 DEF GoesOnAsBefore, Running
<1>2. CASE scan' = [o \in Scan |-> [scan[o] EXCEPT !.cleared = @ \/ Running(o)]]
  <2>1. /\ scan'[s].before = scan[s].before /\ scan'[s].found = scan[s].found
        /\ scan'[s].said = scan[s].said /\ scan'[s].st = scan[s].st
        /\ scan'[s].cleared = (scan[s].cleared \/ Running(s))
    BY <1>0, <1>2 DEF ScanRecord
  <2> QED
    BY <2>1 DEF GoesOnAsBefore, Running
<1>3. CASE OnClearHistory \/ Console
  BY <1>1, <1>2, <1>3 DEF OnClearHistory, Console, ConsoleScans, ConsoleRemoves, ConsoleClears
<1>4. CASE ExecutesCall \/ OnCancelScan \/ UNCHANGED scanVars
  BY <1>1, <1>4 DEF ExecutesCall, OnCancelScan, scanVars
<1>5. ASSUME NEW o \in Scan, ScanWorks(o) \/ ScanFinds(o) \/ ScanEnds(o) PROVE GoesOnAsBefore(s)
  <2>1. CASE o # s
    <3>1. scan'[s] = scan[s]
      BY <1>0, <1>5, <2>1 DEF ScanWorks, ScanFinds, ScanEnds
    <3> QED
      BY <3>1 DEF GoesOnAsBefore, Running
  <2>2. CASE o = s
    <3>1. scan[s].st = "begun" /\ scan' = [scan EXCEPT ![s].st = "working"]
      BY <1>5, <2>2 DEF ScanWorks
    <3>2. /\ scan'[s].before = scan[s].before /\ scan'[s].found = scan[s].found
          /\ scan'[s].said = scan[s].said /\ scan'[s].st = "working"
          /\ scan'[s].cleared = scan[s].cleared
      BY <1>0, <3>1 DEF ScanRecord
    <3> QED
      BY <3>1, <3>2 DEF GoesOnAsBefore, Running
  <2> QED
    BY <2>1, <2>2
<1>6. ASSUME NEW o \in Scan, NEW kind \in Kind, OnScan(o, kind) PROVE GoesOnAsBefore(s)
  <2>1. PICK b : scan'[s] = [scan[s] EXCEPT !.overlapped = b]
    BY <1>6 DEF OnScan
  <2>2. /\ scan'[s].before = scan[s].before /\ scan'[s].found = scan[s].found
        /\ scan'[s].said = scan[s].said /\ scan'[s].st = scan[s].st
        /\ scan'[s].cleared = scan[s].cleared
    BY <1>0, <2>1 DEF ScanRecord
  <2> QED
    BY <2>2 DEF GoesOnAsBefore, Running
<1> QED
  BY <1>3, <1>4, <1>5, <1>6, ScanFrame DEF ScansStep

LEMMA GrowthKept ==
  ASSUME TypesOK, [Next]_vars, Growth, SummaryHonest
  PROVE  Growth' /\ SummaryHonest'
<1>0. FeedOK /\ scan \in [Scan -> ScanRecord] /\ HistoryCap \in Nat /\ Len(detections) \in Nat
  BY DashboardAssumption, LenProperties DEF TypesOK, ScansOK, FeedOK
<1> SUFFICES ASSUME NEW s \in Scan
    PROVE  /\ scan'[s].before <= HistoryCap
           /\ scan'[s].said # "nothing" => scan'[s].st = "ended"
           /\ Running(s)' /\ ~scan'[s].cleared
                => Len(detections') >= scan'[s].before + scan'[s].found
           /\ scan'[s].said = "clean" /\ scan'[s].found > 0
                => scan'[s].cleared \/ scan'[s].before = HistoryCap
  BY DEF Growth, SummaryHonest
<1>a. /\ scan[s] \in ScanRecord /\ scan[s].before \in Nat /\ scan[s].found \in Nat
      /\ scan[s].before <= HistoryCap
      /\ scan[s].said # "nothing" => scan[s].st = "ended"
      /\ Running(s) /\ ~scan[s].cleared => Len(detections) >= scan[s].before + scan[s].found
      /\ scan[s].said = "clean" /\ scan[s].found > 0
           => scan[s].cleared \/ scan[s].before = HistoryCap
  BY <1>0 DEF ScanRecord, Growth, SummaryHonest
<1>1. CASE ScanFinds(s)
  <2>1. Len(detections') = Len(detections) + 1
    BY <1>0, <1>1, DetectionAdded DEF ScanFinds, Finds, Inserts, Stored
  <2>2. /\ scan[s].st = "working"
        /\ scan'[s].before = scan[s].before /\ scan'[s].found = scan[s].found + 1
        /\ scan'[s].said = scan[s].said /\ scan'[s].st = scan[s].st
        /\ scan'[s].cleared = scan[s].cleared
    BY <1>0, <1>1, <1>a DEF ScanFinds, ScanRecord
  <2>3. scan[s].said = "nothing" /\ Running(s)
    BY <1>a, <2>2 DEF Running
  <2> QED
    BY <1>0, <1>a, <2>1, <2>2, <2>3
<1>2. CASE ScanEnds(s)
  <2>1. /\ scan[s].st = "working" /\ scan'[s].st = "ended"
        /\ scan'[s].before = scan[s].before /\ scan'[s].found = scan[s].found
        /\ scan'[s].cleared = scan[s].cleared
    BY <1>0, <1>2, <1>a DEF ScanEnds, ScanRecord
  <2>2. scan'[s].said = "clean" => \/ scan[s].kind = "memory" /\ scan[s].found = 0
                                   \/ ~Grown(scan[s].before)
    BY <1>0, <1>2, <1>a DEF ScanEnds, ScanRecord
  <2>3. Running(s) /\ ~Running(s)'
    BY <2>1 DEF Running
  <2>4. ASSUME ~Grown(scan[s].before), scan[s].found > 0, ~scan[s].cleared
        PROVE  scan[s].before = HistoryCap
    <3>1. /\ HistorySize \in Nat
          /\ HistorySize = IF Len(detections) <= HistoryCap THEN Len(detections) ELSE HistoryCap
      BY <1>0, SizeOfHistory DEF FeedOK
    <3>2. HistorySize <= scan[s].before
      BY <1>a, <2>4, <3>1 DEF Grown
    <3>3. Len(detections) > scan[s].before
      BY <1>0, <1>a, <2>3, <2>4
    <3> QED
      BY <1>0, <1>a, <3>1, <3>2, <3>3
  <2> QED
    BY <1>a, <2>1, <2>2, <2>3, <2>4
<1>3. ASSUME NEW kind \in Kind, OnScan(s, kind)
      PROVE  /\ scan'[s].before <= HistoryCap
             /\ scan'[s].said # "nothing" => scan'[s].st = "ended"
             /\ Running(s)' /\ ~scan'[s].cleared
                  => Len(detections') >= scan'[s].before + scan'[s].found
             /\ scan'[s].said = "clean" /\ scan'[s].found > 0
                  => scan'[s].cleared \/ scan'[s].before = HistoryCap
  <2>1. scan'[s].before = HistorySize /\ scan'[s].found = 0 /\ scan'[s].said = "nothing"
    BY <1>0, <1>3 DEF OnScan, Idle
  <2>2. UNCHANGED detections
    BY <1>3 DEF OnScan, feedVars, tableVars
  <2>3. /\ HistorySize \in Nat /\ HistorySize <= HistoryCap
        /\ HistorySize = IF Len(detections) <= HistoryCap THEN Len(detections) ELSE HistoryCap
    BY <1>0, SizeOfHistory DEF FeedOK
  <2> QED
    BY <1>0, <2>1, <2>2, <2>3
<1>4. CASE ~ScanFinds(s) /\ ~ScanEnds(s) /\ \A kind \in Kind : ~OnScan(s, kind)
  <2>1. GoesOnAsBefore(s)
    BY <1>4, OthersGoOn
  <2>2. \/ Len(detections') \in Nat /\ Len(detections') >= Len(detections)
        \/ Running(s) => scan'[s].cleared
    <3>1. CASE scan' = [o \in Scan |-> [scan[o] EXCEPT !.cleared = @ \/ Running(o)]]
      <4>1. scan'[s].cleared = (scan[s].cleared \/ Running(s))
        BY <1>0, <1>a, <3>1 DEF ScanRecord
      <4> QED
        BY <4>1
    <3> QED
      BY <3>1, HistoryGrows
  <2> QED
    BY <1>0, <1>a, <2>1, <2>2 DEF GoesOnAsBefore
<1> QED
  BY <1>1, <1>2, <1>3, <1>4

-----------------------------------------------------------------------------
(* The inductive invariant                                                 *)

IInv ==
  /\ TypesOK
  /\ HomeTrue /\ TableTrue
  /\ BadgeCounted /\ BadgeCleared
  /\ EveryDetectionShown
  /\ Alone /\ CancelThere /\ EndAwaited
  /\ AskedAbout /\ DeletedAsAsked
  /\ Foreseen /\ QuitRespected
  /\ Growth /\ SummaryHonest

LEMMA First == Init => IInv
  BY TypesFirst, HomeFirst, TableFirst, BadgeFirst, ShownFirst, AloneFirst, AwaitedFirst, AskedFirst,
     ForeseenFirst, GrowthFirst DEF IInv

LEMMA Kept == IInv /\ [Next]_vars => IInv'
  BY TypesKept, HomeKept, TableKept, BadgeKept, ShownKept, AloneKept, AwaitedKept, AskedKept,
     ForeseenKept, GrowthKept DEF IInv

\* Each part of the strengthened invariant holds at the start and is kept by every
\* step of the engine, the window, the user, the scans and the console.
THEOREM Invariance == Spec => []IInv
  BY First, Kept, PTL DEF Spec

\* The pages tell the truth, and do what was asked: the home page and the
\* quarantine page show what the database holds unless a call about the change is
\* on its way, no detection of this process stays unseen, the badge counts rows
\* that are there, a scan that runs alone can be cancelled, buttons that are taken
\* away wait for an end that is still to come, only what was asked about is deleted, and a thread that outlives the window was foreseen when the
\* user left.
THEOREM PagesTrue == Spec => []DashboardInv
<1>1. IInv => DashboardInv
  BY TypesSuffice DEF IInv, DashboardInv
<1> QED
  BY <1>1, Invariance, PTL

\* A scan that found something is not called clean, unless the history was
\* cleared under it or was already as long as what is counted of it
\* (src/src/dashboard_ui/src/main_window.cpp, the slots OnScan...Clicked).
THEOREM SummariesHonest == Spec => []SummaryHonest
<1>1. IInv => SummaryHonest
  BY DEF IInv
<1> QED
  BY <1>1, Invariance, PTL
=============================================================================
