------------------------ MODULE MetricsScrapeProofs ------------------------
(***************************************************************************)
(* Proofs about MetricsScrape for any number of observers: types, the      *)
(* exactness of counters at rest, and the bound on what a page shows.      *)
(***************************************************************************)
EXTENDS MetricsScrape, FiniteSetTheorems, TLAPS

---------------------------------------------------------------------------
(* Types.                                                                  *)

\* An observation bumps counters only.
LEMMA BumpedType ==
    ASSUME NEW l \in Latencies
    PROVE  Bumped(l) \in SUBSET Counters
BY DEF Latencies, Counters, Bumped

LEMMA TypeInit == Init => TypeOK
BY DEF Init, TypeOK, Zero

LEMMA TypeStep == TypeOK /\ [Next]_vars => TypeOK'
<1>. SUFFICES ASSUME TypeOK, [Next]_vars PROVE TypeOK'
  OBVIOUS
<1>. USE DEF TypeOK
<1>1. ASSUME NEW w \in Observers, NEW l \in Latencies, Observe(w, l)
      PROVE  TypeOK'
  <2>1. Bumped(l) \in SUBSET Counters
    BY BumpedType
  <2>2. todo' \in [Writers -> SUBSET Counters]
    BY <1>1, <2>1 DEF Observe
  <2>3. observed' \in [Latencies -> Nat]
    BY <1>1 DEF Observe
  <2>. QED
    BY <1>1, <2>2, <2>3 DEF Observe
<1>2. CASE Send
  <2>1. todo' \in [Writers -> SUBSET Counters]
    BY <1>2 DEF Send, Counters
  <2>2. sends' \in [total : Nat, success : Nat]
    BY <1>2 DEF Send
  <2>. QED
    BY <1>2, <2>1, <2>2 DEF Send
<1>3. ASSUME NEW w \in Writers, Bump(w) PROVE TypeOK'
  BY <1>3 DEF Bump, history
<1>4. CASE ScrapeStarts
  <2>1. IsFiniteSet(Busy)
    BY ScrapeAssumption, FS_Subset, FS_AddElement, FS_EmptySet, FS_Union,
       FS_Singleton DEF Busy, Writers
  <2>. QED
    BY <1>4, <2>1, FS_CardinalityType DEF ScrapeStarts
<1>5. CASE Load
  BY <1>5 DEF Load, history
<1>6. CASE UNCHANGED vars
  BY <1>6 DEF vars, history
<1>. QED
  BY <1>1, <1>2, <1>3, <1>4, <1>5, <1>6 DEF Next

\* Every variable keeps its type: no counter is bumped or loaded that the
\* histogram and the totals do not have.
THEOREM TypeCorrect == Spec => []TypeOK
BY TypeInit, TypeStep, PTL DEF Spec

---------------------------------------------------------------------------
(* Exactness at rest.                                                      *)

\* What a counter comes to when everybody at work has finished.
Due == [total |-> sends.total, success |-> sends.success,
        le5 |-> observed["le5"],
        le10 |-> observed["le5"] + observed["le10"],
        le20 |-> observed["le5"] + observed["le10"] + observed["le20"],
        count |-> observed["le5"] + observed["le10"] + observed["le20"]
                      + observed["over"]]

\* Who still has to bump a counter.
Owing(c) == {w \in Writers : c \in todo[w]}

\* Each counter lacks one for each writer that still has to bump it.
CountInv == \A c \in Counters : value[c] + Cardinality(Owing(c)) = Due[c]

LEMMA WritersFinite ==
    /\ IsFiniteSet(Writers)
    /\ \A S \in SUBSET Writers : IsFiniteSet(S) /\ Cardinality(S) \in Nat
<1>1. IsFiniteSet(Writers)
  BY ScrapeAssumption, FS_Union, FS_Singleton DEF Writers
<1>. QED
  BY <1>1, FS_Subset, FS_CardinalityType

LEMMA DueType == TypeOK => Due \in [Counters -> Nat]
BY DEF TypeOK, Due, Counters, Latencies

LEMMA CountInit == Init => CountInv
<1>. SUFFICES ASSUME Init, NEW c \in Counters
              PROVE  value[c] + Cardinality(Owing(c)) = Due[c]
  BY DEF CountInv
<1>1. Owing(c) = {}
  BY DEF Init, Owing
<1>2. Cardinality(Owing(c)) = 0
  BY <1>1, FS_EmptySet
<1>3. value[c] = 0 /\ Due[c] = 0
  BY DEF Init, Zero, Due, Counters, Latencies
<1>. QED
  BY <1>2, <1>3

\* A writer at rest that sets out to bump some counters owes these.
LEMMA OwingGrows ==
    ASSUME TypeOK, NEW w \in Writers, todo[w] = {}, NEW B \in SUBSET Counters,
           todo' = [todo EXCEPT ![w] = B], NEW c \in Counters
    PROVE  Cardinality(Owing(c)') =
               Cardinality(Owing(c)) + IF c \in B THEN 1 ELSE 0
<1>1. Owing(c)' = IF c \in B THEN Owing(c) \cup {w} ELSE Owing(c)
  BY DEF TypeOK, Owing
<1>2. w \notin Owing(c) /\ Owing(c) \in SUBSET Writers
  BY DEF Owing
<1>3. IsFiniteSet(Owing(c)) /\ Cardinality(Owing(c)) \in Nat
  BY <1>2, WritersFinite
<1>4. Cardinality(Owing(c) \cup {w}) = Cardinality(Owing(c)) + 1
  BY <1>2, <1>3, FS_AddElement
<1>. QED
  BY <1>1, <1>3, <1>4

\* One that bumps a counter owes it no more.
LEMMA OwingShrinks ==
    ASSUME TypeOK, NEW w \in Writers, NEW d \in todo[w],
           todo' = [todo EXCEPT ![w] = @ \ {d}], NEW c \in Counters
    PROVE  Cardinality(Owing(c)) =
               Cardinality(Owing(c)') + IF c = d THEN 1 ELSE 0
<1>1. Owing(c)' = IF c = d THEN Owing(c) \ {w} ELSE Owing(c)
  BY DEF TypeOK, Owing
<1>2. Owing(c) \in SUBSET Writers /\ (c = d => w \in Owing(c))
  BY DEF Owing
<1>3. IsFiniteSet(Owing(c)) /\ Cardinality(Owing(c)) \in Nat
  BY <1>2, WritersFinite
<1>4. c = d => Cardinality(Owing(c) \ {w}) = Cardinality(Owing(c)) - 1
  BY <1>2, <1>3, FS_RemoveElement
<1>. QED
  BY <1>1, <1>3, <1>4

\* An observation raises what is due of the counters that it bumps, by one.
LEMMA ObserveDue ==
    ASSUME TypeOK, NEW w \in Observers, NEW l \in Latencies, Observe(w, l),
           NEW c \in Counters
    PROVE  Due[c]' = Due[c] + IF c \in Bumped(l) THEN 1 ELSE 0
<1>1. /\ observed' = [observed EXCEPT ![l] = @ + 1] /\ sends' = sends
      /\ observed \in [Latencies -> Nat]
  BY DEF Observe, TypeOK
<1>2. CASE l = "le5"
  BY <1>1, <1>2 DEF Due, Latencies, Counters, Bumped, TypeOK
<1>3. CASE l = "le10"
  BY <1>1, <1>3 DEF Due, Latencies, Counters, Bumped, TypeOK
<1>4. CASE l = "le20"
  BY <1>1, <1>4 DEF Due, Latencies, Counters, Bumped, TypeOK
<1>5. CASE l = "over"
  BY <1>1, <1>5 DEF Due, Latencies, Counters, Bumped, TypeOK
<1>. QED
  BY <1>2, <1>3, <1>4, <1>5 DEF Latencies

\* Sets out: a step in which a writer begins an observation or a send, after
\* which it owes B and B is due.
SetsOut(w, B) ==
    /\ todo[w] = {} /\ todo' = [todo EXCEPT ![w] = B]
    /\ \A c \in Counters : Due[c]' = Due[c] + IF c \in B THEN 1 ELSE 0
    /\ value' = value /\ toLoad' = toLoad /\ shown' = shown
    /\ overlap' = overlap + IF Scraping THEN 1 ELSE 0

LEMMA ObserveSetsOut ==
    ASSUME TypeOK, NEW w \in Observers, NEW l \in Latencies, Observe(w, l)
    PROVE  \E v \in Writers, B \in SUBSET Counters : SetsOut(v, B)
<1>1. w \in Writers /\ Bumped(l) \in SUBSET Counters
  BY BumpedType DEF Writers
<1>2. SetsOut(w, Bumped(l))
  BY ObserveDue DEF Observe, SetsOut
<1>. QED
  BY <1>1, <1>2

LEMMA SendSetsOut ==
    ASSUME TypeOK, Send
    PROVE  \E v \in Writers, B \in SUBSET Counters : SetsOut(v, B)
<1>1. PICK sent \in BOOLEAN :
          /\ todo' = [todo EXCEPT ![Dispatcher] =
                          IF sent THEN {"total", "success"} ELSE {"total"}]
          /\ sends' = [total |-> sends.total + 1,
                       success |-> sends.success + IF sent THEN 1 ELSE 0]
  BY DEF Send
<1>. DEFINE B == IF sent THEN {"total", "success"} ELSE {"total"}
<1>2. Dispatcher \in Writers /\ B \in SUBSET Counters
  BY DEF Writers, Counters
<1>3. \A c \in Counters : Due[c]' = Due[c] + IF c \in B THEN 1 ELSE 0
  BY <1>1 DEF Send, Due, Counters, TypeOK, Latencies
<1>4. SetsOut(Dispatcher, B)
  BY <1>1, <1>3 DEF Send, SetsOut
<1>. QED
  BY <1>2, <1>4

LEMMA CountStep == TypeOK /\ CountInv /\ [Next]_vars => CountInv'
<1>. SUFFICES ASSUME TypeOK, CountInv, [Next]_vars PROVE CountInv'
  OBVIOUS
<1>0. value \in [Counters -> Nat]
  BY DEF TypeOK
<1>t. \A c \in Counters : Cardinality(Owing(c)) \in Nat /\ Due[c] \in Nat
  BY WritersFinite, DueType DEF Owing
<1>1. ASSUME NEW w \in Writers, NEW B \in SUBSET Counters, SetsOut(w, B)
      PROVE  CountInv'
  <2>. SUFFICES ASSUME NEW c \in Counters
                PROVE  (value[c] + Cardinality(Owing(c)) = Due[c])'
    BY DEF CountInv
  <2>1. Cardinality(Owing(c)') = Cardinality(Owing(c)) + IF c \in B THEN 1 ELSE 0
    BY <1>1, OwingGrows DEF SetsOut
  <2>2. value'[c] = value[c] /\ Due[c]' = Due[c] + IF c \in B THEN 1 ELSE 0
    BY <1>1 DEF SetsOut
  <2>3. value[c] + Cardinality(Owing(c)) = Due[c]
    BY DEF CountInv
  <2>. QED
    BY <1>0, <1>t, <2>1, <2>2, <2>3
<1>2. ASSUME NEW w \in Writers, Bump(w) PROVE CountInv'
  <2>. SUFFICES ASSUME NEW c \in Counters
                PROVE  (value[c] + Cardinality(Owing(c)) = Due[c])'
    BY DEF CountInv
  <2>1. PICK d \in todo[w] : /\ value' = [value EXCEPT ![d] = @ + 1]
                             /\ todo' = [todo EXCEPT ![w] = @ \ {d}]
    BY <1>2 DEF Bump
  <2>2. Cardinality(Owing(c)) = Cardinality(Owing(c)') + IF c = d THEN 1 ELSE 0
    BY <2>1, OwingShrinks
  <2>3. Cardinality(Owing(c)') \in Nat
    BY WritersFinite DEF Owing
  <2>4. value'[c] = value[c] + IF c = d THEN 1 ELSE 0
    BY <2>1, <1>0 DEF TypeOK
  <2>5. Due[c]' = Due[c]
    BY <1>2 DEF Bump, history, Due
  <2>6. value[c] + Cardinality(Owing(c)) = Due[c]
    BY DEF CountInv
  <2>. QED
    BY <1>0, <1>t, <2>2, <2>3, <2>4, <2>5, <2>6
<1>3. CASE UNCHANGED <<value, todo, observed, sends>>
  BY <1>3 DEF CountInv, Owing, Due
<1>4. ASSUME NEW w \in Observers, NEW l \in Latencies, Observe(w, l)
      PROVE  CountInv'
  BY <1>1, <1>4, ObserveSetsOut
<1>5. CASE Send
  BY <1>1, <1>5, SendSetsOut
<1>6. CASE ScrapeStarts \/ Load \/ UNCHANGED vars
  BY <1>3, <1>6 DEF ScrapeStarts, Load, vars, history
<1>. QED
  BY <1>2, <1>4, <1>5, <1>6 DEF Next

\* Nobody at work owes anything.
LEMMA CountImplies == TypeOK /\ CountInv => SettledExact
<1>. SUFFICES ASSUME TypeOK, CountInv, Busy = {}
              PROVE  /\ value["le5"] = observed["le5"]
                     /\ value["le10"] = value["le5"] + observed["le10"]
                     /\ value["le20"] = value["le10"] + observed["le20"]
                     /\ value["count"] = value["le20"] + observed["over"]
                     /\ value["total"] = sends.total
                     /\ value["success"] = sends.success
  BY DEF SettledExact
<1>1. \A c \in Counters : Owing(c) = {}
  BY DEF Busy, Owing
<1>2. ASSUME NEW c \in Counters PROVE value[c] = Due[c]
  <2>1. Cardinality(Owing(c)) = 0
    BY <1>1, FS_EmptySet
  <2>2. value[c] + Cardinality(Owing(c)) = Due[c] /\ value[c] \in Nat
    BY DEF CountInv, TypeOK
  <2>. QED
    BY <2>1, <2>2
<1>. QED
  BY <1>2 DEF Due, Counters, Latencies, TypeOK

\* At rest the histogram is the cumulative one of what was observed and the
\* totals are those of the sends, for any number of observers.
THEOREM CountersSettle == Spec => []SettledExact
<1>1. Init => TypeOK /\ CountInv
  BY TypeInit, CountInit
<1>2. TypeOK /\ CountInv /\ [Next]_vars => (TypeOK /\ CountInv)'
  BY TypeStep, CountStep
<1>. QED
  BY <1>1, <1>2, CountImplies, PTL DEF Spec

---------------------------------------------------------------------------
(* The page.                                                               *)

\* What the page has, or will at least have, of a counter.
OnPage(c) == IF c \in toLoad THEN value[c] ELSE shown[c]

\* During a scrape a counter is shown with no more than is due, and lacks no
\* more than the writers that were at work since it began.
PageInv ==
    /\ sends.success <= sends.total
    /\ Scraping => \A c \in Counters :
          OnPage(c) <= Due[c] /\ Due[c] <= OnPage(c) + overlap
    /\ SkewBound

LEMMA PageInit == Init => PageInv
BY DEF Init, Zero, PageInv, SkewBound, Scraping, Counters

\* A page all of whose counters are within n of cumulative numbers is within n
\* of a cumulative one.
LEMMA PageComplete ==
    ASSUME NEW page \in [Counters -> Nat], NEW due \in [Counters -> Nat],
           NEW n \in Nat,
           due["le5"] <= due["le10"], due["le10"] <= due["le20"],
           due["le20"] <= due["count"], due["success"] <= due["total"],
           \A c \in Counters : page[c] <= due[c] /\ due[c] <= page[c] + n
    PROVE  /\ page["le5"] <= page["le10"] + n /\ page["le10"] <= page["le20"] + n
           /\ page["le20"] <= page["count"] + n
           /\ page["success"] <= page["total"] + n
<1>1. /\ page["le5"] <= due["le5"] /\ due["le10"] <= page["le10"] + n
      /\ page["le10"] <= due["le10"] /\ due["le20"] <= page["le20"] + n
      /\ page["le20"] <= due["le20"] /\ due["count"] <= page["count"] + n
      /\ page["success"] <= due["success"] /\ due["total"] <= page["total"] + n
  BY DEF Counters
<1>2. \A c \in Counters : page[c] \in Nat /\ due[c] \in Nat
  OBVIOUS
<1>. QED
  BY <1>1, <1>2 DEF Counters

\* Counters only grow towards what is due, and each lacks at most one for each
\* writer at work.
LEMMA LackIsBusy ==
    ASSUME TypeOK, CountInv, NEW c \in Counters
    PROVE  value[c] <= Due[c] /\ Due[c] <= value[c] + Cardinality(Busy)
<1>1. Owing(c) \in SUBSET Busy /\ Busy \in SUBSET Writers
  BY DEF Owing, Busy
<1>2. /\ IsFiniteSet(Busy) /\ Cardinality(Busy) \in Nat
      /\ Cardinality(Owing(c)) \in Nat
  BY <1>1, WritersFinite
<1>3. Cardinality(Owing(c)) <= Cardinality(Busy)
  BY <1>1, <1>2, FS_Subset
<1>4. value[c] + Cardinality(Owing(c)) = Due[c] /\ value[c] \in Nat
  BY DEF CountInv, TypeOK
<1>. QED
  BY <1>2, <1>3, <1>4

LEMMA PageStep == TypeOK /\ CountInv /\ PageInv /\ [Next]_vars => PageInv'
<1>. SUFFICES ASSUME TypeOK, CountInv, PageInv, [Next]_vars PROVE PageInv'
  OBVIOUS
<1>0. TypeOK' /\ CountInv'
  BY TypeStep, CountStep
<1>t. /\ value \in [Counters -> Nat] /\ shown \in [Counters -> Nat]
      /\ overlap \in Nat /\ Due \in [Counters -> Nat]
  BY DueType DEF TypeOK
<1>p. /\ value' \in [Counters -> Nat] /\ shown' \in [Counters -> Nat]
      /\ overlap' \in Nat /\ Due' \in [Counters -> Nat]
  <2>1. TypeOK' => Due' \in [Counters -> Nat]
    BY DEF TypeOK, Due, Counters, Latencies
  <2>. QED
    BY <1>0, <2>1 DEF TypeOK
<1>1. (sends.success <= sends.total)'
  <2>1. CASE Send
    BY <2>1 DEF Send, PageInv, TypeOK
  <2>2. CASE sends' = sends
    BY <2>2 DEF PageInv
  <2>. QED
    BY <2>1, <2>2 DEF Next, Observe, Bump, ScrapeStarts, Load, history, vars
<1>2. ASSUME NEW w \in Writers, NEW B \in SUBSET Counters, SetsOut(w, B)
      PROVE  PageInv'
  <2>1. ASSUME Scraping, NEW c \in Counters
        PROVE  (OnPage(c) <= Due[c] /\ Due[c] <= OnPage(c) + overlap)'
    <3>1. OnPage(c) <= Due[c] /\ Due[c] <= OnPage(c) + overlap
      BY <2>1 DEF PageInv
    <3>2. OnPage(c)' = OnPage(c) /\ OnPage(c) \in Nat
      BY <1>2, <1>t DEF SetsOut, OnPage
    <3>3. overlap' = overlap + 1
      BY <1>2, <2>1 DEF SetsOut
    <3>4. Due[c]' = Due[c] + IF c \in B THEN 1 ELSE 0
      BY <1>2 DEF SetsOut
    <3>. QED
      BY <3>1, <3>2, <3>3, <3>4, <1>t
  <2>2. Scraping' = Scraping /\ (Scraping \/ overlap' = overlap)
    BY <1>2, <1>t DEF SetsOut, Scraping
  <2>3. SkewBound'
    BY <1>2, <2>2 DEF SetsOut, SkewBound, PageInv
  <2>. QED
    BY <1>1, <2>1, <2>2, <2>3 DEF PageInv
<1>3. ASSUME NEW w \in Writers, Bump(w) PROVE PageInv'
  <2>1. /\ toLoad' = toLoad /\ shown' = shown /\ overlap' = overlap
        /\ Scraping' = Scraping /\ Due' = Due
    BY <1>3 DEF Bump, history, Scraping, Due
  <2>2. ASSUME Scraping, NEW c \in Counters
        PROVE  (OnPage(c) <= Due[c] /\ Due[c] <= OnPage(c) + overlap)'
    <3>1. OnPage(c) <= Due[c] /\ Due[c] <= OnPage(c) + overlap
      BY <2>2 DEF PageInv
    <3>2. value[c] <= value'[c]
      BY <1>3, <1>t DEF Bump, TypeOK
    <3>3. value'[c] <= Due'[c]
      <4>1. value'[c] + Cardinality(Owing(c)') = Due'[c]
        BY <1>0 DEF CountInv
      <4>2. Cardinality(Owing(c)') \in Nat
        BY WritersFinite DEF Owing
      <4>. QED
        BY <4>1, <4>2, <1>p
    <3>. QED
      BY <3>1, <3>2, <3>3, <2>1, <1>t, <1>p DEF OnPage
  <2>3. SkewBound'
    BY <2>1 DEF SkewBound, PageInv
  <2>. QED
    BY <1>1, <2>1, <2>2, <2>3 DEF PageInv
<1>4. CASE ScrapeStarts
  <2>1. /\ toLoad' = Counters /\ value' = value /\ overlap' = Cardinality(Busy)
        /\ Due' = Due /\ Scraping'
    BY <1>4 DEF ScrapeStarts, Due, Scraping, Counters
  <2>2. ASSUME NEW c \in Counters
        PROVE  (OnPage(c) <= Due[c] /\ Due[c] <= OnPage(c) + overlap)'
    BY <2>1, LackIsBusy DEF OnPage
  <2>. QED
    BY <1>1, <2>1, <2>2 DEF PageInv, SkewBound
<1>5. CASE Load
  <2>1. PICK d \in toLoad : /\ shown' = [shown EXCEPT ![d] = value[d]]
                            /\ toLoad' = toLoad \ {d}
    BY <1>5 DEF Load
  <2>2. /\ Scraping /\ value' = value /\ overlap' = overlap /\ Due' = Due
        /\ sends' = sends
    BY <1>5, <2>1 DEF Load, history, Scraping, Due
  <2>3. ASSUME NEW c \in Counters
        PROVE  (OnPage(c) <= Due[c] /\ Due[c] <= OnPage(c) + overlap)'
    <3>1. OnPage(c) <= Due[c] /\ Due[c] <= OnPage(c) + overlap
      BY <2>2 DEF PageInv
    <3>2. OnPage(c)' = OnPage(c)
      BY <2>1, <2>2, <1>t DEF OnPage
    <3>. QED
      BY <3>1, <3>2, <2>2
  <2>4. SkewBound'
    <3>1. CASE toLoad' # {}
      BY <3>1 DEF SkewBound, Scraping
    <3>2. CASE toLoad' = {}
      <4>1. \A c \in Counters :
                shown'[c] <= Due'[c] /\ Due'[c] <= shown'[c] + overlap'
        BY <2>3, <3>2 DEF OnPage
      <4>2. /\ Due'["le5"] <= Due'["le10"] /\ Due'["le10"] <= Due'["le20"]
            /\ Due'["le20"] <= Due'["count"] /\ Due'["success"] <= Due'["total"]
        BY <1>0, <1>1 DEF Due, TypeOK, Latencies
      <4>. QED
        BY <1>p, <4>1, <4>2, PageComplete DEF SkewBound
    <3>. QED
      BY <3>1, <3>2
  <2>. QED
    BY <1>1, <2>3, <2>4 DEF PageInv
<1>6. CASE UNCHANGED vars
  BY <1>6 DEF vars, history, PageInv, SkewBound, Scraping, OnPage, Due
<1>7. ASSUME NEW w \in Observers, NEW l \in Latencies, Observe(w, l)
      PROVE  PageInv'
  BY <1>2, <1>7, ObserveSetsOut
<1>8. CASE Send
  BY <1>2, <1>8, SendSetsOut
<1>. QED
  BY <1>3, <1>4, <1>5, <1>6, <1>7, <1>8 DEF Next

\* A finished page is off from a cumulative histogram, and its successes from
\* its total, by no more than the writers that were at work during the scrape,
\* for any number of observers.
THEOREM PageSkewBounded == Spec => []SkewBound
<1>1. Init => TypeOK /\ CountInv /\ PageInv
  BY TypeInit, CountInit, PageInit
<1>2. TypeOK /\ CountInv /\ PageInv /\ [Next]_vars
          => (TypeOK /\ CountInv /\ PageInv)'
  BY TypeStep, CountStep, PageStep
<1>3. PageInv => SkewBound
  BY DEF PageInv
<1>. QED
  BY <1>1, <1>2, <1>3, PTL DEF Spec
=============================================================================
