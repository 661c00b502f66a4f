-------------------------- MODULE RetentionProofs --------------------------
(***************************************************************************)
(* Theorems about Retention, however many flushes and restarts there are   *)
(* and however far the clock runs.                                         *)
(***************************************************************************)
EXTENDS Retention, SetLemmas, TLAPS

-----------------------------------------------------------------------------
(* The invariant.                                                          *)

\* The states of a sweep that has ensured its range.
Past == {"list", "set", "drop", "reset"}

\* The day on which a sweep has begun, while it needs its cutoff.
Begun(s) == cutoff[s] + RetentionDays

Half == \A d \in {today, today + 1} : d \in known
Full == \A d \in today..today + LOOKAHEAD_DAYS : d \in known

\* What a sweep works on has expired, and stays expired.
CutoffInv ==
  /\ \A s \in Sweeps : pc[s] \in {"create", "list"} => cutoff[s] <= today - RetentionDays
  /\ \A s \in Sweeps : pc[s] \in {"set", "drop", "reset"} => day[s] < today - RetentionDays
  /\ \A s \in Sweeps : \A d \in todo[s] : d < today - RetentionDays

\* A day wrongly in the cache was refused or has just been dropped.
KnownInv ==
  /\ connected => \A d \in known \ catalog :
       d \in refused \/ \E s \in Sweeps : pc[s] = "reset" /\ day[s] = d /\ dropped[s] = TRUE
  /\ \A d \in catalog : d >= today - RetentionDays => d \in known

\* A sweep caches its range from the day it began; when midnight has passed since, an
\* earlier sweep has cached what is missing.
RangeInv ==
  \A s \in Sweeps : pc[s] = "create" =>
    /\ last[s] = Begun(s) + LOOKAHEAD_DAYS
    /\ \A d \in Begun(s)..day[s] - 1 : d >= today => d \in known
    /\ Begun(s) < today - 1 => Half
    /\ sweptToday = TRUE /\ Begun(s) < today => Full

Ensured == ready = TRUE \/ \E s \in Sweeps : pc[s] \in Past

AheadInv == Ensured => Half /\ (sweptToday = TRUE => Full)

Inv == TypeOK /\ CutoffInv /\ KnownInv /\ RangeInv /\ AheadInv

-----------------------------------------------------------------------------
(* What the steps of tasks have in common.                                 *)

LEMMA Constants ==
  /\ RetentionDays \in Nat /\ RetentionDays > 0
  /\ FirstToday \in Nat /\ LastToday \in Nat
  /\ RetentionDays < FirstToday /\ FirstToday <= LastToday
  /\ LOOKAHEAD_DAYS = 2
  /\ 0 \in Days /\ Days \subseteq Nat
  /\ \A d \in Flushes : d \notin Sweeps
BY RetentionAssumption DEF Days, LOOKAHEAD_DAYS, Sweeps

\* What ensureRange(from, to) leaves behind: the state w its task is in, the day dd it
\* creates a partition for and the last one, ll.
EnsureEffect(t, from, to, k, w, dd, ll) ==
  /\ pc' = [pc EXCEPT ![t] = w]
  /\ day' = [day EXCEPT ![t] = dd]
  /\ last' = [last EXCEPT ![t] = ll]
  /\ ddl' \in Seq(Tasks)
  /\ t \in Sweeps => w # "copying"
  /\ w = "create" => ll = to /\ \A d \in from..dd - 1 : d \in k
  /\ w # "create" => \A d \in from..to : d \in k
  /\ sweptToday' \in BOOLEAN
  /\ sweptToday' = TRUE =>
       \/ sweptToday = TRUE
       \/ t \in Sweeps /\ w # "create" /\ cutoff'[t] = today - RetentionDays

LEMMA EnsureFromDoes ==
  ASSUME TypeOK, NEW t \in Tasks, NEW from \in Nat, NEW to \in Days, NEW k,
         NEW q \in Seq(Tasks), EnsureFrom(t, from, to, k, q)
  PROVE  \E w \in {"create", "list", "copying"}, dd \in Days, ll \in Days :
           EnsureEffect(t, from, to, k, w, dd, ll)
<1> DEFINE missing == {d \in from..to : d \notin k}
<1>1. missing \in SUBSET Nat /\ \A d \in missing : d \in Days
  BY Constants DEF Days
<1>2. CASE missing = {}
  <2>1. day' = [day EXCEPT ![t] = 0] /\ last' = [last EXCEPT ![t] = 0]
    BY <1>2 DEF EnsureFrom
  <2>2. /\ sweptToday' \in BOOLEAN
        /\ sweptToday' = TRUE =>
             sweptToday = TRUE \/ (t \in Sweeps /\ cutoff'[t] = today - RetentionDays)
    <3>1. sweptToday' = (sweptToday \/ (t \in Sweeps /\ missing = {}
                                       /\ cutoff'[t] = today - RetentionDays))
      BY DEF EnsureFrom
    <3>2. sweptToday \in BOOLEAN
      BY DEF TypeOK
    <3> HIDE DEF missing
    <3> QED BY <3>1, <3>2, Zenon
  <2>3. \A d \in from..to : d \in k
    BY <1>2
  <2>4. CASE t \in Sweeps
    <3>1. pc' = [pc EXCEPT ![t] = "list"] /\ ddl' = Append(q, t)
      BY <1>2, <2>4 DEF EnsureFrom, Send
    <3>2. ddl' \in Seq(Tasks)
      BY <3>1
    <3> QED BY <2>1, <2>2, <2>3, <2>4, <3>1, <3>2, Constants, Zenon DEF EnsureEffect
  <2>5. CASE t \notin Sweeps
    <3>1. pc' = [pc EXCEPT ![t] = "copying"] /\ ddl' = q
      BY <1>2, <2>5 DEF EnsureFrom
    <3> QED BY <2>1, <2>2, <2>3, <2>5, <3>1, Constants, Zenon DEF EnsureEffect
  <2> QED BY <2>4, <2>5
<1>3. CASE missing # {}
  <2>1. Min(missing) \in missing /\ \A d \in missing : Min(missing) <= d
    BY <1>1, <1>3, MinIsLeast
  <2>2. /\ day' = [day EXCEPT ![t] = Min(missing)] /\ last' = [last EXCEPT ![t] = to]
        /\ pc' = [pc EXCEPT ![t] = "create"] /\ ddl' = Append(q, t)
    BY <1>3 DEF EnsureFrom, Send
  <2>3. sweptToday' = sweptToday
    <3>1. sweptToday' = (sweptToday \/ (t \in Sweeps /\ missing = {}
                                       /\ cutoff'[t] = today - RetentionDays))
      BY DEF EnsureFrom
    <3>2. sweptToday \in BOOLEAN
      BY DEF TypeOK
    <3> HIDE DEF missing
    <3> QED BY <3>1, <3>2, <1>3, Zenon
  <2>4. ddl' \in Seq(Tasks)
    BY <2>2
  <2>5. \A d \in from..Min(missing) - 1 : d \in k
    <3>1. Min(missing) \in from..to
      BY <2>1
    <3> HIDE DEF missing
    <3>2. PICK m \in from..to : m = Min(missing)
      BY <3>1
    <3>3. to \in Int
      BY DEF Days
    <3>4. \A d \in from..m - 1 : d \in from..to /\ ~(m <= d)
      BY <3>3
    <3>5. \A d \in from..m - 1 : d \notin missing
      BY <2>1, <3>2, <3>4
    <3> QED BY <3>2, <3>4, <3>5 DEF missing
  <2>6. Min(missing) \in Days
    BY <1>1, <2>1
  <2>7. sweptToday \in BOOLEAN
    BY DEF TypeOK
  <2> HIDE DEF missing
  <2> QED BY <2>2, <2>3, <2>4, <2>5, <2>6, <2>7, Zenon DEF EnsureEffect
<1> QED BY <1>2, <1>3

\* What the loop of dropOlderThan() leaves behind.
DropEffect(s, days, w, dd, left) ==
  /\ pc' = [pc EXCEPT ![s] = w]
  /\ day' = [day EXCEPT ![s] = dd]
  /\ todo' = [todo EXCEPT ![s] = left]
  /\ ddl' \in Seq(Tasks)
  /\ w = "set" => dd \in days
  /\ running' \in BOOLEAN /\ swept' \in BOOLEAN /\ ready' \in BOOLEAN

LEMMA NextDropDoes ==
  ASSUME TypeOK, NEW s \in Sweeps, NEW days \in SUBSET Days, NEW q \in Seq(Tasks),
         NextDrop(s, days, q)
  PROVE  \E w \in {"set", "idle"}, dd \in Days, left \in SUBSET days :
           DropEffect(s, days, w, dd, left)
<1>1. ASSUME NEW d \in days, todo' = [todo EXCEPT ![s] = days \ {d}],
             day' = [day EXCEPT ![s] = d], Send(s, q, "set"), UNCHANGED bootVars
      PROVE  \E w \in {"set", "idle"}, dd \in Days, left \in SUBSET days :
           DropEffect(s, days, w, dd, left)
  <2>1. pc' = [pc EXCEPT ![s] = "set"] /\ ddl' = Append(q, s)
    BY <1>1 DEF Send
  <2>2. ddl' \in Seq(Tasks)
    BY <2>1 DEF Tasks
  <2>3. running' \in BOOLEAN /\ swept' \in BOOLEAN /\ ready' \in BOOLEAN
    BY <1>1 DEF bootVars, TypeOK
  <2>4. days \ {d} \in SUBSET days /\ d \in Days
    OBVIOUS
  <2> QED BY <1>1, <2>1, <2>2, <2>3, <2>4, Zenon DEF DropEffect
<1>2. ASSUME days = {}, todo' = [todo EXCEPT ![s] = {}], pc' = [pc EXCEPT ![s] = "idle"],
             ddl' = q, running' = FALSE, swept' = TRUE, ready' = (ready \/ s = "timer"),
             day' = [day EXCEPT ![s] = 0]
      PROVE  \E w \in {"set", "idle"}, dd \in Days, left \in SUBSET days :
           DropEffect(s, days, w, dd, left)
  <2>1. ready' \in BOOLEAN
    BY <1>2
  <2>2. {} \in SUBSET days /\ 0 \in Days
    BY Constants
  <2> QED BY <1>2, <2>1, <2>2, Zenon DEF DropEffect
<1> QED BY <1>1, <1>2 DEF NextDrop

-----------------------------------------------------------------------------
(* Steps that leave parts of the invariant alone.                          *)

LEMMA CutoffFrame ==
  ASSUME TypeOK, CutoffInv, NEW t \in Tasks, NEW w, NEW dd \in Days, today' = today,
         pc' = [pc EXCEPT ![t] = w], day' = [day EXCEPT ![t] = dd],
         \A s \in Sweeps : s # t => cutoff'[s] = cutoff[s] /\ todo'[s] = todo[s],
         t \in Sweeps =>
           /\ w \in {"create", "list"} => cutoff'[t] <= today - RetentionDays
           /\ w \in {"set", "drop", "reset"} => dd < today - RetentionDays
           /\ \A d \in todo'[t] : d < today - RetentionDays
  PROVE  CutoffInv'
<1>1. \A s \in Sweeps : s \in Tasks
  BY DEF Tasks
<1>2. \A s \in Sweeps : s # t => pc'[s] = pc[s] /\ day'[s] = day[s]
  BY <1>1 DEF TypeOK
<1>3. pc'[t] = w /\ day'[t] = dd
  BY DEF TypeOK
<1>4. ASSUME NEW s \in Sweeps, pc'[s] \in {"create", "list"}
      PROVE  cutoff'[s] <= today' - RetentionDays
  BY <1>2, <1>3, <1>4 DEF CutoffInv
<1>5. ASSUME NEW s \in Sweeps, pc'[s] \in {"set", "drop", "reset"}
      PROVE  day'[s] < today' - RetentionDays
  BY <1>2, <1>3, <1>5 DEF CutoffInv
<1>6. ASSUME NEW s \in Sweeps, NEW d \in todo'[s]
      PROVE  d < today' - RetentionDays
  BY <1>6 DEF CutoffInv
<1> QED BY <1>4, <1>5, <1>6 DEF CutoffInv

LEMMA KnownFrame ==
  ASSUME KnownInv, connected' = connected, catalog' = catalog, refused' = refused,
         known' = known, today' = today,
         \A s \in Sweeps : pc[s] = "reset" /\ dropped[s] = TRUE =>
           pc'[s] = "reset" /\ day'[s] = day[s] /\ dropped'[s] = TRUE
  PROVE  KnownInv'
<1>1. ASSUME connected, NEW d \in known \ catalog
      PROVE  d \in refused \/ \E s \in Sweeps : pc'[s] = "reset" /\ day'[s] = d
                                                /\ dropped'[s] = TRUE
  <2>1. CASE d \in refused
    BY <2>1
  <2>2. CASE \E s \in Sweeps : pc[s] = "reset" /\ day[s] = d /\ dropped[s] = TRUE
    BY <2>2
  <2> QED BY <1>1, <2>1, <2>2 DEF KnownInv
<1>2. \A d \in catalog : d >= today - RetentionDays => d \in known
  BY DEF KnownInv
<1> QED BY <1>1, <1>2 DEF KnownInv

LEMMA RangeFrame ==
  ASSUME TypeOK, RangeInv, today' = today, sweptToday' = sweptToday,
         \A d \in known : d >= today => d \in known',
         \A s \in Sweeps : pc'[s] = "create" =>
           /\ pc[s] = "create" /\ last'[s] = last[s] /\ cutoff'[s] = cutoff[s]
           /\ day'[s] = day[s]
  PROVE  RangeInv'
<1>1. today \in Int
  BY Constants DEF TypeOK
<1>2. Half => Half'
  BY <1>1 DEF Half
<1>3. Full => Full'
  BY <1>1 DEF Full, LOOKAHEAD_DAYS
<1>4. ASSUME NEW s \in Sweeps, pc'[s] = "create"
      PROVE  /\ last'[s] = Begun(s)' + LOOKAHEAD_DAYS
             /\ \A d \in Begun(s)'..day'[s] - 1 : d >= today' => d \in known'
             /\ Begun(s)' < today' - 1 => Half'
             /\ sweptToday' = TRUE /\ Begun(s)' < today' => Full'
  <2>1. Begun(s)' = Begun(s) /\ day'[s] = day[s] /\ last'[s] = last[s] /\ pc[s] = "create"
    BY <1>4 DEF Begun
  <2>2. last'[s] = Begun(s)' + LOOKAHEAD_DAYS
    BY <2>1 DEF RangeInv
  <2>3. \A d \in Begun(s)'..day'[s] - 1 : d >= today' => d \in known'
    BY <2>1 DEF RangeInv
  <2>4. Begun(s)' < today' - 1 => Half'
    BY <2>1, <1>2 DEF RangeInv
  <2>5. sweptToday' = TRUE /\ Begun(s)' < today' => Full'
    BY <2>1, <1>3 DEF RangeInv
  <2> QED BY <2>2, <2>3, <2>4, <2>5
<1> QED BY <1>4 DEF RangeInv

LEMMA AheadFrame ==
  ASSUME TypeOK, AheadInv, today' = today, sweptToday' = sweptToday,
         \A d \in known : d >= today => d \in known', Ensured' => Ensured
  PROVE  AheadInv'
<1>1. today \in Int
  BY Constants DEF TypeOK
<1>2. Half => Half'
  BY <1>1 DEF Half
<1>3. Full => Full'
  BY <1>1 DEF Full, LOOKAHEAD_DAYS
<1> QED BY <1>2, <1>3 DEF AheadInv

\* A step of a sweep inside ensureRange(): b is the day it has begun on.
LEMMA SweepEnsures ==
  ASSUME TypeOK, CutoffInv, RangeInv, AheadInv, NEW t \in Sweeps,
         NEW w \in {"create", "list"}, NEW dd \in Days, NEW ll \in Days, NEW b \in Int,
         today' = today, ready' = ready,
         pc' = [pc EXCEPT ![t] = w], day' = [day EXCEPT ![t] = dd],
         last' = [last EXCEPT ![t] = ll],
         cutoff'[t] = b - RetentionDays,
         \A s \in Sweeps : s # t => cutoff'[s] = cutoff[s],
         b <= today,
         \A d \in known : d \in known',
         sweptToday' = TRUE =>
           sweptToday = TRUE \/ (w # "create" /\ cutoff'[t] = today - RetentionDays),
         b < today - 1 => Half,
         b < today /\ sweptToday = TRUE => Full,
         w = "create" => ll = b + LOOKAHEAD_DAYS
                         /\ \A d \in b..dd - 1 : d >= today => d \in known',
         w = "list" => \A d \in b..b + LOOKAHEAD_DAYS : d >= today => d \in known'
  PROVE  RangeInv' /\ AheadInv'
<1>1. today \in Int /\ RetentionDays \in Int
  BY Constants DEF TypeOK
<1>2. Half => Half'
  BY DEF Half
<1>3. Full => Full'
  BY DEF Full
<1>4. w = "list" /\ b = today => Full'
  BY <1>1 DEF Full, LOOKAHEAD_DAYS
<1>5. Full' => Half'
  BY <1>1 DEF Full, Half, LOOKAHEAD_DAYS
<1>6. w = "list" => Half'
  <2>1. CASE b = today
    BY <2>1, <1>4, <1>5
  <2>2. CASE b = today - 1
    BY <2>2, <1>1 DEF Half, LOOKAHEAD_DAYS
  <2>3. CASE b < today - 1
    BY <2>3, <1>2
  <2> QED BY <2>1, <2>2, <2>3, <1>1
<1>7. sweptToday' = TRUE => sweptToday = TRUE \/ (w = "list" /\ Full')
  <2>1. cutoff'[t] = today - RetentionDays => b = today
    BY <1>1
  <2> QED BY <2>1, <1>4
<1>8. \A s \in Sweeps : s \in Tasks
  BY DEF Tasks
<1>9. ASSUME NEW s \in Sweeps, pc'[s] = "create"
      PROVE  /\ last'[s] = Begun(s)' + LOOKAHEAD_DAYS
             /\ \A d \in Begun(s)'..day'[s] - 1 : d >= today' => d \in known'
             /\ Begun(s)' < today' - 1 => Half'
             /\ sweptToday' = TRUE /\ Begun(s)' < today' => Full'
  <2>1. CASE s # t
    <3>1. Begun(s)' = Begun(s) /\ day'[s] = day[s] /\ last'[s] = last[s] /\ pc[s] = "create"
      BY <1>8, <1>9, <2>1 DEF Begun, TypeOK
    <3>2. last'[s] = Begun(s)' + LOOKAHEAD_DAYS
      BY <3>1 DEF RangeInv
    <3>3. \A d \in Begun(s)'..day'[s] - 1 : d >= today' => d \in known'
      BY <3>1 DEF RangeInv
    <3>4. Begun(s)' < today' - 1 => Half'
      BY <3>1, <1>2 DEF RangeInv
    <3>5. sweptToday' = TRUE /\ Begun(s)' < today' => Full'
      BY <3>1, <1>3, <1>7 DEF RangeInv
    <3> QED BY <3>2, <3>3, <3>4, <3>5
  <2>2. CASE s = t
    <3>1. w = "create" /\ day'[s] = dd /\ last'[s] = ll
      BY <1>8, <1>9, <2>2 DEF TypeOK
    <3>2. Begun(s)' = b
      BY <1>1, <2>2 DEF Begun
    <3>3. Begun(s)' < today' - 1 => Half'
      BY <3>2, <1>2
    <3>4. sweptToday' = TRUE /\ Begun(s)' < today' => Full'
      BY <3>1, <3>2, <1>3, <1>7
    <3> QED BY <3>1, <3>2, <3>3, <3>4
  <2> QED BY <2>1, <2>2
<1>10. RangeInv'
  BY <1>9 DEF RangeInv
<1>11. Ensured' => Ensured \/ w = "list"
  <2>1. \A s \in Sweeps : pc'[s] \in Past => pc[s] \in Past \/ w = "list"
    BY <1>8 DEF Past, TypeOK
  <2> QED BY <2>1 DEF Ensured
<1>12. Ensured' => Half'
  BY <1>11, <1>6, <1>2 DEF AheadInv
<1>13. ASSUME Ensured', sweptToday' = TRUE
       PROVE  Full'
  <2>1. CASE w = "list" /\ Full'
    BY <2>1
  <2>2. CASE sweptToday = TRUE /\ Ensured
    BY <2>2, <1>3 DEF AheadInv
  <2>3. CASE sweptToday = TRUE /\ w = "list"
    <3>1. b = today \/ b < today
      BY <1>1
    <3> QED BY <3>1, <2>3, <1>3, <1>4
  <2> QED BY <1>7, <1>11, <1>13, <2>1, <2>2, <2>3
<1> QED BY <1>10, <1>12, <1>13 DEF AheadInv

-----------------------------------------------------------------------------
(* Every step preserves the invariant.                                     *)

LEMMA InitInv == Init => Inv
<1> SUFFICES ASSUME Init
             PROVE  Inv
  OBVIOUS
<1>1. \A d \in catalog : d \in Days
  BY Constants DEF Init, Days
<1>2. \A t \in Tasks : pc[t] = "idle" /\ day[t] = 0 /\ last[t] = 0
  BY DEF Init, Idle, NoDay
<1>3. \A s \in Sweeps : s \in Tasks
  BY DEF Tasks
<1>4. TypeOK
  <2>1. /\ catalog \subseteq Days /\ defaultDays \subseteq Days
        /\ known \subseteq Days /\ refused \subseteq Days
    BY <1>1 DEF Init
  <2>2. /\ pc \in [Tasks -> {"idle", "create", "list", "set", "drop", "reset", "copying"}]
        /\ day \in [Tasks -> Days] /\ last \in [Tasks -> Days]
    BY Constants DEF Init, Idle, NoDay
  <2>3. /\ rows \in [Flushes -> SUBSET Days] /\ cutoff \in [Sweeps -> Int]
        /\ todo \in [Sweeps -> SUBSET Days] /\ dropped \in [Sweeps -> BOOLEAN]
    BY DEF Init
  <2>4. restarts \in 0..MaxRestarts /\ today \in FirstToday..LastToday
    BY RetentionAssumption DEF Init
  <2>5. /\ lockTimeout \in BOOLEAN /\ connected \in BOOLEAN
        /\ running \in BOOLEAN /\ swept \in BOOLEAN
        /\ sweptToday \in BOOLEAN /\ ready \in BOOLEAN
    BY DEF Init
  <2>6. ddl \in Seq(Tasks)
    BY DEF Init
  <2> QED BY <2>1, <2>2, <2>3, <2>4, <2>5, <2>6 DEF TypeOK
<1>5. CutoffInv
  BY <1>2, <1>3 DEF CutoffInv, Init
<1>6. KnownInv
  BY DEF KnownInv, Init
<1>7. RangeInv
  BY <1>2, <1>3 DEF RangeInv
<1>8. ~Ensured
  BY <1>2, <1>3 DEF Ensured, Past, Init
<1> QED BY <1>4, <1>5, <1>6, <1>7, <1>8 DEF Inv, AheadInv

LEMMA SweepInv ==
  ASSUME Inv, NEW s \in Sweeps, Sweep(s)
  PROVE  Inv'
<1>1. /\ TypeOK /\ CutoffInv /\ KnownInv /\ RangeInv /\ AheadInv
      /\ s \in Tasks /\ today \in Nat /\ today + LOOKAHEAD_DAYS \in Days
  BY Constants DEF Inv, TypeOK, Tasks, Days
<1>2. /\ EnsureFrom(s, today, today + LOOKAHEAD_DAYS, known, ddl)
      /\ pc[s] = "idle" /\ running' = TRUE
      /\ cutoff' = [cutoff EXCEPT ![s] = today - RetentionDays]
      /\ UNCHANGED <<clockVars, storeVars, cacheVars, connVars, rows, todo, dropped,
                     swept, ready>>
  BY DEF Sweep
<1>3. ddl \in Seq(Tasks)
  BY <1>1 DEF TypeOK
<1>4. PICK w \in {"create", "list", "copying"}, dd \in Days, ll \in Days :
        EnsureEffect(s, today, today + LOOKAHEAD_DAYS, known, w, dd, ll)
  BY <1>1, <1>2, <1>3, EnsureFromDoes
<1> USE DEF EnsureEffect
<1>5. /\ cutoff' \in [Sweeps -> Int] /\ cutoff'[s] = today - RetentionDays
      /\ \A u \in Sweeps : u # s => cutoff'[u] = cutoff[u]
  BY <1>1, <1>2, Constants DEF TypeOK
<1>6. TypeOK'
  BY <1>1, <1>2, <1>4, <1>5 DEF TypeOK, clockVars, storeVars, cacheVars, connVars
<1>7. CutoffInv'
  <2>1. \A d \in todo'[s] : d < today - RetentionDays
    BY <1>1, <1>2 DEF CutoffInv
  <2>2. cutoff'[s] <= today - RetentionDays
    BY <1>1, <1>5, Constants
  <2> QED BY <1>1, <1>2, <1>4, <1>5, <2>1, <2>2, CutoffFrame DEF clockVars
<1>8. KnownInv'
  BY <1>1, <1>2, <1>4, KnownFrame DEF TypeOK, clockVars, storeVars, cacheVars, connVars, Tasks
<1>9. RangeInv' /\ AheadInv'
  <2>1. today' = today /\ known' = known /\ ready' = ready /\ w \in {"create", "list"}
    BY <1>2, <1>4 DEF clockVars, cacheVars
  <2>2. cutoff'[s] = today - RetentionDays /\ today \in Int /\ today <= today
        /\ ~(today < today) /\ ~(today < today - 1)
    BY <1>1, <1>5
  <2> QED BY <1>1, <1>4, <1>5, <2>1, <2>2, SweepEnsures
<1> QED BY <1>6, <1>7, <1>8, <1>9 DEF Inv

LEMMA FlushBeginsInv ==
  ASSUME Inv, NEW f \in Flushes, FlushBegins(f)
  PROVE  Inv'
<1>1. /\ TypeOK /\ CutoffInv /\ KnownInv /\ RangeInv /\ AheadInv
      /\ f \in Tasks /\ f \notin Sweeps /\ today \in Nat /\ today + 1 \in Days
  BY Constants DEF Inv, TypeOK, Tasks, Days
<1>2. PICK ds \in BatchDays :
        /\ ds \subseteq 0..today + 1
        /\ rows' = [rows EXCEPT ![f] = ds]
        /\ EnsureFrom(f, Min(ds), Max(ds), known, ddl)
  BY DEF FlushBegins
<1>3. /\ pc[f] = "idle"
      /\ UNCHANGED <<clockVars, storeVars, cacheVars, connVars, cutoff, todo, dropped,
                     bootVars>>
  BY DEF FlushBegins
<1>4. ds # {} /\ ds \in SUBSET Nat /\ ds \in SUBSET Days /\ \A d \in ds : d <= today + 1
  <2>1. ds # {}
    BY RetentionAssumption
  <2>2. ASSUME NEW d \in ds
        PROVE  d \in Nat /\ d <= today + 1
    <3>1. d \in 0..today + 1
      BY <1>2
    <3> QED BY <3>1, <1>1
  <2>3. ASSUME NEW d \in ds
        PROVE  d \in Days
    <3>1. d \in 0..today + 1 /\ today <= LastToday /\ LastToday \in Nat
      BY <1>1, <1>2, Constants DEF TypeOK
    <3> QED BY <3>1, <1>1 DEF Days, LOOKAHEAD_DAYS
  <2>4. ds \in SUBSET Nat
    BY <2>2
  <2>5. ds \in SUBSET Days
    BY <2>3
  <2> QED BY <2>1, <2>2, <2>4, <2>5
<1>5. Min(ds) \in Nat
  BY <1>4, MinIsLeast
<1>6. Max(ds) \in Days
  <2>1. today + 1 \in Nat
    BY <1>1
  <2>2. Max(ds) \in ds
    BY <1>4, <2>1, MaxIsGreatest
  <2> QED BY <1>4, <2>2
<1>7. ddl \in Seq(Tasks)
  BY <1>1 DEF TypeOK
<1>8. PICK w \in {"create", "list", "copying"}, dd \in Days, ll \in Days :
        EnsureEffect(f, Min(ds), Max(ds), known, w, dd, ll)
  BY <1>1, <1>2, <1>5, <1>6, <1>7, EnsureFromDoes
<1> USE DEF EnsureEffect
<1>9. sweptToday' = sweptToday
  <2>1. sweptToday' = (sweptToday \/ FALSE)
    BY <1>1, <1>2 DEF EnsureFrom
  <2>2. sweptToday \in BOOLEAN
    BY <1>1 DEF TypeOK
  <2> QED BY <2>1, <2>2
<1>10. TypeOK'
  <2>1. rows' \in [Flushes -> SUBSET Days]
    BY <1>1, <1>2, <1>4 DEF TypeOK
  <2> QED BY <1>1, <1>3, <1>8, <2>1
      DEF TypeOK, clockVars, storeVars, cacheVars, connVars, bootVars
<1>11. \A u \in Sweeps : pc'[u] = pc[u] /\ day'[u] = day[u] /\ last'[u] = last[u]
  BY <1>1, <1>8 DEF TypeOK, Tasks
<1>12. CutoffInv'
  BY <1>1, <1>3, <1>11 DEF CutoffInv, clockVars
<1>13. KnownInv'
  BY <1>1, <1>3, <1>11, KnownFrame DEF clockVars, storeVars, cacheVars, connVars
<1>14. RangeInv'
  BY <1>1, <1>3, <1>9, <1>11, RangeFrame DEF clockVars, cacheVars
<1>15. AheadInv'
  BY <1>1, <1>3, <1>9, <1>11, AheadFrame DEF Ensured, clockVars, cacheVars, bootVars
<1> QED BY <1>10, <1>12, <1>13, <1>14, <1>15 DEF Inv

\* ensureDay(), whether or not the partition is created.
LEMMA CreateInv ==
  ASSUME Inv, NEW t \in Tasks, Answered(t, "create"),
         known' = known \cup {day[t]},
         \/ catalog' = catalog \cup {day[t]} /\ refused' = refused
         \/ catalog' = catalog /\ refused' = refused \cup {day[t]},
         UNCHANGED <<clockVars, defaultDays, connVars, rows, cutoff, todo, dropped,
                     bootVars>>,
         EnsureFrom(t, day[t] + 1, last[t], known', Tail(ddl))
  PROVE  Inv'
<1>1. /\ TypeOK /\ CutoffInv /\ KnownInv /\ RangeInv /\ AheadInv
      /\ day[t] \in Days /\ last[t] \in Days /\ day[t] + 1 \in Nat
      /\ today \in Nat /\ pc[t] = "create"
  BY Constants, SMTT(40) DEF Inv, TypeOK, Answered, Days
<1>2. Tail(ddl) \in Seq(Tasks)
  BY <1>1 DEF TypeOK, Answered
<1>3. PICK w \in {"create", "list", "copying"}, dd \in Days, ll \in Days :
        EnsureEffect(t, day[t] + 1, last[t], known', w, dd, ll)
  BY <1>1, <1>2, EnsureFromDoes
<1> USE DEF EnsureEffect
<1>4. TypeOK'
  <2>1. known' \subseteq Days /\ catalog' \subseteq Days /\ refused' \subseteq Days
    BY <1>1 DEF TypeOK
  <2> QED BY <1>1, <1>3, <2>1 DEF TypeOK, clockVars, connVars, bootVars
<1>5. \A u \in Sweeps : u \in Tasks
  BY DEF Tasks
<1>6. \A u \in Sweeps : u # t => pc'[u] = pc[u] /\ day'[u] = day[u] /\ last'[u] = last[u]
  BY <1>1, <1>3, <1>5 DEF TypeOK
<1>7. CutoffInv'
  <2>1. t \in Sweeps => cutoff'[t] <= today - RetentionDays
                        /\ \A d \in todo'[t] : d < today - RetentionDays
    BY <1>1 DEF CutoffInv
  <2> QED BY <1>1, <1>3, <2>1, CutoffFrame DEF clockVars
<1>8. KnownInv'
  <2>1. ASSUME connected, NEW d \in known' \ catalog'
        PROVE  d \in refused' \/ \E u \in Sweeps : pc'[u] = "reset" /\ day'[u] = d
                                                   /\ dropped'[u] = TRUE
    <3>1. CASE d = day[t]
      BY <2>1, <3>1
    <3>2. CASE d # day[t]
      <4>1. d \in refused \/ \E u \in Sweeps : pc[u] = "reset" /\ day[u] = d /\ dropped[u] = TRUE
        BY <1>1, <2>1, <3>2 DEF KnownInv
      <4>2. \A u \in Sweeps : pc[u] = "reset" => pc'[u] = "reset" /\ day'[u] = day[u]
        BY <1>1, <1>6
      <4> QED BY <4>1, <4>2
    <3> QED BY <3>1, <3>2
  <2>2. \A d \in catalog' : d >= today - RetentionDays => d \in known'
    BY <1>1 DEF KnownInv
  <2> QED BY <2>1, <2>2 DEF KnownInv, clockVars, connVars
<1>9. RangeInv' /\ AheadInv'
  <2>1. CASE t \in Sweeps
    <3> DEFINE b == Begun(t)
    <3>1. b \in Int /\ cutoff'[t] = b - RetentionDays /\ b <= today
          /\ cutoff'[t] = cutoff[t]
      BY <1>1, <2>1, Constants DEF Begun, CutoffInv, TypeOK
    <3>2. /\ last[t] = b + LOOKAHEAD_DAYS
          /\ \A d \in b..day[t] - 1 : d >= today => d \in known
          /\ b < today - 1 => Half
          /\ b < today /\ sweptToday = TRUE => Full
      BY <1>1, <2>1 DEF RangeInv
    <3> HIDE DEF b
    <3>3. ASSUME NEW d \in Int, b <= d
          PROVE  d \in b..day[t] - 1 \/ d = day[t] \/ d >= day[t] + 1
      <4>1. day[t] \in Int
        BY <1>1 DEF Days
      <4> QED BY <4>1, <3>1, <3>3
    <3>4. ASSUME NEW d \in Int, b <= d, d >= today, d >= day[t] + 1 => d \in known'
          PROVE  d \in known'
      BY <3>2, <3>3, <3>4
    <3>5. ASSUME w = "create", NEW d \in b..dd - 1, d >= today
          PROVE  d \in known'
      <4>1. d \in Int /\ b <= d /\ d <= dd - 1
        BY <3>1, <3>5, Constants
      <4>2. d >= day[t] + 1 => d \in day[t] + 1..dd - 1
        BY <4>1, <1>1, Constants
      <4> QED BY <1>3, <3>4, <3>5, <4>1, <4>2
    <3>6. ASSUME w = "list", NEW d \in b..b + LOOKAHEAD_DAYS, d >= today
          PROVE  d \in known'
      <4>1. d \in Int /\ b <= d /\ d <= last[t]
        BY <3>1, <3>2, <3>6, Constants
      <4>2. d >= day[t] + 1 => d \in day[t] + 1..last[t]
        BY <4>1, <1>1, Constants
      <4> QED BY <1>3, <3>4, <3>6, <4>1, <4>2
    <3>7. /\ today' = today /\ ready' = ready /\ w \in {"create", "list"}
          /\ \A u \in Sweeps : u # t => cutoff'[u] = cutoff[u]
          /\ \A d \in known : d \in known'
      BY <1>3, <2>1 DEF clockVars, bootVars
    <3>8. w = "create" => ll = b + LOOKAHEAD_DAYS
      BY <1>3, <3>2
    <3>9. sweptToday' = TRUE =>
            sweptToday = TRUE \/ (w # "create" /\ cutoff'[t] = today - RetentionDays)
      BY <1>3
    <3>10. /\ pc' = [pc EXCEPT ![t] = w] /\ day' = [day EXCEPT ![t] = dd]
           /\ last' = [last EXCEPT ![t] = ll]
      BY <1>3
    <3> QED BY <1>1, <2>1, <3>1, <3>2, <3>5, <3>6, <3>7, <3>8, <3>9, <3>10, SweepEnsures
  <2>2. CASE t \notin Sweeps
    <3>1. sweptToday' = sweptToday
      <4>1. sweptToday' = (sweptToday \/ FALSE)
        BY <2>2 DEF EnsureFrom
      <4>2. sweptToday \in BOOLEAN
        BY <1>1 DEF TypeOK
      <4> QED BY <4>1, <4>2
    <3>2. \A u \in Sweeps : pc'[u] = pc[u] /\ day'[u] = day[u] /\ last'[u] = last[u]
      BY <1>6, <2>2
    <3>3. /\ today' = today /\ cutoff' = cutoff /\ ready' = ready
          /\ \A d \in known : d \in known'
      BY DEF clockVars, bootVars
    <3>4. Ensured' => Ensured
      BY <3>2, <3>3 DEF Ensured
    <3> QED BY <1>1, <3>1, <3>2, <3>3, <3>4, RangeFrame, AheadFrame
  <2> QED BY <2>1, <2>2
<1> QED BY <1>4, <1>7, <1>8, <1>9 DEF Inv

\* A step of a sweep that has ensured its range, but for the cache.
LEMMA SweepMoves ==
  ASSUME Inv, NEW s \in Sweeps, pc[s] \in Past,
         NEW w \in {"idle", "set", "drop", "reset"}, NEW dd \in Days, NEW left \in SUBSET Days,
         pc' = [pc EXCEPT ![s] = w], day' = [day EXCEPT ![s] = dd],
         todo' = [todo EXCEPT ![s] = left], ddl' \in Seq(Tasks),
         running' \in BOOLEAN, swept' \in BOOLEAN, ready' \in BOOLEAN,
         w # "idle" => dd < today - RetentionDays,
         \A d \in left : d < today - RetentionDays,
         UNCHANGED <<clockVars, defaultDays, refused, connected, last, rows, sweptToday>>,
         catalog' \in SUBSET Days, known' \in SUBSET Days, lockTimeout' \in BOOLEAN,
         cutoff' \in [Sweeps -> Int], \A u \in Sweeps : u # s => cutoff'[u] = cutoff[u],
         dropped' \in [Sweeps -> BOOLEAN],
         \A d \in known : d >= today => d \in known'
  PROVE  TypeOK' /\ CutoffInv' /\ RangeInv' /\ AheadInv'
<1>1. TypeOK /\ CutoffInv /\ RangeInv /\ AheadInv /\ today' = today
      /\ \A u \in Sweeps : u \in Tasks
  BY DEF Inv, clockVars, Tasks
<1>2. TypeOK'
  BY <1>1 DEF TypeOK, clockVars
<1>3. CutoffInv'
  <2>1. todo'[s] = left /\ \A u \in Sweeps : u # s => todo'[u] = todo[u]
    BY <1>1 DEF TypeOK
  <2> QED BY <1>1, <2>1, CutoffFrame
<1>4. \A u \in Sweeps : u # s => pc'[u] = pc[u] /\ day'[u] = day[u]
  BY <1>1 DEF TypeOK
<1>5. pc'[s] = w
  BY <1>1 DEF TypeOK
<1>6. RangeInv'
  BY <1>1, <1>4, <1>5, RangeFrame
<1>7. AheadInv'
  BY <1>1, AheadFrame DEF Ensured
<1> QED BY <1>2, <1>3, <1>6, <1>7

\* Where a sweep with an answered statement is.
LEMMA AnsweredFacts ==
  ASSUME Inv, NEW s \in Sweeps, NEW x \in Past, Answered(s, x)
  PROVE  /\ TypeOK /\ KnownInv /\ CutoffInv /\ s \in Tasks
         /\ pc[s] = x /\ pc[s] \in Past
         /\ day[s] \in Days /\ todo[s] \in SUBSET Days
         /\ Tail(ddl) \in Seq(Tasks) /\ Append(Tail(ddl), s) \in Seq(Tasks)
         /\ \A d \in todo[s] : d < today - RetentionDays
         /\ x \in {"set", "drop", "reset"} => day[s] < today - RetentionDays
         /\ day = [day EXCEPT ![s] = day[s]] /\ todo = [todo EXCEPT ![s] = todo[s]]
<1>1. /\ TypeOK /\ KnownInv /\ CutoffInv /\ s \in Tasks
      /\ pc[s] = x /\ ddl # <<>>
  BY DEF Inv, Answered, Tasks
<1>2. day[s] \in Days /\ todo[s] \in SUBSET Days
  BY <1>1 DEF TypeOK
<1>3. Tail(ddl) \in Seq(Tasks) /\ Append(Tail(ddl), s) \in Seq(Tasks)
  BY <1>1 DEF TypeOK
<1>4. /\ \A d \in todo[s] : d < today - RetentionDays
      /\ x \in {"set", "drop", "reset"} => day[s] < today - RetentionDays
  BY <1>1 DEF CutoffInv
<1>5. day = [day EXCEPT ![s] = day[s]] /\ todo = [todo EXCEPT ![s] = todo[s]]
  BY <1>1 DEF TypeOK
<1> QED BY <1>1, <1>2, <1>3, <1>4, <1>5

LEMMA ListDoneInv ==
  ASSUME Inv, NEW s \in Sweeps, ListDone(s)
  PROVE  Inv'
<1> DEFINE days == {d \in catalog : d < cutoff[s]}
<1>1. /\ Answered(s, "list") /\ NextDrop(s, days, Tail(ddl))
      /\ cutoff' = [cutoff EXCEPT ![s] = 0]
      /\ UNCHANGED <<clockVars, storeVars, cacheVars, connVars, last, rows, dropped,
                     sweptToday>>
  BY DEF ListDone
<1>2. "list" \in Past
  BY DEF Past
<1>3. /\ TypeOK /\ KnownInv /\ CutoffInv /\ pc[s] = "list" /\ pc[s] \in Past /\ s \in Tasks
      /\ Tail(ddl) \in Seq(Tasks)
  BY <1>1, <1>2, AnsweredFacts
<1>4. days \in SUBSET Days
  BY <1>3 DEF TypeOK
<1>5. \A d \in days : d < today - RetentionDays
  <2>1. cutoff[s] <= today - RetentionDays /\ cutoff[s] \in Int /\ today \in Int
    BY <1>3, Constants DEF CutoffInv, TypeOK
  <2>2. ASSUME NEW d \in days
        PROVE  d \in Int /\ d < cutoff[s]
    <3>1. d \in Days
      BY <1>4
    <3> QED BY <3>1 DEF Days
  <2> QED BY <2>1, <2>2, Constants
<1> HIDE DEF days
<1>6. PICK w \in {"set", "idle"}, dd \in Days, left \in SUBSET days :
        DropEffect(s, days, w, dd, left)
  BY <1>1, <1>3, <1>4, NextDropDoes
<1>7. TypeOK' /\ CutoffInv' /\ RangeInv' /\ AheadInv'
  <2>1. cutoff' \in [Sweeps -> Int] /\ \A u \in Sweeps : u # s => cutoff'[u] = cutoff[u]
    BY <1>1, <1>3 DEF TypeOK
  <2>2. /\ catalog' \in SUBSET Days /\ known' \in SUBSET Days /\ lockTimeout' \in BOOLEAN
        /\ dropped' \in [Sweeps -> BOOLEAN]
        /\ UNCHANGED <<clockVars, defaultDays, refused, connected, last, rows, sweptToday>>
        /\ known' = known
    BY <1>1, <1>3 DEF TypeOK, storeVars, cacheVars, connVars
  <2>3. left \in SUBSET Days /\ \A d \in left : d < today - RetentionDays
    BY <1>4, <1>5
  <2>4. w # "idle" => dd < today - RetentionDays
    BY <1>5, <1>6 DEF DropEffect
  <2> QED BY <1>3, <1>6, <2>1, <2>2, <2>3, <2>4, SweepMoves DEF DropEffect
<1>8. KnownInv'
  <2>1. \A u \in Sweeps : u # s => pc'[u] = pc[u] /\ day'[u] = day[u]
    BY <1>3, <1>6 DEF DropEffect, TypeOK, Tasks
  <2> QED BY <1>1, <1>3, <2>1, KnownFrame DEF storeVars, cacheVars, connVars, clockVars
<1> QED BY <1>7, <1>8 DEF Inv

LEMMA ListFailsInv ==
  ASSUME Inv, NEW s \in Sweeps, ListFails(s)
  PROVE  Inv'
<1>1. /\ Answered(s, "list") /\ pc' = [pc EXCEPT ![s] = "idle"] /\ ddl' = Tail(ddl)
      /\ running' = FALSE /\ cutoff' = [cutoff EXCEPT ![s] = 0]
      /\ UNCHANGED <<clockVars, storeVars, cacheVars, connVars, day, last, rows, todo,
                     dropped, swept, ready, sweptToday>>
  BY DEF ListFails
<1>2. "list" \in Past
  BY DEF Past
<1>3. /\ TypeOK /\ KnownInv /\ pc[s] = "list" /\ pc[s] \in Past /\ s \in Tasks
      /\ Tail(ddl) \in Seq(Tasks) /\ day[s] \in Days /\ todo[s] \in SUBSET Days
      /\ \A d \in todo[s] : d < today - RetentionDays
      /\ day = [day EXCEPT ![s] = day[s]] /\ todo = [todo EXCEPT ![s] = todo[s]]
  BY <1>1, <1>2, AnsweredFacts
<1>4. TypeOK' /\ CutoffInv' /\ RangeInv' /\ AheadInv'
  <2>1. cutoff' \in [Sweeps -> Int] /\ \A u \in Sweeps : u # s => cutoff'[u] = cutoff[u]
    BY <1>1, <1>3 DEF TypeOK
  <2>2. /\ catalog' \in SUBSET Days /\ known' \in SUBSET Days /\ lockTimeout' \in BOOLEAN
        /\ dropped' \in [Sweeps -> BOOLEAN]
        /\ UNCHANGED <<clockVars, defaultDays, refused, connected, last, rows, sweptToday>>
        /\ known' = known /\ running' \in BOOLEAN /\ swept' \in BOOLEAN /\ ready' \in BOOLEAN
    BY <1>1, <1>3 DEF TypeOK, storeVars, cacheVars, connVars
  <2>3. day' = [day EXCEPT ![s] = day[s]] /\ todo' = [todo EXCEPT ![s] = todo[s]]
    BY <1>1, <1>3
  <2> QED BY <1>1, <1>3, <2>1, <2>2, <2>3, SweepMoves
<1>5. KnownInv'
  <2>1. \A u \in Sweeps : u # s => pc'[u] = pc[u]
    BY <1>1, <1>3 DEF TypeOK, Tasks
  <2> QED BY <1>1, <1>3, <2>1, KnownFrame DEF storeVars, cacheVars, connVars, clockVars
<1> QED BY <1>4, <1>5 DEF Inv

LEMMA SetDoneInv ==
  ASSUME Inv, NEW s \in Sweeps, SetDone(s)
  PROVE  Inv'
<1>1. /\ Answered(s, "set")
      /\ UNCHANGED <<clockVars, storeVars, cacheVars, connected, last, rows, cutoff,
                     dropped, sweptToday>>
  BY DEF SetDone
<1>2. "set" \in Past
  BY DEF Past
<1>3. /\ TypeOK /\ KnownInv /\ pc[s] = "set" /\ pc[s] \in Past /\ s \in Tasks
      /\ Tail(ddl) \in Seq(Tasks) /\ day[s] \in Days /\ todo[s] \in SUBSET Days
      /\ Append(Tail(ddl), s) \in Seq(Tasks)
      /\ \A d \in todo[s] : d < today - RetentionDays
      /\ day[s] < today - RetentionDays
      /\ day = [day EXCEPT ![s] = day[s]] /\ todo = [todo EXCEPT ![s] = todo[s]]
  BY <1>1, <1>2, AnsweredFacts
<1>4. PICK w \in {"idle", "set", "drop"}, dd \in Days, left \in SUBSET Days :
        /\ pc' = [pc EXCEPT ![s] = w] /\ day' = [day EXCEPT ![s] = dd]
        /\ todo' = [todo EXCEPT ![s] = left] /\ ddl' \in Seq(Tasks)
        /\ running' \in BOOLEAN /\ swept' \in BOOLEAN /\ ready' \in BOOLEAN
        /\ lockTimeout' \in BOOLEAN
        /\ w # "idle" => dd < today - RetentionDays
        /\ \A d \in left : d < today - RetentionDays
  <2>1. CASE connected
    <3>1. /\ lockTimeout' = TRUE /\ pc' = [pc EXCEPT ![s] = "drop"]
          /\ ddl' = Append(Tail(ddl), s)
          /\ day' = [day EXCEPT ![s] = day[s]] /\ todo' = [todo EXCEPT ![s] = todo[s]]
          /\ UNCHANGED bootVars
      BY <1>3, <2>1 DEF SetDone, Send
    <3>2. /\ running' \in BOOLEAN /\ swept' \in BOOLEAN /\ ready' \in BOOLEAN
          /\ lockTimeout' \in BOOLEAN
      BY <1>3, <3>1 DEF TypeOK, bootVars
    <3> QED BY <1>3, <3>1, <3>2
  <2>2. CASE ~connected
    <3>1. NextDrop(s, todo[s], Tail(ddl)) /\ UNCHANGED lockTimeout
      BY <2>2 DEF SetDone
    <3>2. PICK w \in {"set", "idle"}, dd \in Days, left \in SUBSET todo[s] :
            DropEffect(s, todo[s], w, dd, left)
      BY <1>3, <3>1, NextDropDoes
    <3>3. lockTimeout' \in BOOLEAN
      BY <1>3, <3>1 DEF TypeOK
    <3>4. left \in SUBSET Days /\ \A d \in left : d < today - RetentionDays
      BY <1>3
    <3> QED BY <1>3, <3>2, <3>3, <3>4 DEF DropEffect
  <2> QED BY <2>1, <2>2
<1>5. TypeOK' /\ CutoffInv' /\ RangeInv' /\ AheadInv'
  <2>1. /\ catalog' \in SUBSET Days /\ known' \in SUBSET Days /\ known' = known
        /\ dropped' \in [Sweeps -> BOOLEAN] /\ cutoff' \in [Sweeps -> Int]
        /\ \A u \in Sweeps : u # s => cutoff'[u] = cutoff[u]
        /\ UNCHANGED <<clockVars, defaultDays, refused, connected, last, rows, sweptToday>>
    BY <1>1, <1>3 DEF TypeOK, storeVars, cacheVars
  <2> QED BY <1>3, <1>4, <2>1, SweepMoves
<1>6. KnownInv'
  <2>1. \A u \in Sweeps : u # s => pc'[u] = pc[u] /\ day'[u] = day[u]
    BY <1>3, <1>4 DEF TypeOK, Tasks
  <2> QED BY <1>1, <1>3, <2>1, KnownFrame DEF storeVars, cacheVars, clockVars
<1> QED BY <1>5, <1>6 DEF Inv

\* DROP TABLE, done or not.
LEMMA DropInv ==
  ASSUME Inv, NEW s \in Sweeps, DropDone(s) \/ DropFails(s)
  PROVE  Inv'
<1>1. /\ Answered(s, "drop") /\ Send(s, Tail(ddl), "reset")
      /\ UNCHANGED <<clockVars, defaultDays, cacheVars, connVars, day, last, rows, cutoff,
                     todo, bootVars, sweptToday>>
  BY DEF DropDone, DropFails, storeVars
<1>2. "drop" \in Past
  BY DEF Past
<1>3. /\ TypeOK /\ KnownInv /\ pc[s] = "drop" /\ pc[s] \in Past /\ s \in Tasks
      /\ Tail(ddl) \in Seq(Tasks) /\ day[s] \in Days /\ todo[s] \in SUBSET Days
      /\ Append(Tail(ddl), s) \in Seq(Tasks)
      /\ \A d \in todo[s] : d < today - RetentionDays
      /\ day[s] < today - RetentionDays
      /\ day = [day EXCEPT ![s] = day[s]] /\ todo = [todo EXCEPT ![s] = todo[s]]
  BY <1>1, <1>2, AnsweredFacts
<1>4. pc' = [pc EXCEPT ![s] = "reset"] /\ ddl' \in Seq(Tasks)
  BY <1>1, <1>3 DEF Send
<1>5. \/ catalog' = catalog \ {day[s]} /\ dropped' = [dropped EXCEPT ![s] = TRUE]
      \/ catalog' = catalog /\ dropped' = [dropped EXCEPT ![s] = FALSE]
  BY DEF DropDone, DropFails, storeVars
<1>6. /\ catalog' \in SUBSET Days /\ dropped' \in [Sweeps -> BOOLEAN]
      /\ \A u \in Sweeps : u # s => dropped'[u] = dropped[u]
  BY <1>3, <1>5 DEF TypeOK
<1>7. TypeOK' /\ CutoffInv' /\ RangeInv' /\ AheadInv'
  <2>1. /\ known' \in SUBSET Days /\ known' = known /\ lockTimeout' \in BOOLEAN
        /\ cutoff' \in [Sweeps -> Int]
        /\ \A u \in Sweeps : u # s => cutoff'[u] = cutoff[u]
        /\ running' \in BOOLEAN /\ swept' \in BOOLEAN /\ ready' \in BOOLEAN
        /\ UNCHANGED <<clockVars, defaultDays, refused, connected, last, rows, sweptToday>>
    BY <1>1, <1>3 DEF TypeOK, storeVars, cacheVars, connVars, bootVars
  <2>2. day' = [day EXCEPT ![s] = day[s]] /\ todo' = [todo EXCEPT ![s] = todo[s]]
    BY <1>1, <1>3
  <2> QED BY <1>3, <1>4, <1>6, <2>1, <2>2, SweepMoves
<1>8. \A u \in Sweeps : u # s => pc'[u] = pc[u]
  BY <1>3, <1>4 DEF TypeOK, Tasks
<1>9. KnownInv'
  <2>1. known' = known /\ refused' = refused /\ connected' = connected /\ today' = today
        /\ day' = day
    BY <1>1 DEF cacheVars, connVars, clockVars
  <2>2. ASSUME connected, NEW d \in known \ catalog'
        PROVE  d \in refused \/ \E u \in Sweeps : pc'[u] = "reset" /\ day[u] = d
                                                  /\ dropped'[u] = TRUE
    <3>1. CASE d \in catalog
      <4>1. d = day[s] /\ dropped' = [dropped EXCEPT ![s] = TRUE]
        BY <1>5, <2>2, <3>1
      <4>2. dropped'[s] = TRUE /\ pc'[s] = "reset"
        BY <1>3, <1>4, <4>1 DEF TypeOK
      <4> QED BY <4>1, <4>2
    <3>2. CASE d \notin catalog
      <4>1. d \in refused \/ \E u \in Sweeps : pc[u] = "reset" /\ day[u] = d /\ dropped[u] = TRUE
        BY <1>3, <2>2, <3>2 DEF KnownInv
      <4>2. \A u \in Sweeps : pc[u] = "reset" => pc'[u] = "reset" /\ dropped'[u] = dropped[u]
        BY <1>3, <1>6, <1>8
      <4> QED BY <4>1, <4>2
    <3> QED BY <3>1, <3>2
  <2>3. \A d \in catalog' : d >= today - RetentionDays => d \in known
    BY <1>3, <1>5 DEF KnownInv
  <2> QED BY <2>1, <2>2, <2>3 DEF KnownInv
<1> QED BY <1>7, <1>9 DEF Inv

LEMMA ResetDoneInv ==
  ASSUME Inv, NEW s \in Sweeps, ResetDone(s)
  PROVE  Inv'
<1>1. /\ Answered(s, "reset") /\ NextDrop(s, todo[s], Tail(ddl))
      /\ lockTimeout' = (lockTimeout /\ ~connected)
      /\ known' = IF connected /\ dropped[s] THEN known \ {day[s]} ELSE known
      /\ dropped' = [dropped EXCEPT ![s] = FALSE]
      /\ UNCHANGED <<clockVars, storeVars, refused, connected, last, rows, cutoff,
                     sweptToday>>
  BY DEF ResetDone
<1>2. "reset" \in Past
  BY DEF Past
<1>3. /\ TypeOK /\ KnownInv /\ pc[s] = "reset" /\ pc[s] \in Past /\ s \in Tasks
      /\ Tail(ddl) \in Seq(Tasks) /\ day[s] \in Days /\ todo[s] \in SUBSET Days
      /\ \A d \in todo[s] : d < today - RetentionDays
      /\ day[s] < today - RetentionDays
  BY <1>1, <1>2, AnsweredFacts
<1>4. PICK w \in {"set", "idle"}, dd \in Days, left \in SUBSET todo[s] :
        DropEffect(s, todo[s], w, dd, left)
  BY <1>1, <1>3, NextDropDoes
<1>5. /\ known' \in SUBSET Days
      /\ known' = known \/ known' = known \ {day[s]}
  <2>1. known' = known \/ known' = known \ {day[s]}
    BY <1>1
  <2> QED BY <1>3, <2>1 DEF TypeOK
<1>6. /\ dropped' \in [Sweeps -> BOOLEAN]
      /\ \A u \in Sweeps : u # s => dropped'[u] = dropped[u]
  BY <1>1, <1>3 DEF TypeOK
<1>7. TypeOK' /\ CutoffInv' /\ RangeInv' /\ AheadInv'
  <2>1. lockTimeout' \in BOOLEAN
    BY <1>1
  <2>2. /\ catalog' \in SUBSET Days /\ cutoff' \in [Sweeps -> Int]
        /\ \A u \in Sweeps : u # s => cutoff'[u] = cutoff[u]
        /\ UNCHANGED <<clockVars, defaultDays, refused, connected, last, rows, sweptToday>>
    BY <1>1, <1>3 DEF TypeOK, storeVars
  <2>3. left \in SUBSET Days /\ \A d \in left : d < today - RetentionDays
    BY <1>3
  <2>4. w # "idle" => dd < today - RetentionDays
    BY <1>3, <1>4 DEF DropEffect
  <2>5. \A d \in known : d >= today => d \in known'
    <3>1. today \in Int /\ day[s] \in Int
      BY <1>3, Constants DEF TypeOK, Days
    <3>2. ~(day[s] >= today)
      BY <1>3, <3>1, Constants
    <3> QED BY <1>5, <3>2
  <2> QED BY <1>3, <1>4, <1>5, <1>6, <2>1, <2>2, <2>3, <2>4, <2>5, SweepMoves
      DEF DropEffect
<1>8. \A u \in Sweeps : u # s => pc'[u] = pc[u] /\ day'[u] = day[u]
  BY <1>3, <1>4 DEF DropEffect, TypeOK, Tasks
<1>9. KnownInv'
  <2>1. catalog' = catalog /\ refused' = refused /\ connected' = connected /\ today' = today
    BY <1>1 DEF storeVars, clockVars
  <2>2. ASSUME connected, NEW d \in known' \ catalog
        PROVE  d \in refused \/ \E u \in Sweeps : pc'[u] = "reset" /\ day'[u] = d
                                                  /\ dropped'[u] = TRUE
    <3>1. CASE d \in refused
      BY <3>1
    <3>2. CASE \E u \in Sweeps : pc[u] = "reset" /\ day[u] = d /\ dropped[u] = TRUE
      <4>1. PICK u \in Sweeps : pc[u] = "reset" /\ day[u] = d /\ dropped[u] = TRUE
        BY <3>2
      <4>2. CASE u = s
        <5>1. known' = known \ {d}
          BY <1>1, <2>2, <4>1, <4>2
        <5> QED BY <2>2, <5>1
      <4>3. CASE u # s
        BY <1>6, <1>8, <4>1, <4>3
      <4> QED BY <4>2, <4>3
    <3>3. d \in known \ catalog
      BY <1>5, <2>2
    <3> QED BY <1>3, <2>2, <3>1, <3>2, <3>3 DEF KnownInv
  <2>3. ASSUME NEW d \in catalog, d >= today - RetentionDays
        PROVE  d \in known'
    <3>1. d \in known
      BY <1>3, <2>3 DEF KnownInv
    <3>2. d # day[s]
      <4>1. d \in Int /\ today \in Int /\ day[s] \in Int
        BY <1>3, Constants DEF TypeOK, Days
      <4> QED BY <1>3, <2>3, <4>1, Constants
    <3> QED BY <1>5, <3>1, <3>2
  <2> QED BY <2>1, <2>2, <2>3 DEF KnownInv
<1> QED BY <1>7, <1>9 DEF Inv

LEMMA CopyDoneInv ==
  ASSUME Inv, NEW f \in Flushes, CopyDone(f)
  PROVE  Inv'
<1>1. /\ pc' = [pc EXCEPT ![f] = "idle"] /\ rows' = [rows EXCEPT ![f] = {}]
      /\ defaultDays' \in {defaultDays, defaultDays \cup (rows[f] \ catalog)}
      /\ UNCHANGED <<clockVars, catalog, cacheVars, connVars, ddl, day, last, cutoff,
                     todo, dropped, bootVars, sweptToday>>
  BY DEF CopyDone
<1>2. /\ TypeOK /\ CutoffInv /\ KnownInv /\ RangeInv /\ AheadInv
      /\ f \in Tasks /\ f \notin Sweeps
  BY Constants DEF Inv, Tasks
<1>3. TypeOK'
  <2>1. rows[f] \in SUBSET Days
    BY <1>2 DEF TypeOK
  <2>2. defaultDays' \subseteq Days /\ rows' \in [Flushes -> SUBSET Days]
    BY <1>1, <1>2, <2>1 DEF TypeOK
  <2> QED BY <1>1, <1>2, <2>2 DEF TypeOK, clockVars, cacheVars, connVars, bootVars
<1>4. \A s \in Sweeps : pc'[s] = pc[s]
  BY <1>1, <1>2 DEF TypeOK, Tasks
<1>5. CutoffInv'
  BY <1>1, <1>2, <1>4 DEF CutoffInv, clockVars
<1>6. KnownInv'
  BY <1>1, <1>2, <1>4, KnownFrame DEF clockVars, cacheVars, connVars
<1>7. RangeInv'
  BY <1>1, <1>2, <1>4, RangeFrame DEF clockVars, cacheVars
<1>8. AheadInv'
  BY <1>1, <1>2, <1>4, AheadFrame DEF Ensured, clockVars, cacheVars, bootVars
<1> QED BY <1>3, <1>5, <1>6, <1>7, <1>8 DEF Inv

LEMMA MidnightInv ==
  ASSUME Inv, Midnight
  PROVE  Inv'
<1>1. /\ today < LastToday /\ sweptToday = TRUE
      /\ today' = today + 1 /\ sweptToday' = FALSE
      /\ UNCHANGED <<restarts, storeVars, cacheVars, connVars, ddl, taskVars, bootVars>>
  <2>1. sweptToday \in BOOLEAN
    BY DEF Inv, TypeOK
  <2> QED BY <2>1 DEF Midnight
<1>2. /\ TypeOK /\ CutoffInv /\ KnownInv /\ RangeInv /\ AheadInv
      /\ today \in Int /\ RetentionDays \in Int
  BY Constants DEF Inv, TypeOK
<1>3. TypeOK'
  <2>1. today' \in FirstToday..LastToday
    BY <1>1, <1>2, Constants DEF TypeOK
  <2> QED BY <1>1, <1>2, <2>1
      DEF TypeOK, storeVars, cacheVars, connVars, taskVars, bootVars
<1>4. /\ pc' = pc /\ day' = day /\ last' = last /\ cutoff' = cutoff /\ todo' = todo
      /\ dropped' = dropped /\ known' = known /\ catalog' = catalog /\ refused' = refused
      /\ connected' = connected /\ ready' = ready
  BY <1>1 DEF storeVars, cacheVars, connVars, taskVars, bootVars
<1>5. \A s \in Sweeps : /\ s \in Tasks /\ cutoff[s] \in Int /\ day[s] \in Int
                        /\ \A d \in todo[s] : d \in Int
  <2>1. \A s \in Sweeps : s \in Tasks /\ cutoff[s] \in Int /\ day[s] \in Days
                          /\ todo[s] \in SUBSET Days
    BY <1>2 DEF TypeOK, Tasks
  <2> QED BY <2>1 DEF Days
<1>6. CutoffInv'
  <2>1. ASSUME NEW s \in Sweeps, pc[s] \in {"create", "list"}
        PROVE  cutoff[s] <= (today + 1) - RetentionDays
    <3>1. cutoff[s] <= today - RetentionDays
      BY <1>2, <2>1 DEF CutoffInv
    <3> QED BY <3>1, <1>2, <1>5
  <2>2. ASSUME NEW s \in Sweeps, pc[s] \in {"set", "drop", "reset"}
        PROVE  day[s] < (today + 1) - RetentionDays
    <3>1. day[s] < today - RetentionDays
      BY <1>2, <2>2 DEF CutoffInv
    <3> QED BY <3>1, <1>2, <1>5
  <2>3. ASSUME NEW s \in Sweeps, NEW d \in todo[s]
        PROVE  d < (today + 1) - RetentionDays
    <3>1. d < today - RetentionDays
      BY <1>2, <2>3 DEF CutoffInv
    <3> QED BY <3>1, <1>2, <1>5
  <2> QED BY <1>1, <1>4, <2>1, <2>2, <2>3 DEF CutoffInv
<1>7. KnownInv'
  <2>1. ASSUME NEW d \in catalog, d >= (today + 1) - RetentionDays
        PROVE  d \in known
    <3>1. d \in Int
      BY <1>2 DEF TypeOK, Days
    <3>2. d >= today - RetentionDays
      BY <2>1, <3>1, <1>2
    <3> QED BY <3>2, <1>2 DEF KnownInv
  <2> QED BY <1>1, <1>2, <1>4, <2>1 DEF KnownInv
<1>8. Full => Half'
  BY <1>1, <1>2, <1>4 DEF Full, Half, LOOKAHEAD_DAYS
<1>9. RangeInv'
  <2>1. ASSUME NEW s \in Sweeps, pc[s] = "create"
        PROVE  /\ last[s] = Begun(s) + LOOKAHEAD_DAYS
               /\ \A d \in Begun(s)..day[s] - 1 : d >= today + 1 => d \in known
               /\ Begun(s) < (today + 1) - 1 => Half'
    <3>1. Begun(s) \in Int
      BY <1>2, <1>5 DEF Begun
    <3>2. ASSUME NEW d \in Begun(s)..day[s] - 1, d >= today + 1
          PROVE  d \in known
      <4>1. d >= today
        BY <3>1, <3>2, <1>2, <1>5
      <4> QED BY <4>1, <2>1, <1>2 DEF RangeInv
    <3>3. Begun(s) < (today + 1) - 1 => Begun(s) < today
      BY <3>1, <1>2
    <3> QED BY <3>2, <3>3, <2>1, <1>1, <1>2, <1>8 DEF RangeInv
  <2>2. \A s \in Sweeps : Begun(s)' = Begun(s)
    BY <1>4 DEF Begun
  <2> QED BY <1>1, <1>4, <2>1, <2>2 DEF RangeInv
<1>10. AheadInv'
  BY <1>1, <1>2, <1>4, <1>8 DEF AheadInv, Ensured
<1> QED BY <1>3, <1>6, <1>7, <1>9, <1>10 DEF Inv

LEMMA RestartInv ==
  ASSUME Inv, Restart
  PROVE  Inv'
<1>1. /\ TypeOK /\ restarts < MaxRestarts /\ restarts' = restarts + 1
      /\ known' = catalog /\ refused' = {}
      /\ lockTimeout' = FALSE /\ connected' = TRUE /\ ddl' = <<>>
      /\ pc' = Idle /\ day' = NoDay /\ last' = NoDay
      /\ rows' = [f \in Flushes |-> {}] /\ cutoff' = [s \in Sweeps |-> 0]
      /\ todo' = [s \in Sweeps |-> {}] /\ dropped' = [s \in Sweeps |-> FALSE]
      /\ running' = FALSE /\ swept' = FALSE /\ ready' = FALSE
      /\ UNCHANGED <<today, storeVars, sweptToday>>
  BY DEF Restart, Inv
<1>2. \A t \in Tasks : pc'[t] = "idle"
  BY <1>1 DEF Idle
<1>3. \A s \in Sweeps : pc'[s] = "idle"
  BY <1>2 DEF Tasks
<1>4. TypeOK'
  <2>1. /\ pc' \in [Tasks -> {"idle", "create", "list", "set", "drop", "reset", "copying"}]
        /\ day' \in [Tasks -> Days] /\ last' \in [Tasks -> Days]
    BY <1>1, Constants DEF Idle, NoDay
  <2>2. /\ rows' \in [Flushes -> SUBSET Days] /\ cutoff' \in [Sweeps -> Int]
        /\ todo' \in [Sweeps -> SUBSET Days] /\ dropped' \in [Sweeps -> BOOLEAN]
    BY <1>1
  <2>3. restarts' \in 0..MaxRestarts
    BY <1>1, RetentionAssumption DEF TypeOK
  <2>4. /\ today' \in FirstToday..LastToday
        /\ catalog' \subseteq Days /\ defaultDays' \subseteq Days
        /\ known' \subseteq Days /\ refused' \subseteq Days
        /\ sweptToday' \in BOOLEAN
    BY <1>1 DEF TypeOK, storeVars
  <2>5. /\ lockTimeout' \in BOOLEAN /\ connected' \in BOOLEAN
        /\ running' \in BOOLEAN /\ swept' \in BOOLEAN /\ ready' \in BOOLEAN
    BY <1>1, Zenon
  <2>6. ddl' \in Seq(Tasks)
    BY DEF Restart
  <2> QED BY <2>1, <2>2, <2>3, <2>4, <2>5, <2>6 DEF TypeOK
<1>5. CutoffInv'
  BY <1>1, <1>3 DEF CutoffInv
<1>6. KnownInv'
  BY <1>1 DEF KnownInv, storeVars
<1>7. RangeInv'
  BY <1>3 DEF RangeInv
<1>8. AheadInv'
  BY <1>1, <1>3 DEF AheadInv, Ensured, Past
<1> QED BY <1>4, <1>5, <1>6, <1>7, <1>8 DEF Inv

LEMMA DisconnectInv ==
  ASSUME Inv, Disconnect
  PROVE  Inv'
<1>1. /\ TypeOK /\ CutoffInv /\ KnownInv /\ RangeInv /\ AheadInv
      /\ connected' = FALSE
      /\ UNCHANGED <<clockVars, storeVars, cacheVars, lockTimeout, ddl, taskVars, bootVars,
                     sweptToday>>
  BY DEF Inv, Disconnect
<1> USE DEF clockVars, storeVars, cacheVars, taskVars, bootVars
<1>2. TypeOK'
  BY <1>1 DEF TypeOK
<1>3. CutoffInv'
  BY <1>1 DEF CutoffInv
<1>4. KnownInv'
  BY <1>1 DEF KnownInv
<1>5. RangeInv'
  BY <1>1, RangeFrame
<1>6. AheadInv'
  BY <1>1, AheadFrame DEF Ensured
<1> QED BY <1>2, <1>3, <1>4, <1>5, <1>6 DEF Inv

LEMMA StutterInv ==
  ASSUME Inv, UNCHANGED vars
  PROVE  Inv'
<1>1. /\ TypeOK /\ CutoffInv /\ KnownInv /\ RangeInv /\ AheadInv
      /\ UNCHANGED <<clockVars, storeVars, cacheVars, connVars, ddl, taskVars, bootVars,
                     sweptToday>>
  BY DEF Inv, vars
<1> USE DEF clockVars, storeVars, cacheVars, connVars, taskVars, bootVars
<1>2. TypeOK'
  BY <1>1 DEF TypeOK
<1>3. CutoffInv'
  BY <1>1 DEF CutoffInv
<1>4. KnownInv'
  BY <1>1 DEF KnownInv
<1>5. RangeInv'
  BY <1>1, RangeFrame
<1>6. AheadInv'
  BY <1>1, AheadFrame DEF Ensured
<1> QED BY <1>2, <1>3, <1>4, <1>5, <1>6 DEF Inv

LEMMA NextInv == Inv /\ [Next]_vars => Inv'
<1> SUFFICES ASSUME Inv, [Next]_vars
             PROVE  Inv'
  OBVIOUS
<1>1. ASSUME NEW s \in Sweeps, Sweep(s)
      PROVE  Inv'
  BY <1>1, SweepInv
<1>2. ASSUME NEW s \in Sweeps, SweepStep(s)
      PROVE  Inv'
  BY <1>2, ListDoneInv, ListFailsInv, SetDoneInv, DropInv, ResetDoneInv DEF SweepStep
<1>3. ASSUME NEW f \in Flushes, FlushBegins(f) \/ CopyDone(f)
      PROVE  Inv'
  BY <1>3, FlushBeginsInv, CopyDoneInv
<1>4. ASSUME NEW t \in Tasks, CreateDone(t)
      PROVE  Inv'
  <2>1. /\ Answered(t, "create") /\ known' = known \cup {day[t]}
        /\ catalog' = catalog \cup {day[t]} /\ refused' = refused
        /\ UNCHANGED <<clockVars, defaultDays, connVars, rows, cutoff, todo, dropped,
                       bootVars>>
        /\ EnsureFrom(t, day[t] + 1, last[t], known', Tail(ddl))
    BY <1>4 DEF CreateDone
  <2> QED BY <2>1, CreateInv
<1>5. ASSUME NEW t \in Tasks, CreateFails(t)
      PROVE  Inv'
  <2>1. /\ Answered(t, "create") /\ known' = known \cup {day[t]}
        /\ catalog' = catalog /\ refused' = refused \cup {day[t]}
        /\ UNCHANGED <<clockVars, defaultDays, connVars, rows, cutoff, todo, dropped,
                       bootVars>>
        /\ EnsureFrom(t, day[t] + 1, last[t], known', Tail(ddl))
    BY <1>5 DEF CreateFails, storeVars
  <2> QED BY <2>1, CreateInv
<1>6. CASE Midnight \/ Restart \/ Disconnect
  BY <1>6, MidnightInv, RestartInv, DisconnectInv
<1>7. CASE UNCHANGED vars
  BY <1>7, StutterInv
<1> QED BY <1>1, <1>2, <1>3, <1>4, <1>5, <1>6, <1>7 DEF Next, TaskStep

LEMMA InvAlways == Spec => []Inv
BY InitInv, NextInv, PTL DEF Spec

-----------------------------------------------------------------------------
(* The theorems.                                                           *)

\* Every variable keeps its type: in particular, no partition is created beyond the
\* lookahead of the last day.
THEOREM TypeCorrect == Spec => []TypeOK
<1>1. Inv => TypeOK
  BY DEF Inv
<1> QED BY <1>1, InvAlways, PTL

\* partitions.ts, dropOlderThan(): whenever a sweep began and however long its statements
\* waited, it drops no partition of the last RetentionDays days.
THEOREM RetainedDaysAreKept == Spec => KeepsRetainedDays
<1>1. Inv /\ [Next]_vars => [\A d \in catalog \ catalog' : d < today - RetentionDays]_vars
  <2> SUFFICES ASSUME Inv, Next, NEW d \in catalog \ catalog'
               PROVE  d < today - RetentionDays
    OBVIOUS
  <2>1. PICK s \in Sweeps : DropDone(s)
    <3>1. \A s \in Sweeps :
            Sweep(s) \/ ListDone(s) \/ ListFails(s) \/ SetDone(s) \/ DropFails(s)
              \/ ResetDone(s) => catalog' = catalog
      BY DEF Sweep, ListDone, ListFails, SetDone, DropFails, ResetDone, storeVars
    <3>2. \A f \in Flushes : FlushBegins(f) \/ CopyDone(f) => catalog' = catalog
      BY DEF FlushBegins, CopyDone, storeVars
    <3>3. \A t \in Tasks : TaskStep(t) => catalog \subseteq catalog'
      BY DEF TaskStep, CreateDone, CreateFails, storeVars
    <3>4. Midnight \/ Restart \/ Disconnect => catalog' = catalog
      BY DEF Midnight, Restart, Disconnect, storeVars
    <3> QED BY <3>1, <3>2, <3>3, <3>4 DEF Next, SweepStep
  <2>2. d = day[s] /\ pc[s] = "drop"
    BY <2>1 DEF DropDone, Answered
  <2> QED BY <2>2 DEF Inv, CutoffInv
<1> QED BY <1>1, InvAlways, PTL DEF Spec, KeepsRetainedDays

\* partitions.ts, known: the cache agrees with the catalog but for days whose CREATE TABLE
\* failed and days being dropped, and no retained day that has a partition is missing from it.
THEOREM CacheAgrees == Spec => []KnownMatchesCatalog
<1>1. Inv => KnownMatchesCatalog
  <2> SUFFICES ASSUME Inv
               PROVE  KnownMatchesCatalog
    OBVIOUS
  <2>1. KnownInv
    BY DEF Inv
  <2>2. connected => \A d \in known \ catalog :
          d \in refused \/ \E s \in Sweeps : pc[s] = "reset" /\ day[s] = d
    BY <2>1 DEF KnownInv
  <2>3. {d \in catalog : d >= today - RetentionDays} \subseteq known
    BY <2>1 DEF KnownInv
  <2> QED BY <2>2, <2>3 DEF KnownMatchesCatalog
<1> QED BY <1>1, InvAlways, PTL

\* janitor.ts and index.ts: however sweeps, midnights, restarts and failures come, once the
\* service is ready today and tomorrow are in the cache, so that no flush waits for DDL.
THEOREM MidnightIsPrepared == Spec => []LookaheadCoversToday
<1>1. Inv => LookaheadCoversToday
  <2> SUFFICES ASSUME Inv, ready
               PROVE  {today, today + 1} \subseteq known
    BY DEF LookaheadCoversToday
  <2>1. ready = TRUE
    BY DEF Inv, TypeOK
  <2>2. Half
    BY <2>1 DEF Inv, AheadInv, Ensured
  <2> QED BY <2>2 DEF Half
<1> QED BY <1>1, InvAlways, PTL
=============================================================================
