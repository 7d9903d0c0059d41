------------------------- MODULE RestartSetsProofs -------------------------
(***************************************************************************)
(* Theorems about RestartSets, for any number of domains, steps, sessions  *)
(* and any start date: the step counts of controller and model agree, and  *)
(* no restart set is pruned or lost that the next start needs.             *)
(***************************************************************************)
EXTENDS RestartSets, WrfDatetimeProofs, FiniteSetTheorems

(* The greatest element of a bounded set.                                    *)
LEMMA GreatestElement ==
    ASSUME NEW n \in Nat, NEW T \in SUBSET (0 .. n), T # {}
    PROVE  \E x \in T : \A y \in T : y <= x
<1> DEFINE Below == {k \in Nat : n - k \in T}
<1>1. PICK t \in T : TRUE
  OBVIOUS
<1>2. Below \in SUBSET Nat /\ Below # {}
  <2>1. n - t \in Nat /\ n - (n - t) = t
    BY SMT
  <2>2. n - t \in Below
    BY <2>1
  <2> QED
    BY <2>2
<1>3. PICK k \in Below : \A j \in Below : k <= j
  <2> HIDE DEF Below
  <2> QED
    BY <1>2, LeastElement
<1>4. n - k \in T /\ k \in Nat
  OBVIOUS
<1>5. ASSUME NEW y \in T PROVE y <= n - k
  <2>1. n - y \in Nat /\ n - (n - y) = y /\ y \in Nat
    BY SMT
  <2>2. n - y \in Below
    BY <2>1
  <2>3. k <= n - y
    BY <1>3, <2>2
  <2> QED
    BY <1>4, <2>1, <2>3, SMT
<1> QED
  BY <1>4, <1>5

(* A function on the natural numbers that is defined by recursion exists.     *)
LEMMA RecursionOnNat ==
    ASSUME NEW D, NEW first \in D, NEW G \in [D -> D]
    PROVE  \E f \in [Nat -> D] :
               f[0] = first /\ \A n \in Nat : n # 0 => f[n] = G[f[n - 1]]
<1> DEFINE Good(n, g) ==
               /\ g \in [0 .. n -> D]
               /\ g[0] = first
               /\ \A h \in 1 .. n : g[h] = G[g[h - 1]]
<1>1. \A n \in Nat : \E g : Good(n, g)
  <2> DEFINE Bad == {n \in Nat : ~\E g : Good(n, g)}
  <2>1. SUFFICES ASSUME Bad # {} PROVE FALSE
    OBVIOUS
  <2>2. PICK n \in Bad : \A k \in Bad : n <= k
    <3>1. Bad \in SUBSET Nat
      OBVIOUS
    <3> HIDE DEF Bad
    <3> QED
      BY <2>1, <3>1, LeastElement
  <2>3. n # 0
    <3>1. Good(0, [h \in 0 .. 0 |-> first])
      BY SMT
    <3> HIDE DEF Good
    <3> QED
      BY <3>1
  <2>4. n \in Nat /\ n - 1 \in Nat /\ n - 1 \notin Bad
    <3>1. n \in Nat
      OBVIOUS
    <3>2. n - 1 \in Nat /\ ~(n <= n - 1)
      BY <2>3, <3>1, SMT
    <3> QED
      BY <2>2, <3>1, <3>2
  <2>5. PICK g : Good(n - 1, g)
    BY <2>4
  <2> DEFINE k == [h \in 0 .. n |-> IF h = n THEN G[g[n - 1]] ELSE g[h]]
  <2>6. n - 1 \in 0 .. n - 1 /\ 0 \in 0 .. n - 1 /\ 0 \in 0 .. n
    BY <2>4, SMT
  <2>7. k \in [0 .. n -> D]
    <3>1. g[n - 1] \in D /\ G[g[n - 1]] \in D
      BY <2>5, <2>6
    <3>2. \A h \in 0 .. n : h # n => h \in 0 .. n - 1
      BY <2>4, SMT
    <3>3. \A h \in 0 .. n : h # n => g[h] \in D
      BY <2>5, <3>2
    <3> QED
      BY <3>1, <3>3
  <2>8. k[0] = first
    BY <2>3, <2>5, <2>6
  <2>9. ASSUME NEW h \in 1 .. n PROVE k[h] = G[k[h - 1]]
    <3>1. h \in 0 .. n /\ h - 1 \in 0 .. n /\ h - 1 # n
      BY <2>4, SMT
    <3>2. k[h - 1] = g[h - 1]
      BY <3>1
    <3>3. CASE h = n
      BY <3>1, <3>2, <3>3
    <3>4. CASE h # n
      <4>1. h \in 1 .. n - 1
        BY <2>4, <3>4, SMT
      <4>2. g[h] = G[g[h - 1]]
        BY <2>5, <4>1
      <4> QED
        BY <3>1, <3>2, <3>4, <4>2
    <3> QED
      BY <3>3, <3>4
  <2>10. Good(n, k)
    <3> HIDE DEF k
    <3> QED
      BY <2>7, <2>8, <2>9
  <2> QED
    BY <2>10
<1>2. ASSUME NEW n \in Nat, NEW g, NEW k, Good(n, g), Good(n + 1, k)
      PROVE  g[n] = k[n]
  <2> DEFINE Bad == {h \in 0 .. n : g[h] # k[h]}
  <2>1. Bad = {}
    <3>1. SUFFICES ASSUME Bad # {} PROVE FALSE
      OBVIOUS
    <3>2. PICK h \in Bad : \A j \in Bad : h <= j
      <4>1. Bad \in SUBSET Nat
        BY SMT
      <4> HIDE DEF Bad
      <4> QED
        BY <3>1, <4>1, LeastElement
    <3>3. h \in 0 .. n /\ g[h] # k[h]
      OBVIOUS
    <3>4. h # 0
      BY <1>2, <3>3
    <3>5. h \in 1 .. n /\ h \in 1 .. n + 1 /\ h - 1 \in 0 .. n /\ ~(h <= h - 1)
      BY <3>3, <3>4, SMT
    <3>6. g[h - 1] = k[h - 1]
      BY <3>2, <3>5
    <3>7. g[h] = G[g[h - 1]] /\ k[h] = G[k[h - 1]]
      BY <1>2, <3>5
    <3> QED
      BY <3>3, <3>6, <3>7
  <2>2. n \in 0 .. n
    BY SMT
  <2> QED
    BY <2>1, <2>2
<1> DEFINE part(n) == CHOOSE g : Good(n, g)
           f == [n \in Nat |-> part(n)[n]]
<1>3. \A n \in Nat : Good(n, part(n))
  <2> HIDE DEF Good
  <2> QED
    BY <1>1
<1>4. f \in [Nat -> D]
  <2>1. ASSUME NEW n \in Nat PROVE part(n)[n] \in D
    <3>1. part(n) \in [0 .. n -> D] /\ n \in 0 .. n
      <4> HIDE DEF part
      <4> QED
        BY <1>3, SMT
    <3> HIDE DEF part
    <3> QED
      BY <3>1
  <2> HIDE DEF part
  <2> QED
    BY <2>1
<1>5. f[0] = first
  <2> HIDE DEF part
  <2> QED
    BY <1>3
<1>6. ASSUME NEW n \in Nat, n # 0 PROVE f[n] = G[f[n - 1]]
  <2>1. n - 1 \in Nat /\ n - 1 + 1 = n /\ n \in 1 .. n
    BY <1>6, SMT
  <2>2. Good(n - 1, part(n - 1)) /\ Good(n, part(n))
    BY <1>3, <2>1
  <2>3. part(n - 1)[n - 1] = part(n)[n - 1]
    <3> HIDE DEF part, Good
    <3> QED
      BY <1>2, <2>1, <2>2
  <2>4. part(n)[n] = G[part(n)[n - 1]]
    <3> HIDE DEF part
    <3> QED
      BY <2>1, <2>2
  <2> HIDE DEF part
  <2> QED
    BY <2>1, <2>3, <2>4
<1> QED
  <2> HIDE DEF f
  <2> QED
    BY <1>4, <1>5, <1>6

(* The hours of the run are what the recursion says.                          *)
LEMMA Hours ==
    /\ AtHour[0] = StartDate
    /\ \A h \in Nat : AtHour[h] \in Dates
    /\ \A h \in Nat : AtHour[h + 1] = NextHour(AtHour[h])
<1> DEFINE G == [d \in Dates |-> NextHour(d)]
<1>1. G \in [Dates -> Dates]
  BY HourCount
<1>2. PICK f \in [Nat -> Dates] :
          f[0] = StartDate /\ \A n \in Nat : n # 0 => f[n] = G[f[n - 1]]
  <2>1. StartDate \in Dates
    BY DatesAssumption
  <2> HIDE DEF G
  <2> QED
    BY <1>1, <2>1, RecursionOnNat
<1>3. f = [n \in Nat |-> IF n = 0 THEN StartDate ELSE NextHour(f[n - 1])]
  <2>1. ASSUME NEW n \in Nat
        PROVE  f[n] = IF n = 0 THEN StartDate ELSE NextHour(f[n - 1])
    <3>1. n # 0 => n - 1 \in Nat
      BY SMT
    <3>2. n # 0 => f[n - 1] \in Dates
      BY <3>1
    <3> QED
      BY <1>2, <3>2
  <2>2. f = [n \in Nat |-> f[n]]
    OBVIOUS
  <2> QED
    BY <2>1, <2>2
<1>4. AtHour = [n \in Nat |-> IF n = 0 THEN StartDate ELSE NextHour(AtHour[n - 1])]
  BY <1>3 DEF AtHour
<1>5. AtHour[0] = StartDate
  BY <1>4
<1>6. ASSUME NEW h \in Nat PROVE AtHour[h + 1] = NextHour(AtHour[h])
  <2>1. h + 1 \in Nat /\ h + 1 # 0 /\ h + 1 - 1 = h
    BY SMT
  <2> QED
    BY <1>4, <2>1
<1>7. \A h \in Nat : AtHour[h] \in Dates
  <2> DEFINE Bad == {h \in Nat : AtHour[h] \notin Dates}
  <2>1. SUFFICES ASSUME Bad # {} PROVE FALSE
    OBVIOUS
  <2>2. PICK h \in Bad : \A k \in Bad : h <= k
    <3>1. Bad \in SUBSET Nat
      OBVIOUS
    <3> HIDE DEF Bad
    <3> QED
      BY <2>1, <3>1, LeastElement
  <2>3. h \in Nat /\ AtHour[h] \notin Dates /\ h # 0
    BY <1>5, DatesAssumption
  <2>4. h - 1 \in Nat /\ h - 1 + 1 = h /\ ~(h <= h - 1)
    BY <2>3, SMT
  <2>5. AtHour[h - 1] \in Dates
    BY <2>2, <2>4
  <2>6. AtHour[h] = NextHour(AtHour[h - 1])
    BY <1>6, <2>4
  <2> QED
    BY <2>3, <2>5, <2>6, HourCount
<1> QED
  BY <1>5, <1>6, <1>7

LEMMA HourSeconds ==
    ASSUME NEW hour \in Nat
    PROVE  datetime_to_absolute_seconds(AtHour[hour])
               = datetime_to_absolute_seconds(StartDate) + 3600 * hour
<1> DEFINE At(h) == datetime_to_absolute_seconds(AtHour[h])
           start == datetime_to_absolute_seconds(StartDate)
           Bad == {h \in Nat : At(h) # start + 3600 * h}
<1>1. /\ At(0) = start /\ start \in Int
      /\ \A h \in Nat : At(h) \in Int /\ At(h + 1) = At(h) + 3600
  BY Hours, HourCount
<1>2. Bad = {}
  <2>1. SUFFICES ASSUME Bad # {} PROVE FALSE
    OBVIOUS
  <2>2. PICK h \in Bad : \A k \in Bad : h <= k
    <3>1. Bad \in SUBSET Nat
      OBVIOUS
    <3> HIDE DEF Bad
    <3> QED
      BY <2>1, <3>1, LeastElement
  <2> HIDE DEF At, start
  <2>3. h \in Nat /\ At(h) # start + 3600 * h
    OBVIOUS
  <2>4. h # 0
    BY <1>1, <2>3, SMT
  <2>5. h - 1 \in Nat /\ h - 1 + 1 = h /\ ~(h <= h - 1)
    BY <2>3, <2>4, SMT
  <2>6. At(h - 1) = start + 3600 * (h - 1)
    BY <2>2, <2>5
  <2>7. At(h) = At(h - 1) + 3600
    BY <1>1, <2>5
  <2> QED
    BY <1>1, <2>3, <2>6, <2>7, SMT
<1> QED
  BY <1>2

LEMMA Multiples ==
    ASSUME NEW n \in Nat \ {0}, NEW k \in Nat
    PROVE  (k * n) % n = 0 /\ (k * n) \div n = k
BY SMT

(* The steps between the start of the run and the date of a step.             *)
LEMMA StepsElapsed ==
    ASSUME NEW step \in Steps
    PROVE  ElapsedSteps(DateOf[0], DateOf[step]) = step
<1> DEFINE hours == step * HoursPerStep
<1>1. step \in Nat /\ HoursPerStep \in Nat \ {0} /\ 0 \in Steps
  BY StepsAssumption, DatesAssumption DEF Steps
<1>2. hours \in Nat /\ 0 * HoursPerStep = 0 /\ timestep_seconds \in Nat \ {0}
  BY <1>1, SMT DEF timestep_seconds
<1>3. DateOf[0] = AtHour[0] /\ DateOf[step] = AtHour[hours]
  BY <1>1, <1>2 DEF DateOf
<1>4. DateOf[0] \in Dates /\ DateOf[step] \in Dates
  BY <1>2, <1>3, Hours
<1>5. is_valid_datetime(DateOf[0]) /\ is_valid_datetime(DateOf[step])
  BY <1>4, ValidDates DEF Dates
<1>6. /\ datetime_to_absolute_seconds(DateOf[0]) \in Int
      /\ datetime_to_absolute_seconds(DateOf[step])
             = datetime_to_absolute_seconds(DateOf[0]) + 3600 * hours
  BY <1>2, <1>3, <1>4, Hours, HourSeconds, HourCount
<1>7. 3600 * hours = step * timestep_seconds /\ step * timestep_seconds \in Nat
  BY <1>1, SMT DEF timestep_seconds
<1>8. datetime_duration_seconds(DateOf[0], DateOf[step]) = step * timestep_seconds
  <2> HIDE DEF hours
  <2>1. datetime_to_absolute_seconds(DateOf[step])
             - datetime_to_absolute_seconds(DateOf[0]) = step * timestep_seconds
    BY <1>6, <1>7, SMT
  <2> QED
    BY <1>5, <1>7, <2>1, SMT DEF datetime_duration_seconds
<1>9. /\ (step * timestep_seconds) % timestep_seconds = 0
      /\ (step * timestep_seconds) \div timestep_seconds = step
  BY <1>1, <1>2, Multiples
<1> QED
  BY <1>7, <1>8, <1>9 DEF ElapsedSteps

(* The output file of a step is looked for under the date that the model names   *)
(* it by (get_output_filenames()), for every start date, time step and step.     *)
THEOREM OutputDateTrue ==
    ASSUME NEW step \in Steps
    PROVE  OutputDate(DateOf[0], step * timestep_seconds) = DateOf[step]
<1>1. step \in Nat /\ HoursPerStep \in Nat \ {0} /\ 0 \in Steps
  BY StepsAssumption, DatesAssumption DEF Steps
<1>2. PICK hours : hours = step * HoursPerStep
  OBVIOUS
<1>3. PICK seconds : seconds = step * timestep_seconds
  OBVIOUS
<1>4. hours \in Nat /\ 0 * HoursPerStep = 0 /\ seconds \in Nat /\ seconds = 3600 * hours
  BY <1>1, <1>2, <1>3, SMT DEF timestep_seconds
<1>5. DateOf[0] = AtHour[0] /\ DateOf[step] = AtHour[hours]
  BY <1>1, <1>2, <1>4 DEF DateOf
<1>6. DateOf[0] \in Dates /\ DateOf[step] \in Dates
  BY <1>4, <1>5, Hours
<1>7. datetime_to_absolute_seconds(DateOf[step])
          = datetime_to_absolute_seconds(DateOf[0]) + seconds
  BY <1>4, <1>5, Hours, HourSeconds
<1>8. /\ OutputDate(DateOf[0], seconds) \in Dates
      /\ datetime_to_absolute_seconds(OutputDate(DateOf[0], seconds))
             = datetime_to_absolute_seconds(DateOf[0]) + seconds
  BY <1>4, <1>6, SecondsAdded DEF OutputDate
<1> QED
  BY <1>3, <1>6, <1>7, <1>8, SecondsDistinct

-----------------------------------------------------------------------------
\* Some set from this time on is whole.
Covered(t) == \E w \in RestartTimes : w >= t /\ Whole(w)

\* Something of the set is on disk, if only an empty file.
Begun(t) == \E d \in Domains : content[<<t, d>>] # "none"

BeforeScan == {"setup", "preserve", "scan"}

AfterScan == {"parse", "decide", "record", "launch"}

\* What a start has found and done so far; the model of the session before is gone,
\* so that nothing changes the files meanwhile.
StartInv ==
    /\ pc \in StartupPCs => model # "running"
    /\ pc \in BeforeScan \cup {"rewrite"} => namelist = 0
    /\ step0 \in {Missing, Torn, 0}
    /\ pc \in {"scan", "rewrite", "parse"} => step0 # Missing
    /\ pc \in {"decide", "record", "launch"} \cup LoopPCs => step0 = 0
    /\ pc \in AfterScan \cup {"rewrite"} => restart_set = LatestRestartSet
    /\ pc = "rewrite" => restart_set # NoSet
    /\ pc \in AfterScan =>
          IF restart_set = NoSet THEN namelist = 0
                                 ELSE namelist = restart_set /\ reference = 0
    /\ pc \in {"record", "launch"} /\ restart_set # NoSet => last_completed = restart_set

\* What is on disk: a model is never behind a set that looks complete; a set is begun
\* only when the one before, or a later one, is whole.
FilesInv ==
    /\ model = "running" =>
          /\ \A t \in RestartTimes : LooksComplete(t) => t <= model_step
          /\ \A t \in RestartTimes :
                t <= model_step /\ (t = model_step => writing = 0) => Covered(t)
          /\ started <= model_step
    /\ \A t, u \in RestartTimes : t < u /\ Begun(u) => Covered(t)
    /\ started \in RestartTimes \cup {0}
    /\ started > 0 => \E t \in RestartTimes : t >= started /\ LooksComplete(t)

\* The set that is being written.
WritingInv ==
    writing > 0 =>
        /\ model = "running" /\ model_step \in RestartTimes /\ started < model_step
        /\ content[<<model_step, writing>>] \in {"empty", "part"}
        /\ \A d \in Domains : d < writing => content[<<model_step, d>>] = "whole"

\* What is about to be deleted is older than one whole set.
PruneInv ==
    /\ present # {} => pc = "prune"
    /\ \A f \in present : content[f] # "none"
    /\ doomed # {} =>
          /\ pc = "delete"
          /\ \E t \in RestartTimes : Whole(t) /\ \A f \in doomed : f[1] < t

IInv == TypeOK /\ StartInv /\ FilesInv /\ WritingInv /\ PruneInv

LEMMA TimeFacts ==
    /\ Steps \subseteq Int /\ 0 \in Steps /\ NoSet \notin Steps
    /\ \A t \in RestartTimes : t \in Steps /\ t \in Nat /\ t > 0
    /\ \A s \in Steps : s \in Nat /\ s >= 0 /\ s <= TotalSteps
    /\ TotalSteps \in Nat /\ TotalSteps \in Steps /\ MaxDomains \in Nat /\ MaxDomains > 0
BY StepsAssumption, DomainsAssumption, SMT DEF Steps, RestartTimes, NoSet

(* What find_latest_valid_restart_set() finds.                                *)
LEMMA Latest ==
    /\ LatestRestartSet \in RestartTimes \cup {NoSet}
    /\ LatestRestartSet = NoSet => \A t \in RestartTimes : ~LooksComplete(t)
    /\ LatestRestartSet # NoSet =>
          /\ LooksComplete(LatestRestartSet)
          /\ \A t \in RestartTimes : LooksComplete(t) => t <= LatestRestartSet
<1> DEFINE complete == {t \in RestartTimes : LooksComplete(t)}
<1>1. CASE complete = {}
  <2>1. LatestRestartSet = NoSet
    BY <1>1 DEF LatestRestartSet
  <2> QED
    BY <1>1, <2>1
<1>2. CASE complete # {}
  <2>1. complete \in SUBSET (0 .. TotalSteps) /\ TotalSteps \in Nat
    BY TimeFacts DEF Steps
  <2>2. PICK x \in complete : \A y \in complete : y <= x
    <3> HIDE DEF complete
    <3> QED
      BY <1>2, <2>1, GreatestElement
  <2>3. \A y \in complete : x >= y
    BY <2>1, <2>2, SMT
  <2>4. LatestRestartSet = CHOOSE z \in complete : \A y \in complete : z >= y
    BY <1>2 DEF LatestRestartSet, Max
  <2>5. LatestRestartSet \in complete /\ \A y \in complete : LatestRestartSet >= y
    <3> HIDE DEF complete
    <3> QED
      BY <2>3, <2>4
  <2>6. \A y \in complete : y <= LatestRestartSet
    BY <2>1, <2>5, SMT
  <2>7. LatestRestartSet # NoSet
    BY <2>5, TimeFacts
  <2> QED
    BY <2>5, <2>6, <2>7
<1> QED
  BY <1>1, <1>2

(* A time that is not kept has two newer ones.                                *)
LEMMA TwoNewer ==
    ASSUME NEW found \in SUBSET Files, NEW t \in Times(found), t \notin KeptTimes(found)
    PROVE  \E u, v \in Times(found) : t < u /\ u < v
<1> DEFINE newer == {u \in Times(found) : u > t}
<1>1. Times(found) \subseteq RestartTimes
  BY DEF Times, Files
<1>2. Times(found) \subseteq 0 .. TotalSteps
  BY <1>1, TimeFacts DEF Steps
<1>3. IsFiniteSet(newer)
  <2>1. IsFiniteSet(0 .. TotalSteps)
    BY TimeFacts, FS_Interval
  <2>2. newer \in SUBSET (0 .. TotalSteps)
    BY <1>2
  <2> HIDE DEF newer
  <2> QED
    BY <2>1, <2>2, FS_Subset
<1>4. ~(Cardinality(newer) < 2)
  BY DEF KeptTimes
<1>5. newer # {} /\ \A u : newer # {u}
  <2> HIDE DEF newer
  <2>1. Cardinality(newer) \in Nat
    BY <1>3, FS_CardinalityType
  <2>2. Cardinality(newer) # 0 /\ Cardinality(newer) # 1
    BY <1>4, <2>1, SMT
  <2> QED
    BY <1>3, <2>2, FS_EmptySet, FS_Singleton
<1>6. PICK u, v \in newer : u # v
  <2> HIDE DEF newer
  <2> QED
    BY <1>5
<1>7. u \in Nat /\ v \in Nat /\ t \in Nat /\ u > t /\ v > t
  BY <1>1, TimeFacts
<1>8. (t < u /\ u < v) \/ (t < v /\ v < u)
  BY <1>6, <1>7, SMT
<1> QED
  BY <1>8

(* All that is pruned is older than one set that is whole.                    *)
LEMMA WholeSetKept ==
    ASSUME NEW found \in SUBSET Files, \A f \in found : content[f] # "none",
           FilesInv, NEW pruned,
           pruned = {f \in found : f[1] \notin KeptTimes(found)}, pruned # {}
    PROVE  \E t \in RestartTimes : Whole(t) /\ \A f \in pruned : f[1] < t
<1> DEFINE times == {f[1] : f \in pruned}
<1>1. times \in SUBSET (0 .. TotalSteps) /\ times # {} /\ TotalSteps \in Nat
  BY TimeFacts DEF Files, Steps
<1>2. PICK s \in times : \A t \in times : t <= s
  <2> HIDE DEF times
  <2> QED
    BY <1>1, GreatestElement
<1>3. s \in Times(found) /\ s \notin KeptTimes(found)
  BY DEF Times
<1>4. PICK u, v \in Times(found) : s < u /\ u < v
  BY <1>3, TwoNewer
<1>5. u \in RestartTimes /\ v \in RestartTimes
  BY DEF Times, Files
<1>6. Begun(v)
  <2>1. PICK f \in found : f[1] = v
    BY DEF Times
  <2>2. f = <<v, f[2]>> /\ f[2] \in Domains
    BY <2>1 DEF Files
  <2> QED
    BY <2>2 DEF Begun
<1>7. PICK w \in RestartTimes : w >= u /\ Whole(w)
  BY <1>4, <1>5, <1>6 DEF FilesInv, Covered
<1>8. ASSUME NEW f \in pruned PROVE f[1] < w
  <2>1. f[1] <= s /\ f[1] \in Nat /\ s \in Nat
    BY <1>1, <1>2
  <2> QED
    BY <1>4, <1>5, <1>7, <2>1, TimeFacts, SMT
<1> QED
  BY <1>7, <1>8

-----------------------------------------------------------------------------
(* The invariant holds at first, and every step keeps it.                     *)

LEMMA Initially == Init => IInv
<1> SUFFICES ASSUME Init PROVE IInv
  OBVIOUS
<1>1. TypeOK
  <2>1. 0 \in 0 .. MaxSessions
    BY BoundsAssumption, SMT
  <2> QED
    BY <2>1, TimeFacts DEF Init, TypeOK, StartupPCs, LoopPCs
<1>2. StartInv
  BY DEF Init, StartInv, StartupPCs, LoopPCs, BeforeScan, AfterScan
<1>3. FilesInv
  <2>1. \A t \in RestartTimes : ~Begun(t)
    BY DEF Init, Begun, Files
  <2>2. ~(started > 0)
    BY SMT DEF Init
  <2> QED
    BY <2>1, <2>2 DEF Init, FilesInv
<1>4. WritingInv /\ PruneInv
  <2>1. ~(writing > 0)
    BY SMT DEF Init
  <2> QED
    BY <2>1 DEF Init, WritingInv, PruneInv
<1> QED
  BY <1>1, <1>2, <1>3, <1>4 DEF IInv

(* The step that parse_restart() finds, and that of the log.                  *)
LEMMA StepsFound ==
    /\ reference = 0 /\ restart_set \in RestartTimes => RestartStep = restart_set
    /\ log \in Steps /\ step0 = 0 => CurrentStep = log
<1>1. ASSUME reference = 0, restart_set \in RestartTimes
      PROVE  RestartStep = restart_set
  <2>1. restart_set \in Steps
    BY <1>1, TimeFacts
  <2> QED
    BY <1>1, <2>1, StepsElapsed DEF RestartStep
<1>2. ASSUME log \in Steps, step0 = 0
      PROVE  CurrentStep = log
  <2>1. ElapsedSteps(DateOf[step0], DateOf[log]) = log
    BY <1>2, StepsElapsed
  <2> QED
    BY <1>2, <2>1 DEF CurrentStep
<1> QED
  BY <1>1, <1>2

LEMMA TypeStep == TypeOK /\ StartInv /\ WritingInv /\ [Next]_vars => TypeOK'
<1> SUFFICES ASSUME TypeOK, StartInv, WritingInv, [Next]_vars PROVE TypeOK'
  OBVIOUS
<1> USE DEF TypeOK, slot, child, startup, pruning, control
<1>1. CASE ModelStep
  <2>1. model_step + 1 \in Steps
    BY <1>1, TimeFacts, SMT DEF ModelStep, Steps
  <2>2. 1 \in Domains
    BY TimeFacts, SMT DEF Domains
  <2>3. WritesRestartAt(model_step + 1) => <<model_step + 1, 1>> \in Files
    BY <2>2 DEF WritesRestartAt, Files
  <2>4. content' \in [Files -> {"none", "empty", "part", "whole"}]
    BY <1>1, <2>3 DEF ModelStep
  <2>5. writing' \in {0} \cup Domains
    BY <1>1, <2>2 DEF ModelStep
  <2> QED
    BY <1>1, <2>1, <2>4, <2>5 DEF ModelStep
<1>2. CASE ModelFills
  BY <1>2 DEF ModelFills
<1>3. CASE ModelCloses
  <2>1. writing < MaxDomains => writing + 1 \in Domains
    BY TimeFacts, SMT DEF Domains
  <2>2. writing' \in {0} \cup Domains
    BY <1>3, <2>1 DEF ModelCloses
  <2>3. content' \in [Files -> {"none", "empty", "part", "whole"}]
    BY <1>3 DEF ModelCloses
  <2> QED
    BY <1>3, <2>2, <2>3 DEF ModelCloses
<1>4. CASE ModelExit
  BY <1>4 DEF ModelExit
<1>5. CASE Start
  <2>1. session + 1 \in 0 .. MaxSessions
    BY <1>5, BoundsAssumption, SMT DEF Start
  <2> QED
    BY <1>5, <2>1, TimeFacts DEF Start, Extracted, StartupPCs
<1>6. CASE OpenStep0 \/ FillStep0
  BY <1>6 DEF OpenStep0, FillStep0, StartupPCs
<1>7. CASE ScanRestarts
  BY <1>7, Latest DEF ScanRestarts, StartupPCs
<1>8. CASE RewriteNamelist
  <2>1. restart_set \in Steps
    BY <1>8, TimeFacts DEF RewriteNamelist, StartInv
  <2> QED
    BY <1>8, <2>1 DEF RewriteNamelist, StartupPCs
<1>9. CASE ParseControlInput
  BY <1>9 DEF ParseControlInput, StartupPCs
<1>10. CASE Decide
  <2>1. RestartRun => RestartStep \in Steps
    <3>1. RestartRun => restart_set \in RestartTimes /\ reference = 0
      BY <1>10 DEF Decide, RestartRun, StartInv, AfterScan
    <3> QED
      BY <3>1, StepsFound, TimeFacts
  <2>2. RunAgainFromStepZero => progress \in Steps
    BY DEF RunAgainFromStepZero
  <2>3. last_completed' \in Steps
    BY <1>10, <2>1, <2>2, TimeFacts DEF Decide
  <2> QED
    BY <1>10, <2>3 DEF Decide, StartupPCs
<1>11. CASE RecordStart \/ Launch
  BY <1>11, TimeFacts DEF RecordStart, Launch, StartupPCs, LoopPCs
<1>12. CASE Observe
  <2>1. CurrentStep \in Steps
    BY TimeFacts DEF CurrentStep
  <2> QED
    BY <1>12, <2>1, TimeFacts DEF Observe, LoopPCs
<1>13. CASE StepTasks
  BY <1>13 DEF StepTasks, LoopPCs, NonEmpty
<1>14. CASE Prune
  <2>1. PICK found \in SUBSET (present \cup NonEmpty) :
            doomed' = {f \in found : f[1] \notin KeptTimes(found)}
    BY <1>14 DEF Prune
  <2>2. doomed' \subseteq Files
    BY <2>1 DEF NonEmpty
  <2> QED
    BY <1>14, <2>2 DEF Prune, LoopPCs
<1>15. CASE DeleteRestartFile
  BY <1>15 DEF DeleteRestartFile
<1>16. CASE Pruned \/ EndStep \/ Save
  BY <1>16 DEF Pruned, EndStep, Save, LoopPCs
<1>17. CASE Interrupt
  BY <1>17 DEF Interrupt
<1>18. CASE Over \/ UNCHANGED vars
  BY <1>18 DEF Over, vars
<1> QED
  BY <1>1, <1>2, <1>3, <1>4, <1>5, <1>6, <1>7, <1>8, <1>9, <1>10, <1>11, <1>12, <1>13,
     <1>14, <1>15, <1>16, <1>17, <1>18 DEF Next, Model, Startup, Loop

LEMMA StartStep == TypeOK /\ StartInv /\ PruneInv /\ [Next]_vars => StartInv'
<1> SUFFICES ASSUME TypeOK, StartInv, PruneInv, [Next]_vars PROVE StartInv'
  OBVIOUS
<1> USE DEF slot, child, startup, pruning, control, StartupPCs, LoopPCs, BeforeScan, AfterScan
<1>1. content' = content => LatestRestartSet' = LatestRestartSet
  BY DEF LatestRestartSet, LooksComplete, NonEmpty
<1>2. CASE ModelStep \/ ModelFills \/ ModelCloses
  BY <1>2 DEF ModelStep, ModelFills, ModelCloses, StartInv
<1>3. CASE ModelExit
  BY <1>1, <1>3 DEF ModelExit, StartInv
<1>4. CASE Start
  BY <1>1, <1>4 DEF Start, Extracted, StartInv
<1>5. CASE OpenStep0 \/ FillStep0
  BY <1>1, <1>5 DEF OpenStep0, FillStep0, StartInv, Torn, Missing
<1>6. CASE ScanRestarts
  BY <1>1, <1>6 DEF ScanRestarts, StartInv
<1>7. CASE RewriteNamelist \/ ParseControlInput
  BY <1>1, <1>7 DEF RewriteNamelist, ParseControlInput, StartInv
<1>8. CASE Decide
  <2>1. CASE pc' = "ended"
    BY <1>1, <1>8, <2>1 DEF Decide, StartInv
  <2>2. CASE pc' = "record"
    <3>1. restart_set # NoSet => last_completed' = restart_set
      <4>1. SUFFICES ASSUME restart_set # NoSet PROVE last_completed' = restart_set
        OBVIOUS
      <4>2. restart_set \in RestartTimes /\ reference = 0
        BY <1>8, <4>1 DEF TypeOK, Decide, StartInv
      <4>3. last_completed' = RestartStep
        BY <1>8, <2>2, <4>1 DEF Decide, FreshRun, RunAgainFromStepZero
      <4> QED
        BY <4>2, <4>3, StepsFound
    <3> QED
      BY <1>1, <1>8, <2>2, <3>1 DEF Decide, StartInv
  <2> QED
    BY <1>8, <2>1, <2>2 DEF Decide
<1>9. CASE RecordStart \/ Launch
  BY <1>1, <1>9 DEF RecordStart, Launch, StartInv
<1>10. CASE Observe \/ StepTasks \/ Prune \/ DeleteRestartFile \/ Pruned \/ EndStep \/ Save
  BY <1>10 DEF Observe, StepTasks, Prune, DeleteRestartFile, Pruned, EndStep, Save,
     StartInv
<1>11. CASE Interrupt
  BY <1>11 DEF Interrupt, StartInv
<1>12. CASE Over \/ UNCHANGED vars
  BY <1>1, <1>12 DEF Over, vars, StartInv
<1> QED
  BY <1>2, <1>3, <1>4, <1>5, <1>6, <1>7, <1>8, <1>9, <1>10, <1>11, <1>12
     DEF Next, Model, Startup, Loop

(* What is whole looks complete, and what looks complete has been begun.       *)
LEMMA WholeLooksComplete ==
    ASSUME NEW t \in RestartTimes
    PROVE  /\ Whole(t) => LooksComplete(t)
           /\ \A d \in Domains : <<t, d>> \in Files
BY DEF Whole, LooksComplete, NonEmpty, Files

(* A step that makes no set less than whole, none begun, and leaves the model. *)
LEMMA QuietStep ==
    ASSUME FilesInv, WritingInv, UNCHANGED <<content, child, started>>
    PROVE  FilesInv' /\ WritingInv'
BY DEF FilesInv, WritingInv, Covered, Begun, Whole, LooksComplete, NonEmpty, child

(* The steps of the model.                                                     *)
LEMMA ModelStepFiles ==
    ASSUME IInv, ModelStep
    PROVE  FilesInv' /\ WritingInv' /\ PruneInv'
<1> USE DEF IInv
<1> DEFINE n == model_step + 1
<1>1. /\ n \in Steps /\ n \in Nat /\ model_step \in Nat /\ model_step < n
      /\ \A t \in RestartTimes : t \in Nat /\ (t < n <=> t <= model_step)
             /\ (t <= n <=> t <= model_step \/ t = n)
      /\ 1 \in Domains /\ started \in Nat
  <2>1. n \in Steps /\ n \in Nat /\ model_step \in Nat /\ model_step < n
    BY TimeFacts, SMT DEF ModelStep, TypeOK, Steps
  <2>2. \A t \in RestartTimes : t \in Nat /\ (t < n <=> t <= model_step)
             /\ (t <= n <=> t <= model_step \/ t = n)
    BY <2>1, TimeFacts, SMT
  <2>3. 1 \in Domains /\ started \in Nat
    BY TimeFacts, SMT DEF Domains, TypeOK
  <2> QED
    BY <2>1, <2>2, <2>3
<1> HIDE DEF n
<1>2. /\ model = "running" /\ writing = 0 /\ model' = "running" /\ model_step' = n
      /\ writing' = IF n \in RestartTimes THEN 1 ELSE 0
      /\ content' = IF n \in RestartTimes THEN [content EXCEPT ![<<n, 1>>] = "empty"]
                                          ELSE content
      /\ UNCHANGED <<started, pc, present, doomed>>
  BY DEF ModelStep, WritesRestartAt, control, pruning, n
<1>3. ASSUME NEW t \in RestartTimes, t # n, NEW d \in Domains
      PROVE  content'[<<t, d>>] = content[<<t, d>>]
  BY <1>2, <1>3, WholeLooksComplete DEF TypeOK
<1>4. ASSUME NEW t \in RestartTimes, t # n
      PROVE  /\ Whole(t)' <=> Whole(t)
             /\ LooksComplete(t)' <=> LooksComplete(t)
             /\ Begun(t)' <=> Begun(t)
  BY <1>3, <1>4 DEF Whole, LooksComplete, NonEmpty, Begun, Files
<1>5. \A t \in RestartTimes : LooksComplete(t) => t <= model_step /\ t # n
  BY <1>1, <1>2, TimeFacts, SMT DEF FilesInv
<1>6. ASSUME NEW t \in RestartTimes, Whole(t) PROVE t # n /\ Whole(t)'
  BY <1>4, <1>5, <1>6, WholeLooksComplete
<1>7. \A t \in RestartTimes : Covered(t) => Covered(t)'
  BY <1>6 DEF Covered
<1>8. \A t \in RestartTimes : t <= model_step => Covered(t)
  BY <1>2 DEF FilesInv
<1>9. FilesInv'
  <2>1. \A t \in RestartTimes : LooksComplete(t)' => t <= n
    BY <1>1, <1>4, <1>5
  <2>2. ASSUME NEW t \in RestartTimes, t <= n, t = n => writing' = 0
        PROVE  Covered(t)'
    <3>1. t # n
      BY <1>2, <2>2
    <3> QED
      BY <1>1, <1>7, <1>8, <2>2, <3>1
  <2>3. started <= n
    BY <1>1, <1>2, SMT DEF FilesInv
  <2>4. ASSUME NEW t \in RestartTimes, NEW u \in RestartTimes, t < u, Begun(u)'
        PROVE  Covered(t)'
    <3>1. CASE u = n
      BY <1>1, <1>7, <1>8, <2>4, <3>1
    <3>2. CASE u # n
      BY <1>4, <1>7, <2>4, <3>2 DEF FilesInv
    <3> QED
      BY <3>1, <3>2
  <2>5. started > 0 => \E t \in RestartTimes : t >= started /\ LooksComplete(t)'
    BY <1>4, <1>5 DEF FilesInv
  <2> QED
    BY <1>2, <2>1, <2>2, <2>3, <2>4, <2>5 DEF FilesInv
<1>10. WritingInv'
  <2>1. SUFFICES ASSUME n \in RestartTimes PROVE WritingInv'
    BY <1>2, SMT DEF WritingInv
  <2>2. content'[<<n, 1>>] = "empty"
    BY <1>1, <1>2, <2>1, WholeLooksComplete DEF TypeOK
  <2>3. started < n
    BY <1>1, <1>2, SMT DEF FilesInv
  <2>4. \A d \in Domains : ~(d < 1)
    BY TimeFacts, SMT DEF Domains
  <2> QED
    BY <1>2, <2>1, <2>2, <2>3, <2>4 DEF WritingInv
<1>11. PruneInv'
  <2>1. \A f \in present : content'[f] # "none"
    BY <1>2 DEF PruneInv, TypeOK
  <2> QED
    BY <1>2, <1>6, <2>1 DEF PruneInv
<1> QED
  BY <1>9, <1>10, <1>11

LEMMA ModelFillsFiles ==
    ASSUME IInv, ModelFills
    PROVE  FilesInv' /\ WritingInv' /\ PruneInv'
<1> USE DEF IInv
<1>1. /\ model = "running" /\ writing > 0 /\ writing \in Domains
      /\ model_step \in RestartTimes /\ <<model_step, writing>> \in Files
      /\ content[<<model_step, writing>>] = "empty"
      /\ content' = [content EXCEPT ![<<model_step, writing>>] = "part"]
      /\ UNCHANGED <<child, started, pc, present, doomed>>
  <2>1. writing \in Domains
    BY SMT DEF ModelFills, TypeOK
  <2> QED
    BY <2>1, WholeLooksComplete DEF ModelFills, WritingInv, control, pruning
<1>2. /\ content'[<<model_step, writing>>] = "part"
      /\ \A f \in Files : f # <<model_step, writing>> => content'[f] = content[f]
  BY <1>1 DEF TypeOK
<1>3. ASSUME NEW t \in RestartTimes
      PROVE  /\ Whole(t) => Whole(t)' /\ t # model_step
             /\ LooksComplete(t) => LooksComplete(t)'
             /\ LooksComplete(t)' => LooksComplete(t) \/ t = model_step
             /\ Begun(t)' => Begun(t)
  <2>1. Whole(t) => t # model_step
    BY <1>1 DEF Whole
  <2>2. \A d \in Domains : <<t, d>> \in Files /\ (t # model_step => <<t, d>> # <<model_step, writing>>)
    BY WholeLooksComplete
  <2> QED
    BY <1>1, <1>2, <2>1, <2>2 DEF Whole, LooksComplete, NonEmpty, Begun
<1>4. \A t \in RestartTimes : Covered(t) => Covered(t)'
  BY <1>3 DEF Covered
<1>5. model_step <= model_step
  BY TimeFacts, SMT DEF TypeOK
<1>6. FilesInv'
  <2>1. \A t \in RestartTimes : LooksComplete(t)' => t <= model_step
    BY <1>1, <1>3, <1>5 DEF FilesInv
  <2>2. started > 0 => \E t \in RestartTimes : t >= started /\ LooksComplete(t)'
    BY <1>3 DEF FilesInv
  <2>3. \A t, u \in RestartTimes : t < u /\ Begun(u)' => Covered(t)'
    BY <1>3, <1>4 DEF FilesInv
  <2> QED
    BY <1>1, <1>4, <2>1, <2>2, <2>3 DEF FilesInv, child
<1>7. WritingInv'
  <2>1. ASSUME NEW d \in Domains, d < writing
        PROVE  content'[<<model_step, d>>] = "whole"
    <3>1. d # writing /\ <<model_step, d>> \in Files
      BY <1>1, <2>1, WholeLooksComplete, SMT DEF Domains
    <3> QED
      BY <1>1, <1>2, <2>1, <3>1 DEF WritingInv
  <2> QED
    BY <1>1, <1>2, <2>1 DEF WritingInv, child
<1>8. PruneInv'
  <2>1. \A f \in present : content'[f] # "none"
    BY <1>1, <1>2 DEF PruneInv, TypeOK
  <2> QED
    BY <1>1, <1>3, <2>1 DEF PruneInv
<1> QED
  BY <1>6, <1>7, <1>8

LEMMA ModelClosesFiles ==
    ASSUME IInv, ModelCloses
    PROVE  FilesInv' /\ WritingInv' /\ PruneInv'
<1> USE DEF IInv
<1>1. /\ model = "running" /\ writing > 0 /\ writing \in Domains
      /\ model_step \in RestartTimes /\ <<model_step, writing>> \in Files
      /\ content[<<model_step, writing>>] = "part"
      /\ started < model_step
      /\ UNCHANGED <<model, model_step, started, pc, present, doomed>>
  <2>1. writing \in Domains
    BY SMT DEF ModelCloses, TypeOK
  <2> QED
    BY <2>1, WholeLooksComplete DEF ModelCloses, WritingInv, control, pruning
<1>2. /\ \A f \in Files : f[1] # model_step => content'[f] = content[f]
      /\ \A f \in Files : content[f] # "none" => content'[f] # "none"
      /\ content'[<<model_step, writing>>] = "whole"
      /\ \A d \in Domains : d < writing =>
            content'[<<model_step, d>>] = content[<<model_step, d>>]
  <2>1. writing + 1 # writing /\ \A d \in Domains : d < writing => d # writing /\ d # writing + 1
    BY <1>1, SMT DEF Domains
  <2>2. \A d \in Domains : <<model_step, d>> \in Files
    BY <1>1, WholeLooksComplete
  <2>3. CASE writing < MaxDomains
    <3>1. content' = [[content EXCEPT ![<<model_step, writing>>] = "whole"]
                          EXCEPT ![<<model_step, writing + 1>>] = "empty"]
      BY <2>3 DEF ModelCloses
    <3> QED
      BY <1>1, <2>1, <2>2, <3>1 DEF TypeOK
  <2>4. CASE ~(writing < MaxDomains)
    <3>1. content' = [content EXCEPT ![<<model_step, writing>>] = "whole"]
      BY <2>4 DEF ModelCloses
    <3> QED
      BY <1>1, <2>1, <2>2, <3>1 DEF TypeOK
  <2> QED
    BY <2>3, <2>4
<1>3. ASSUME NEW t \in RestartTimes, t # model_step
      PROVE  /\ Whole(t)' <=> Whole(t)
             /\ LooksComplete(t)' <=> LooksComplete(t)
             /\ Begun(t)' <=> Begun(t)
  <2>1. \A d \in Domains : <<t, d>> \in Files /\ content'[<<t, d>>] = content[<<t, d>>]
    BY <1>2, <1>3, WholeLooksComplete
  <2> QED
    BY <2>1 DEF Whole, LooksComplete, NonEmpty, Begun
<1>4. ~Whole(model_step) /\ Begun(model_step)
  BY <1>1 DEF Whole, Begun
<1>5. \A t \in RestartTimes : Whole(t) => Whole(t)' /\ t # model_step
  BY <1>3, <1>4
<1>6. \A t \in RestartTimes : Covered(t) => Covered(t)'
  BY <1>5 DEF Covered
<1>7. writing' = 0 => Whole(model_step)'
  <2>1. SUFFICES ASSUME writing' = 0 PROVE Whole(model_step)'
    OBVIOUS
  <2>2. writing = MaxDomains
    BY <1>1, <2>1, TimeFacts, SMT DEF ModelCloses, Domains
  <2>3. \A d \in Domains : d = writing \/ d < writing
    BY <2>2, TimeFacts, SMT DEF Domains
  <2> QED
    BY <1>1, <1>2, <2>3 DEF Whole, WritingInv
<1>8. model_step <= model_step /\ model_step \in Nat /\ started \in Nat
  BY TimeFacts, SMT DEF TypeOK
<1>9. FilesInv'
  <2>1. \A t \in RestartTimes : LooksComplete(t)' => t <= model_step
    BY <1>1, <1>3, <1>8 DEF FilesInv
  <2>2. ASSUME NEW t \in RestartTimes, t <= model_step, t = model_step => writing' = 0
        PROVE  Covered(t)'
    <3>1. CASE t = model_step
      <4>1. Whole(model_step)' /\ model_step >= t
        BY <1>7, <1>8, <2>2, <3>1, SMT
      <4> QED
        BY <1>1, <4>1 DEF Covered
    <3>2. CASE t # model_step
      BY <1>1, <1>6, <2>2, <3>2 DEF FilesInv
    <3> QED
      BY <3>1, <3>2
  <2>3. \A t, u \in RestartTimes : t < u /\ Begun(u)' => Covered(t)'
    BY <1>1, <1>3, <1>4, <1>6 DEF FilesInv
  <2>4. started > 0 => \E t \in RestartTimes : t >= started /\ LooksComplete(t)'
    <3>1. SUFFICES ASSUME started > 0
                   PROVE  \E t \in RestartTimes : t >= started /\ LooksComplete(t)'
      OBVIOUS
    <3>2. started \in RestartTimes
      BY <3>1, SMT DEF FilesInv
    <3>3. started <= model_step /\ started # model_step
      BY <1>1, <1>8, SMT
    <3>4. Covered(started)
      BY <1>1, <3>2, <3>3 DEF FilesInv
    <3>5. PICK w \in RestartTimes : w >= started /\ Whole(w)
      BY <3>4 DEF Covered
    <3> QED
      BY <1>3, <1>5, <3>5, WholeLooksComplete
  <2> QED
    BY <1>1, <2>1, <2>2, <2>3, <2>4 DEF FilesInv
<1>10. WritingInv'
  <2>1. SUFFICES ASSUME writing < MaxDomains PROVE WritingInv'
    BY SMT DEF ModelCloses, WritingInv
  <2>2. writing' = writing + 1 /\ writing + 1 \in Domains
        /\ content'[<<model_step, writing + 1>>] = "empty"
    <3>1. writing + 1 \in Domains
      BY <1>1, <2>1, TimeFacts, SMT DEF Domains
    <3>2. <<model_step, writing + 1>> \in Files
      BY <1>1, <3>1, WholeLooksComplete
    <3> QED
      BY <2>1, <3>1, <3>2 DEF ModelCloses, TypeOK
  <2>3. ASSUME NEW d \in Domains, d < writing + 1
        PROVE  content'[<<model_step, d>>] = "whole"
    <3>1. d < writing \/ d = writing
      BY <1>1, <2>3, SMT DEF Domains
    <3> QED
      BY <1>1, <1>2, <3>1 DEF WritingInv
  <2> QED
    BY <1>1, <2>2, <2>3 DEF WritingInv
<1>11. PruneInv'
  <2>1. \A f \in present : content'[f] # "none"
    BY <1>2 DEF PruneInv, TypeOK
  <2> QED
    BY <1>1, <1>5, <2>1 DEF PruneInv
<1> QED
  BY <1>9, <1>10, <1>11

(* The start of the model: nothing that looks complete is later.               *)
LEMMA LaunchFiles ==
    ASSUME IInv, Launch
    PROVE  FilesInv' /\ WritingInv' /\ PruneInv' /\ started' >= started
<1> USE DEF IInv
<1>1. /\ pc = "launch" /\ restart_set = LatestRestartSet
      /\ namelist = IF restart_set = NoSet THEN 0 ELSE restart_set
      /\ content' = content /\ model_step' = namelist /\ writing' = 0
      /\ started' = namelist /\ UNCHANGED <<present, doomed>>
      /\ pc' = "wait"
  BY DEF Launch, StartInv, AfterScan, slot, pruning
<1>2. namelist \in Nat /\ namelist \in RestartTimes \cup {0} /\ started \in Nat
  BY <1>1, Latest, TimeFacts DEF TypeOK
<1>3. \A t \in RestartTimes :
         /\ Whole(t)' <=> Whole(t)
         /\ LooksComplete(t)' <=> LooksComplete(t)
         /\ Begun(t)' <=> Begun(t)
         /\ Covered(t)' <=> Covered(t)
  BY <1>1 DEF Whole, LooksComplete, NonEmpty, Begun, Covered
<1>4. \A t \in RestartTimes : LooksComplete(t) => t <= namelist
  BY <1>1, Latest
<1>5. namelist > 0 => namelist \in RestartTimes /\ LooksComplete(namelist)
  BY <1>1, Latest, SMT
<1>6. namelist <= namelist /\ namelist >= namelist /\ (0 <= namelist)
  BY <1>2, SMT
<1>7. started' >= started
  <2>1. CASE started > 0
    <3>1. PICK t \in RestartTimes : t >= started /\ LooksComplete(t)
      BY <2>1 DEF FilesInv
    <3> QED
      BY <1>1, <1>2, <1>4, <3>1, TimeFacts, SMT
  <2>2. CASE ~(started > 0)
    BY <1>1, <1>2, <2>2, SMT
  <2> QED
    BY <2>1, <2>2
<1>8. FilesInv'
  <2>1. ASSUME model' = "running", NEW t \in RestartTimes, t <= namelist
        PROVE  Covered(t)
    <3>1. namelist # 0
      BY <1>2, <2>1, TimeFacts, SMT
    <3>2. restart_set # NoSet
      BY <1>1, <3>1
    <3>3. Whole(namelist) /\ namelist \in RestartTimes
      BY <1>2, <2>1, <3>1, <3>2 DEF Launch
    <3>4. namelist >= t
      BY <1>2, <2>1, TimeFacts, SMT
    <3> QED
      BY <3>3, <3>4 DEF Covered
  <2>2. namelist > 0 => \E t \in RestartTimes : t >= namelist /\ LooksComplete(t)'
    BY <1>3, <1>5, <1>6
  <2> QED
    BY <1>1, <1>2, <1>3, <1>4, <1>6, <2>1, <2>2 DEF FilesInv
<1>9. WritingInv'
  BY <1>1, SMT DEF WritingInv
<1>10. PruneInv'
  BY <1>1 DEF PruneInv, Whole
<1> QED
  BY <1>7, <1>8, <1>9, <1>10

(* A deletion leaves the set that is newer than all that is deleted.           *)
LEMMA DeleteFiles ==
    ASSUME IInv, DeleteRestartFile
    PROVE  FilesInv' /\ WritingInv' /\ PruneInv'
<1> USE DEF IInv
<1>1. PICK f \in doomed :
          /\ doomed' = doomed \ {f}
          /\ content' = [content EXCEPT ![f] = "none"] \/ UNCHANGED content
  BY DEF DeleteRestartFile
<1>2. f \in Files /\ f[1] \in RestartTimes
  BY DEF TypeOK, Files
<1>3. UNCHANGED <<child, started, pc, present>> /\ pc = "delete"
  BY DEF DeleteRestartFile
<1>4. PICK w \in RestartTimes : Whole(w) /\ \A g \in doomed : g[1] < w
  BY <1>1 DEF PruneInv
<1>5. \A g \in Files : g # f => content'[g] = content[g]
  BY <1>1 DEF TypeOK
<1>6. \A g \in Files : content'[g] # "none" => content'[g] = content[g]
  BY <1>1, <1>5 DEF TypeOK
<1>7. ASSUME NEW t \in RestartTimes
      PROVE  /\ t # f[1] /\ Whole(t) => Whole(t)'
             /\ LooksComplete(t)' => LooksComplete(t)
             /\ Begun(t)' => Begun(t)
  <2>1. \A d \in Domains : <<t, d>> \in Files /\ (t # f[1] => <<t, d>> # f)
    BY WholeLooksComplete
  <2> QED
    BY <1>5, <1>6, <2>1 DEF Whole, LooksComplete, NonEmpty, Begun
<1>8. Whole(w)' /\ LooksComplete(w)' /\ f[1] < w /\ f[1] \in Nat /\ w \in Nat
  <2>1. f[1] < w /\ f[1] \in Nat /\ w \in Nat
    BY <1>2, <1>4, TimeFacts
  <2>2. w # f[1]
    BY <2>1, SMT
  <2>3. Whole(w)'
    BY <1>4, <1>7, <2>2
  <2>4. Whole(w)' => LooksComplete(w)'
    BY WholeLooksComplete DEF Whole, LooksComplete, NonEmpty
  <2> QED
    BY <2>1, <2>3, <2>4
<1>9. ASSUME NEW t \in RestartTimes, Covered(t) PROVE Covered(t)'
  <2>1. PICK v \in RestartTimes : v >= t /\ Whole(v)
    BY <1>9 DEF Covered
  <2>2. CASE v = f[1]
    <3>1. w >= t
      BY <1>8, <2>1, <2>2, TimeFacts, SMT
    <3> QED
      BY <1>8, <3>1 DEF Covered
  <2>3. CASE v # f[1]
    BY <1>7, <2>1, <2>3 DEF Covered
  <2> QED
    BY <2>2, <2>3
<1>10. ASSUME started > 0
       PROVE  \E t \in RestartTimes : t >= started /\ LooksComplete(t)'
  <2>1. PICK t \in RestartTimes : t >= started /\ LooksComplete(t)
    BY <1>10 DEF FilesInv
  <2>2. CASE t = f[1]
    <3>1. w >= started
      BY <1>8, <2>1, <2>2, TimeFacts, SMT DEF TypeOK
    <3> QED
      BY <1>8, <3>1
  <2>3. CASE t # f[1]
    <3>1. \A d \in Domains : <<t, d>> \in Files /\ <<t, d>> # f
      BY <2>3, WholeLooksComplete
    <3>2. LooksComplete(t)'
      BY <1>5, <2>1, <3>1 DEF LooksComplete, NonEmpty
    <3> QED
      BY <2>1, <3>2
  <2> QED
    BY <2>2, <2>3
<1>11. FilesInv'
  BY <1>3, <1>7, <1>9, <1>10 DEF FilesInv, child
<1>12. WritingInv'
  <2>1. SUFFICES ASSUME writing > 0 PROVE WritingInv'
    BY <1>3 DEF WritingInv, child
  <2>2. w <= model_step /\ model_step \in RestartTimes
    BY <1>4, <2>1, WholeLooksComplete DEF WritingInv, FilesInv
  <2>3. f[1] # model_step
    BY <1>8, <2>2, TimeFacts, SMT
  <2>4. \A d \in Domains : content'[<<model_step, d>>] = content[<<model_step, d>>]
    BY <1>5, <2>2, <2>3, WholeLooksComplete
  <2>5. writing \in Domains
    BY <2>1, SMT DEF TypeOK
  <2> QED
    BY <1>3, <2>1, <2>4, <2>5 DEF WritingInv, child
<1>13. PruneInv'
  <2>1. present = {}
    BY <1>3 DEF PruneInv
  <2> QED
    BY <1>1, <1>3, <1>4, <1>8, <2>1 DEF PruneInv
<1> QED
  BY <1>11, <1>12, <1>13

(* The scan and the choice of what is deleted.                                 *)
LEMMA PruneFiles ==
    ASSUME IInv, Prune
    PROVE  PruneInv'
<1> USE DEF IInv
<1>1. PICK found \in SUBSET (present \cup NonEmpty) :
          doomed' = {f \in found : f[1] \notin KeptTimes(found)}
  BY DEF Prune
<1>2. content' = content /\ present' = {} /\ pc' = "delete"
  BY DEF Prune, slot
<1>3. found \in SUBSET Files /\ \A f \in found : content[f] # "none"
  BY DEF TypeOK, PruneInv, NonEmpty
<1>4. doomed' # {} => \E t \in RestartTimes : Whole(t) /\ \A f \in doomed' : f[1] < t
  BY <1>1, <1>3, WholeSetKept
<1> QED
  BY <1>2, <1>4 DEF PruneInv, Whole

LEMMA FilesStep ==
    ASSUME IInv, [Next]_vars
    PROVE  FilesInv' /\ WritingInv' /\ PruneInv'
<1> USE DEF slot, child, startup, pruning, control
<1>1. CASE ModelStep \/ ModelFills \/ ModelCloses
  BY <1>1, ModelStepFiles, ModelFillsFiles, ModelClosesFiles
<1>2. CASE ModelExit
  <2>1. FilesInv'
    BY <1>2 DEF IInv, ModelExit, FilesInv, Covered, Begun, Whole, LooksComplete, NonEmpty
  <2>2. WritingInv'
    BY <1>2, SMT DEF ModelExit, WritingInv
  <2>3. PruneInv'
    BY <1>2 DEF IInv, ModelExit, PruneInv, Whole
  <2> QED
    BY <2>1, <2>2, <2>3
<1>3. CASE Start \/ OpenStep0 \/ FillStep0 \/ ScanRestarts \/ RewriteNamelist
           \/ ParseControlInput \/ Decide \/ RecordStart
  <2>1. UNCHANGED <<content, child, started, present, doomed>>
    BY <1>3 DEF Start, OpenStep0, FillStep0, ScanRestarts, RewriteNamelist,
       ParseControlInput, Decide, RecordStart
  <2>2. pc \notin {"prune", "delete"}
    BY <1>3 DEF Start, OpenStep0, FillStep0, ScanRestarts, RewriteNamelist,
       ParseControlInput, Decide, RecordStart
  <2>3. PruneInv'
    BY <2>1, <2>2 DEF IInv, PruneInv
  <2> QED
    BY <2>1, <2>3, QuietStep DEF IInv
<1>4. CASE Launch
  BY <1>4, LaunchFiles
<1>5. CASE Observe \/ EndStep \/ Save \/ Pruned
  <2>1. UNCHANGED <<content, child, started, present, doomed>>
    BY <1>5 DEF Observe, EndStep, Save, Pruned
  <2>2. pc # "prune" /\ (pc = "delete" => doomed = {})
    BY <1>5 DEF Observe, EndStep, Save, Pruned
  <2>3. PruneInv'
    BY <2>1, <2>2 DEF IInv, PruneInv
  <2> QED
    BY <2>1, <2>3, QuietStep DEF IInv
<1>6. CASE StepTasks
  <2>1. UNCHANGED <<content, child, started, doomed>> /\ doomed = {} /\ present = {}
    BY <1>6 DEF IInv, StepTasks, PruneInv
  <2>2. PruneInv'
    BY <1>6, <2>1 DEF StepTasks, PruneInv, NonEmpty
  <2> QED
    BY <2>1, <2>2, QuietStep DEF IInv
<1>7. CASE Prune
  <2>1. UNCHANGED <<content, child, started>>
    BY <1>7 DEF Prune
  <2> QED
    BY <1>7, <2>1, PruneFiles, QuietStep DEF IInv
<1>8. CASE DeleteRestartFile
  BY <1>8, DeleteFiles
<1>9. CASE Interrupt
  <2>1. UNCHANGED <<content, child, started>> /\ PruneInv'
    BY <1>9 DEF Interrupt, PruneInv
  <2> QED
    BY <2>1, QuietStep DEF IInv
<1>10. CASE Over \/ UNCHANGED vars
  <2>1. UNCHANGED <<content, child, started, pc, present, doomed>>
    BY <1>10 DEF Over, vars
  <2>2. PruneInv'
    BY <2>1 DEF IInv, PruneInv, Whole
  <2> QED
    BY <2>1, <2>2, QuietStep DEF IInv
<1> QED
  BY <1>1, <1>2, <1>3, <1>4, <1>5, <1>6, <1>7, <1>8, <1>9, <1>10
     DEF Next, Model, Startup, Loop

LEMMA Invariance == Spec => []IInv
<1>1. IInv /\ [Next]_vars => IInv'
  BY TypeStep, StartStep, FilesStep DEF IInv
<1> QED
  BY <1>1, Initially, PTL DEF Spec

-----------------------------------------------------------------------------
(* The theorems.                                                              *)

\* Files, dates, steps and program counters keep their types; the step read from a
\* restart set or from the log is one of the run.
THEOREM TypeInvariant == Spec => []TypeOK
<1>1. IInv => TypeOK
  BY DEF IInv
<1> QED
  BY <1>1, Invariance, PTL

\* Controller and model start from the same step, and the step found in the log is the
\* model's, for every start date, time step and calendar.
THEOREM RestartStepTrueInvariant == Spec => []RestartStepTrue
<1>1. IInv => RestartStepTrue
  <2> SUFFICES ASSUME IInv PROVE RestartStepTrue
    OBVIOUS
  <2>1. pc \in {"record", "launch"} =>
            /\ step0 = 0
            /\ restart_set # NoSet => last_completed = restart_set /\ namelist = restart_set
    BY DEF IInv, StartInv, AfterScan
  <2>2. pc = "wait" => CurrentStep = log
    BY StepsFound DEF IInv, TypeOK, StartInv, LoopPCs
  <2> QED
    BY <2>1, <2>2 DEF RestartStepTrue
<1> QED
  BY <1>1, Invariance, PTL

\* The pruning deletes only what a newer whole set supersedes, whatever the model
\* writes during the scan.
THEOREM PruneOnlySupersededTheorem == Spec => PruneOnlySuperseded
<1>1. IInv /\ [Next]_vars =>
          [\A f \in Files :
              (content[f] # "none" /\ content'[f] = "none")
                  => \E t \in RestartTimes : t > f[1] /\ Whole(t)]_vars
  <2> SUFFICES ASSUME IInv, [Next]_vars, NEW f \in Files,
                      content[f] # "none", content'[f] = "none"
               PROVE  \E t \in RestartTimes : t > f[1] /\ Whole(t)
    OBVIOUS
  <2> USE DEF slot, child
  <2>1. CASE DeleteRestartFile
    <3>1. f \in doomed
      BY <2>1 DEF DeleteRestartFile, IInv, TypeOK
    <3>2. PICK t \in RestartTimes : Whole(t) /\ f[1] < t
      BY <3>1 DEF IInv, PruneInv
    <3>3. t > f[1]
      BY <3>2, TimeFacts, SMT DEF Files
    <3> QED
      BY <3>2, <3>3
  <2>2. CASE ModelStep \/ ModelFills \/ ModelCloses
    BY <2>2 DEF ModelStep, ModelFills, ModelCloses, IInv, TypeOK
  <2>3. CASE ~(DeleteRestartFile \/ ModelStep \/ ModelFills \/ ModelCloses)
    <3>1. content' = content
      BY <2>3 DEF Next, Model, Startup, Loop, ModelExit, Start, OpenStep0, FillStep0,
         ScanRestarts, RewriteNamelist, ParseControlInput, Decide, RecordStart, Launch,
         Observe, StepTasks, Prune, Pruned, EndStep, Save, Interrupt, Over, vars
    <3> QED
      BY <3>1
  <2> QED
    BY <2>1, <2>2, <2>3
<1> QED
  BY <1>1, Invariance, PTL DEF Spec, PruneOnlySuperseded

\* No start of the model is from an earlier step than the one before it.
THEOREM RestartsNeverGoBackTheorem == Spec => RestartsNeverGoBack
<1>1. IInv /\ [Next]_vars => [started' >= started]_vars
  <2> SUFFICES ASSUME IInv, [Next]_vars PROVE started' >= started
    OBVIOUS
  <2>1. CASE Launch
    BY <2>1, LaunchFiles
  <2>2. CASE ~Launch
    <3>1. started' = started
      BY <2>2 DEF Next, Model, Startup, Loop, ModelStep, ModelFills, ModelCloses,
         ModelExit, Start, OpenStep0, FillStep0, ScanRestarts, RewriteNamelist,
         ParseControlInput, Decide, RecordStart, Observe, StepTasks, Prune,
         DeleteRestartFile, Pruned, EndStep, Save, Interrupt, Over, vars
    <3> QED
      BY <3>1, TimeFacts, SMT DEF IInv, TypeOK
  <2> QED
    BY <2>1, <2>2
<1> QED
  BY <1>1, Invariance, PTL DEF Spec, RestartsNeverGoBack

=============================================================================
