----------------------- MODULE SourceSelectionProofs -----------------------
(***************************************************************************)
(* What a source publishes, for any feed, clock, window and cap: caps are  *)
(* kept, no image older than what they allow comes out, and a GLM window   *)
(* goes out whole.                                                         *)
(***************************************************************************)
EXTENDS SourceSelection, FiniteSetTheorems, TLAPS

TypeInv ==
    /\ family \in Families
    /\ now \in Nat
    /\ listing \subseteq Files[family]

LEMMA Inductive == Spec => []TypeInv
<1>1. Init => TypeInv
    BY ClockAssumption DEF Init, TypeInv
<1>2. TypeInv /\ [Next]_vars => TypeInv'
    <2> SUFFICES ASSUME TypeInv, [Next]_vars
                 PROVE  TypeInv'
        OBVIOUS
    <2>1. CASE \E images : Publish(images)
        BY <2>1 DEF Publish, TypeInv
    <2>2. CASE Arrives
        BY <2>2 DEF Arrives, TypeInv
    <2>3. CASE RunIsServed \/ Completes \/ Dropped \/ TilesExpire \/ UNCHANGED vars
        BY <2>3 DEF RunIsServed, Completes, Dropped, TilesExpire, vars, TypeInv
    <2>4. CASE Passes
        BY <2>4 DEF Passes, TypeInv
    <2> QED
        BY <2>1, <2>2, <2>3, <2>4 DEF Next, Tick, TickLoses
<1> QED
    BY <1>1, <1>2, PTL DEF Spec

(* A tick publishes what is selected, with some listings lost at worst;    *)
(* no other step changes what the last tick published.                     *)
LEMMA EmittedIs ==
    ASSUME TypeInv, [Next]_vars
    PROVE  \/ emitted' = emitted
           \/ \E lost \in {{}} \cup {{t} : t \in Times} :
                /\ emitted' = Selected(lost)
                /\ lost # {} => family \in {"abi", "radar", "inta", "gfs"}
           \/ family = "ecmwf" /\ emitted' = {}
<1>1. CASE Tick
    BY <1>1 DEF Tick, Publish
<1>2. CASE TickLoses
    BY <1>2 DEF TickLoses, Publish
<1>3. CASE Arrives \/ RunIsServed \/ Completes \/ Dropped \/ TilesExpire \/ Passes \/ UNCHANGED vars
    BY <1>3 DEF Arrives, RunIsServed, Completes, Dropped, TilesExpire, Passes, vars
<1> QED
    BY <1>1, <1>2, <1>3 DEF Next

LEMMA FamilyStays == [Next]_vars => family' = family
BY DEF Next, Tick, TickLoses, Publish, Arrives, RunIsServed, Completes, Dropped, TilesExpire,
    Passes, vars

-----------------------------------------------------------------------------
(* The cap of a tick.  A step published is preceded by fewer than the cap  *)
(* allows; that number tells it from every other one.                      *)

LEMMA MissingIs ==
    ASSUME NEW lost, TypeInv
    PROVE  /\ \A i \in Missing(lost) : i = <<i[1], i[2]>> /\ i[1] \in Nat /\ i[2] \in Nat
           /\ IsFiniteSet(Missing(lost))
<1>0. Times \subseteq Nat
    BY ClockAssumption DEF Times
<1>1. Missing(lost) \subseteq Times \X Steps
    <2>1. ASSUME NEW c \in CandidateCycles
          PROVE  c \in Times /\ MissingSteps(c, lost) \subseteq Steps
        BY DEF CandidateCycles, MissingSteps
    <2> QED
        BY <2>1 DEF Missing
<1>4. \A i \in Times \X Steps : i = <<i[1], i[2]>> /\ i[1] \in Times /\ i[2] \in Steps
    OBVIOUS
<1>2. IsFiniteSet(Times)
    BY ClockAssumption, FS_Interval DEF Times
<1>3. IsFiniteSet(Times \X Steps)
    BY <1>2, CapAssumption, FS_Product
<1> QED
    BY <1>0, <1>1, <1>3, <1>4, CapAssumption, FS_Subset

LEMMA GfsBounded ==
    ASSUME NEW lost, TypeInv
    PROVE  Cardinality(Gfs(lost)) <= StepsPerTick
<1> DEFINE M == Missing(lost)
           Before(i) == {j \in M : Ahead(j, i)}
           Taken == {i \in M : Cardinality(Before(i)) < StepsPerTick}
           rank == [e \in Gfs(lost) |-> Cardinality(Before(e.id))]
<1>1. /\ \A i \in M : i = <<i[1], i[2]>> /\ i[1] \in Nat /\ i[2] \in Nat
      /\ IsFiniteSet(M)
    BY MissingIs
<1>2. \A i \in M : IsFiniteSet(Before(i)) /\ Cardinality(Before(i)) \in Nat
    BY <1>1, FS_Subset, FS_CardinalityType
<1>3. ASSUME NEW i \in M, NEW j \in M, Ahead(i, j)
      PROVE  Cardinality(Before(i)) # Cardinality(Before(j))
    <2>1. /\ i[1] \in Int /\ i[2] \in Int /\ j[1] \in Int /\ j[2] \in Int
          /\ \A k \in M : k[1] \in Int /\ k[2] \in Int
        BY <1>1
    <2>2. Before(i) \subseteq Before(j)
        BY <1>3, <2>1 DEF Ahead
    <2>3. i \in Before(j) /\ i \notin Before(i)
        BY <1>3, <2>1 DEF Ahead
    <2> QED
        BY <1>2, <2>2, <2>3, FS_Subset
<1>4. ASSUME NEW i \in M, NEW j \in M, i # j
      PROVE  Ahead(i, j) \/ Ahead(j, i)
    <2>1. i[1] # j[1] \/ i[2] # j[2]
        BY <1>1, <1>4
    <2>2. i[1] \in Nat /\ i[2] \in Nat /\ j[1] \in Nat /\ j[2] \in Nat
        BY <1>1
    <2> QED
        BY <2>1, <2>2 DEF Ahead
<1>5. ASSUME NEW e \in Gfs(lost)
      PROVE  e.id \in Taken /\ e = Image(e.id, {})
    <2>1. PICK i \in Taken : e = Image(i, {})
        BY DEF Gfs
    <2>2. e.id = i
        BY <2>1 DEF Image
    <2> QED
        BY <2>1, <2>2
<1>6. rank \in Injection(Gfs(lost), 0 .. StepsPerTick - 1)
    <2>1. rank \in [Gfs(lost) -> 0 .. StepsPerTick - 1]
        <3>1. ASSUME NEW e \in Gfs(lost)
              PROVE  Cardinality(Before(e.id)) \in 0 .. StepsPerTick - 1
            <4>1. e.id \in M /\ Cardinality(Before(e.id)) < StepsPerTick
                BY <1>5
            <4>2. Cardinality(Before(e.id)) \in Nat
                BY <1>2, <4>1
            <4> QED
                BY <4>1, <4>2, CapAssumption
        <3> QED
            BY <3>1
    <2>2. ASSUME NEW e \in Gfs(lost), NEW g \in Gfs(lost), e # g
          PROVE  rank[e] # rank[g]
        <3>1. e.id \in M /\ g.id \in M /\ e.id # g.id
            BY <1>5, <2>2
        <3>2. Ahead(e.id, g.id) \/ Ahead(g.id, e.id)
            BY <1>4, <3>1
        <3> QED
            BY <1>3, <3>1, <3>2
    <2> QED
        BY <2>1, <2>2 DEF Injection, IsInjective
<1>7. IsFiniteSet(0 .. StepsPerTick - 1) /\ Cardinality(0 .. StepsPerTick - 1) = StepsPerTick
    BY CapAssumption, FS_Interval
<1> QED
    BY <1>6, <1>7, FS_Injection

(* Whatever fails, a tick asks NOMADS for no more steps than its cap, over *)
(* all the cycles it maintains.                                            *)
THEOREM CapIsKept == Spec => []NomadsRateBounded
<1>1. Init => NomadsRateBounded
    BY CapAssumption, FS_EmptySet DEF Init, NomadsRateBounded
<1>2. TypeInv /\ NomadsRateBounded /\ [Next]_vars => NomadsRateBounded'
    <2> SUFFICES ASSUME TypeInv, NomadsRateBounded, [Next]_vars, family = "gfs"
                 PROVE  Cardinality(emitted') <= StepsPerTick
        BY FamilyStays DEF NomadsRateBounded
    <2>1. CASE emitted' = emitted
        BY <2>1 DEF NomadsRateBounded
    <2>2. ASSUME NEW lost, emitted' = Selected(lost)
          PROVE  Cardinality(emitted') <= StepsPerTick
        <3>1. Selected(lost) = Gfs(lost)
            BY DEF Selected
        <3> QED
            BY <2>2, <3>1, GfsBounded
    <2> QED
        BY <2>1, <2>2, EmittedIs
<1> QED
    BY <1>1, <1>2, Inductive, PTL DEF Spec

-----------------------------------------------------------------------------
(* The caps of GOES and WRF count what is already processed.               *)

LEMMA AbiIsNewest ==
    ASSUME NEW lost, TypeInv, family = "abi", NEW e \in Abi(lost)
    PROVE  /\ e.files # {} /\ e.files \subseteq Listed(lost)
           /\ Cardinality({x \in Listed(lost) : x.t > e.id[1]}) < TargetImages
<1> DEFINE L == Listed(lost)
           T == {x.t : x \in L}
           Newer == {x \in L : x.t > e.id[1]}
           NewerTimes == {t \in T : t > e.id[1]}
           time == [x \in Newer |-> x.t]
<1>1. /\ Cardinality(NewerTimes) < TargetImages
      /\ e.files # {} /\ e.files \subseteq L
    <2>1. PICK t \in Newest(T, TargetImages) : e = Image(<<t>>, {x \in listing : x.t = t})
        BY DEF Abi
    <2>2. e.id[1] = t /\ e.files = {x \in listing : x.t = t}
        BY <2>1 DEF Image
    <2>3. Cardinality(NewerTimes) < TargetImages
        BY <2>1, <2>2 DEF Newest
    <2>4. PICK y \in L : y.t = t
        BY <2>1 DEF Newest
    <2>5. e.files # {} /\ e.files \subseteq L
        BY <2>2, <2>4 DEF Listed
    <2> QED
        BY <2>3, <2>5
<1>2. L \subseteq Files["abi"]
    BY DEF Listed, TypeInv
<1>3. IsFiniteSet(Newer)
    BY <1>2, FeedAssumption, FS_Subset DEF Families
<1>4. time \in Bijection(Newer, NewerTimes)
    <2>1. time \in [Newer -> NewerTimes]
        OBVIOUS
    <2>2. \A x, y \in Newer : time[x] = time[y] => x = y
        BY <1>2, FeedAssumption
    <2>3. \A t \in NewerTimes : \E x \in Newer : time[x] = t
        OBVIOUS
    <2> QED
        BY <2>1, <2>2, <2>3 DEF Bijection, Injection, Surjection, IsInjective
<1>5. Cardinality(Newer) = Cardinality(NewerTimes)
    BY <1>3, <1>4, FS_Bijection DEF ExistsBijection
<1> QED
    BY <1>1, <1>5

(* Whatever expired or was dropped, no tick publishes an image with        *)
(* target_images newer ones in the directories that the tick listed, nor a *)
(* run with target_runs newer ones.                                        *)
THEOREM NothingOldComesOut == Spec => NeverBehindTheCap
<1> DEFINE Losses == {{}} \cup {{t} : t \in Times}
           NewestImage(e, lost) ==
               /\ e.files # {} /\ e.files \subseteq Listed(lost)
               /\ Cardinality({x \in Listed(lost) : x.t > e.id[1]}) < TargetImages
           NewestRun(e) ==
               /\ Cardinality({r \in {x.run : x \in WrfSteps} : r > e.id[1]}) < TargetRuns
               /\ e.id[1] >= now - MaxAge
           Allowed ==
               CASE family = "abi" ->
                       \E lost \in Losses : \A e \in emitted' : NewestImage(e, lost)
                 [] family = "wrf" -> \A e \in emitted' : NewestRun(e)
                 [] OTHER -> TRUE
<1>1. ASSUME TypeInv, [Next]_vars, emitted' # emitted
      PROVE  Allowed
    <2>1. CASE family = "abi"
        <3>1. PICK lost \in Losses : emitted' = Abi(lost)
            BY <1>1, <2>1, EmittedIs DEF Selected
        <3>2. \A e \in emitted' : NewestImage(e, lost)
            BY <1>1, <2>1, <3>1, AbiIsNewest
        <3> QED
            BY <2>1, <3>2
    <2>2. CASE family = "wrf"
        <3>1. emitted' = Wrf
            BY <1>1, <2>2, EmittedIs DEF Selected
        <3>2. ASSUME NEW e \in Wrf
              PROVE  NewestRun(e)
            <4>1. PICK x \in WrfSteps :
                      x.run \in AllowedRuns(WrfSteps) /\ e = Image(<<x.run, x.step>>, {x})
                BY DEF Wrf
            <4>2. e.id[1] = x.run
                BY <4>1 DEF Image
            <4>3. Cardinality({r \in {y.run : y \in WrfSteps} : r > e.id[1]}) < TargetRuns
                BY <4>1, <4>2 DEF AllowedRuns, Newest
            <4>4. e.id[1] >= now - MaxAge
                BY <4>1, <4>2 DEF WrfSteps
            <4> QED
                BY <4>3, <4>4
        <3> QED
            BY <2>2, <3>1, <3>2
    <2>3. CASE family \notin {"abi", "wrf"}
        BY <2>3
    <2> QED
        BY <2>1, <2>2, <2>3
<1>2. TypeInv /\ [Next]_vars => [emitted' # emitted => Allowed]_vars
    BY <1>1
<1> QED
    BY <1>2, Inductive, PTL DEF Spec, NeverBehindTheCap

-----------------------------------------------------------------------------
(* The windows of GLM. *)

(* A multiple of Every, and nothing else, is on the grid. *)
LEMMA Multiples ==
    ASSUME NEW n \in Int
    PROVE  (Every * n) % Every = 0
BY GridAssumption

LEMMA AnchorsAre ==
    ASSUME NEW t \in Nat, NEW a \in AnchorsCovering(t)
    PROVE  a \in Int /\ a % Every = 0 /\ a <= t /\ t < a + Accum
<1> DEFINE h == Hour \div Every
           q == t \div Hour
           r == (t % Hour) \div Every
           last == t - (t % Hour) + Every * r
<1>1. PICK k \in 0 .. Accum : a = last - k * Every /\ a <= t /\ t < a + Accum
    BY DEF AnchorsCovering
<1>2. Hour = Every * h /\ h \in Int
    BY GridAssumption
<1>3. t - (t % Hour) = Hour * q /\ q \in Int /\ r \in Int
    BY GridAssumption
<1>4. k \in Int
    BY <1>1, GridAssumption
<1> HIDE DEF h, q, r
<1>5. a = Every * ((h * q + r) - k)
    <2>1. a = ((Every * h) * q + Every * r) - k * Every
        <3>1. last = Hour * q + Every * r
            BY <1>3
        <3>2. Hour * q = (Every * h) * q
            BY <1>2
        <3>3. a = last - k * Every
            BY <1>1
        <3> HIDE DEF last
        <3>4. a = (Hour * q + Every * r) - k * Every
            BY <3>1, <3>3
        <3> QED
            BY <3>2, <3>4
    <2>2. \A n, m, l \in Int : (Every * n) * m = Every * (n * m) /\ l * Every = Every * l
        BY GridAssumption
    <2>3. h * q \in Int /\ (Every * h) * q = Every * (h * q) /\ k * Every = Every * k
        BY <1>2, <1>3, <1>4, <2>2
    <2>4. \A n, m, l \in Int : (Every * n + Every * m) - Every * l = Every * ((n + m) - l)
        BY GridAssumption
    <2> QED
        <3>1. (Every * (h * q) + Every * r) - Every * k = Every * ((h * q + r) - k)
            BY <1>3, <1>4, <2>3, <2>4
        <3> QED
            BY <2>1, <2>3, <3>1
<1>6. (h * q + r) - k \in Int
    BY <1>2, <1>3, <1>4
<1> QED
    BY <1>1, <1>5, <1>6, Multiples, GridAssumption

(* As many files as a window has minutes, of different minutes of it, are  *)
(* one for each of them.                                                   *)
LEMMA EveryMinute ==
    ASSUME NEW S, NEW a \in Int, \A x \in S : x.t \in a .. a + Accum - 1,
           \A x, y \in S : x.t = y.t => x = y, Cardinality(S) = Accum
    PROVE  \A m \in a .. a + Accum - 1 : \E x \in S : x.t = m
<1> DEFINE I == a .. a + Accum - 1
           minute == [x \in S |-> x.t]
<1>1. IsFiniteSet(I) /\ Cardinality(I) = Accum
    <2>1. (a + Accum) - 1 \in Int /\ a + Accum - 1 = (a + Accum) - 1
        BY GridAssumption
    <2>2. /\ IsFiniteSet(a .. (a + Accum) - 1)
          /\ Cardinality(a .. (a + Accum) - 1) =
                IF a > (a + Accum) - 1 THEN 0 ELSE ((a + Accum) - 1) - a + 1
        BY <2>1, FS_Interval
    <2>3. (IF a > (a + Accum) - 1 THEN 0 ELSE ((a + Accum) - 1) - a + 1) = Accum
        BY GridAssumption
    <2> QED
        BY <2>1, <2>2, <2>3
<1>2. minute \in Injection(S, I)
    BY DEF Injection, IsInjective
<1>3. minute \in Surjection(S, I)
    BY <1>1, <1>2, FS_Injection
<1> QED
    BY <1>3 DEF Surjection

LEMMA WindowGoesOutWhole ==
    ASSUME TypeInv, family = "glm", NEW e \in Glm
    PROVE  /\ e.id[1] % Every = 0
           /\ e.id[1] + Accum <= now - Lag
           /\ Cardinality(e.files) = Accum
           /\ \A m \in e.id[1] .. e.id[1] + Accum - 1 :
                \E x \in e.files : x.t = m /\ \A y \in listing : y.t = m => y.v <= x.v
<1>1. PICK a \in ReadyWindows : e = Image(<<a>>, OneFilePerMinute(Window(a)))
    BY DEF Glm, Newest
<1>2. e.id[1] = a /\ e.files = OneFilePerMinute(Window(a))
    BY <1>1 DEF Image
<1>3. a \in Anchors /\ a + Accum <= now - Lag /\ Cardinality(e.files) = Accum
    BY <1>1, <1>2 DEF ReadyWindows, WindowIsWhole
<1>4. \A x \in listing : x = [t |-> x.t, v |-> x.v] /\ x.t \in Nat /\ x.v \in Nat
    BY FeedAssumption DEF TypeInv
<1>5. a \in Int /\ a % Every = 0
    <2>1. PICK x \in Recent : a \in AnchorsCovering(x.t)
        BY <1>3 DEF Anchors
    <2>2. x.t \in Nat
        BY <1>4, <2>1 DEF Recent
    <2> QED
        BY <2>1, <2>2, AnchorsAre
<1>6. \A x \in e.files : x \in listing /\ x \in Window(a) /\ \A y \in Window(a) : y.t = x.t => y.v <= x.v
    BY <1>2 DEF OneFilePerMinute, Window, Recent
<1>7. ASSUME NEW x \in e.files
      PROVE  x.t \in a .. a + Accum - 1
    <2>1. x.t \in Nat /\ a \in AnchorsCovering(x.t)
        BY <1>4, <1>6 DEF Window
    <2> QED
        BY <1>5, <2>1, AnchorsAre, GridAssumption
<1>8. ASSUME NEW x \in e.files, NEW y \in e.files, x.t = y.t
      PROVE  x = y
    <2>1. x.v <= y.v /\ y.v <= x.v
        BY <1>6, <1>8
    <2> QED
        BY <1>4, <1>6, <1>8, <2>1
<1>9. \A m \in a .. a + Accum - 1 : \E x \in e.files : x.t = m
    BY <1>3, <1>5, <1>7, <1>8, EveryMinute
<1>10. ASSUME NEW x \in e.files, NEW y \in listing, y.t = x.t
       PROVE  y.v <= x.v
    <2>1. y \in Window(a)
        BY <1>6, <1>10 DEF Window, Recent
    <2> QED
        BY <1>6, <1>10, <2>1
<1> QED
    BY <1>2, <1>3, <1>5, <1>9, <1>10

(* Whatever comes late, twice or out of order, a GLM window that goes out  *)
(* is on the grid, past its safety lag, and has the newest file of each of *)
(* its minutes, and no other.                                              *)
THEOREM WindowsAreWhole == Spec => WindowsGoOutWhole
<1> DEFINE Whole(e) ==
        /\ e.id[1] % Every = 0
        /\ e.id[1] + Accum <= now - Lag
        /\ Cardinality(e.files) = Accum
        /\ \A m \in e.id[1] .. e.id[1] + Accum - 1 :
            \E x \in e.files :
                x.t = m /\ \A y \in listing : y.t = m => y.v <= x.v
<1>1. ASSUME TypeInv, [Next]_vars, family = "glm", NEW e \in emitted' \ emitted
      PROVE  Whole(e)
    <2>1. PICK lost : emitted' = Selected(lost)
        BY <1>1, EmittedIs
    <2>2. e \in Glm
        BY <1>1, <2>1 DEF Selected
    <2> QED
        BY <1>1, <2>2, WindowGoesOutWhole
<1>2. TypeInv /\ [Next]_vars => [family = "glm" => \A e \in emitted' \ emitted : Whole(e)]_vars
    BY <1>1
<1> QED
    BY <1>2, Inductive, PTL DEF Spec, WindowsGoOutWhole
=============================================================================
