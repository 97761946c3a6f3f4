----------------------- MODULE ProductPipelinesProofs -----------------------
(***************************************************************************)
(* Safety of the processors, for any number of copies, attempts and faults. *)
(* What depends on the order of the steps of a program is taken from the   *)
(* facts that ProductPrograms states of the programs, which are fixed.     *)
(***************************************************************************)
EXTENDS ProductPipelines, TLAPS

Results == {"error", "shutdown", "skip", "completed"}

TypeInv ==
    /\ family \in Families
    /\ stored \in [Outputs(family) -> {"nothing", "part", "whole", "blank"}]
    /\ tried \subseteq Outputs(family)
    /\ files \in [1 .. MaxAttempts -> SUBSET Names]
    /\ attempts \in 0 .. MaxAttempts
    /\ phase \in [Copies -> {"off", "running", "closing"}]
    /\ outcome \in [Copies -> {"none", "killed"} \cup Results]
    /\ token \in [Copies -> Nat]
    /\ ip \in [Copies -> Nat \ {0}]
    /\ asked \in [Copies -> BOOLEAN]
    /\ begun \in [Copies -> SUBSET Outputs(family)]
    /\ refused \in [Copies -> SUBSET Outputs(family)]
    /\ purged \in [Copies -> BOOLEAN]
    /\ late \in [Copies -> Nat]

(* A live attempt has a tree of its own. *)
OwnLeaf(c) ==
    /\ phase[c] # "off" => token[c] \in 1 .. attempts
    /\ \A d \in Copies : d # c /\ phase[c] # "off" /\ phase[d] # "off" => token[c] # token[d]

Within(c) ==
    phase[c] = "running" => ip[c] <= Len(Program[family]) + 1 /\ outcome[c] = "none"

(* A tree that was not purged has what the program has made. *)
TreeKept(c) ==
    phase[c] = "running" /\ ~purged[c] => Made(family, ip[c]) \subseteq Tree(c)

Uploaded(c) ==
    {Program[family][i].out : i \in {i \in 1 .. ip[c] - 1 : Program[family][i].op \in Uploading}}

Good(c, o) == stored[o] \in {"whole", "blank"} \/ o \in refused[c]

StoredKept(c) ==
    ~purged[c] =>
        /\ phase[c] = "running" => \A o \in Uploaded(c) : Good(c, o)
        /\ outcome[c] = "completed" => \A o \in Outputs(family) : Good(c, o)

SkippedNothing(c) ==
    /\ phase[c] = "running" => begun[c] \subseteq Uploaded(c)
    /\ outcome[c] = "skip" => begun[c] = {}

(* One upload begun since the checkpoint that came before the request. *)
LateOnce(c) ==
    family \notin {"wrf", "wrf_plain"} =>
        /\ late[c] \in 0 .. 1
        /\ ~asked[c] => late[c] = 0
        /\ phase[c] = "running" /\ late[c] = 1 =>
             \E i \in 1 .. ip[c] - 1 :
                /\ Program[family][i].op \in Uploading
                /\ \A k \in i + 1 .. ip[c] - 1 : Program[family][k].op # "check"

(* A GFS attempt has all its files and has tried all it has passed, or it  *)
(* has lost its tree, the primary COG with it, and never makes it again.   *)
CogComesBack(c) ==
    \E k \in DOMAIN Program[family] : k >= ip[c] /\ "cog" \in Program[family][k].makes

WitnessKept(c) ==
    family \in GfsFamilies /\ phase[c] = "running" =>
        \/ Made(family, ip[c]) \subseteq Tree(c) /\ Uploaded(c) \subseteq tried
        \/ "cog" \notin Tree(c) /\ ("dir" \in Tree(c) => ~CogComesBack(c))

CopyInv(c) ==
    /\ OwnLeaf(c) /\ Within(c) /\ TreeKept(c) /\ StoredKept(c)
    /\ SkippedNothing(c) /\ LateOnce(c) /\ WitnessKept(c)

PipelineInv ==
    /\ TypeInv
    /\ \A c \in Copies : CopyInv(c)
    /\ WitnessIsLast

-----------------------------------------------------------------------------
(* What the shape of the programs gives for one step of one program. *)

LEMMA StepIs ==
    ASSUME NEW f \in Families, NEW i \in DOMAIN Program[f]
    PROVE  /\ DOMAIN Program[f] = 1 .. Len(Program[f]) /\ Len(Program[f]) \in Nat
           /\ Program[f][i] \in Steps
           /\ Program[f][i].needs \subseteq Made(f, i)
BY StepsAssumption, FilesAssumption

LEMMA MadeNext ==
    ASSUME NEW f \in Families, NEW i \in DOMAIN Program[f]
    PROVE  Made(f, i + 1) \subseteq (Made(f, i) \ Program[f][i].drops) \cup Program[f][i].makes
<1>1. i \in Nat \ {0}
    BY StepIs
<1> SUFFICES ASSUME NEW x \in Made(f, i + 1), x \notin Program[f][i].makes
             PROVE  x \in Made(f, i) /\ x \notin Program[f][i].drops
    OBVIOUS
<1>2. PICK k \in 0 .. i :
        /\ x \in Names
        /\ IF k = 0 THEN x \in {"dir", "raw"} ELSE x \in Program[f][k].makes
        /\ \A l \in k + 1 .. i : x \notin Program[f][l].drops
    BY <1>1 DEF Made
<1>3. k \in 0 .. i - 1
    BY <1>1, <1>2
<1>4. x \notin Program[f][i].drops
    BY <1>1, <1>2, <1>3
<1>5. x \in Made(f, i)
    <2>1. \A l \in k + 1 .. i - 1 : x \notin Program[f][l].drops
        BY <1>1, <1>2, <1>3
    <2> QED
        BY <1>2, <1>3, <2>1 DEF Made
<1> QED
    BY <1>4, <1>5

LEMMA MadeFirst == \A f \in Families : Made(f, 1) \subseteq {"dir", "raw"}
BY DEF Made

LEMMA OutputsAre ==
    ASSUME NEW f \in Families
    PROVE  Outputs(f) = {Program[f][i].out :
                            i \in {i \in DOMAIN Program[f] : Program[f][i].op \in Uploading}}
BY DEF Outputs, ToSet

LEMMA AtStepIs ==
    ASSUME TypeInv, NEW c \in Copies, NEW ops, AtStep(c, ops)
    PROVE  /\ phase[c] = "running"
           /\ ip[c] \in DOMAIN Program[family]
           /\ Current(c) = Program[family][ip[c]]
           /\ Current(c) \in Steps /\ Current(c).op \in ops
<1>1. Program[family] \in Seq(Steps)
    BY StepsAssumption DEF TypeInv
<1>2. ip[c] \in DOMAIN Program[family]
    BY <1>1 DEF TypeInv, AtStep
<1> QED
    BY <1>1, <1>2 DEF AtStep, Current

LEMMA UploadIs ==
    ASSUME TypeInv, NEW c \in Copies, AtStep(c, Uploading)
    PROVE  /\ Current(c).out \in Outputs(family)
           /\ Current(c).needs = {Current(c).out}
<1>1. /\ ip[c] \in DOMAIN Program[family] /\ Current(c) = Program[family][ip[c]]
      /\ Current(c).op \in Uploading
    BY AtStepIs
<1>2. family \in Families
    BY DEF TypeInv
<1>3. Current(c).needs = {Current(c).out}
    BY <1>1, <1>2, StepsAssumption
<1> QED
    BY <1>1, <1>2, <1>3, OutputsAre

-----------------------------------------------------------------------------
(* The steps by what they do to the copy that takes them: it goes on to    *)
(* its next step, or ends, or is gone.                                     *)

Passes(c) == Checkpoint(c) /\ ~asked[c]
Stops(c) == Checkpoint(c) /\ asked[c]

GoesOn(c) ==
    Passes(c) \/ Computes(c) \/ Fills(c) \/ EnsureBucket(c) \/ Uploads(c)
    \/ NothingToUpload(c) \/ UploadRefused(c)

GivesUp(c) == Stops(c) \/ Raises(c) \/ Unprocessable(c) \/ NoClient(c) \/ Returns(c)

CopyStep(c) == Begin(c) \/ Asked(c) \/ GoesOn(c) \/ GivesUp(c) \/ Exits(c) \/ Killed(c)

LEMMA NextIs == Next => Purge \/ \E c \in Copies : CopyStep(c)
BY DEF Next, CopyStep, GoesOn, GivesUp, Passes, Stops

(* Where a copy goes on, it does so by one, and in the tree of no other.   *)
LEMMA GoesOnIs ==
    ASSUME TypeInv, NEW c \in Copies, OwnLeaf(c), GoesOn(c)
    PROVE  /\ phase[c] = "running" /\ ip[c] \in DOMAIN Program[family]
           /\ Current(c) = Program[family][ip[c]] /\ Current(c) \in Steps
           /\ ip' = [ip EXCEPT ![c] = @ + 1]
           /\ UNCHANGED <<family, phase, outcome, attempts, token, asked, purged>>
           /\ \E S \in SUBSET Names : files' = [files EXCEPT ![token[c]] = S]
<1>t. token[c] \in 1 .. MaxAttempts
    <2>1. phase[c] = "running"
        BY DEF GoesOn, Passes, Checkpoint, Computes, Fills, EnsureBucket, Uploads,
            NothingToUpload, UploadRefused, AtStep
    <2> QED
        BY <2>1, BoundsAssumption DEF OwnLeaf, TypeInv
<1>u. UNCHANGED files => \E S \in SUBSET Names : files' = [files EXCEPT ![token[c]] = S]
    <2>1. files[token[c]] \in SUBSET Names /\ files = [files EXCEPT ![token[c]] = files[token[c]]]
        BY <1>t DEF TypeInv
    <2> QED
        BY <2>1
<1>1. CASE Passes(c)
    BY <1>1, <1>u, AtStepIs DEF Passes, Checkpoint, Advance
<1>2. CASE Computes(c)
    <2>1. AtStep(c, {"compute", "read"})
        BY <1>2 DEF Computes
    <2>2. Current(c) \in Steps
        BY <2>1, AtStepIs
    <2> DEFINE S == (Tree(c) \ Current(c).drops) \cup Current(c).makes
    <2>3. files' = [files EXCEPT ![token[c]] = S]
        BY <1>2 DEF Computes, Leaf, Tree
    <2>4. \E T \in SUBSET Names : files' = [files EXCEPT ![token[c]] = T]
        <3>1. S \in SUBSET Names
            BY <2>2, <1>t DEF Tree, Leaf, TypeInv, Steps
        <3> QED
            BY <2>3, <3>1
    <2> QED
        BY <1>2, <2>1, <2>4, AtStepIs DEF Computes, Advance
<1>3. CASE Fills(c)
    <2>1. AtStep(c, {"fill"})
        BY <1>3 DEF Fills
    <2>2. Current(c) \in Steps
        BY <2>1, AtStepIs
    <2> DEFINE S == Tree(c) \cup Current(c).makes
    <2>3. files' = [files EXCEPT ![token[c]] = S]
        BY <1>3 DEF Fills, Leaf, Tree
    <2>4. \E T \in SUBSET Names : files' = [files EXCEPT ![token[c]] = T]
        <3>1. S \in SUBSET Names
            BY <2>2, <1>t DEF Tree, Leaf, TypeInv, Steps
        <3> QED
            BY <2>3, <3>1
    <2> QED
        BY <1>3, <2>1, <2>4, AtStepIs DEF Fills, Advance
<1>4. CASE EnsureBucket(c)
    BY <1>4, <1>u, AtStepIs DEF EnsureBucket, Advance, volume
<1>5. CASE Uploads(c)
    BY <1>5, <1>u, AtStepIs DEF Uploads, Advance, volume
<1>6. CASE NothingToUpload(c)
    BY <1>6, <1>u, AtStepIs DEF NothingToUpload, Advance, volume
<1>7. CASE UploadRefused(c)
    BY <1>7, <1>u, AtStepIs DEF UploadRefused, Advance, volume
<1> QED
    BY <1>1, <1>2, <1>3, <1>4, <1>5, <1>6, <1>7 DEF GoesOn

LEMMA GivesUpIs ==
    ASSUME NEW c \in Copies, GivesUp(c)
    PROVE  /\ phase[c] = "running"
           /\ phase' = [phase EXCEPT ![c] = "closing"]
           /\ \E o \in Results : outcome' = [outcome EXCEPT ![c] = o]
           /\ UNCHANGED <<family, stored, tried, attempts, ip, token, asked,
                          begun, refused, late, purged>>
           /\ files' = files \/ files' = [files EXCEPT ![token[c]] = {}]
BY DEF GivesUp, Stops, Checkpoint, Raises, Unprocessable, NoClient, Returns, Ends,
    AtStep, Results, Clear, Leaf, bucket, sent

LEMMA GoneIs ==
    ASSUME NEW c \in Copies, Exits(c) \/ Killed(c)
    PROVE  /\ phase[c] \in {"running", "closing"}
           /\ phase' = [phase EXCEPT ![c] = "off"]
           /\ outcome' = outcome \/ outcome' = [outcome EXCEPT ![c] = "killed"]
           /\ token' = [token EXCEPT ![c] = 1] /\ ip' = [ip EXCEPT ![c] = 1]
           /\ asked' = [asked EXCEPT ![c] = FALSE]
           /\ begun' = [begun EXCEPT ![c] = {}] /\ late' = [late EXCEPT ![c] = 0]
           /\ \/ UNCHANGED <<refused, purged>>
              \/ /\ outcome'[c] # "completed"
                 /\ refused' = [refused EXCEPT ![c] = {}]
                 /\ purged' = [purged EXCEPT ![c] = FALSE]
           /\ UNCHANGED <<family, attempts>>
           /\ files' = files \/ files' = [files EXCEPT ![token[c]] = {}]
<1>1. Gone(c) /\ UNCHANGED <<family, attempts>>
    BY DEF Exits, Killed
<1>2. /\ phase[c] \in {"running", "closing"}
      /\ outcome' = outcome \/ outcome' = [outcome EXCEPT ![c] = "killed"]
    BY DEF Exits, Killed
<1> QED
    BY <1>1, <1>2 DEF Gone, HandlerCleans, Clear, Leaf

(* What went up stays up, and what was tried stays tried. *)
LEMMA BucketKeeps ==
    ASSUME TypeInv, NEW c \in Copies, CopyStep(c)
    PROVE  /\ stored' \in [Outputs(family) -> {"nothing", "part", "whole", "blank"}]
           /\ \A o \in Outputs(family) :
                stored[o] \in {"whole", "blank"} => stored'[o] \in {"whole", "blank"}
           /\ tried \subseteq tried' /\ tried' \subseteq Outputs(family)
<1>1. CASE UNCHANGED <<stored, tried>>
    BY <1>1 DEF TypeInv
<1>2. CASE Uploads(c)
    <2>1. Current(c).out \in Outputs(family)
        BY <1>2, UploadIs DEF Uploads
    <2>2. /\ stored' = [stored EXCEPT ![Current(c).out] = Content(c)]
          /\ tried' = tried \cup {Current(c).out}
          /\ Content(c) \in {"whole", "blank"}
        BY <1>2 DEF Uploads, Starts, Content
    <2> QED
        BY <2>1, <2>2 DEF TypeInv
<1>3. CASE UploadRefused(c) \/ Killed(c)
    <2>1. CASE /\ AtStep(c, Uploading)
               /\ tried' = tried \cup {Current(c).out}
               /\ \/ UNCHANGED stored
                  \/ stored' = [stored EXCEPT ![Current(c).out] = Mixed(@, Content(c))]
        <3>1. Current(c).out \in Outputs(family)
            BY <2>1, UploadIs
        <3>2. stored[Current(c).out] \in {"nothing", "part", "whole", "blank"}
            BY <3>1 DEF TypeInv
        <3>3. LET old == stored[Current(c).out]
                  new == Mixed(old, Content(c)) IN
              /\ new \in {"nothing", "part", "whole", "blank"}
              /\ old \in {"whole", "blank"} => new \in {"whole", "blank"}
            BY <3>2 DEF Mixed, Content
        <3> QED
            BY <2>1, <3>1, <3>3 DEF TypeInv
    <2>2. AtStep(c, {"directory"}) => AtStep(c, Uploading)
        BY DEF AtStep, Uploading
    <2> QED
        BY <1>1, <1>3, <2>1, <2>2 DEF UploadRefused, Killed, Starts, bucket
<1> QED
    BY <1>1, <1>2, <1>3 DEF CopyStep, Begin, Asked, GoesOn, GivesUp, Passes, Stops, Checkpoint,
        Computes, Fills, EnsureBucket, NothingToUpload, Raises, Unprocessable, NoClient,
        Returns, Exits, bucket

(* Going on, a copy leaves in its tree what the step makes of it. *)
LEMMA TreeIs ==
    ASSUME TypeInv, NEW c \in Copies, OwnLeaf(c), GoesOn(c)
    PROVE  /\ Tree(c)' = (Tree(c) \ Current(c).drops) \cup Current(c).makes
           /\ Current(c).op \in Computing => Found(c)
<1>1. /\ phase[c] = "running" /\ ip[c] \in DOMAIN Program[family]
      /\ Current(c) = Program[family][ip[c]] /\ Current(c) \in Steps /\ token' = token
    BY GoesOnIs
<1>2. token[c] \in 1 .. MaxAttempts
    BY <1>1, BoundsAssumption DEF OwnLeaf, TypeInv
<1>3. family \in Families
    BY DEF TypeInv
<1>4. /\ Current(c).op \notin Computing => Current(c).drops = {}
      /\ Current(c).op \notin Computing \cup {"fill"} => Current(c).makes = {}
    BY <1>1, <1>3, StepsAssumption
<1>5. CASE Computes(c)
    BY <1>1, <1>2, <1>5 DEF Computes, Tree, Leaf, TypeInv
<1>6. CASE Fills(c)
    <2>1. Current(c).op = "fill"
        BY <1>6 DEF Fills, AtStep
    <2>2. Current(c).drops = {}
        BY <1>4, <2>1 DEF Computing
    <2> QED
        BY <1>1, <1>2, <1>6, <2>1, <2>2 DEF Fills, Tree, Leaf, TypeInv, Computing
<1>7. CASE Passes(c) \/ EnsureBucket(c) \/ Uploads(c) \/ NothingToUpload(c) \/ UploadRefused(c)
    <2>1. files' = files /\ Current(c).op \in Uploading \cup {"check", "bucket"}
        BY <1>7 DEF Passes, Checkpoint, EnsureBucket, Uploads, NothingToUpload, UploadRefused,
            AtStep, Uploading, volume
    <2>2. Current(c).drops = {} /\ Current(c).makes = {} /\ Current(c).op \notin Computing
        BY <1>4, <2>1 DEF Computing, Uploading
    <2> QED
        BY <1>1, <2>1, <2>2 DEF Tree, Leaf
<1> QED
    BY <1>5, <1>6, <1>7 DEF GoesOn

(* It begins an upload, which goes up or is refused; or it begins none, at *)
(* a step that is no upload or whose file is not there.                    *)
LEMMA SendsIs ==
    ASSUME TypeInv, NEW c \in Copies, GoesOn(c)
    PROVE  LET o == Current(c).out IN
           \/ /\ UNCHANGED <<stored, tried, begun, refused, late>>
              /\ Current(c).op \in Uploading => ~Found(c)
              /\ Current(c).op = "check" => ~asked[c]
           \/ /\ AtStep(c, Uploading) /\ Found(c) /\ Starts(c)
              /\ \/ UNCHANGED refused /\ stored' = [stored EXCEPT ![o] = Content(c)]
                 \/ /\ refused' = [refused EXCEPT ![c] = @ \cup {o}]
                    /\ \/ UNCHANGED stored
                       \/ /\ Current(c).op = "directory"
                          /\ stored' = [stored EXCEPT ![o] = Mixed(@, Content(c))]
<1>1. CASE Passes(c)
    BY <1>1 DEF Passes, Checkpoint, AtStep, Uploading, bucket, sent
<1>2. CASE Computes(c)
    BY <1>2 DEF Computes, AtStep, Uploading, bucket, sent
<1>3. CASE Fills(c)
    BY <1>3 DEF Fills, AtStep, Uploading, bucket, sent
<1>4. CASE EnsureBucket(c)
    BY <1>4 DEF EnsureBucket, AtStep, Uploading, bucket, sent
<1>5. CASE NothingToUpload(c)
    BY <1>5 DEF NothingToUpload, AtStep, Uploading, bucket, sent
<1>6. CASE Uploads(c)
    BY <1>6 DEF Uploads
<1>7. CASE UploadRefused(c)
    BY <1>7 DEF UploadRefused
<1> QED
    BY <1>1, <1>2, <1>3, <1>4, <1>5, <1>6, <1>7 DEF GoesOn

(* A completed attempt has passed its last step, a skipped one stops where *)
(* it reads.                                                               *)
LEMMA EndsAre ==
    ASSUME NEW c \in Copies, TypeInv, GivesUp(c)
    PROVE  /\ outcome'[c] = "completed" => ip[c] > Len(Program[family])
           /\ outcome'[c] = "skip" => AtStep(c, {"read"})
BY DEF TypeInv, GivesUp, Stops, Checkpoint, Raises, Unprocessable, NoClient, Returns, Ends

-----------------------------------------------------------------------------
LEMMA TypeKept ==
    ASSUME TypeInv, \A c \in Copies : OwnLeaf(c), [Next]_vars
    PROVE  TypeInv'
<1>1. CASE UNCHANGED vars
    BY <1>1 DEF TypeInv, vars, bucket, volume, run, sent
<1>2. CASE Purge
    <2>1. files' \in [1 .. MaxAttempts -> SUBSET Names]
        BY <1>2 DEF Purge, TypeInv
    <2>2. purged' \in [Copies -> BOOLEAN]
        BY <1>2 DEF Purge, TypeInv
    <2> QED
        BY <1>2, <2>1, <2>2 DEF Purge, TypeInv, bucket, run, sent
<1>3. ASSUME NEW c \in Copies, CopyStep(c)
      PROVE  TypeInv'
    <2>1. /\ stored' \in [Outputs(family) -> {"nothing", "part", "whole", "blank"}]
          /\ tried' \subseteq Outputs(family)
        BY <1>3, BucketKeeps
    <2>2. CASE Begin(c)
        <3>1. {"dir", "raw"} \subseteq Names
            BY DEF Names
        <3>2. attempts + 1 \in 1 .. MaxAttempts
            BY <2>2, BoundsAssumption DEF Begin, TypeInv
        <3>3. files' \in [1 .. MaxAttempts -> SUBSET Names]
            BY <2>2, <3>1, <3>2 DEF Begin, Leaf, TypeInv
        <3>4. family' = family
            BY <2>2 DEF Begin
        <3>5. begun' \in [Copies -> SUBSET Outputs(family)] /\ refused' \in [Copies -> SUBSET Outputs(family)]
            BY <2>2 DEF Begin, TypeInv
        <3>6. /\ phase' \in [Copies -> {"off", "running", "closing"}]
              /\ outcome' \in [Copies -> {"none", "killed"} \cup Results]
              /\ token' \in [Copies -> Nat] /\ ip' \in [Copies -> Nat \ {0}]
              /\ asked' \in [Copies -> BOOLEAN] /\ purged' \in [Copies -> BOOLEAN]
              /\ late' \in [Copies -> Nat] /\ attempts' \in 0 .. MaxAttempts
            BY <2>2, <3>2, BoundsAssumption DEF Begin, TypeInv
        <3> QED
            BY <2>1, <3>3, <3>4, <3>5, <3>6 DEF TypeInv
    <2>3. CASE Asked(c)
        BY <2>3 DEF Asked, TypeInv, bucket, volume, run, sent
    <2>4. CASE GoesOn(c)
        <3>1. /\ ip' = [ip EXCEPT ![c] = @ + 1]
              /\ UNCHANGED <<family, phase, outcome, attempts, token, asked, purged>>
              /\ \E S \in SUBSET Names : files' = [files EXCEPT ![token[c]] = S]
            BY <1>3, <2>4, GoesOnIs
        <3>2. files' \in [1 .. MaxAttempts -> SUBSET Names]
            BY <3>1 DEF TypeInv
        <3>3. /\ begun' \in [Copies -> SUBSET Outputs(family)]
              /\ refused' \in [Copies -> SUBSET Outputs(family)]
              /\ late' \in [Copies -> Nat]
            <4>1. CASE UNCHANGED <<begun, refused, late>>
                BY <4>1 DEF TypeInv
            <4>2. CASE /\ AtStep(c, Uploading) /\ Starts(c)
                       /\ UNCHANGED refused \/ refused' = [refused EXCEPT ![c] = @ \cup {Current(c).out}]
                <5>1. Current(c).out \in Outputs(family)
                    BY <4>2, UploadIs
                <5>2. begun' = [begun EXCEPT ![c] = @ \cup {Current(c).out}]
                    BY <4>2 DEF Starts
                <5>3. late' = [late EXCEPT ![c] = @ + 1] \/ late' = late
                    BY <4>2 DEF Starts
                <5>4. late \in [Copies -> Nat] /\ late[c] + 1 \in Nat
                    BY DEF TypeInv
                <5>5. late' \in [Copies -> Nat]
                    BY <5>3, <5>4
                <5>6. begun' \in [Copies -> SUBSET Outputs(family)]
                    BY <5>1, <5>2 DEF TypeInv
                <5>7. refused' \in [Copies -> SUBSET Outputs(family)]
                    BY <4>2, <5>1 DEF TypeInv
                <5> QED
                    BY <5>5, <5>6, <5>7
            <4> QED
                BY <2>4, <4>1, <4>2, SendsIs
        <3>4. ip' \in [Copies -> Nat \ {0}]
            BY <3>1 DEF TypeInv
        <3> QED
            BY <2>1, <3>1, <3>2, <3>3, <3>4 DEF TypeInv
    <2>5. CASE GivesUp(c)
        <3>1. PICK o \in Results : outcome' = [outcome EXCEPT ![c] = o]
            BY <2>5, GivesUpIs
        <3>2. files' \in [1 .. MaxAttempts -> SUBSET Names]
            BY <2>5, GivesUpIs DEF TypeInv
        <3>3. phase' \in [Copies -> {"off", "running", "closing"}]
            BY <2>5, GivesUpIs DEF TypeInv
        <3>4. UNCHANGED <<family, attempts, ip, token, asked, begun, refused, late, purged>>
            BY <2>5, GivesUpIs
        <3> QED
            BY <2>1, <3>1, <3>2, <3>3, <3>4 DEF TypeInv
    <2>6. CASE Exits(c) \/ Killed(c)
        <3>1. /\ phase' = [phase EXCEPT ![c] = "off"]
              /\ outcome' = outcome \/ outcome' = [outcome EXCEPT ![c] = "killed"]
              /\ token' = [token EXCEPT ![c] = 1] /\ ip' = [ip EXCEPT ![c] = 1]
              /\ asked' = [asked EXCEPT ![c] = FALSE]
              /\ begun' = [begun EXCEPT ![c] = {}] /\ late' = [late EXCEPT ![c] = 0]
              /\ refused' = refused \/ refused' = [refused EXCEPT ![c] = {}]
              /\ purged' = purged \/ purged' = [purged EXCEPT ![c] = FALSE]
              /\ UNCHANGED <<family, attempts>>
              /\ files' = files \/ files' = [files EXCEPT ![token[c]] = {}]
            BY <2>6, GoneIs
        <3>2. begun' \in [Copies -> SUBSET Outputs(family)] /\ refused' \in [Copies -> SUBSET Outputs(family)]
            BY <3>1 DEF TypeInv
        <3>3. files' \in [1 .. MaxAttempts -> SUBSET Names]
            BY <3>1 DEF TypeInv
        <3>4. /\ phase' \in [Copies -> {"off", "running", "closing"}]
              /\ token' \in [Copies -> Nat] /\ ip' \in [Copies -> Nat \ {0}]
              /\ asked' \in [Copies -> BOOLEAN] /\ late' \in [Copies -> Nat]
            BY <3>1 DEF TypeInv
        <3>5. outcome' \in [Copies -> {"none", "killed"} \cup Results]
            BY <3>1 DEF TypeInv
        <3>6. purged' \in [Copies -> BOOLEAN]
            BY <3>1 DEF TypeInv
        <3>7. family' = family /\ attempts' \in 0 .. MaxAttempts
            BY <3>1 DEF TypeInv
        <3> QED
            BY <2>1, <3>2, <3>3, <3>4, <3>5, <3>6, <3>7 DEF TypeInv
    <2> QED
        BY <1>3, <2>2, <2>3, <2>4, <2>5, <2>6 DEF CopyStep
<1> QED
    BY <1>1, <1>2, <1>3, NextIs

-----------------------------------------------------------------------------
(* What a step of one copy leaves alone in another. *)
LEMMA OthersKeep ==
    ASSUME TypeInv, \A e \in Copies : OwnLeaf(e),
           NEW c \in Copies, CopyStep(c), NEW d \in Copies, d # c
    PROVE  /\ family' = family
           /\ phase'[d] = phase[d] /\ outcome'[d] = outcome[d] /\ token'[d] = token[d]
           /\ ip'[d] = ip[d] /\ asked'[d] = asked[d] /\ begun'[d] = begun[d]
           /\ refused'[d] = refused[d] /\ purged'[d] = purged[d] /\ late'[d] = late[d]
           /\ phase[d] = "running" => Tree(d)' = Tree(d)
<1>0. phase[d] = "running" => token[d] \in 1 .. attempts /\ token[d] \in 1 .. MaxAttempts
    BY BoundsAssumption DEF OwnLeaf, TypeInv
<1>1. CASE Begin(c)
    <2>1. token[d] # attempts + 1 \/ phase[d] # "running"
        BY <1>0 DEF TypeInv
    <2> QED
        BY <1>1, <2>1 DEF Begin, TypeInv, Tree, Leaf
<1>2. CASE Asked(c)
    BY <1>2 DEF Asked, TypeInv, Tree, bucket, volume, run, sent
<1>3. CASE GoesOn(c)
    <2>1. /\ phase[c] = "running" /\ ip' = [ip EXCEPT ![c] = @ + 1]
          /\ UNCHANGED <<family, phase, outcome, attempts, token, asked, purged>>
          /\ \E S \in SUBSET Names : files' = [files EXCEPT ![token[c]] = S]
        BY <1>3, GoesOnIs
    <2>2. phase[d] = "running" => token[d] # token[c]
        BY <2>1 DEF OwnLeaf
    <2>3. phase[d] = "running" => Tree(d)' = Tree(d)
        BY <2>1, <2>2 DEF Tree, Leaf, TypeInv
    <2>4. begun'[d] = begun[d] /\ refused'[d] = refused[d] /\ late'[d] = late[d]
        <3>1. CASE UNCHANGED <<begun, refused, late>>
            BY <3>1
        <3>2. CASE /\ Starts(c)
                   /\ UNCHANGED refused \/ refused' = [refused EXCEPT ![c] = @ \cup {Current(c).out}]
            BY <3>2 DEF Starts, TypeInv
        <3> QED
            BY <1>3, <3>1, <3>2, SendsIs
    <2> QED
        BY <2>1, <2>3, <2>4 DEF TypeInv
<1>4. CASE GivesUp(c)
    <2>1. /\ phase[c] = "running" /\ phase' = [phase EXCEPT ![c] = "closing"]
          /\ \E o \in Results : outcome' = [outcome EXCEPT ![c] = o]
          /\ UNCHANGED <<family, attempts, ip, token, asked, begun, refused, late, purged>>
          /\ files' = files \/ files' = [files EXCEPT ![token[c]] = {}]
        BY <1>4, GivesUpIs
    <2>2. phase[d] = "running" => token[d] # token[c]
        BY <2>1 DEF OwnLeaf
    <2>3. phase[d] = "running" => Tree(d)' = Tree(d)
        <3>1. files' = files \/ files' = [files EXCEPT ![token[c]] = {}]
            BY <2>1
        <3>2. phase[d] = "running" => files'[token[d]] = files[token[d]]
            BY <1>0, <2>2, <3>1 DEF TypeInv
        <3> QED
            BY <2>1, <3>2 DEF Tree, Leaf
    <2>4. phase'[d] = phase[d] /\ outcome'[d] = outcome[d]
        BY <2>1 DEF TypeInv
    <2> QED
        BY <2>1, <2>3, <2>4
<1>5. CASE Exits(c) \/ Killed(c)
    <2>1. phase[c] \in {"running", "closing"} /\ UNCHANGED <<family, attempts>>
        BY <1>5, GoneIs
    <2>2. /\ phase' = [phase EXCEPT ![c] = "off"]
          /\ token' = [token EXCEPT ![c] = 1] /\ ip' = [ip EXCEPT ![c] = 1]
          /\ asked' = [asked EXCEPT ![c] = FALSE]
          /\ begun' = [begun EXCEPT ![c] = {}] /\ late' = [late EXCEPT ![c] = 0]
        BY <1>5, GoneIs
    <2>3. outcome'[d] = outcome[d]
        <3>1. outcome' = outcome \/ outcome' = [outcome EXCEPT ![c] = "killed"]
            BY <1>5, GoneIs
        <3> QED
            BY <3>1 DEF TypeInv
    <2>4. refused'[d] = refused[d] /\ purged'[d] = purged[d]
        <3>1. /\ refused' = refused \/ refused' = [refused EXCEPT ![c] = {}]
              /\ purged' = purged \/ purged' = [purged EXCEPT ![c] = FALSE]
            BY <1>5, GoneIs
        <3> QED
            BY <3>1 DEF TypeInv
    <2>5. phase[d] = "running" => Tree(d)' = Tree(d)
        <3>1. phase[d] = "running" => token[d] # token[c]
            BY <2>1 DEF OwnLeaf
        <3>2. files' = files \/ files' = [files EXCEPT ![token[c]] = {}]
            BY <1>5, GoneIs
        <3>3. token'[d] = token[d]
            BY <2>2 DEF TypeInv
        <3> QED
            <4>1. phase[d] = "running" => files'[token[d]] = files[token[d]]
                BY <1>0, <3>1, <3>2 DEF TypeInv
            <4> QED
                BY <3>3, <4>1 DEF Tree, Leaf
    <2>6. /\ phase'[d] = phase[d] /\ token'[d] = token[d] /\ ip'[d] = ip[d]
          /\ asked'[d] = asked[d] /\ begun'[d] = begun[d] /\ late'[d] = late[d]
        BY <2>2 DEF TypeInv
    <2> QED
        BY <2>1, <2>3, <2>4, <2>5, <2>6
<1> QED
    BY <1>1, <1>2, <1>3, <1>4, <1>5 DEF CopyStep

LEMMA LeafKept ==
    ASSUME TypeInv, \A e \in Copies : OwnLeaf(e), NEW c \in Copies, CopyStep(c),
           NEW d \in Copies
    PROVE  OwnLeaf(d)'
<1>1. \A e \in Copies : e # c => phase'[e] = phase[e] /\ token'[e] = token[e]
    BY OthersKeep
<1>2. CASE Begin(c)
    <2>1. attempts' = attempts + 1 /\ token'[c] = attempts + 1
        BY <1>2 DEF Begin, TypeInv
    <2>2. attempts \in Nat
        BY BoundsAssumption DEF TypeInv
    <2>3. \A e \in Copies : e # c /\ phase[e] # "off" => token[e] \in 1 .. attempts
        BY DEF OwnLeaf
    <2> QED
        BY <1>1, <2>1, <2>2, <2>3 DEF OwnLeaf
<1>3. CASE attempts' = attempts /\ phase'[c] = "off"
    BY <1>1, <1>3 DEF OwnLeaf
<1>4. CASE attempts' = attempts /\ token'[c] = token[c] /\ phase[c] # "off"
    BY <1>1, <1>4 DEF OwnLeaf
<1>5. CASE Asked(c)
    BY <1>4, <1>5 DEF Asked, run
<1>6. CASE GoesOn(c)
    BY <1>4, <1>6, GoesOnIs
<1>7. CASE GivesUp(c)
    BY <1>4, <1>7, GivesUpIs
<1>8. CASE Exits(c) \/ Killed(c)
    <2>1. phase' = [phase EXCEPT ![c] = "off"] /\ attempts' = attempts
        BY <1>8, GoneIs
    <2> QED
        BY <1>3, <2>1 DEF TypeInv
<1> QED
    BY <1>2, <1>5, <1>6, <1>7, <1>8 DEF CopyStep

LEMMA UploadedAre ==
    ASSUME TypeInv, NEW c \in Copies, Within(c), phase[c] = "running"
    PROVE  Uploaded(c) \subseteq Outputs(family)
<1>1. ip[c] \in Nat /\ ip[c] <= Len(Program[family]) + 1 /\ family \in Families
    BY DEF Within, TypeInv
<1>2. DOMAIN Program[family] = 1 .. Len(Program[family]) /\ Len(Program[family]) \in Nat
    BY <1>1, StepsAssumption
<1>3. 1 .. ip[c] - 1 \subseteq DOMAIN Program[family]
    BY <1>1, <1>2
<1> QED
    BY <1>1, <1>3, OutputsAre DEF Uploaded

(* So what holds of another copy goes on holding. *)
LEMMA OthersInv ==
    ASSUME TypeInv, \A e \in Copies : CopyInv(e),
           NEW c \in Copies, CopyStep(c), NEW d \in Copies, d # c
    PROVE  CopyInv(d)'
<1>1. \A e \in Copies : OwnLeaf(e)
    BY DEF CopyInv
<1>2. /\ family' = family
      /\ phase'[d] = phase[d] /\ outcome'[d] = outcome[d] /\ token'[d] = token[d]
      /\ ip'[d] = ip[d] /\ asked'[d] = asked[d] /\ begun'[d] = begun[d]
      /\ refused'[d] = refused[d] /\ purged'[d] = purged[d] /\ late'[d] = late[d]
      /\ phase[d] = "running" => Tree(d)' = Tree(d)
    BY <1>1, OthersKeep
<1>3. /\ \A o \in Outputs(family) : Good(d, o) => Good(d, o)'
      /\ tried \subseteq tried'
    BY <1>2, BucketKeeps DEF Good
<1>4. OwnLeaf(d)'
    BY <1>1, LeafKept
<1>5. Uploaded(d)' = Uploaded(d)
    BY <1>2 DEF Uploaded
<1>6. phase[d] = "running" => Uploaded(d) \subseteq Outputs(family)
    BY UploadedAre DEF CopyInv
<1>7. Within(d)' /\ TreeKept(d)'
    BY <1>2 DEF CopyInv, Within, TreeKept
<1>8. StoredKept(d)'
    BY <1>2, <1>3, <1>5, <1>6 DEF CopyInv, StoredKept
<1>9. SkippedNothing(d)'
    BY <1>2, <1>5 DEF CopyInv, SkippedNothing
<1>10. LateOnce(d)'
    BY <1>2 DEF CopyInv, LateOnce
<1>11. WitnessKept(d)'
    <2>1. CogComesBack(d)' <=> CogComesBack(d)
        BY <1>2 DEF CogComesBack
    <2> QED
        BY <1>2, <1>3, <1>5, <2>1 DEF CopyInv, WitnessKept
<1> QED
    BY <1>4, <1>7, <1>8, <1>9, <1>10, <1>11 DEF CopyInv

-----------------------------------------------------------------------------
(* The copy that takes the step. *)
LEMMA BeginsWell ==
    ASSUME TypeInv, NEW c \in Copies, OwnLeaf(c)', Begin(c)
    PROVE  CopyInv(c)'
<1>1. /\ phase'[c] = "running" /\ outcome'[c] = "none" /\ token'[c] = attempts + 1
      /\ ip'[c] = 1 /\ begun'[c] = {} /\ late'[c] = 0
      /\ UNCHANGED <<family, tried>>
    BY DEF Begin, TypeInv, bucket
<1>2. {"dir", "raw"} \subseteq Tree(c)'
    <2>1. attempts + 1 \in 1 .. MaxAttempts
        BY BoundsAssumption DEF Begin, TypeInv
    <2>2. files' = [files EXCEPT ![attempts + 1] = @ \cup {"dir", "raw"}]
        BY DEF Begin, Leaf
    <2>3. {"dir", "raw"} \subseteq files'[attempts + 1]
        BY <2>1, <2>2 DEF TypeInv
    <2> QED
        BY <1>1, <2>3 DEF Tree, Leaf
<1>3. family \in Families
    BY DEF TypeInv
<1>4. Made(family', ip'[c]) \subseteq Tree(c)'
    BY <1>1, <1>2, <1>3, MadeFirst
<1>5. Uploaded(c)' = {}
    BY <1>1 DEF Uploaded
<1>6. Within(c)'
    BY <1>1, <1>3, StepsAssumption DEF Within
<1>7. TreeKept(c)'
    BY <1>4 DEF TreeKept
<1>8. StoredKept(c)' /\ SkippedNothing(c)'
    BY <1>1, <1>5 DEF StoredKept, SkippedNothing
<1>9. LateOnce(c)'
    BY <1>1 DEF LateOnce
<1>10. WitnessKept(c)'
    BY <1>4, <1>5 DEF WitnessKept
<1> QED
    BY <1>6, <1>7, <1>8, <1>9, <1>10 DEF CopyInv

LEMMA AskedWell ==
    ASSUME TypeInv, NEW c \in Copies, CopyInv(c), OwnLeaf(c)', Asked(c)
    PROVE  CopyInv(c)'
<1>1. UNCHANGED <<family, stored, tried, files, phase, outcome, token, ip, begun, refused, purged, late>>
    BY DEF Asked, bucket, volume, run, sent
<1>2. ~asked[c]
    BY DEF Asked
<1>3. Tree(c)' = Tree(c) /\ Uploaded(c)' = Uploaded(c)
    BY <1>1 DEF Tree, Uploaded
<1>4. Within(c)' /\ TreeKept(c)'
    BY <1>1, <1>3 DEF CopyInv, Within, TreeKept
<1>5. StoredKept(c)' /\ SkippedNothing(c)'
    BY <1>1, <1>3 DEF CopyInv, StoredKept, SkippedNothing, Good
<1>6. LateOnce(c)'
    BY <1>1, <1>2 DEF CopyInv, LateOnce
<1>7. WitnessKept(c)'
    BY <1>1, <1>3 DEF CopyInv, WitnessKept, CogComesBack
<1> QED
    BY <1>4, <1>5, <1>6, <1>7 DEF CopyInv

(* Passing a step, a copy has uploaded the output of that step as well. *)
LEMMA UploadedNext ==
    ASSUME TypeInv, NEW c \in Copies, GoesOn(c), OwnLeaf(c)
    PROVE  Uploaded(c)' = Uploaded(c) \cup
               (IF Current(c).op \in Uploading THEN {Current(c).out} ELSE {})
<1>1. /\ ip[c] \in DOMAIN Program[family] /\ Current(c) = Program[family][ip[c]]
      /\ ip' = [ip EXCEPT ![c] = @ + 1] /\ family' = family
    BY GoesOnIs
<1>2. ip[c] \in Nat \ {0} /\ ip'[c] = ip[c] + 1
    BY <1>1 DEF TypeInv
<1>3. 1 .. ip'[c] - 1 = (1 .. ip[c] - 1) \cup {ip[c]}
    BY <1>2
<1> QED
    BY <1>1, <1>3 DEF Uploaded

LEMMA GoesOnWell ==
    ASSUME TypeInv, NEW c \in Copies, CopyInv(c), OwnLeaf(c)', GoesOn(c)
    PROVE  CopyInv(c)'
<1> DEFINE i == ip[c]
           o == Current(c).out
<1>1. /\ phase[c] = "running" /\ i \in DOMAIN Program[family]
      /\ Current(c) = Program[family][i] /\ Current(c) \in Steps
      /\ ip' = [ip EXCEPT ![c] = @ + 1]
      /\ UNCHANGED <<family, phase, outcome, token, asked, purged>>
    BY GoesOnIs DEF CopyInv
<1>2. family \in Families /\ i \in Nat \ {0} /\ ip'[c] = i + 1
    BY <1>1 DEF TypeInv
<1>3. /\ DOMAIN Program[family] = 1 .. Len(Program[family]) /\ Len(Program[family]) \in Nat
      /\ Current(c).needs \subseteq Made(family, i)
    BY <1>1, <1>2, StepIs
<1>4. Made(family, i + 1) \subseteq (Made(family, i) \ Current(c).drops) \cup Current(c).makes
    BY <1>1, <1>2, MadeNext
<1>5. /\ Tree(c)' = (Tree(c) \ Current(c).drops) \cup Current(c).makes
      /\ Current(c).op \in Computing => Found(c)
    BY TreeIs DEF CopyInv
<1>6. Uploaded(c)' = Uploaded(c) \cup (IF Current(c).op \in Uploading THEN {o} ELSE {})
    BY UploadedNext DEF CopyInv
<1>7. outcome[c] = "none"
    BY <1>1 DEF CopyInv, Within
<1>8. Made(family, i) \subseteq Tree(c) =>
        Found(c) /\ Made(family', ip'[c]) \subseteq Tree(c)'
    BY <1>1, <1>2, <1>3, <1>4, <1>5 DEF Found
<1>9. Within(c)'
    BY <1>1, <1>2, <1>3, <1>7 DEF Within
<1>10. TreeKept(c)'
    BY <1>1, <1>8 DEF CopyInv, TreeKept
<1>11. AtStep(c, Uploading) => o \in Outputs(family)
    BY UploadIs
<1>12. AtStep(c, Uploading) <=> Current(c).op \in Uploading
    BY <1>1, <1>2, <1>3 DEF AtStep
<1>13. StoredKept(c)'
    <2> SUFFICES ASSUME ~purged[c]
                 PROVE  \A x \in Uploaded(c)' : Good(c, x)'
        BY <1>1, <1>7 DEF StoredKept
    <2>1. Found(c)
        BY <1>1, <1>8 DEF CopyInv, TreeKept
    <2>2. \A x \in Uploaded(c) : Good(c, x) /\ x \in Outputs(family)
        BY <1>1, UploadedAre DEF CopyInv, StoredKept
    <2>3. CASE UNCHANGED <<stored, refused>> /\ Current(c).op \notin Uploading
        BY <1>6, <2>2, <2>3 DEF Good
    <2>4. CASE AtStep(c, Uploading) /\ UNCHANGED refused /\ stored' = [stored EXCEPT ![o] = Content(c)]
        <3>1. Content(c) \in {"whole", "blank"}
            BY DEF Content
        <3>2. \A x \in {o} : Good(c, x)'
            BY <1>11, <2>4, <3>1 DEF Good, TypeInv
        <3>3. \A x \in Uploaded(c) : x # o => Good(c, x)'
            BY <2>2, <2>4 DEF Good, TypeInv
        <3> QED
            BY <1>6, <3>2, <3>3
    <2>5. CASE /\ AtStep(c, Uploading) /\ refused' = [refused EXCEPT ![c] = @ \cup {o}]
               /\ stored' = stored \/ stored' = [stored EXCEPT ![o] = Mixed(@, Content(c))]
        <3>1. refused'[c] = refused[c] \cup {o}
            BY <2>5 DEF TypeInv
        <3>2. \A x \in {o} : Good(c, x)'
            BY <3>1 DEF Good
        <3>3. \A x \in Uploaded(c) : x # o => stored'[x] = stored[x]
            BY <2>2, <2>5 DEF TypeInv
        <3>4. \A x \in Uploaded(c) : x # o => Good(c, x)'
            BY <2>2, <3>1, <3>3 DEF Good
        <3> QED
            BY <1>6, <3>2, <3>4
    <2> QED
        BY <2>1, <2>3, <2>4, <2>5, SendsIs
<1>14. SkippedNothing(c)'
    <2>1. begun[c] \subseteq Uploaded(c)
        BY <1>1 DEF CopyInv, SkippedNothing
    <2>2. begun'[c] \subseteq Uploaded(c)'
        <3>1. CASE UNCHANGED begun
            BY <1>6, <2>1, <3>1
        <3>2. CASE AtStep(c, Uploading) /\ Starts(c)
            <4>1. begun'[c] = begun[c] \cup {o}
                BY <3>2 DEF Starts, TypeInv
            <4> QED
                BY <1>6, <1>12, <2>1, <3>2, <4>1
        <3> QED
            BY <3>1, <3>2, SendsIs
    <2> QED
        BY <1>1, <1>7, <2>2 DEF SkippedNothing
<1>15. LateOnce(c)'
    <2> SUFFICES ASSUME family \notin {"wrf", "wrf_plain"}
                 PROVE  /\ late'[c] \in 0 .. 1
                        /\ ~asked[c] => late'[c] = 0
                        /\ late'[c] = 1 =>
                             \E j \in 1 .. i :
                                /\ Program[family][j].op \in Uploading
                                /\ \A k \in j + 1 .. i : Program[family][k].op # "check"
        BY <1>1, <1>2 DEF LateOnce
    <2>1. /\ late[c] \in 0 .. 1
          /\ ~asked[c] => late[c] = 0
          /\ late[c] = 1 =>
               \E j \in 1 .. i - 1 :
                  /\ Program[family][j].op \in Uploading
                  /\ \A k \in j + 1 .. i - 1 : Program[family][k].op # "check"
        BY <1>1 DEF CopyInv, LateOnce
    <2>2. CASE UNCHANGED late /\ (Current(c).op = "check" => ~asked[c])
        <3> SUFFICES ASSUME late[c] = 1
                     PROVE  \E j \in 1 .. i :
                                /\ Program[family][j].op \in Uploading
                                /\ \A k \in j + 1 .. i : Program[family][k].op # "check"
            BY <2>1, <2>2
        <3>1. PICK j \in 1 .. i - 1 :
                  /\ Program[family][j].op \in Uploading
                  /\ \A k \in j + 1 .. i - 1 : Program[family][k].op # "check"
            BY <2>1
        <3>2. Program[family][i].op # "check"
            BY <1>1, <2>1, <2>2
        <3>3. j \in 1 .. i /\ \A k \in j + 1 .. i : Program[family][k].op # "check"
            BY <1>2, <3>1, <3>2
        <3> QED
            BY <3>1, <3>3
    <2>3. CASE AtStep(c, Uploading) /\ Starts(c)
        <3>1. late' = IF asked[c] THEN [late EXCEPT ![c] = @ + 1] ELSE late
            BY <2>3 DEF Starts
        <3>2. late[c] = 0
            <4> SUFFICES ASSUME late[c] = 1
                         PROVE  FALSE
                BY <2>1
            <4>1. PICK j \in 1 .. i - 1 :
                      /\ Program[family][j].op \in Uploading
                      /\ \A k \in j + 1 .. i - 1 : Program[family][k].op # "check"
                BY <2>1
            <4>2. j \in DOMAIN Program[family] /\ j < i
                BY <1>1, <1>2, <1>3
            <4>3. {Program[family][j].op, Program[family][i].op} \subseteq Uploading
                BY <1>1, <1>12, <2>3, <4>1
            <4>4. \E k \in j + 1 .. i - 1 : Program[family][k].op = "check"
                BY <1>1, <1>2, <4>2, <4>3, ChecksAssumption
            <4> QED
                BY <4>1, <4>4
        <3>3. late'[c] \in 0 .. 1 /\ (~asked[c] => late'[c] = 0)
            BY <3>1, <3>2 DEF TypeInv
        <3>4. /\ i \in 1 .. i /\ Program[family][i].op \in Uploading
              /\ \A k \in i + 1 .. i : Program[family][k].op # "check"
            BY <1>1, <1>2, <1>12, <2>3
        <3> QED
            BY <3>3, <3>4
    <2> QED
        BY <2>2, <2>3, SendsIs
<1>16. WitnessKept(c)'
    <2> SUFFICES ASSUME family \in GfsFamilies
                 PROVE  \/ Made(family, i + 1) \subseteq Tree(c)' /\ Uploaded(c)' \subseteq tried'
                        \/ "cog" \notin Tree(c)' /\ ("dir" \in Tree(c)' => ~CogComesBack(c)')
        BY <1>1, <1>2 DEF WitnessKept
    <2>1. CASE Made(family, i) \subseteq Tree(c) /\ Uploaded(c) \subseteq tried
        <3>1. Found(c) /\ Made(family, i + 1) \subseteq Tree(c)'
            BY <1>1, <1>2, <1>8, <2>1
        <3>2. Uploaded(c)' \subseteq tried'
            <4>1. CASE UNCHANGED tried /\ Current(c).op \notin Uploading
                BY <1>6, <2>1, <4>1
            <4>2. CASE Starts(c)
                <5>1. tried' = tried \cup {o}
                    BY <4>2 DEF Starts
                <5> QED
                    BY <1>6, <2>1, <5>1
            <4> QED
                BY <3>1, <4>1, <4>2, SendsIs
        <3> QED
            BY <3>1, <3>2
    <2>2. CASE "cog" \notin Tree(c) /\ ("dir" \in Tree(c) => ~CogComesBack(c))
        <3>1. "cog" \notin Current(c).makes
            <4> SUFFICES ASSUME "cog" \in Current(c).makes
                         PROVE  FALSE
                OBVIOUS
            <4>1. Current(c).op \in Computing /\ "dir" \in Current(c).needs
                BY <1>1, WitnessAssumption
            <4>2. "dir" \in Tree(c)
                BY <1>5, <4>1 DEF Found
            <4>3. CogComesBack(c)
                BY <1>1, <1>2 DEF CogComesBack
            <4> QED
                BY <2>2, <4>2, <4>3
        <3>2. ASSUME "dir" \in Tree(c)', NEW k \in DOMAIN Program[family], k >= i + 1,
                     "cog" \in Program[family][k].makes
              PROVE  FALSE
            <4>1. CASE "dir" \in Tree(c)
                BY <1>2, <1>3, <2>2, <3>2, <4>1 DEF CogComesBack
            <4>2. CASE "dir" \in Current(c).makes
                <5>1. k < i
                    BY <1>1, <3>2, <4>2, WitnessAssumption
                <5> QED
                    BY <1>2, <1>3, <3>2, <5>1
            <4> QED
                BY <1>5, <3>2, <4>1, <4>2
        <3>3. CogComesBack(c)' =>
                \E k \in DOMAIN Program[family] : k >= i + 1 /\ "cog" \in Program[family][k].makes
            BY <1>1, <1>2 DEF CogComesBack
        <3> QED
            BY <1>5, <2>2, <3>1, <3>2, <3>3
    <2> QED
        BY <1>1, <2>1, <2>2 DEF CopyInv, WitnessKept
<1> QED
    BY <1>9, <1>10, <1>13, <1>14, <1>15, <1>16 DEF CopyInv

LEMMA GivesUpWell ==
    ASSUME TypeInv, NEW c \in Copies, CopyInv(c), OwnLeaf(c)', GivesUp(c)
    PROVE  CopyInv(c)'
<1>1. /\ phase[c] = "running" /\ phase' = [phase EXCEPT ![c] = "closing"]
      /\ UNCHANGED <<family, stored, ip, asked, begun, refused, late, purged>>
    BY GivesUpIs
<1>2. phase'[c] = "closing"
    BY <1>1 DEF TypeInv
<1>3. Within(c)' /\ TreeKept(c)' /\ WitnessKept(c)'
    BY <1>2 DEF Within, TreeKept, WitnessKept
<1>4. StoredKept(c)'
    <2> SUFFICES ASSUME ~purged[c], outcome'[c] = "completed", NEW o \in Outputs(family)
                 PROVE  Good(c, o)
        BY <1>1, <1>2 DEF StoredKept, Good
    <2>1. family \in Families /\ ip[c] \in Nat /\ ip[c] > Len(Program[family])
        BY EndsAre DEF TypeInv
    <2>2. DOMAIN Program[family] = 1 .. Len(Program[family]) /\ Len(Program[family]) \in Nat
        BY <2>1, StepsAssumption
    <2>3. DOMAIN Program[family] \subseteq 1 .. ip[c] - 1
        BY <2>1, <2>2
    <2>4. o \in Uploaded(c)
        BY <2>1, <2>3, OutputsAre DEF Uploaded
    <2> QED
        BY <1>1, <2>4 DEF CopyInv, StoredKept
<1>5. SkippedNothing(c)'
    <2> SUFFICES ASSUME outcome'[c] = "skip"
                 PROVE  begun[c] = {}
        BY <1>1, <1>2 DEF SkippedNothing
    <2>1. AtStep(c, {"read"})
        BY EndsAre
    <2>2. /\ ip[c] \in DOMAIN Program[family] /\ Program[family][ip[c]].op = "read"
          /\ family \in Families
        BY <2>1, AtStepIs DEF TypeInv
    <2>3. DOMAIN Program[family] = 1 .. Len(Program[family]) /\ Len(Program[family]) \in Nat
        BY <2>2, StepsAssumption
    <2>4. \A j \in 1 .. ip[c] - 1 : j \in DOMAIN Program[family] /\ j < ip[c]
        BY <2>2, <2>3
    <2>5. Uploaded(c) = {}
        BY <2>2, <2>4, ReadsAssumption DEF Uploaded
    <2> QED
        BY <1>1, <2>5 DEF CopyInv, SkippedNothing
<1>6. LateOnce(c)'
    BY <1>1, <1>2 DEF CopyInv, LateOnce
<1> QED
    BY <1>3, <1>4, <1>5, <1>6 DEF CopyInv

LEMMA GoneWell ==
    ASSUME TypeInv, NEW c \in Copies, CopyInv(c), OwnLeaf(c)', Exits(c) \/ Killed(c)
    PROVE  CopyInv(c)'
<1>1. /\ phase' = [phase EXCEPT ![c] = "off"] /\ family' = family
      /\ begun' = [begun EXCEPT ![c] = {}] /\ late' = [late EXCEPT ![c] = 0]
    BY GoneIs
<1>2. phase'[c] = "off" /\ begun'[c] = {} /\ late'[c] = 0
    BY <1>1 DEF TypeInv
<1>3. Within(c)' /\ TreeKept(c)' /\ WitnessKept(c)' /\ SkippedNothing(c)' /\ LateOnce(c)'
    BY <1>2 DEF Within, TreeKept, WitnessKept, SkippedNothing, LateOnce
<1>4. StoredKept(c)'
    <2> SUFFICES ASSUME ~purged'[c], outcome'[c] = "completed", NEW o \in Outputs(family)
                 PROVE  Good(c, o)'
        BY <1>1, <1>2 DEF StoredKept
    <2>1. UNCHANGED <<refused, purged>>
        BY GoneIs
    <2>2. outcome[c] = "completed"
        BY GoneIs DEF TypeInv
    <2>3. Good(c, o)
        BY <2>1, <2>2 DEF CopyInv, StoredKept
    <2> QED
        BY <2>1, <2>3, BucketKeeps DEF Good, CopyStep
<1> QED
    BY <1>3, <1>4 DEF CopyInv

(* A copy that stores the primary COG has tried what there is to try. *)
LEMMA WitnessStays ==
    ASSUME TypeInv, NEW c \in Copies, CopyInv(c), CopyStep(c), WitnessIsLast, family' = family
    PROVE  WitnessIsLast'
<1> SUFFICES ASSUME family \in GfsFamilies, stored'["cog"] = "whole"
             PROVE  tried' = Outputs(family)
    BY DEF WitnessIsLast
<1>1. tried \subseteq tried' /\ tried' \subseteq Outputs(family)
    BY BucketKeeps
<1>2. CASE stored["cog"] = "whole"
    BY <1>1, <1>2 DEF WitnessIsLast
<1>3. /\ family \in Families /\ "cog" \in Outputs(family)
      /\ DOMAIN Program[family] = 1 .. Len(Program[family]) /\ Len(Program[family]) \in Nat
    BY StepsAssumption, WitnessAssumption DEF TypeInv
<1>4. CASE Uploads(c) /\ stored["cog"] # "whole"
    <2>1. /\ phase[c] = "running" /\ ip[c] \in DOMAIN Program[family]
          /\ Current(c) = Program[family][ip[c]] /\ Current(c).op \in Uploading
        BY <1>4, AtStepIs DEF Uploads
    <2>2. Current(c).out = "cog"
        BY <1>3, <1>4 DEF Uploads, TypeInv
    <2>3. \A j \in DOMAIN Program[family] : Program[family][j].op \in Uploading => j <= ip[c]
        BY <2>1, <2>2, WitnessAssumption
    <2>4. "cog" \in Tree(c)
        <3>1. Found(c) /\ Current(c).needs = {"cog"}
            BY <1>4, <2>2, UploadIs DEF Uploads
        <3> QED
            BY <3>1 DEF Found
    <2>5. Uploaded(c) \subseteq tried
        BY <2>1, <2>4 DEF CopyInv, WitnessKept
    <2>6. tried' = tried \cup {"cog"}
        BY <1>4, <2>2 DEF Uploads, Starts
    <2>7. ASSUME NEW j \in DOMAIN Program[family], Program[family][j].op \in Uploading
          PROVE  Program[family][j].out \in tried'
        <3>1. CASE j = ip[c]
            BY <2>1, <2>2, <2>6, <3>1
        <3>2. CASE j # ip[c]
            <4>1. j \in 1 .. ip[c] - 1
                BY <1>3, <2>1, <2>3, <2>7, <3>2
            <4>2. Program[family][j].out \in Uploaded(c)
                BY <2>7, <4>1 DEF Uploaded
            <4> QED
                BY <2>5, <2>6, <4>2
        <3> QED
            BY <3>1, <3>2
    <2>8. Outputs(family) \subseteq tried'
        BY <1>3, <2>7, OutputsAre
    <2> QED
        BY <1>1, <2>8
<1>5. CASE (UploadRefused(c) \/ Killed(c)) /\ stored["cog"] # "whole"
    <2>1. CASE AtStep(c, {"directory"}) /\ stored' = [stored EXCEPT ![Current(c).out] = Mixed(@, Content(c))]
        <3>1. /\ ip[c] \in DOMAIN Program[family] /\ Current(c) = Program[family][ip[c]]
              /\ Current(c).op = "directory"
            BY <2>1, AtStepIs
        <3>2. Current(c).out # "cog"
            BY <3>1, WitnessAssumption DEF Uploading
        <3> QED
            BY <1>3, <1>5, <2>1, <3>2 DEF TypeInv
    <2>2. CASE UNCHANGED stored
        BY <1>5, <2>2
    <2> QED
        BY <1>5, <2>1, <2>2 DEF UploadRefused, Killed, AtStep, bucket
<1>6. CASE UNCHANGED stored
    BY <1>2, <1>6
<1>7. Uploads(c) \/ UploadRefused(c) \/ Killed(c) \/ UNCHANGED stored
    BY DEF CopyStep, Begin, Asked, GoesOn, GivesUp, Passes, Stops, Checkpoint, Computes, Fills,
        EnsureBucket, NothingToUpload, Raises, Unprocessable, NoClient, Returns, Exits, bucket
<1> QED
    BY <1>2, <1>4, <1>5, <1>6, <1>7

(* A boot takes every tree, and every live attempt is marked by it. *)
LEMMA PurgesWell ==
    ASSUME TypeInv, NEW c \in Copies, CopyInv(c), Purge
    PROVE  CopyInv(c)'
<1>1. UNCHANGED <<family, stored, tried, attempts, phase, outcome, token, ip, asked, begun, refused, late>>
    BY DEF Purge, bucket, run, sent
<1>2. purged'[c] = (purged[c] \/ phase[c] = "running")
    BY DEF Purge
<1>3. phase[c] = "running" => Tree(c)' = {}
    <2>1. phase[c] = "running" => token[c] \in 1 .. MaxAttempts
        BY BoundsAssumption DEF CopyInv, OwnLeaf, TypeInv
    <2>2. \A t \in 1 .. MaxAttempts : files'[t] = {}
        BY DEF Purge, TypeInv
    <2> QED
        BY <1>1, <2>1, <2>2 DEF Tree, Leaf
<1>4. OwnLeaf(c)' /\ Within(c)'
    BY <1>1 DEF CopyInv, OwnLeaf, Within
<1>5. TreeKept(c)'
    BY <1>1, <1>2 DEF TreeKept
<1>6. Uploaded(c)' = Uploaded(c)
    BY <1>1 DEF Uploaded
<1>7. StoredKept(c)'
    BY <1>1, <1>2, <1>6 DEF CopyInv, StoredKept, Good
<1>8. SkippedNothing(c)' /\ LateOnce(c)'
    BY <1>1, <1>6 DEF CopyInv, SkippedNothing, LateOnce
<1>9. WitnessKept(c)'
    BY <1>1, <1>3 DEF WitnessKept
<1> QED
    BY <1>4, <1>5, <1>7, <1>8, <1>9 DEF CopyInv

-----------------------------------------------------------------------------
LEMMA Inductive == Spec => []PipelineInv
<1>1. Init => PipelineInv
    <2> SUFFICES ASSUME Init
                 PROVE  PipelineInv
        OBVIOUS
    <2>1. TypeInv
        <3>1. /\ stored \in [Outputs(family) -> {"nothing", "part", "whole", "blank"}]
              /\ begun \in [Copies -> SUBSET Outputs(family)]
              /\ refused \in [Copies -> SUBSET Outputs(family)]
              /\ files \in [1 .. MaxAttempts -> SUBSET Names]
            BY DEF Init
        <3> QED
            BY <3>1, BoundsAssumption DEF Init, TypeInv
    <2>2. ASSUME NEW c \in Copies
          PROVE  CopyInv(c)
        BY DEF Init, CopyInv, OwnLeaf, Within, TreeKept, StoredKept, SkippedNothing, LateOnce,
            WitnessKept
    <2>3. WitnessIsLast
        <3> SUFFICES ASSUME family \in GfsFamilies
                     PROVE  stored["cog"] # "whole"
            BY DEF WitnessIsLast
        <3>1. "cog" \in Outputs(family)
            BY WitnessAssumption
        <3> QED
            BY <3>1 DEF Init
    <2> QED
        BY <2>1, <2>2, <2>3 DEF PipelineInv
<1>2. PipelineInv /\ [Next]_vars => PipelineInv'
    <2> SUFFICES ASSUME PipelineInv, [Next]_vars
                 PROVE  PipelineInv'
        OBVIOUS
    <2>1. TypeInv /\ WitnessIsLast /\ \A c \in Copies : CopyInv(c) /\ OwnLeaf(c)
        BY DEF PipelineInv, CopyInv
    <2>2. TypeInv'
        BY <2>1, TypeKept
    <2>3. CASE UNCHANGED vars
        <3>1. UNCHANGED <<family, stored, tried, files, purged, attempts, phase, outcome, ip, token,
                          asked, begun, refused, late>>
            BY <2>3 DEF vars, bucket, volume, run, sent
        <3>2. WitnessIsLast'
            BY <2>1, <3>1 DEF WitnessIsLast
        <3>3. ASSUME NEW c \in Copies
              PROVE  CopyInv(c)'
            BY <2>1, <3>1 DEF CopyInv, OwnLeaf, Within, TreeKept, StoredKept, SkippedNothing,
                LateOnce, WitnessKept, Uploaded, Good, Tree, CogComesBack
        <3> QED
            BY <2>2, <3>2, <3>3 DEF PipelineInv
    <2>4. CASE Purge
        <3>1. WitnessIsLast'
            BY <2>1, <2>4 DEF Purge, WitnessIsLast, bucket
        <3> QED
            BY <2>1, <2>2, <2>4, <3>1, PurgesWell DEF PipelineInv
    <2>5. ASSUME NEW c \in Copies, CopyStep(c)
          PROVE  PipelineInv'
        <3>1. family' = family
            BY <2>5 DEF CopyStep, Begin, Asked, GoesOn, GivesUp, Passes, Stops, Checkpoint,
                Computes, Fills, EnsureBucket, Uploads, NothingToUpload, UploadRefused, Raises,
                Unprocessable, NoClient, Returns, Exits, Killed
        <3>2. \A d \in Copies : OwnLeaf(d)'
            BY <2>1, <2>5, LeafKept
        <3>3. CopyInv(c)'
            BY <2>1, <2>5, <3>2, BeginsWell, AskedWell, GoesOnWell, GivesUpWell, GoneWell
                DEF CopyStep
        <3>4. \A d \in Copies : d # c => CopyInv(d)'
            BY <2>1, <2>5, OthersInv
        <3>5. WitnessIsLast'
            BY <2>1, <2>5, <3>1, WitnessStays
        <3> QED
            BY <2>2, <3>3, <3>4, <3>5 DEF PipelineInv
    <2> QED
        BY <2>3, <2>4, <2>5, NextIs
<1> QED
    BY <1>1, <1>2, PTL DEF Spec

(* However many copies of a unit run, are stopped, killed or refused, one  *)
(* that completes leaves its product in the bucket, but for the outputs    *)
(* whose upload it saw refused, unless a boot took its tree.               *)
THEOREM CompletionMeansStored == Spec => []CompletedMeansStored
<1>1. PipelineInv => CompletedMeansStored
    BY DEF PipelineInv, CopyInv, StoredKept, CompletedMeansStored, Good
<1> QED
    BY <1>1, Inductive, PTL

(* A unit given up as unprocessable has begun no upload. *)
THEOREM SkipsAreClean == Spec => []SkipPublishesNothing
<1>1. PipelineInv => SkipPublishesNothing
    BY DEF PipelineInv, CopyInv, SkippedNothing, SkipPublishesNothing
<1> QED
    BY <1>1, Inductive, PTL

(* The primary COG of a GFS product is in the bucket only when all that    *)
(* belongs to the product has been tried.                                  *)
THEOREM WitnessComesLast == Spec => []WitnessIsLast
<1>1. PipelineInv => WitnessIsLast
    BY DEF PipelineInv
<1> QED
    BY <1>1, Inductive, PTL

(* A copy asked to stop begins one more upload at most, but for WRF. *)
THEOREM StopsInTime == Spec => []ShutdownIsPrompt
<1>1. PipelineInv => ShutdownIsPrompt
    BY DEF PipelineInv, CopyInv, LateOnce, ShutdownIsPrompt
<1> QED
    BY <1>1, Inductive, PTL

(* No copy, and no step of its own, takes from an attempt a file that a    *)
(* step of it still needs.                                                 *)
THEOREM FilesAreFound == Spec => []StepsFindTheirFiles
<1>1. PipelineInv => StepsFindTheirFiles
    <2> SUFFICES ASSUME PipelineInv, NEW c \in Copies, phase[c] = "running", ~purged[c],
                        ip[c] <= Len(Program[family])
                 PROVE  Found(c)
        BY DEF StepsFindTheirFiles
    <2>1. family \in Families /\ ip[c] \in Nat \ {0}
        BY DEF PipelineInv, TypeInv
    <2>2. ip[c] \in DOMAIN Program[family]
        BY <2>1, StepsAssumption
    <2>3. Program[family][ip[c]].needs \subseteq Made(family, ip[c])
        BY <2>1, <2>2, StepIs
    <2> QED
        BY <2>3 DEF PipelineInv, CopyInv, TreeKept, Found, Current
<1> QED
    BY <1>1, Inductive, PTL
=============================================================================
