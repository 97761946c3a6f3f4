-------------------------- MODULE ProductPrograms --------------------------
(***************************************************************************)
(* What the processors do, in what order: the program of each family of    *)
(* products, as the sequence of its checkpoints, computations and uploads. *)
(***************************************************************************)
EXTENDS Integers, Sequences, SequencesExt

(* The steps of a program: _check_shutdown, a computation, the reading of  *)
(* the input (which may find it unprocessable), the filling of a tile      *)
(* pyramid, ensure_bucket_exists, upload_directory and upload_file.  A     *)
(* computation needs files of the work tree, makes some ("dir" is the tree *)
(* itself) and drops some; an upload sends the file it is named after.     *)

Step(op, out, needs, makes, drops) ==
    [op |-> op, out |-> out, needs |-> needs, makes |-> makes, drops |-> drops]

Check  == Step("check", "-", {}, {}, {})
Bucket == Step("bucket", "-", {}, {}, {})
Read(needs) == Step("read", "-", needs, {}, {})
Memory == Step("compute", "-", {}, {}, {})
Make(needs, makes) == Step("compute", "-", needs, makes, {})
Turn(file, makes) == Step("compute", "-", {file}, makes, {file})
Fill(tiles) == Step("fill", tiles, {}, {"dir", tiles}, {})
Drop(file) == Step("compute", "-", {}, {}, {file})
Dir(o)    == Step("directory", o, {o}, {}, {})
Object(o) == Step("object", o, {o}, {}, {})

Checked(steps) == FlattenSeq([k \in DOMAIN steps |-> <<Check, steps[k]>>])

(* GOES bands: georeference, calibrate, reproject onto the window of the   *)
(* bounds (which may miss the image), COG, GeoTIFF, tiles.                 *)
Georeference == Make({"raw"}, {})
Calibrate == Memory
Reproject == Read({})

Goes ==
    Checked(<<Georeference, Calibrate, Reproject, Make({"dir"}, {"cog"}),
              Make({"dir"}, {"rgba"}), Make({"rgba"}, {"tiles"}), Bucket>>) \o
    <<Dir("tiles"), Check, Object("cog")>>

(* One GLM variable, on the grid all of them share: it is the first one    *)
(* that finds the bounds to miss it.                                       *)
GlmVariable(reproject, tiles, cog, rgba) ==
    Checked(<<reproject, Make({"dir"}, {cog}), Make({"dir"}, {rgba}),
              Make({rgba}, {tiles}), Fill(tiles), Bucket, Dir(tiles), Object(cog)>>) \o
    <<Check>>

Aggregate == Make({"raw"}, {})

Glm ==
    <<Check, Aggregate>> \o GlmVariable(Reproject, "tiles", "cog", "rgba") \o
    GlmVariable(Memory, "toe_tiles", "toe_cog", "toe_rgba")

(* A sweep makes its directory, and the tree with it; the tiles follow.    *)
SweepData == Make({}, {"dir"})
SweepRasters(cog, rgba) == Make({"dir"}, {cog, rgba})

Sweep(tiles, cog, rgba) ==
    <<SweepData, SweepRasters(cog, rgba)>> \o
    Checked(<<Make({rgba}, {tiles}), Dir(tiles), Object(cog)>>)

ReadVolume == Read({"raw"})
FieldName == Read({})

(* The scan is resolved, volume and field are read once, then comes every  *)
(* sweep of SWEEPS; one the volume lacks is passed over.                   *)
Radar(resolve, sweeps) ==
    <<resolve, Check, ReadVolume, FieldName>> \o
    FlattenSeq([k \in DOMAIN sweeps |-> <<Check>> \o sweeps[k]])

RadarVolume ==
    Radar(Memory, <<Sweep("tiles", "cog", "rgba"), Sweep("tiles_1", "cog_1", "rgba_1"), <<>>>>)

(* An INTA scan: without a header or a prefix nothing says whose it is. *)
ResolveInta == Read({})
RadarPpi == Radar(ResolveInta, <<Sweep("tiles", "cog", "rgba"), <<>>, <<>>>>)

(* WRF: fields of two files, at levels that may be absent.                 *)
LoadPayload == Read({"raw"})
BuildRgba == Memory
SaveGcp == Make({"dir"}, {"gcp"})
Warp == Turn("gcp", {"rgba"})
FloatStack == Make({"dir"}, {"stack"})
SplitPrimary == Make({"stack"}, {"cog"})

SplitSecondary == Turn("stack", {"secondary_cog"})
GeoJsonLayers(layers) == Make({"dir"}, layers)
WrfTiles == Make({"rgba"}, {"tiles"})

(* The uploads have no checkpoint between them. *)
WrfUploads(layers) ==
    <<Dir("tiles"), Object("cog"), Object("secondary_cog")>> \o layers

WrfWith(layers, uploads) ==
    Checked(<<LoadPayload, BuildRgba>>) \o <<SaveGcp>> \o
    Checked(<<Warp, FloatStack>>) \o <<SplitPrimary>> \o
    Checked(<<SplitSecondary, GeoJsonLayers(layers), WrfTiles>>) \o
    <<Check>> \o WrfUploads(uploads)

(* A product with barbs and a contour; one whose layers come out empty.    *)
Wrf == WrfWith({"barbs", "contours"}, <<Dir("barbs"), Object("contours")>>)
WrfPlain == WrfWith({}, <<>>)

(* ECMWF: a step of the GRIB that may be absent; COG, GeoTIFF, prewarp,    *)
(* tiles with the gaps filled.                                             *)
LoadStep == Read({"raw"})
TpOutputs == <<Make({"dir"}, {"cog"}), Make({"dir"}, {"rgba"})>>
Prewarp == Make({"rgba"}, {"prewarped"})
Pyramid == <<Make({"prewarped"}, {"tiles"}), Fill("tiles")>>

EcmwfTp ==
    <<LoadStep, Check>> \o TpOutputs \o Checked(<<Prewarp>>) \o <<Check>> \o Pyramid \o
    <<Check>> \o Checked(<<Object("cog"), Dir("tiles")>>)

EcmwfMslp ==
    <<LoadStep, Check, Make({"dir"}, {"cog", "isobars"}), Check>> \o
    Checked(<<Object("cog"), Object("isobars")>>)

(* GFS: the fields of a step; the primary COG goes up last.                *)
LoadFields == Make({"raw"}, {})

MslpOutputs == {"cog", "thickness_cog", "isobars", "thickness"}

GfsMslp ==
    <<LoadFields, Check, Make({"dir"}, MslpOutputs), Check>> \o
    Checked(<<Object("thickness_cog"), Object("isobars"), Object("thickness"), Object("cog")>>)

UpperOutputs(cogs, overlays) == Make({"dir"}, {"rgba"} \cup cogs \cup overlays)

UpperTiles == <<Prewarp, Check>> \o Pyramid \o <<Check, Drop("prewarped")>>

UpperUploads(secondary, overlays) ==
    Checked(secondary \o overlays \o <<Dir("tiles"), Object("cog")>>)

GfsUpper(outputs, secondary, overlays) ==
    <<LoadFields, Check, outputs, Check>> \o UpperTiles \o UpperUploads(secondary, overlays)

Gfs500 ==
    GfsUpper(UpperOutputs({"cog", "temperature_cog"}, {"heights", "isotherms", "barbs"}),
             <<Object("temperature_cog")>>,
             <<Object("heights"), Object("isotherms"), Dir("barbs")>>)

Gfs250 == GfsUpper(UpperOutputs({"cog"}, {"heights"}), <<>>, <<Object("heights")>>)

Families == {"goes", "glm", "radar_volume", "radar_ppi", "wrf", "wrf_plain",
             "ecmwf_tp", "ecmwf_mslp", "gfs_mslp", "gfs_500", "gfs_250"}

Program == [f \in Families |->
    CASE f = "goes" -> Goes
      [] f = "glm" -> Glm
      [] f = "radar_volume" -> RadarVolume
      [] f = "radar_ppi" -> RadarPpi
      [] f = "wrf" -> Wrf
      [] f = "wrf_plain" -> WrfPlain
      [] f = "ecmwf_tp" -> EcmwfTp
      [] f = "ecmwf_mslp" -> EcmwfMslp
      [] f = "gfs_mslp" -> GfsMslp
      [] f = "gfs_500" -> Gfs500
      [] f = "gfs_250" -> Gfs250]

Uploading == {"directory", "object"}

Outputs(f) ==
    {s.out : s \in {s \in ToSet(Program[f]) : s.op \in Uploading}}

Names == {"dir", "raw", "rgba", "rgba_1", "toe_rgba", "gcp", "stack", "prewarped"}
         \cup UNION {Outputs(f) : f \in Families}

GfsFamilies == {"gfs_mslp", "gfs_500", "gfs_250"}

(* The radar and WRF processors keep a tree of their own; the others work  *)
(* in the one the handler made.                                            *)
OwnTree == {"radar_volume", "radar_ppi", "wrf", "wrf_plain"}

(* ECMWF and GFS processors remove their files on success only. *)
RemovesTree == OwnTree \cup {"goes", "glm"}

-----------------------------------------------------------------------------
(* The files a program has before its i-th step when nothing interferes:   *)
(* those of the handler, or made by an earlier step, and not dropped since. *)
Made(f, i) ==
    {x \in Names : \E k \in 0 .. i - 1 :
        /\ IF k = 0 THEN x \in {"dir", "raw"} ELSE x \in Program[f][k].makes
        /\ \A l \in k + 1 .. i - 1 : x \notin Program[f][l].drops}

(* What the order of the steps has to be for the properties to hold.  The  *)
(* programs contain no constant: TLC decides these facts once and for all. *)

Computing == {"compute", "read"}

Steps == [op : Computing \cup Uploading \cup {"check", "fill", "bucket"},
          out : Names \cup {"-"},
          needs : SUBSET Names, makes : SUBSET Names, drops : SUBSET Names]

ASSUME StepsAssumption == \A f \in Families :
    /\ Program[f] \in Seq(Steps)
    /\ \A i \in DOMAIN Program[f] :
         LET s == Program[f][i] IN
         /\ s.op \notin Computing => s.drops = {}
         /\ s.op \notin Computing \cup {"fill"} => s.makes = {}
         /\ s.op \in Uploading => s.needs = {s.out}

(* A step finds its files. *)
ASSUME FilesAssumption ==
    \A f \in Families : \A i \in DOMAIN Program[f] : Program[f][i].needs \subseteq Made(f, i)

(* Nothing is read any more once something went up. *)
ASSUME ReadsAssumption == \A f \in Families : \A i, j \in DOMAIN Program[f] :
    i < j /\ Program[f][i].op \in Uploading => Program[f][j].op # "read"

(* There is a checkpoint between any two uploads, but for WRF. *)
ASSUME ChecksAssumption ==
    \A f \in Families \ {"wrf", "wrf_plain"} : \A i, j \in DOMAIN Program[f] :
        i < j /\ {Program[f][i].op, Program[f][j].op} \subseteq Uploading =>
            \E k \in i + 1 .. j - 1 : Program[f][k].op = "check"

(* The primary COG of a GFS product is an object that goes up last; it is  *)
(* made in a tree that nothing before it makes again.                      *)
ASSUME WitnessAssumption == \A f \in GfsFamilies :
    /\ "cog" \in Outputs(f)
    /\ \A i \in DOMAIN Program[f] :
         LET s == Program[f][i] IN
         /\ s.op \in Uploading /\ s.out = "cog" =>
              /\ s.op = "object"
              /\ \A j \in DOMAIN Program[f] : Program[f][j].op \in Uploading => j <= i
         /\ "cog" \in s.makes =>
              /\ s.op \in Computing /\ "dir" \in s.needs
              /\ \A j \in DOMAIN Program[f] : "dir" \in Program[f][j].makes => i < j
=============================================================================
