---------------------------- MODULE Capabilities ----------------------------
(***************************************************************************)
(* What the driver tells a client it can decode.  The answer is spread     *)
(* over several tables of vabackend.c: the profiles that are listed when   *)
(* the display is opened, the entrypoints and attributes of a profile, the *)
(* configuration made for it, the surfaces that go with a configuration,   *)
(* and the handlers' own lists of profiles.  Clients walk through them one *)
(* query after the other and rely on their agreement.                      *)
(*                                                                         *)
(* drv is [caps, sixteen, four44]: the <<codec, bit depth, chroma>> tuples *)
(* NVDEC supports, supports16BitSurface and supports444Surface.            *)
(***************************************************************************)
EXTENDS Integers, Sequences, FiniteSets

LOCAL INSTANCE SequencesExt

MaxProfiles == 32

(* The codec handlers' computeCudaCodec: whose profile is it? *)
ComputeH264CudaCodec(p) == IF p \in {"H264ConstrainedBaseline", "H264Main", "H264High"} THEN "H264" ELSE "NONE"
ComputeHEVCCudaCodec(p) ==
    IF p \in {"HEVCMain", "HEVCMain10", "HEVCMain12", "HEVCMain444", "HEVCMain444_10", "HEVCMain444_12"}
    THEN "HEVC" ELSE "NONE"
ComputeMPEG2CudaCodec(p) == IF p \in {"MPEG2Main", "MPEG2Simple"} THEN "MPEG2" ELSE "NONE"
ComputeMPEG4CudaCodec(p) ==
    IF p \in {"H263Baseline", "MPEG4Main", "MPEG4Simple", "MPEG4AdvancedSimple"} THEN "MPEG4" ELSE "NONE"
ComputeVC1CudaCodec(p) == IF p \in {"VC1Advanced", "VC1Main", "VC1Simple"} THEN "VC1" ELSE "NONE"
ComputeVP8CudaCodec(p) == IF p = "VP8Version0_3" THEN "VP8" ELSE "NONE"
ComputeVP9CudaCodec(p) ==
    IF p \in {"VP9Profile0", "VP9Profile1", "VP9Profile2", "VP9Profile3"} THEN "VP9" ELSE "NONE"
ComputeAV1CudaCodec(p) == IF p \in {"AV1Profile0", "AV1Profile1"} THEN "AV1" ELSE "NONE"
ComputeJPEGCudaCodec(p) == IF p = "JPEGBaseline" THEN "JPEG" ELSE "NONE"

(* The handler that takes a profile; no two take the same. *)
VaToCuCodec(p) ==
    LET answers == {ComputeH264CudaCodec(p), ComputeHEVCCudaCodec(p), ComputeMPEG2CudaCodec(p),
                    ComputeMPEG4CudaCodec(p), ComputeVC1CudaCodec(p), ComputeVP8CudaCodec(p),
                    ComputeVP9CudaCodec(p), ComputeAV1CudaCodec(p), ComputeJPEGCudaCodec(p)}
    IN  IF answers = {"NONE"} THEN "NONE" ELSE CHOOSE c \in answers : c # "NONE"

DoesGPUSupportCodec(drv, tuple) == tuple \in drv.caps

(* nvQueryConfigProfiles2 asks the GPU for each tuple in turn. *)
Offer(codec, depth, chroma, profiles) == [tuple |-> <<codec, depth, chroma>>, profiles |-> profiles]

Offers ==
    <<Offer("MPEG2", 8, 420, <<"MPEG2Simple", "MPEG2Main">>),
      Offer("MPEG4", 8, 420, <<"MPEG4Simple", "MPEG4AdvancedSimple", "MPEG4Main">>),
      Offer("VC1", 8, 420, <<"VC1Simple", "VC1Main", "VC1Advanced">>),
      Offer("H264", 8, 420, <<"H264Main", "H264High", "H264ConstrainedBaseline">>),
      Offer("JPEG", 8, 420, <<"JPEGBaseline">>),
      Offer("H264_SVC", 8, 420, <<"H264StereoHigh">>),
      Offer("H264_MVC", 8, 420, <<"H264MultiviewHigh">>),
      Offer("HEVC", 8, 420, <<"HEVCMain">>),
      Offer("VP8", 8, 420, <<"VP8Version0_3">>),
      Offer("VP9", 8, 420, <<"VP9Profile0">>),
      Offer("AV1", 8, 420, <<"AV1Profile0">>),
      Offer("HEVC", 10, 420, <<"HEVCMain10">>),
      Offer("HEVC", 12, 420, <<"HEVCMain12">>),
      Offer("VP9", 10, 420, <<"VP9Profile2">>),
      Offer("HEVC", 8, 444, <<"HEVCMain444">>),
      Offer("VP9", 8, 444, <<"VP9Profile1">>),
      Offer("AV1", 8, 444, <<"AV1Profile1">>),
      Offer("HEVC", 10, 444, <<"HEVCMain444_10">>),
      Offer("HEVC", 12, 444, <<"HEVCMain444_12">>),
      Offer("VP9", 10, 444, <<"VP9Profile3">>)>>

(* Deep and 4:4:4 tuples count only if the backend has surfaces for them. *)
Offered(drv) ==
    FlattenSeq([i \in DOMAIN Offers |->
        IF /\ DoesGPUSupportCodec(drv, Offers[i].tuple)
           /\ Offers[i].tuple[2] > 8 => drv.sixteen
           /\ Offers[i].tuple[3] = 444 => drv.four44
        THEN Offers[i].profiles ELSE <<>>])

(* Profiles without a handler are filtered out, VAProfileNone is added. *)
QueryConfigProfiles(drv) == Append(SelectSeq(Offered(drv), LAMBDA p : VaToCuCodec(p) # "NONE"), "None")

SupportsProfile(drv, p) == Contains(QueryConfigProfiles(drv), p)

QueryConfigEntrypoints(drv, p) ==
    IF ~SupportsProfile(drv, p) THEN {} ELSE IF p = "None" THEN {"VideoProc"} ELSE {"VLD"}

\* A mutant: the 4:4:4 profiles of more than 8 bits are forgotten.
ProfileDecodeTupleOld(p) ==
    LET depth == CASE p \in {"HEVCMain10", "VP9Profile2"} -> 10 [] p = "HEVCMain12" -> 12 [] OTHER -> 8
    IN  <<VaToCuCodec(p), depth, IF p \in {"HEVCMain444", "VP9Profile1", "AV1Profile1"} THEN 444 ELSE 420>>

ProfileDecodeTuple(p) ==
    LET depth == CASE p \in {"HEVCMain10", "VP9Profile2", "HEVCMain444_10", "VP9Profile3"} -> 10
                   [] p \in {"HEVCMain12", "HEVCMain444_12"} -> 12
                   [] OTHER -> 8
        chroma == IF p \in {"HEVCMain444", "VP9Profile1", "AV1Profile1", "HEVCMain444_10", "VP9Profile3",
                            "HEVCMain444_12"} THEN 444 ELSE 420
    IN  <<VaToCuCodec(p), depth, chroma>>

(* The largest picture is known for a profile whose tuple is supported. *)
QueryProfileDecodeCaps(drv, p) ==
    VaToCuCodec(p) # "NONE" /\ DoesGPUSupportCodec(drv, ProfileDecodeTuple(p))

-----------------------------------------------------------------------------
(* Render target formats of a profile; nvGetConfigAttributes and           *)
(* nvQueryConfigAttributes hold a copy of this table each.                 *)
Deep == {"YUV420_10", "YUV420_12", "YUV444_10", "YUV444_12"}
Full == {"YUV444", "YUV444_10", "YUV444_12"}

RTFormats(drv, p) ==
    LET twelve == {"HEVCMain12", "VP9Profile2"}
        ten == twelve \union {"HEVCMain10", "AV1Profile0"}
        full12 == {"HEVCMain444_12", "VP9Profile3"}
        full10 == full12 \union {"HEVCMain444_10", "AV1Profile1"}
        full8 == full10 \union {"HEVCMain444", "VP9Profile1"}
    IN  ({"YUV420"} \union (IF p \in twelve THEN {"YUV420_12"} ELSE {})
                    \union (IF p \in ten THEN {"YUV420_10"} ELSE {})
                    \union (IF p \in full12 THEN {"YUV444_12", "YUV420_12"} ELSE {})
                    \union (IF p \in full10 THEN {"YUV444_10", "YUV420_10"} ELSE {})
                    \union (IF p \in full8 THEN {"YUV444"} ELSE {}))
        \ ((IF drv.sixteen THEN {} ELSE Deep) \union (IF drv.four44 THEN {} ELSE Full))

VideoProcFormats(drv) == {"YUV420", "RGB32"} \union (IF drv.sixteen THEN {"YUV420_10"} ELSE {})

(* The formats of a profile and entrypoint, none when there is no answer;  *)
(* with the largest picture size when that is asked for too.               *)
GetConfigAttributes(drv, p, entrypoint, askSize) ==
    IF entrypoint = "VideoProc" /\ p = "None" THEN VideoProcFormats(drv)
    ELSE IF \/ entrypoint # "VLD" \/ ~SupportsProfile(drv, p) \/ VaToCuCodec(p) = "NONE"
            \/ askSize /\ ~QueryProfileDecodeCaps(drv, p) THEN {}
    ELSE RTFormats(drv, p)

-----------------------------------------------------------------------------
(* nvCreateConfig.  rt is the format asked for, or "any".                  *)
Surface(format, chroma, depth) == [format |-> format, chroma |-> chroma, depth |-> depth]

Default == Surface("NV12", 420, 8)

(* nvCreateSurfaces2: what a surface of a format is made of. *)
SurfaceOf(rt) ==
    CASE rt = "YUV420" -> Default
      [] rt = "YUV420_10" -> Surface("P016", 420, 10)
      [] rt = "YUV420_12" -> Surface("P016", 420, 12)
      [] rt = "YUV444" -> Surface("YUV444", 444, 8)
      [] rt = "YUV444_10" -> Surface("YUV444_16Bit", 444, 10)
      [] rt = "YUV444_12" -> Surface("YUV444_16Bit", 444, 12)
      [] rt = "RGB32" -> Surface("NV12", 444, 8)

(* The 16-bit switch: fixed profiles, then those that follow the client. *)
Deep420(drv, p, rt) ==
    CASE drv.sixteen /\ p = "HEVCMain10" -> Surface("P016", 420, 10)
      [] drv.sixteen /\ p = "HEVCMain12" -> Surface("P016", 420, 12)
      [] drv.sixteen /\ p \in {"VP9Profile2", "AV1Profile0"} /\ rt = "YUV420_12" -> Surface("P016", 420, 12)
      [] drv.sixteen /\ p \in {"VP9Profile2", "AV1Profile0"} /\ rt = "YUV420_10" -> Surface("P016", 420, 10)
      [] drv.sixteen /\ p = "VP9Profile2" /\ rt = "any" -> Surface("P016", 420, 10)
      [] OTHER -> Default

Full444(drv, p, found) ==
    IF drv.four44 /\ p \in {"HEVCMain444", "VP9Profile1", "AV1Profile1"} THEN Surface("YUV444", 444, 8) ELSE found

Deep444(drv, p, rt, found) ==
    LET both == drv.four44 /\ drv.sixteen
        open == both /\ p \in {"VP9Profile3", "AV1Profile1"}
    IN  CASE both /\ p = "HEVCMain444_10" -> Surface("YUV444_16Bit", 444, 10)
          [] both /\ p = "HEVCMain444_12" -> Surface("YUV444_16Bit", 444, 12)
          [] open /\ rt = "YUV444_12" -> Surface("YUV444_16Bit", 444, 12)
          [] open /\ rt = "YUV444_10" -> Surface("YUV444_16Bit", 444, 10)
          [] open /\ rt = "YUV444" -> Surface("YUV444", 444, 8)
          [] open /\ p = "VP9Profile3" /\ rt = "any" -> Surface("YUV444_16Bit", 444, 10)
          [] OTHER -> found

(* The configuration, as the set of its one value; none when refused. *)
CreateConfig(drv, p, entrypoint, rt) ==
    IF entrypoint = "VideoProc" /\ p = "None"
    THEN {[profile |-> p, entrypoint |-> entrypoint, codec |-> "NONE", surface |-> Default]}
    ELSE IF ~SupportsProfile(drv, p) \/ VaToCuCodec(p) = "NONE" \/ entrypoint # "VLD" THEN {}
    ELSE {[profile |-> p, entrypoint |-> entrypoint, codec |-> VaToCuCodec(p),
           surface |-> Deep444(drv, p, rt, Full444(drv, p, Deep420(drv, p, rt)))]}

QueryConfigAttributes(drv, cfg) ==
    IF cfg.entrypoint = "VideoProc" THEN VideoProcFormats(drv) ELSE RTFormats(drv, cfg.profile)

(* nvQuerySurfaceAttributes: how many entries the client is told to make   *)
(* room for, and the entries: four sizes, pixel formats, a memory type.    *)
RgbFormats == <<"ARGB", "XRGB", "ABGR", "XBGR", "RGBA", "RGBX", "BGRA", "BGRX">>

SurfaceAttributesRequired(drv, cfg) ==
    IF cfg.entrypoint = "VideoProc" THEN (IF drv.sixteen THEN 15 ELSE 14)
    ELSE 5 + (IF cfg.surface.chroma = 444 THEN 2 ELSE IF drv.sixteen THEN 4 ELSE 1)

PixelFormats(drv, cfg) ==
    CASE cfg.entrypoint = "VideoProc" -> <<"NV12">> \o (IF drv.sixteen THEN <<"P010">> ELSE <<>>) \o RgbFormats
      [] cfg.entrypoint # "VideoProc" /\ cfg.surface.chroma = 444 -> <<"444P", "Q416">>
      [] OTHER -> <<"NV12">> \o (IF drv.sixteen THEN <<"P010", "P012", "P016">> ELSE <<>>)

QuerySurfaceAttributes(drv, cfg) ==
    IF /\ cfg.entrypoint # "VideoProc"
       /\ \/ cfg.surface.chroma = 444 /\ ~drv.four44
          \/ cfg.surface.format = "P016" /\ ~drv.sixteen
    THEN <<>>
    ELSE <<"MinWidth", "MinHeight", "MaxWidth", "MaxHeight">> \o PixelFormats(drv, cfg) \o <<"MemoryType">>

(* The pixel formats a decoder of this surface format writes. *)
Written(surface) ==
    CASE surface.format = "NV12" -> {"NV12"}
      [] surface.format = "P016" -> {"P010", "P012", "P016"}
      [] surface.format = "YUV444" -> {"444P"}
      [] surface.format = "YUV444_16Bit" -> {"Q416"}

-----------------------------------------------------------------------------
Profiles == UNION {ToSet(Offers[i].profiles) : i \in DOMAIN Offers} \union {"None", "H263Baseline", "H264High10"}

AskedFor(p) == LET i == CHOOSE i \in DOMAIN Offers : Contains(Offers[i].profiles, p) IN Offers[i].tuple

(* A profile that leaves the depth open gives the client the target asked  *)
(* for, if that has the profile's chroma.                                  *)
FollowsClient(p, rt) == \/ p \in {"VP9Profile2", "AV1Profile0"}
                        \/ p \in {"VP9Profile3", "AV1Profile1"} /\ rt \in Full

(* The queries agree: a profile is listed exactly if it has entrypoints,   *)
(* attributes, a largest picture and a configuration; what is decoded by   *)
(* default is what the GPU was asked about; a configuration decodes into a *)
(* render target the client was told of, one of its pixel formats can hold *)
(* it, and the attributes fit the room the client was told to make.        *)
CapabilitiesAgree(drv) ==
    /\ Len(Offered(drv)) < MaxProfiles
    /\ IsInjective(QueryConfigProfiles(drv))
    /\ \A p \in Profiles, e \in {"VLD", "VideoProc"} :
          LET offered == SupportsProfile(drv, p) /\ e \in QueryConfigEntrypoints(drv, p)
              formats == GetConfigAttributes(drv, p, e, TRUE)
          IN  /\ offered <=> formats # {}
              /\ \A rt \in formats \union {"any"} :
                    /\ offered <=> CreateConfig(drv, p, e, rt) # {}
                    /\ \A cfg \in CreateConfig(drv, p, e, rt) :
                          /\ QueryConfigAttributes(drv, cfg) = formats
                          /\ \E target \in formats : SurfaceOf(target) = cfg.surface
                          /\ FollowsClient(p, rt) /\ rt # "any" => cfg.surface = SurfaceOf(rt)
                          /\ e = "VLD" /\ rt = "any" =>
                                <<cfg.codec, cfg.surface.depth, cfg.surface.chroma>> = AskedFor(p)
                          /\ Len(QuerySurfaceAttributes(drv, cfg)) = SurfaceAttributesRequired(drv, cfg)
                          /\ ToSet(PixelFormats(drv, cfg)) \intersect Written(cfg.surface) # {}
=============================================================================
