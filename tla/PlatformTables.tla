--------------------------- MODULE PlatformTables ---------------------------
(***************************************************************************)
(* What the probe makes of the tables of a platform                        *)
(* (msm_vidc_init_instance_caps): for every domain and codec of the core   *)
(* the capabilities of a session, merged row by row, a later row over an   *)
(* earlier one.  A dependency row of a capability that the domain and      *)
(* codec do not have is an error, and the probe fails.                     *)
(*                                                                         *)
(* msm_vidc_glymur.c and msm_vidc_lemans.c are not here: they name         *)
(* capabilities (FENCE_ID, DPB_LIST) the header no longer declares.        *)
(***************************************************************************)
EXTENDS TablesSun, TablesCanoe, TablesTuna, TablesNordau, TablesHamoa,
        SequencesExt, TLC

\* FOREACH_CAP: the capabilities in the order of their ids.
CapOrder == <<
  "META_SEQ_HDR_NAL", "META_BITSTREAM_RESOLUTION", "META_CROP_OFFSETS",
  "META_DPB_MISR", "META_OPB_MISR", "META_INTERLACE",
  "META_OUTPUT_TX_FENCE", "META_LTR_MARK_USE", "META_TIMESTAMP",
  "META_CONCEALED_MB_CNT", "META_HIST_INFO", "META_PICTURE_TYPE",
  "META_SEI_MASTERING_DISP", "META_SEI_CLL", "META_HDR10PLUS",
  "META_BUF_TAG", "META_DPB_TAG_LIST", "META_SUBFRAME_OUTPUT",
  "META_ENC_QP_METADATA", "META_DEC_QP_METADATA",
  "META_MAX_NUM_REORDER_FRAMES", "META_EVA_STATS", "META_ROI_INFO",
  "META_SALIENCY_INFO", "META_TRANSCODING_STAT_INFO", "META_DOLBY_RPU",
  "META_HDR10_MAX_RGB_INFO", "META_VIEW_ID", "META_MULTI_VIEW_PAIR",
  "META_THREE_DIMENSIONAL_REF_DISP_INFO", "DRV_VERSION", "MIN_FRAME_QP",
  "MAX_FRAME_QP", "I_FRAME_QP", "P_FRAME_QP", "B_FRAME_QP",
  "TIME_DELTA_BASED_RC", "CONSTANT_QUALITY", "VBV_DELAY", "PEAK_BITRATE",
  "ENTROPY_MODE", "TRANSFORM_8X8", "STAGE", "LTR_COUNT", "IR_PERIOD",
  "BITRATE_BOOST", "BLUR_RESOLUTION", "OUTPUT_ORDER",
  "INPUT_BUF_HOST_MAX_COUNT", "OUTPUT_BUF_HOST_MAX_COUNT", "DELIVERY_MODE",
  "VUI_TIMING_INFO", "SLICE_DECODE", "EARLY_NOTIFY_ENABLE",
  "EARLY_NOTIFY_LINE_COUNT", "EARLY_NOTIFY_FENCE_COUNT",
  "INPUT_RX_FENCE_ENABLE", "INPUT_TX_FENCE_ENABLE", "INPUT_RX_FENCE_TYPE",
  "INPUT_TX_FENCE_TYPE", "OUTPUT_RX_FENCE_ENABLE", "OUTPUT_RX_FENCE_TYPE",
  "OUTPUT_TX_FENCE_TYPE", "PROFILE", "ENH_LAYER_COUNT", "BIT_RATE",
  "LOWLATENCY_MODE", "GOP_SIZE", "B_FRAME", "ALL_INTRA", "MIN_QUALITY",
  "CONTENT_ADAPTIVE_CODING", "BLUR_TYPES", "REQUEST_PREPROCESS",
  "SLICE_MODE", "FRAME_WIDTH", "LOSSLESS_FRAME_WIDTH",
  "SECURE_FRAME_WIDTH", "FRAME_HEIGHT", "LOSSLESS_FRAME_HEIGHT",
  "SECURE_FRAME_HEIGHT", "PIX_FMTS", "MIN_BUFFERS_INPUT",
  "MIN_BUFFERS_OUTPUT", "MBPF", "BATCH_MBPF", "BATCH_FPS", "LOSSLESS_MBPF",
  "SECURE_MBPF", "FRAME_RATE", "OPERATING_RATE", "INPUT_RATE",
  "TIMESTAMP_RATE", "SCALE_FACTOR", "SCALE_ENABLE", "MB_CYCLES_VSP",
  "MB_CYCLES_VPP", "MB_CYCLES_LP", "MB_CYCLES_FW", "MB_CYCLES_FW_VPP",
  "CODEC_MODE", "ENC_RING_BUFFER_COUNT", "CLIENT_ID", "SECURE_MODE",
  "OUTPUT_TX_FENCE_ID", "INPUT_RX_FENCE_FD", "OUTPUT_TX_FENCE_FD",
  "FENCE_INFO", "OUTPUT_SCID", "TS_REORDER", "HFLIP", "VFLIP", "ROTATION",
  "SUPER_FRAME", "HEADER_MODE", "PREPEND_SPSPPS_TO_IDR",
  "WITHOUT_STARTCODE", "NAL_LENGTH_FIELD", "REQUEST_I_FRAME",
  "BITRATE_MODE", "LOSSLESS", "FRAME_SKIP_MODE", "FRAME_RC_ENABLE",
  "GOP_CLOSURE", "CSC", "CSC_CUSTOM_MATRIX", "USE_LTR", "MARK_LTR",
  "BASELAYER_PRIORITY", "IR_TYPE", "AU_DELIMITER", "GRID_ENABLE",
  "GRID_SIZE", "I_FRAME_MIN_QP", "P_FRAME_MIN_QP", "B_FRAME_MIN_QP",
  "I_FRAME_MAX_QP", "P_FRAME_MAX_QP", "B_FRAME_MAX_QP", "LAYER_TYPE",
  "LAYER_ENABLE", "L0_BR", "L1_BR", "L2_BR", "L3_BR", "L4_BR", "L5_BR",
  "LEVEL", "HEVC_TIER", "AV1_TIER", "DISPLAY_DELAY_ENABLE",
  "DISPLAY_DELAY", "CONCEAL_COLOR_8BIT", "CONCEAL_COLOR_10BIT", "LF_MODE",
  "LF_ALPHA", "LF_BETA", "SLICE_MAX_BYTES", "SLICE_MAX_MB", "MB_RC",
  "CHROMA_QP_INDEX_OFFSET", "PIPE", "POC", "MAX_NUM_REORDER_FRAMES",
  "CODED_FRAMES", "BIT_DEPTH", "CODEC_CONFIG", "BITSTREAM_SIZE_OVERWRITE",
  "THUMBNAIL_MODE", "DEFAULT_HEADER", "RAP_FRAME",
  "SEQ_CHANGE_AT_SYNC_FRAME", "QUALITY_MODE", "PRIORITY",
  "FIRMWARE_PRIORITY_OFFSET", "CRITICAL_PRIORITY", "RESERVE_DURATION",
  "FILM_GRAIN", "SUPER_BLOCK", "DRAP", "ENC_IP_CR",
  "INPUT_EXTRA_METADATA_OFFSET", "COMPLEXITY", "CABAC_MAX_BITRATE",
  "CAVLC_MAX_BITRATE", "ALLINTRA_MAX_BITRATE", "LOWLATENCY_MAX_BITRATE",
  "LAST_FLAG_EVENT_ENABLE", "LOOKAHEAD_ENCODE_ENABLE",
  "LOOKAHEAD_ENCODE_SIZE", "NUM_COMV", "SIGNAL_COLOR_INFO", "OPEN_GOP",
  "CAPTURE_DATA_OFFSET", "HEIF_TILES", "CORE_ID_MASK", "LOG_VIDEO_ENCODE">>

CapIds == ToSet(CapOrder)

\* Every set of tables the driver has.
Platforms == {
  Sun, MsmSun, Pineapple, MsmPineapple, Niobe, MsmNiobe, Alor, MsmAlor, Canoe,
  MsmCanoe, MsmCanoeSku1, MsmCanoeSku2, MsmCanoeSku3, Seraph, MsmSeraph, Tuna,
  MsmTunaV0, MsmTunaV1, Kera, MsmKeraV0, MsmKeraV1, Malabar, MsmMalabar,
  Nordau, MsmNordau, Chora, MsmChoraV0, MsmChoraV1, KodiakV0, Hamoa, MsmHamoa,
  Purwa, Lemans, Monaco, Glymur}

-----------------------------------------------------------------------------
\* The domains and codecs of a platform's sessions.
SessionKinds(p) == ({"ENC"} \X p.enc) \cup ({"DEC"} \X p.dec)

\* The rows of a table for a session of kind k, the last of them for a
\* capability, and the capabilities they are for.
RowsOf(table, k) ==
  SelectSeq(table, LAMBDA r : k[1] \in r.domain /\ k[2] \in r.codec)
LastRow(rows, c) == Last(SelectSeq(rows, LAMBDA r : c \in r.caps))
CapsOf(rows)     == UNION {r.caps : r \in ToSet(rows)}

\* The capabilities of a session are those that have a row, and what a row
\* for one says is overwritten by a later one.
update_inst_capability(rows) ==
  LET owned == CapsOf(rows)
  IN  [caps    |-> SelectSeq(CapOrder, LAMBDA c : c \in owned),
       dynamic |-> {c \in owned : LastRow(rows, c).dynamic}]

\* The capabilities an adjust function may change beside its own, by the
\* function.  (msm_vidc_adjust_bitrate does only while the port does not
\* stream, and msm_vidc_adjust_layer_bitrate only while it does and for a
\* control.)
Layers               == {"L0_BR", "L1_BR", "L2_BR", "L3_BR", "L4_BR", "L5_BR"}
adjust_slice_count   == {"SLICE_MAX_BYTES", "SLICE_MAX_MB"}
\* Mutant: a tier that does not fit the profile has the profile changed as well.
AdjustProfileToo(k)  == {c \in {"HEVC_TIER", "PROFILE"} : k[2] = "HEVC"}
adjust_level_tier(k) == {c \in {"HEVC_TIER"} : k[2] = "HEVC"}
adjust_bitrate       == Layers
adjust_layer_bitrate == {"BIT_RATE"}
adjust_hevc_min_qp   == {"I_FRAME_MIN_QP", "P_FRAME_MIN_QP", "B_FRAME_MIN_QP"}
adjust_hevc_max_qp   == {"I_FRAME_MAX_QP", "P_FRAME_MAX_QP", "B_FRAME_MAX_QP"}
ChangedBeside(k, c) ==
  CASE c = "SLICE_MODE"   -> adjust_slice_count
    [] c = "LEVEL"        -> adjust_level_tier(k)
    [] c = "BIT_RATE"     -> adjust_bitrate
    [] c \in Layers       -> adjust_layer_bitrate
    [] c = "MIN_FRAME_QP" -> adjust_hevc_min_qp
    [] c = "MAX_FRAME_QP" -> adjust_hevc_max_qp
    [] OTHER              -> {}

\* The dependency rows the same, of capabilities the session has: a row for
\* another is an error.
DepsAreGood(rows, deps) == CapsOf(deps) \subseteq CapsOf(rows)
update_inst_cap_dependency(k, rows, deps) ==
  LET owned == CapsOf(rows)
      named == CapsOf(deps) \cap owned
      has   == [c \in named |-> LastRow(deps, c).has]
  IN  [kids   |-> [c \in owned |-> IF c \in named THEN LastRow(deps, c).kids
                                                  ELSE << >>],
       adjust |-> {c \in named : "adjust" \in has[c]},
       beside |-> [c \in {n \in named : "adjust" \in has[n]} |->
                     ChangedBeside(k, c) \cap owned],
       set    |-> {c \in named : "set" \in has[c]}]

\* The tables of a platform's sessions, all of them good or none.
init_instance_caps(p) ==
  LET good == \A k \in SessionKinds(p) :
                DepsAreGood(RowsOf(p.caps, k), RowsOf(p.deps, k))
  IN  {[platform |-> p.name, domain |-> k[1], codec |-> k[2], accepted |-> good]
       @@ update_inst_capability(RowsOf(p.caps, k))
       @@ update_inst_cap_dependency(k, RowsOf(p.caps, k), RowsOf(p.deps, k)) :
         k \in SessionKinds(p)}

\* The tables of all platforms.
InstTables == UNION {init_instance_caps(p) : p \in Platforms}
=============================================================================
