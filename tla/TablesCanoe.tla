----------------------------- MODULE TablesCanoe ----------------------------
(* The capability tables of alor, canoe and seraph                          *)
(* (driver/platform): X of X.c, which the video driver is built with, MsmX  *)
(* of msm_vidc_X.c, which msm_video is built with.  A table is cut in       *)
(* parts, row for row in the order of the file; a part with the same rows   *)
(* as one of another file is that part.                                     *)
EXTENDS TablesSun

AlorCaps1 == SunCaps1
AlorCaps2 == SunCaps2
AlorCaps3 == SunCaps3
AlorCaps4 == SunCaps4
AlorCaps5 == SunCaps5
AlorCaps6 == SunCaps6
AlorCaps7 == SunCaps7
AlorDeps1 == SunDeps1
AlorDeps2 == SunDeps2
AlorDeps3 == SunDeps3

Alor == [name |-> "Alor",
   enc |-> {"H264", "HEVC"},
   dec |-> {"H264", "HEVC", "VP9"},
   caps |-> AlorCaps1 \o AlorCaps2 \o AlorCaps3 \o AlorCaps4 \o AlorCaps5 \o
           AlorCaps6 \o AlorCaps7,
   deps |-> AlorDeps1 \o AlorDeps2 \o AlorDeps3]

MsmAlorCaps1 == MsmSunCaps1

MsmAlorCaps2 == <<
  Dynamic(Dec, {"H264", "HEVC", "VP9", "HEIC", "AV1"}, {"FRAME_RATE",
      "OUTPUT_TX_FENCE_ID", "INPUT_RX_FENCE_FD"}),
  Dynamic(Dec, {"VP9"}, {"FRAME_RATE"}),
  Fixed(Enc, All, {"OPERATING_RATE", "MB_CYCLES_VPP", "MB_CYCLES_LP",
      "MB_CYCLES_FW_VPP", "CODEC_MODE"}),
  Dynamic(Dec, All, {"OPERATING_RATE"}),
  Fixed(Both, All, {"INPUT_RATE", "TIMESTAMP_RATE", "MB_CYCLES_FW"}),
  Fixed(Enc, {"H264", "HEVC"}, {"SCALE_FACTOR"}),
  Fixed(Enc, {"H264", "HEVC", "VP9", "HEIC", "AV1"}, {"MB_CYCLES_VSP"}),
  Fixed(Dec, {"H264", "HEVC", "VP9", "HEIC", "AV1"}, {"MB_CYCLES_VSP",
      "OUTPUT_TX_FENCE_FD"}),
  Fixed(Dec, {"VP9", "AV1"}, {"MB_CYCLES_VSP"}),
  Fixed(Dec, All, {"MB_CYCLES_VPP", "MB_CYCLES_LP", "MB_CYCLES_FW_VPP"}),
  Fixed(Enc, {"H264"}, {"ENC_RING_BUFFER_COUNT"}),
  Fixed(Both, {"H264", "HEVC", "VP9", "HEIC", "AV1"}, {"CLIENT_ID"}),
  Fixed(Both, {"H264", "HEVC", "VP9", "AV1"}, {"SECURE_MODE"}),
  Fixed(Dec, {"H264", "HEVC", "VP9", "AV1"}, {"META_OUTPUT_TX_FENCE",
      "OUTPUT_RX_FENCE_ENABLE", "INPUT_RX_FENCE_ENABLE",
      "INPUT_TX_FENCE_ENABLE"}),
  Dynamic(Both, {"H264", "HEVC", "VP9", "HEIC", "AV1"}, {"FENCE_INFO"})>>

MsmAlorCaps3 == <<
  Fixed(Dec, {"H264", "HEVC", "VP9", "AV1"}, {"INPUT_RX_FENCE_TYPE",
      "INPUT_TX_FENCE_TYPE", "OUTPUT_RX_FENCE_TYPE", "OUTPUT_TX_FENCE_TYPE"}),
  Fixed(Dec, {"H264", "HEVC"}, {"TS_REORDER"}),
  Dynamic(Enc, All, {"HFLIP", "VFLIP"}),
  Fixed(Enc, All, {"ROTATION"}),
  Dynamic(Enc, {"H264", "HEVC"}, {"SUPER_FRAME"}),
  Fixed(Dec, {"H264", "HEVC", "AV1"}, {"SLICE_DECODE",
      "EARLY_NOTIFY_ENABLE"}),
  Dynamic(Dec, {"H264", "HEVC", "AV1"}, {"EARLY_NOTIFY_LINE_COUNT",
      "EARLY_NOTIFY_FENCE_COUNT"})>>

MsmAlorCaps4 == <<
  Fixed(Enc, {"H264", "HEVC", "HEIC"}, {"HEADER_MODE",
      "PREPEND_SPSPPS_TO_IDR", "VUI_TIMING_INFO", "WITHOUT_STARTCODE",
      "NAL_LENGTH_FIELD"}),
  Fixed(Dec, {"AV1"}, {"WITHOUT_STARTCODE"}),
  Dynamic(Enc, {"H264", "HEVC"}, {"REQUEST_I_FRAME", "BIT_RATE"}),
  Fixed(Enc, {"H264"}, {"BITRATE_MODE", "CAVLC_MAX_BITRATE"}),
  Fixed(Enc, {"HEVC"}, {"BITRATE_MODE"}),
  Fixed(Enc, {"HEIC"}, {"BITRATE_MODE"}),
  Fixed(Enc, {"H264", "HEVC"}, {"CABAC_MAX_BITRATE", "ALLINTRA_MAX_BITRATE",
      "LOWLATENCY_MAX_BITRATE"}),
  Fixed(Dec, {"H264", "HEVC", "VP9", "HEIC", "AV1"}, {"NUM_COMV"})>>

MsmAlorCaps5 == <<
  Fixed(Enc, {"HEVC"}, {"LOSSLESS", "OPEN_GOP"}),
  Fixed(Enc, {"H264", "HEVC", "HEIC"}, {"FRAME_SKIP_MODE", "FRAME_RC_ENABLE",
      "CSC", "CSC_CUSTOM_MATRIX"}),
  Dynamic(Enc, {"HEVC"}, {"CONSTANT_QUALITY"}),
  Dynamic(Enc, {"HEIC"}, {"CONSTANT_QUALITY"}),
  Dynamic(Enc, {"H264", "HEVC"}, {"GOP_SIZE", "BLUR_RESOLUTION"}),
  Dynamic(Enc, {"HEIC"}, {"GOP_SIZE"}),
  Fixed(Enc, {"H264", "HEVC"}, {"GOP_CLOSURE", "B_FRAME", "BLUR_TYPES"}),
  Fixed(Enc, {"HEIC"}, {"B_FRAME"})>>

MsmAlorCaps6 == MsmSunCaps5
MsmAlorCaps7 == MsmSunCaps6

MsmAlorCaps8 == <<
  Dynamic(Enc, {"H264"}, {"L1_BR", "L2_BR", "L3_BR", "L4_BR", "L5_BR"}),
  Dynamic(Enc, {"HEVC"}, {"L1_BR", "L2_BR", "L3_BR", "L4_BR", "L5_BR"}),
  Fixed(Enc, {"H264"}, {"ENTROPY_MODE"}),
  Fixed(Dec, {"H264", "HEVC", "VP9", "AV1"}, {"ENTROPY_MODE"}),
  Fixed(Both, {"H264"}, {"PROFILE"}),
  Fixed(Both, {"HEVC", "HEIC"}, {"PROFILE"}),
  Fixed(Dec, {"VP9"}, {"PROFILE"})>>

MsmAlorCaps9 == <<
  Fixed(Dec, {"AV1"}, {"PROFILE"}),
  Fixed(Enc, {"H264"}, {"LEVEL"}),
  Fixed(Enc, {"HEVC", "HEIC"}, {"LEVEL"}),
  Fixed(Dec, {"H264"}, {"LEVEL"}),
  Fixed(Dec, {"HEVC", "HEIC"}, {"LEVEL"}),
  Fixed(Dec, {"VP9"}, {"LEVEL"}),
  Fixed(Dec, {"AV1"}, {"LEVEL"})>>

MsmAlorCaps10 == <<
  Fixed(Dec, {"AV1"}, {"AV1_TIER"}),
  Fixed(Both, {"HEVC"}, {"HEVC_TIER"}),
  Fixed(Both, {"HEIC"}, {"HEVC_TIER"}),
  Fixed(Enc, {"H264"}, {"LF_MODE", "LF_ALPHA", "LF_BETA", "SLICE_MAX_BYTES",
      "TRANSFORM_8X8"}),
  Fixed(Enc, {"HEVC", "HEIC"}, {"LF_MODE", "LF_ALPHA", "LF_BETA"}),
  Fixed(Enc, {"H264", "HEVC"}, {"SLICE_MODE", "SLICE_MAX_MB", "MB_RC",
      "CHROMA_QP_INDEX_OFFSET"}),
  Fixed(Enc, {"HEIC"}, {"SLICE_MODE"}),
  Fixed(Enc, {"HEVC"}, {"SLICE_MAX_BYTES"}),
  Fixed(Dec, {"H264", "HEVC", "VP9", "AV1"}, {"DISPLAY_DELAY_ENABLE",
      "DISPLAY_DELAY", "OUTPUT_ORDER"})>>

MsmAlorCaps11 == <<
  Fixed(Both, {"H264", "HEVC", "VP9", "HEIC", "AV1"}, {
      "INPUT_BUF_HOST_MAX_COUNT", "OUTPUT_BUF_HOST_MAX_COUNT", "STAGE",
      "PIPE", "FIRMWARE_PRIORITY_OFFSET"}),
  Fixed(Dec, All, {"CONCEAL_COLOR_8BIT", "CONCEAL_COLOR_10BIT"}),
  Fixed(Dec, {"H264"}, {"POC"}),
  Fixed(Dec, {"H264", "HEVC"}, {"MAX_NUM_REORDER_FRAMES"}),
  Fixed(Enc, {"H264", "HEVC", "VP9", "HEIC", "AV1"}, {"QUALITY_MODE",
      "CRITICAL_PRIORITY"}),
  Fixed(Dec, {"H264", "HEVC", "HEIC"}, {"CODED_FRAMES"}),
  Fixed(Both, All, {"BIT_DEPTH"}),
  Dynamic(Dec, {"H264", "HEVC", "HEIC", "AV1"}, {"CODEC_CONFIG"}),
  Fixed(Dec, {"H264", "HEVC", "VP9", "HEIC", "AV1"}, {
      "BITSTREAM_SIZE_OVERWRITE", "THUMBNAIL_MODE", "DEFAULT_HEADER",
      "RAP_FRAME"}),
  Dynamic(Dec, {"H264", "HEVC", "VP9", "HEIC", "AV1"}, {
      "SEQ_CHANGE_AT_SYNC_FRAME", "INPUT_EXTRA_METADATA_OFFSET"}),
  Dynamic(Both, {"H264", "HEVC", "VP9", "HEIC", "AV1"}, {"PRIORITY"}),
  Dynamic(Enc, {"H264", "HEVC", "VP9", "HEIC", "AV1"}, {"RESERVE_DURATION",
      "ENC_IP_CR"}),
  Fixed(Dec, {"AV1"}, {"FILM_GRAIN", "SUPER_BLOCK"})>>

MsmAlorCaps12 == <<
  Fixed(Dec, {"AV1"}, {"DRAP", "META_BITSTREAM_RESOLUTION",
      "META_CROP_OFFSETS"}),
  Fixed(Both, {"H264", "HEVC", "VP9", "HEIC", "AV1"}, {
      "LAST_FLAG_EVENT_ENABLE", "META_TIMESTAMP"}),
  Fixed(Enc, {"H264", "HEVC"}, {"LOOKAHEAD_ENCODE_ENABLE",
      "LOOKAHEAD_ENCODE_SIZE", "ALL_INTRA", "META_LTR_MARK_USE",
      "META_TRANSCODING_STAT_INFO"}),
  Fixed(Enc, {"H264", "HEVC", "HEIC"}, {"META_SEQ_HDR_NAL"}),
  Fixed(Dec, {"H264", "HEVC", "VP9", "HEIC", "AV1"}, {"META_DPB_MISR",
      "META_OPB_MISR", "META_CONCEALED_MB_CNT"}),
  Fixed(Dec, {"H264"}, {"META_INTERLACE"}),
  Fixed(Dec, {"HEVC", "VP9", "AV1"}, {"META_HIST_INFO"}),
  Fixed(Enc, {"HEVC"}, {"META_HIST_INFO", "META_HDR10_MAX_RGB_INFO"}),
  Fixed(Dec, {"H264", "HEVC"}, {"META_TRANSCODING_STAT_INFO"}),
  Dynamic(Dec, {"H264", "HEVC", "VP9", "HEIC", "AV1"}, {"META_PICTURE_TYPE"})>>

MsmAlorCaps13 == <<
  Fixed(Enc, {"HEVC", "HEIC"}, {"META_SEI_MASTERING_DISP", "META_SEI_CLL",
      "META_HDR10PLUS"}),
  Fixed(Dec, {"HEVC", "HEIC", "AV1"}, {"META_SEI_MASTERING_DISP",
      "META_SEI_CLL", "META_HDR10PLUS"}),
  Fixed(Enc, {"HEVC"}, {"META_DOLBY_RPU"}),
  Fixed(Dec, {"H264", "HEVC"}, {"META_DOLBY_RPU"})>>

MsmAlorCaps14 == <<
  Fixed(Enc, {"H264", "HEVC"}, {"META_EVA_STATS", "META_ROI_INFO",
      "META_SALIENCY_INFO", "COMPLEXITY"}),
  Fixed(Enc, {"H264", "HEVC", "VP9", "HEIC", "AV1"}, {"META_BUF_TAG",
      "META_ENC_QP_METADATA"}),
  Dynamic(Dec, {"H264", "HEVC", "VP9", "HEIC", "AV1"}, {"META_BUF_TAG"}),
  Fixed(Dec, {"H264", "HEVC", "VP9", "HEIC", "AV1"}, {"META_DPB_TAG_LIST",
      "META_SUBFRAME_OUTPUT", "META_DEC_QP_METADATA"}),
  Fixed(Enc, {"H264", "HEVC", "HEIC"}, {"META_SUBFRAME_OUTPUT"}),
  Fixed(Enc, {"HEIC"}, {"GRID_ENABLE", "GRID_SIZE"}),
  Fixed(Enc, {"HEVC"}, {"DELIVERY_MODE", "CAPTURE_DATA_OFFSET"}),
  Fixed(Enc, {"H264"}, {"DELIVERY_MODE"}),
  Dynamic(Enc, {"H264", "HEVC", "HEIC"}, {"SIGNAL_COLOR_INFO"}),
  Dynamic(Dec, {"HEIC"}, {"HEIF_TILES"})>>

MsmAlorDeps1 == <<
  Parent(Enc, {"H264"}, {"PIX_FMTS"}, <<"IR_PERIOD", "CSC",
      "BIT_DEPTH">>, Neither),
  Parent(Enc, {"HEVC"}, {"PIX_FMTS"}, <<"PROFILE", "MIN_FRAME_QP",
      "MAX_FRAME_QP", "I_FRAME_QP", "P_FRAME_QP", "B_FRAME_QP", "MIN_QUALITY",
      "BLUR_TYPES", "IR_PERIOD", "LTR_COUNT", "CSC", "BIT_DEPTH">>, Neither),
  Parent(Enc, {"HEIC"}, {"PIX_FMTS"}, <<"PROFILE", "CSC",
      "BIT_DEPTH">>, Neither),
  Parent(Dec, {"HEVC", "HEIC"}, {"PIX_FMTS"}, <<"PROFILE">>, Neither),
  Leaf(Enc, All, {"BIT_DEPTH"}, AdjustOnly),
  Parent(Enc, All, {"FRAME_RATE"}, <<"LEVEL">>, SetOnly),
  Leaf(Dec, All, {"FRAME_RATE", "OPERATING_RATE"}, AdjustOnly)>>

MsmAlorDeps2 == <<
  Leaf(Enc, {"H264"}, {"ENC_RING_BUFFER_COUNT"}, SetOnly),
  Leaf(Both, {"H264", "HEVC", "VP9", "AV1"}, {"SECURE_MODE"}, SetOnly),
  Leaf(Both, {"H264", "HEVC", "VP9", "HEIC", "AV1"}, {
      "FENCE_INFO"}, AdjustOnly),
  Parent(Dec, {"H264", "HEVC", "AV1"}, {"META_OUTPUT_TX_FENCE"}, <<
      "OUTPUT_TX_FENCE_TYPE", "SLICE_DECODE",
      "EARLY_NOTIFY_ENABLE">>, Neither),
  Parent(Dec, {"VP9"}, {"META_OUTPUT_TX_FENCE"}, <<
      "OUTPUT_TX_FENCE_TYPE">>, Neither),
  Parent(Dec, {"H264", "HEVC", "VP9", "AV1"}, {"INPUT_RX_FENCE_ENABLE"}, <<
      "INPUT_RX_FENCE_TYPE">>, Neither),
  Parent(Dec, {"H264", "HEVC", "VP9", "AV1"}, {"INPUT_TX_FENCE_ENABLE"}, <<
      "INPUT_TX_FENCE_TYPE">>, Neither),
  Parent(Dec, {"H264", "HEVC", "VP9", "AV1"}, {"OUTPUT_RX_FENCE_ENABLE"}, <<
      "OUTPUT_RX_FENCE_TYPE">>, Neither),
  Leaf(Dec, {"H264", "HEVC", "VP9", "AV1"}, {"INPUT_RX_FENCE_TYPE",
      "INPUT_TX_FENCE_TYPE", "OUTPUT_TX_FENCE_TYPE",
      "OUTPUT_RX_FENCE_TYPE"}, AdjustOnly),
  Leaf(Enc, All, {"HFLIP", "VFLIP"}, SetOnly),
  Leaf(Enc, {"H264", "HEVC", "VP9", "HEIC", "AV1"}, {"ROTATION"}, SetOnly),
  Parent(Enc, {"H264", "HEVC"}, {"SUPER_FRAME"}, <<"INPUT_BUF_HOST_MAX_COUNT",
      "OUTPUT_BUF_HOST_MAX_COUNT">>, Neither),
  Leaf(Dec, {"H264", "HEVC", "AV1"}, {"SLICE_DECODE",
      "EARLY_NOTIFY_FENCE_COUNT"}, AdjustSet),
  Parent(Dec, {"H264", "HEVC", "AV1"}, {"EARLY_NOTIFY_ENABLE"}, <<
      "EARLY_NOTIFY_LINE_COUNT">>, AdjustSet),
  Parent(Dec, {"H264", "HEVC", "AV1"}, {"EARLY_NOTIFY_LINE_COUNT"}, <<
      "EARLY_NOTIFY_FENCE_COUNT">>, AdjustSet),
  Leaf(Enc, {"H264", "HEVC", "HEIC"}, {"HEADER_MODE",
      "WITHOUT_STARTCODE"}, SetOnly),
  Leaf(Dec, {"AV1"}, {"WITHOUT_STARTCODE"}, SetOnly),
  Leaf(Enc, {"H264", "HEVC"}, {"REQUEST_I_FRAME"}, SetOnly),
  Parent(Enc, {"H264"}, {"BIT_RATE"}, <<"PEAK_BITRATE", "BITRATE_BOOST",
      "L0_BR", "LEVEL">>, AdjustSet),
  Parent(Enc, {"HEVC"}, {"BIT_RATE"}, <<"PEAK_BITRATE", "BITRATE_BOOST",
      "L0_BR", "LEVEL">>, AdjustSet),
  Parent(Enc, {"H264"}, {"BITRATE_MODE"}, <<"LTR_COUNT", "IR_PERIOD",
      "TIME_DELTA_BASED_RC", "I_FRAME_QP", "P_FRAME_QP", "B_FRAME_QP",
      "ENH_LAYER_COUNT", "BIT_RATE", "META_ROI_INFO", "MIN_QUALITY",
      "BITRATE_BOOST", "VBV_DELAY", "PEAK_BITRATE", "SLICE_MODE",
      "CONTENT_ADAPTIVE_CODING", "BLUR_TYPES", "LOWLATENCY_MODE",
      "META_EVA_STATS", "META_TRANSCODING_STAT_INFO",
      "LOOKAHEAD_ENCODE_ENABLE">>, AdjustSet),
  Parent(Enc, {"HEVC"}, {"BITRATE_MODE"}, <<"LTR_COUNT", "IR_PERIOD",
      "TIME_DELTA_BASED_RC", "I_FRAME_QP", "P_FRAME_QP", "B_FRAME_QP",
      "CONSTANT_QUALITY", "ENH_LAYER_COUNT", "BIT_RATE", "META_ROI_INFO",
      "MIN_QUALITY", "BITRATE_BOOST", "VBV_DELAY", "PEAK_BITRATE",
      "SLICE_MODE", "CONTENT_ADAPTIVE_CODING", "BLUR_TYPES",
      "LOWLATENCY_MODE", "META_EVA_STATS", "META_TRANSCODING_STAT_INFO",
      "OPEN_GOP", "LOOKAHEAD_ENCODE_ENABLE">>, AdjustSet)>>

MsmAlorDeps3 == <<
  Parent(Enc, {"HEIC"}, {"BITRATE_MODE"}, <<"TIME_DELTA_BASED_RC",
      "CONSTANT_QUALITY">>, AdjustSet),
  Leaf(Enc, {"HEVC", "HEIC"}, {"CONSTANT_QUALITY"}, SetOnly),
  Parent(Enc, {"H264", "HEVC", "HEIC"}, {"GOP_SIZE"}, <<
      "ALL_INTRA">>, AdjustSet),
  Leaf(Enc, {"HEIC"}, {"GOP_SIZE"}, SetOnly),
  Parent(Enc, {"HEVC"}, {"OPEN_GOP"}, <<"GOP_SIZE">>, AdjustSet),
  Parent(Enc, {"H264", "HEVC"}, {"B_FRAME"}, <<"ALL_INTRA">>, AdjustSet),
  Leaf(Enc, {"HEIC"}, {"B_FRAME"}, SetOnly),
  Parent(Enc, {"H264", "HEVC"}, {"BLUR_TYPES"}, <<
      "BLUR_RESOLUTION">>, AdjustSet),
  Leaf(Enc, {"H264", "HEVC"}, {"BLUR_RESOLUTION"}, AdjustSet),
  Parent(Enc, {"H264", "HEVC", "HEIC"}, {"CSC"}, <<
      "CSC_CUSTOM_MATRIX">>, AdjustSet),
  Leaf(Enc, {"H264", "HEVC", "HEIC"}, {"CSC_CUSTOM_MATRIX"}, AdjustSet)>>

MsmAlorDeps4 == MsmSunDeps3

MsmAlorDeps5 == <<
  Leaf(Dec, {"AV1"}, {"ENH_LAYER_COUNT"}, SetOnly),
  Parent(Enc, {"H264", "HEVC"}, {"L0_BR"}, <<"L1_BR">>, AdjustSet),
  Parent(Enc, {"H264", "HEVC"}, {"L1_BR"}, <<"L2_BR">>, AdjustSet),
  Parent(Enc, {"H264", "HEVC"}, {"L2_BR"}, <<"L3_BR">>, AdjustSet),
  Parent(Enc, {"H264", "HEVC"}, {"L3_BR"}, <<"L4_BR">>, AdjustSet),
  Parent(Enc, {"H264", "HEVC"}, {"L4_BR"}, <<"L5_BR">>, AdjustSet),
  Leaf(Enc, {"H264", "HEVC"}, {"L5_BR"}, AdjustSet),
  Parent(Enc, {"H264"}, {"ENTROPY_MODE"}, <<"BIT_RATE">>, AdjustSet),
  Parent(Enc, {"H264"}, {"PROFILE"}, <<"ENTROPY_MODE", "TRANSFORM_8X8",
      "CHROMA_QP_INDEX_OFFSET">>, SetOnly),
  Parent(Dec, {"H264"}, {"PROFILE"}, <<"ENTROPY_MODE">>, SetOnly)>>

MsmAlorDeps6 == <<
  Parent(Enc, {"HEVC", "HEIC"}, {"PROFILE"}, <<"META_SEI_MASTERING_DISP",
      "META_SEI_CLL", "META_HDR10PLUS", "META_HIST_INFO",
      "META_HDR10_MAX_RGB_INFO">>, AdjustSet),
  Leaf(Dec, {"HEVC", "HEIC"}, {"PROFILE"}, AdjustSet),
  Leaf(Dec, {"VP9", "AV1"}, {"PROFILE"}, SetOnly),
  Leaf(Dec, All, {"LEVEL"}, SetOnly),
  Leaf(Enc, {"H264", "HEVC"}, {"LEVEL", "CHROMA_QP_INDEX_OFFSET"}, AdjustSet),
  Leaf(Enc, {"HEIC"}, {"LEVEL"}, SetOnly),
  Leaf(Dec, {"AV1"}, {"AV1_TIER"}, SetOnly),
  Leaf(Both, {"HEVC", "HEIC"}, {"HEVC_TIER"}, SetOnly),
  Leaf(Enc, {"H264", "HEVC", "HEIC"}, {"LF_MODE"}, SetOnly),
  Parent(Enc, {"H264", "HEVC"}, {"SLICE_MODE"}, <<"STAGE",
      "DELIVERY_MODE">>, AdjustSet),
  Leaf(Enc, {"HEIC"}, {"SLICE_MODE"}, AdjustSet),
  Leaf(Enc, {"H264"}, {"TRANSFORM_8X8"}, AdjustSet),
  Parent(Dec, {"H264", "HEVC", "VP9", "AV1"}, {"DISPLAY_DELAY_ENABLE", "DISPLAY_DELAY"}, <<
      "OUTPUT_ORDER">>, Neither),
  Parent(Dec, {"H264", "HEVC", "AV1"}, {"OUTPUT_ORDER"}, <<"SLICE_DECODE",
      "EARLY_NOTIFY_ENABLE">>, AdjustSet),
  Leaf(Dec, {"VP9"}, {"OUTPUT_ORDER"}, AdjustSet),
  Leaf(Both, {"H264", "HEVC", "VP9", "HEIC", "AV1"}, {
      "INPUT_BUF_HOST_MAX_COUNT", "OUTPUT_BUF_HOST_MAX_COUNT"}, AdjustSet),
  Leaf(Enc, {"H264", "HEVC"}, {"INPUT_BUF_HOST_MAX_COUNT",
      "OUTPUT_BUF_HOST_MAX_COUNT"}, AdjustSet)>>

MsmAlorDeps7 == <<
  Leaf(Dec, {"H264", "HEVC", "VP9", "HEIC", "AV1"}, {"CONCEAL_COLOR_8BIT",
      "CONCEAL_COLOR_10BIT", "RAP_FRAME"}, SetOnly),
  Leaf(Both, {"H264", "HEVC", "VP9", "HEIC", "AV1"}, {"STAGE",
      "PIPE"}, SetOnly),
  Leaf(Enc, {"H264", "HEVC"}, {"STAGE"}, SetOnly),
  Leaf(Dec, {"H264", "HEVC", "VP9", "AV1"}, {"STAGE"}, SetOnly),
  Parent(Dec, {"H264", "HEVC", "VP9", "AV1"}, {"THUMBNAIL_MODE"}, <<
      "OUTPUT_ORDER">>, SetOnly),
  Leaf(Dec, {"HEIC"}, {"THUMBNAIL_MODE", "HEIF_TILES"}, SetOnly),
  Leaf(Both, {"H264", "HEVC", "VP9", "HEIC", "AV1"}, {"PRIORITY"}, AdjustSet),
  Leaf(Both, {"H264", "HEVC", "VP9", "HEIC", "AV1"}, {
      "FIRMWARE_PRIORITY_OFFSET"}, Neither),
  Leaf(Enc, {"H264", "HEVC", "VP9", "HEIC", "AV1"}, {
      "CRITICAL_PRIORITY"}, Neither),
  Leaf(Enc, {"H264", "HEVC", "VP9", "HEIC", "AV1"}, {
      "RESERVE_DURATION"}, SetOnly),
  Leaf(Dec, {"AV1"}, {"DRAP"}, SetOnly),
  Parent(Enc, {"H264", "HEVC"}, {"ALL_INTRA"}, <<"LTR_COUNT", "IR_PERIOD",
      "SLICE_MODE", "BIT_RATE">>, AdjustOnly),
  Leaf(Enc, {"H264", "HEVC"}, {"META_EVA_STATS",
      "META_TRANSCODING_STAT_INFO"}, AdjustOnly),
  Parent(Enc, {"H264", "HEVC"}, {"META_ROI_INFO"}, <<"MIN_QUALITY",
      "IR_PERIOD", "BLUR_TYPES">>, AdjustOnly),
  Leaf(Enc, {"HEIC"}, {"GRID_ENABLE"}, SetOnly),
  Parent(Enc, {"H264", "HEVC"}, {"DELIVERY_MODE"}, <<"LOWLATENCY_MODE",
      "OUTPUT_BUF_HOST_MAX_COUNT">>, AdjustSet),
  Leaf(Enc, {"H264", "HEVC", "HEIC"}, {"VUI_TIMING_INFO",
      "SIGNAL_COLOR_INFO"}, SetOnly),
  Parent(Enc, {"H264", "HEVC"}, {"LOOKAHEAD_ENCODE_ENABLE"}, <<
      "LOOKAHEAD_ENCODE_SIZE">>, AdjustOnly),
  Leaf(Enc, {"H264", "HEVC"}, {"LOOKAHEAD_ENCODE_SIZE"}, AdjustSet),
  Leaf(Enc, {"HEVC", "HEIC"}, {"META_SEI_MASTERING_DISP", "META_SEI_CLL",
      "META_HDR10PLUS"}, AdjustOnly),
  Leaf(Enc, {"HEVC"}, {"META_HIST_INFO",
      "META_HDR10_MAX_RGB_INFO"}, AdjustOnly)>>

MsmAlor == [name |-> "MsmAlor",
   enc |-> {"H264", "HEVC", "HEIC"},
   dec |-> {"H264", "HEVC", "VP9", "HEIC", "AV1"},
   caps |-> MsmAlorCaps1 \o MsmAlorCaps2 \o MsmAlorCaps3 \o MsmAlorCaps4 \o
           MsmAlorCaps5 \o MsmAlorCaps6 \o MsmAlorCaps7 \o MsmAlorCaps8 \o
           MsmAlorCaps9 \o MsmAlorCaps10 \o MsmAlorCaps11 \o MsmAlorCaps12 \o
           MsmAlorCaps13 \o MsmAlorCaps14,
   deps |-> MsmAlorDeps1 \o MsmAlorDeps2 \o MsmAlorDeps3 \o MsmAlorDeps4 \o
           MsmAlorDeps5 \o MsmAlorDeps6 \o MsmAlorDeps7]

CanoeCaps1 == SunCaps1
CanoeCaps2 == SunCaps2
CanoeCaps3 == SunCaps3
CanoeCaps4 == SunCaps4
CanoeCaps5 == SunCaps5
CanoeCaps6 == SunCaps6
CanoeCaps7 == SunCaps7
CanoeDeps1 == SunDeps1
CanoeDeps2 == SunDeps2
CanoeDeps3 == SunDeps3

Canoe == [name |-> "Canoe",
   enc |-> {"H264", "HEVC"},
   dec |-> {"H264", "HEVC", "VP9"},
   caps |-> CanoeCaps1 \o CanoeCaps2 \o CanoeCaps3 \o CanoeCaps4 \o
           CanoeCaps5 \o CanoeCaps6 \o CanoeCaps7,
   deps |-> CanoeDeps1 \o CanoeDeps2 \o CanoeDeps3]

MsmCanoeCaps1 == <<
  Fixed(Both, All, {"DRV_VERSION", "MIN_BUFFERS_INPUT",
      "MIN_BUFFERS_OUTPUT"}),
  Fixed(Dec, All, {"FRAME_WIDTH", "SECURE_FRAME_WIDTH", "FRAME_HEIGHT",
      "SECURE_FRAME_HEIGHT", "MBPF"}),
  Fixed(Dec, {"VP9"}, {"FRAME_WIDTH", "FRAME_HEIGHT", "MBPF"}),
  Fixed(Enc, All, {"FRAME_WIDTH", "LOSSLESS_FRAME_WIDTH",
      "SECURE_FRAME_WIDTH", "FRAME_HEIGHT", "LOSSLESS_FRAME_HEIGHT",
      "SECURE_FRAME_HEIGHT", "MBPF"}),
  Fixed(Enc, {"HEVC", "APV"}, {"FRAME_WIDTH", "LOSSLESS_FRAME_WIDTH",
      "SECURE_FRAME_WIDTH", "FRAME_HEIGHT", "LOSSLESS_FRAME_HEIGHT",
      "SECURE_FRAME_HEIGHT", "MBPF"}),
  Fixed(Enc, {"HEIC"}, {"FRAME_WIDTH", "FRAME_HEIGHT"}),
  Fixed(Both, {"H264"}, {"PIX_FMTS"}),
  Fixed(Both, {"HEVC", "VP9", "AV1"}, {"PIX_FMTS"}),
  Fixed(Enc, {"HEIC"}, {"PIX_FMTS", "MBPF"}),
  Fixed(Dec, {"HEIC"}, {"PIX_FMTS", "MBPF"}),
  Fixed(Enc, {"APV"}, {"PIX_FMTS"}),
  Fixed(Dec, {"APV"}, {"PIX_FMTS"}),
  Fixed(Both, {"HEIC"}, {"MIN_BUFFERS_INPUT"})>>

MsmCanoeCaps2 == <<
  Fixed(Enc, {"H264", "HEVC"}, {"LOSSLESS_MBPF"}),
  Fixed(Dec, {"H264", "HEVC", "VP9", "AV1", "APV"}, {"BATCH_MBPF",
      "BATCH_FPS"}),
  Fixed(Both, {"H264", "HEVC", "VP9", "AV1", "APV"}, {"SECURE_MBPF",
      "SECURE_MODE"}),
  Fixed(Enc, {"HEVC"}, {"SECURE_MBPF"}),
  Fixed(Enc, All, {"FRAME_RATE", "OPERATING_RATE", "MB_CYCLES_VSP",
      "MB_CYCLES_VPP", "MB_CYCLES_LP", "MB_CYCLES_FW_VPP", "CODEC_MODE"}),
  Fixed(Enc, {"HEIC"}, {"FRAME_RATE"}),
  Dynamic(Dec, All, {"FRAME_RATE", "OPERATING_RATE"}),
  Dynamic(Dec, {"VP9"}, {"FRAME_RATE"}),
  Fixed(Both, All, {"INPUT_RATE", "TIMESTAMP_RATE", "MB_CYCLES_FW",
      "CLIENT_ID"}),
  Fixed(Enc, {"H264", "HEVC", "APV"}, {"SCALE_FACTOR"}),
  Fixed(Dec, {"H264", "HEVC", "AV1"}, {"SCALE_FACTOR", "SCALE_ENABLE"}),
  Fixed(Dec, All, {"MB_CYCLES_VSP", "MB_CYCLES_VPP", "MB_CYCLES_LP",
      "MB_CYCLES_FW_VPP"}),
  Fixed(Dec, {"VP9", "AV1"}, {"MB_CYCLES_VSP"}),
  Fixed(Enc, {"H264"}, {"ENC_RING_BUFFER_COUNT"})>>

MsmCanoeCaps3 == <<
  Fixed(Dec, {"H264", "HEVC", "VP9", "AV1"}, {"META_OUTPUT_TX_FENCE",
      "OUTPUT_RX_FENCE_ENABLE", "INPUT_RX_FENCE_ENABLE",
      "INPUT_TX_FENCE_ENABLE", "INPUT_RX_FENCE_TYPE", "INPUT_TX_FENCE_TYPE",
      "OUTPUT_RX_FENCE_TYPE", "OUTPUT_TX_FENCE_TYPE"}),
  Dynamic(Dec, All, {"OUTPUT_TX_FENCE_ID", "INPUT_RX_FENCE_FD"}),
  Fixed(Dec, All, {"OUTPUT_TX_FENCE_FD"}),
  Dynamic(Both, All, {"FENCE_INFO"}),
  Fixed(Dec, {"H264", "HEVC"}, {"TS_REORDER"}),
  Dynamic(Enc, All, {"HFLIP", "VFLIP"}),
  Fixed(Enc, All, {"ROTATION"})>>

MsmCanoeCaps4 == <<
  Dynamic(Enc, {"H264", "HEVC", "APV"}, {"SUPER_FRAME"}),
  Fixed(Dec, {"H264", "HEVC", "AV1"}, {"SLICE_DECODE",
      "EARLY_NOTIFY_ENABLE"}),
  Dynamic(Dec, {"H264", "HEVC", "AV1"}, {"EARLY_NOTIFY_LINE_COUNT",
      "EARLY_NOTIFY_FENCE_COUNT"}),
  Fixed(Enc, {"H264", "HEVC", "HEIC"}, {"HEADER_MODE",
      "PREPEND_SPSPPS_TO_IDR", "VUI_TIMING_INFO", "WITHOUT_STARTCODE",
      "NAL_LENGTH_FIELD"}),
  Fixed(Dec, {"AV1"}, {"WITHOUT_STARTCODE"})>>

MsmCanoeCaps5 == <<
  Dynamic(Enc, {"H264", "HEVC"}, {"REQUEST_I_FRAME", "GOP_SIZE"}),
  Dynamic(Enc, {"H264"}, {"BIT_RATE"}),
  Dynamic(Enc, {"HEVC"}, {"BIT_RATE", "CONSTANT_QUALITY"}),
  Dynamic(Enc, {"APV"}, {"BIT_RATE"}),
  Fixed(Enc, {"H264"}, {"BITRATE_MODE", "CAVLC_MAX_BITRATE",
      "ALLINTRA_MAX_BITRATE", "LOWLATENCY_MAX_BITRATE"}),
  Fixed(Enc, {"HEVC"}, {"BITRATE_MODE", "ALLINTRA_MAX_BITRATE",
      "LOWLATENCY_MAX_BITRATE", "LOSSLESS", "OPEN_GOP"}),
  Fixed(Enc, {"HEIC"}, {"BITRATE_MODE"}),
  Fixed(Enc, {"APV"}, {"BITRATE_MODE"}),
  Fixed(Enc, {"H264", "HEVC"}, {"CABAC_MAX_BITRATE"}),
  Fixed(Dec, All, {"NUM_COMV"}),
  Fixed(Enc, {"H264", "HEVC", "HEIC"}, {"FRAME_SKIP_MODE"}),
  Fixed(Enc, {"H264", "HEVC", "HEIC", "APV"}, {"FRAME_RC_ENABLE"}),
  Dynamic(Enc, {"HEIC"}, {"CONSTANT_QUALITY", "GOP_SIZE"}),
  Dynamic(Enc, {"APV"}, {"CONSTANT_QUALITY"})>>

MsmCanoeCaps6 == <<
  Fixed(Enc, {"H264", "HEVC"}, {"GOP_CLOSURE", "B_FRAME", "BLUR_TYPES",
      "LOWLATENCY_MODE", "LTR_COUNT", "IR_TYPE"}),
  Fixed(Enc, {"HEIC"}, {"B_FRAME"}),
  Dynamic(Enc, {"H264", "HEVC"}, {"BLUR_RESOLUTION", "USE_LTR", "MARK_LTR"}),
  Fixed(Enc, {"H264", "HEVC", "HEIC"}, {"CSC", "CSC_CUSTOM_MATRIX"}),
  Dynamic(Dec, {"H264", "HEVC", "VP9", "AV1"}, {"LOWLATENCY_MODE"}),
  Dynamic(Enc, {"H264"}, {"BASELAYER_PRIORITY"})>>

MsmCanoeCaps7 == <<
  Dynamic(Enc, {"H264", "HEVC"}, {"IR_PERIOD", "PEAK_BITRATE"}),
  Fixed(Enc, {"H264", "HEVC"}, {"AU_DELIMITER", "CONTENT_ADAPTIVE_CODING",
      "REQUEST_PREPROCESS", "BITRATE_BOOST", "MIN_QUALITY", "VBV_DELAY"}),
  Fixed(Enc, {"H264", "HEVC", "APV"}, {"TIME_DELTA_BASED_RC"}),
  Fixed(Enc, {"HEIC"}, {"TIME_DELTA_BASED_RC"}),
  Dynamic(Enc, {"APV"}, {"PEAK_BITRATE"}),
  Fixed(Enc, {"H264"}, {"MIN_FRAME_QP", "I_FRAME_MIN_QP", "P_FRAME_MIN_QP",
      "B_FRAME_MIN_QP", "MAX_FRAME_QP", "I_FRAME_MAX_QP"}),
  Fixed(Enc, {"HEVC", "HEIC"}, {"MIN_FRAME_QP", "I_FRAME_MIN_QP",
      "P_FRAME_MIN_QP", "B_FRAME_MIN_QP", "MAX_FRAME_QP", "I_FRAME_MAX_QP"}),
  Fixed(Enc, {"APV"}, {"MIN_FRAME_QP", "MAX_FRAME_QP"})>>

MsmCanoeCaps8 == <<
  Fixed(Enc, {"H264"}, {"P_FRAME_MAX_QP", "B_FRAME_MAX_QP"}),
  Fixed(Enc, {"HEVC", "HEIC"}, {"P_FRAME_MAX_QP", "B_FRAME_MAX_QP"}),
  Dynamic(Enc, {"HEVC"}, {"I_FRAME_QP", "P_FRAME_QP", "B_FRAME_QP",
      "ENH_LAYER_COUNT"}),
  Dynamic(Enc, {"H264"}, {"I_FRAME_QP", "P_FRAME_QP", "B_FRAME_QP",
      "ENH_LAYER_COUNT", "L0_BR"}),
  Fixed(Enc, {"HEVC"}, {"LAYER_TYPE"}),
  Fixed(Enc, {"H264"}, {"LAYER_TYPE", "LAYER_ENABLE"}),
  Fixed(Enc, {"HEVC"}, {"LAYER_ENABLE"}),
  Fixed(Dec, {"AV1"}, {"ENH_LAYER_COUNT"}),
  Dynamic(Enc, {"HEVC"}, {"L0_BR"})>>

MsmCanoeCaps9 == MsmSunCaps7

MsmCanoeCaps10 == <<
  Fixed(Both, {"APV"}, {"PROFILE"}),
  Fixed(Dec, {"VP9"}, {"PROFILE"}),
  Fixed(Dec, {"AV1"}, {"PROFILE"}),
  Fixed(Enc, {"H264"}, {"LEVEL"}),
  Fixed(Enc, {"HEVC", "HEIC"}, {"LEVEL"}),
  Fixed(Both, {"APV"}, {"LEVEL"})>>

MsmCanoeCaps11 == <<
  Fixed(Dec, {"H264"}, {"LEVEL"}),
  Fixed(Dec, {"HEVC", "HEIC"}, {"LEVEL"}),
  Fixed(Dec, {"VP9"}, {"LEVEL"}),
  Fixed(Dec, {"AV1"}, {"LEVEL"})>>

MsmCanoeCaps12 == MsmAlorCaps10

MsmCanoeCaps13 == <<
  Fixed(Both, All, {"INPUT_BUF_HOST_MAX_COUNT", "OUTPUT_BUF_HOST_MAX_COUNT",
      "BIT_DEPTH", "FIRMWARE_PRIORITY_OFFSET"}),
  Fixed(Dec, All, {"CONCEAL_COLOR_8BIT", "CONCEAL_COLOR_10BIT",
      "BITSTREAM_SIZE_OVERWRITE", "THUMBNAIL_MODE", "DEFAULT_HEADER",
      "RAP_FRAME"}),
  Fixed(Both, {"H264", "HEVC", "VP9", "HEIC", "AV1"}, {"STAGE", "PIPE"}),
  Fixed(Both, {"APV"}, {"STAGE", "PIPE", "BIT_DEPTH"}),
  Fixed(Dec, {"H264"}, {"POC"}),
  Fixed(Dec, {"H264", "HEVC"}, {"MAX_NUM_REORDER_FRAMES"}),
  Fixed(Enc, All, {"QUALITY_MODE", "CRITICAL_PRIORITY"}),
  Fixed(Dec, {"H264", "HEVC", "HEIC"}, {"CODED_FRAMES"}),
  Dynamic(Dec, {"H264", "HEVC", "HEIC", "AV1"}, {"CODEC_CONFIG"}),
  Dynamic(Dec, All, {"SEQ_CHANGE_AT_SYNC_FRAME"}),
  Dynamic(Both, All, {"PRIORITY"}),
  Dynamic(Enc, All, {"RESERVE_DURATION", "ENC_IP_CR"})>>

MsmCanoeCaps14 == <<
  Dynamic(Dec, All, {"INPUT_EXTRA_METADATA_OFFSET"}),
  Fixed(Dec, {"AV1"}, {"FILM_GRAIN", "SUPER_BLOCK", "DRAP",
      "META_BITSTREAM_RESOLUTION", "META_CROP_OFFSETS"}),
  Fixed(Both, All, {"LAST_FLAG_EVENT_ENABLE", "META_TIMESTAMP"}),
  Fixed(Enc, {"H264", "HEVC"}, {"LOOKAHEAD_ENCODE_ENABLE",
      "LOOKAHEAD_ENCODE_SIZE", "ALL_INTRA", "META_LTR_MARK_USE"}),
  Fixed(Enc, {"H264", "HEVC", "HEIC", "APV"}, {"META_SEQ_HDR_NAL"}),
  Fixed(Dec, All, {"META_DPB_MISR", "META_OPB_MISR",
      "META_CONCEALED_MB_CNT"}),
  Fixed(Dec, {"H264"}, {"META_INTERLACE"}),
  Fixed(Dec, {"HEVC", "VP9", "AV1", "APV"}, {"META_HIST_INFO"}),
  Fixed(Enc, {"HEVC", "APV"}, {"META_HIST_INFO", "META_HDR10_MAX_RGB_INFO"})>>

MsmCanoeCaps15 == <<
  Fixed(Dec, {"H264", "HEVC"}, {"META_TRANSCODING_STAT_INFO"}),
  Fixed(Enc, {"H264", "HEVC"}, {"META_TRANSCODING_STAT_INFO"}),
  Fixed(Enc, {"HEVC"}, {"META_VIEW_ID",
      "META_THREE_DIMENSIONAL_REF_DISP_INFO", "META_DOLBY_RPU"}),
  Fixed(Dec, {"HEVC"}, {"META_VIEW_ID", "META_MULTI_VIEW_PAIR",
      "META_THREE_DIMENSIONAL_REF_DISP_INFO"}),
  Dynamic(Dec, All, {"META_PICTURE_TYPE"}),
  Fixed(Enc, {"HEVC", "HEIC", "APV"}, {"META_SEI_MASTERING_DISP",
      "META_SEI_CLL", "META_HDR10PLUS"}),
  Fixed(Dec, {"HEVC", "HEIC", "AV1", "APV"}, {"META_SEI_MASTERING_DISP",
      "META_SEI_CLL", "META_HDR10PLUS"}),
  Fixed(Dec, {"H264", "HEVC", "AV1"}, {"META_DOLBY_RPU"})>>

MsmCanoeCaps16 == <<
  Fixed(Enc, {"H264", "HEVC", "APV"}, {"META_EVA_STATS"}),
  Fixed(Enc, All, {"META_BUF_TAG", "META_ENC_QP_METADATA"}),
  Dynamic(Dec, All, {"META_BUF_TAG"}),
  Fixed(Dec, {"H264", "HEVC", "VP9", "HEIC", "AV1"}, {"META_DPB_TAG_LIST",
      "META_SUBFRAME_OUTPUT"}),
  Fixed(Enc, {"H264", "HEVC", "HEIC"}, {"META_SUBFRAME_OUTPUT"}),
  Fixed(Enc, {"H264", "HEVC"}, {"META_ROI_INFO", "META_SALIENCY_INFO",
      "COMPLEXITY"}),
  Fixed(Dec, All, {"META_DEC_QP_METADATA"}),
  Fixed(Enc, {"HEIC"}, {"GRID_ENABLE", "GRID_SIZE"}),
  Fixed(Enc, {"HEVC"}, {"DELIVERY_MODE", "CAPTURE_DATA_OFFSET"}),
  Fixed(Enc, {"H264"}, {"DELIVERY_MODE"}),
  Dynamic(Enc, {"H264", "HEVC", "HEIC", "APV"}, {"SIGNAL_COLOR_INFO"}),
  Dynamic(Dec, {"HEIC"}, {"HEIF_TILES"}),
  Fixed(Enc, {"HEVC", "APV"}, {"LOG_VIDEO_ENCODE"})>>

MsmCanoeDeps1 == <<
  Parent(Enc, {"H264"}, {"PIX_FMTS"}, <<"IR_PERIOD", "CSC",
      "BIT_DEPTH">>, Neither),
  Parent(Enc, {"HEVC"}, {"PIX_FMTS"}, <<"PROFILE", "MIN_FRAME_QP",
      "MAX_FRAME_QP", "I_FRAME_QP", "P_FRAME_QP", "B_FRAME_QP", "MIN_QUALITY",
      "BLUR_TYPES", "IR_PERIOD", "LTR_COUNT", "CSC", "LOG_VIDEO_ENCODE",
      "BIT_DEPTH">>, Neither),
  Parent(Enc, {"HEIC"}, {"PIX_FMTS"}, <<"PROFILE", "CSC",
      "BIT_DEPTH">>, Neither),
  Parent(Dec, {"HEVC", "HEIC"}, {"PIX_FMTS"}, <<"PROFILE">>, Neither),
  Leaf(Enc, All, {"CODEC_MODE"}, Neither),
  Parent(Enc, {"APV"}, {"PIX_FMTS"}, <<"LOG_VIDEO_ENCODE",
      "BIT_DEPTH">>, Neither),
  Leaf(Dec, {"APV"}, {"PIX_FMTS"}, Neither),
  Leaf(Enc, All, {"BIT_DEPTH"}, AdjustOnly),
  Parent(Enc, All, {"FRAME_RATE"}, <<"LEVEL">>, SetOnly),
  Leaf(Dec, All, {"FRAME_RATE", "OPERATING_RATE"}, AdjustOnly),
  Leaf(Enc, {"H264"}, {"ENC_RING_BUFFER_COUNT"}, SetOnly),
  Leaf(Both, {"H264", "HEVC", "VP9", "AV1", "APV"}, {"SECURE_MODE"}, SetOnly),
  Leaf(Both, All, {"FENCE_INFO"}, AdjustOnly),
  Parent(Dec, {"H264", "HEVC", "AV1"}, {"META_OUTPUT_TX_FENCE"}, <<
      "OUTPUT_TX_FENCE_TYPE", "SLICE_DECODE",
      "EARLY_NOTIFY_ENABLE">>, Neither),
  Parent(Dec, {"VP9"}, {"META_OUTPUT_TX_FENCE"}, <<
      "OUTPUT_TX_FENCE_TYPE">>, Neither)>>

MsmCanoeDeps2 == <<
  Parent(Dec, {"H264", "HEVC", "VP9", "AV1"}, {"INPUT_RX_FENCE_ENABLE"}, <<
      "INPUT_RX_FENCE_TYPE">>, Neither),
  Parent(Dec, {"H264", "HEVC", "VP9", "AV1"}, {"INPUT_TX_FENCE_ENABLE"}, <<
      "INPUT_TX_FENCE_TYPE">>, Neither),
  Parent(Dec, {"H264", "HEVC", "VP9", "AV1"}, {"OUTPUT_RX_FENCE_ENABLE"}, <<
      "OUTPUT_RX_FENCE_TYPE">>, Neither),
  Leaf(Dec, {"H264", "HEVC", "VP9", "AV1"}, {"INPUT_RX_FENCE_TYPE",
      "INPUT_TX_FENCE_TYPE", "OUTPUT_TX_FENCE_TYPE",
      "OUTPUT_RX_FENCE_TYPE"}, AdjustSet),
  Leaf(Enc, All, {"HFLIP", "VFLIP", "ROTATION"}, SetOnly),
  Parent(Enc, {"H264", "HEVC", "APV"}, {"SUPER_FRAME"}, <<
      "INPUT_BUF_HOST_MAX_COUNT", "OUTPUT_BUF_HOST_MAX_COUNT">>, Neither),
  Leaf(Dec, {"H264", "HEVC", "AV1"}, {"SLICE_DECODE",
      "EARLY_NOTIFY_FENCE_COUNT"}, AdjustSet),
  Parent(Dec, {"H264", "HEVC", "AV1"}, {"EARLY_NOTIFY_ENABLE"}, <<
      "EARLY_NOTIFY_LINE_COUNT">>, AdjustSet),
  Parent(Dec, {"H264", "HEVC", "AV1"}, {"EARLY_NOTIFY_LINE_COUNT"}, <<
      "EARLY_NOTIFY_FENCE_COUNT">>, AdjustSet),
  Leaf(Enc, {"H264", "HEVC", "HEIC"}, {"HEADER_MODE",
      "WITHOUT_STARTCODE"}, SetOnly),
  Leaf(Dec, {"AV1"}, {"WITHOUT_STARTCODE"}, SetOnly),
  Leaf(Enc, {"H264", "HEVC"}, {"REQUEST_I_FRAME"}, AdjustSet),
  Parent(Enc, {"H264"}, {"BIT_RATE"}, <<"PEAK_BITRATE", "BITRATE_BOOST",
      "L0_BR", "LEVEL">>, AdjustSet),
  Parent(Enc, {"HEVC"}, {"BIT_RATE"}, <<"PEAK_BITRATE", "BITRATE_BOOST",
      "L0_BR", "LEVEL">>, AdjustSet),
  Parent(Enc, {"APV"}, {"BIT_RATE"}, <<"PEAK_BITRATE", "LEVEL">>, AdjustSet),
  Parent(Enc, {"H264"}, {"BITRATE_MODE"}, <<"LTR_COUNT", "IR_PERIOD",
      "TIME_DELTA_BASED_RC", "I_FRAME_QP", "P_FRAME_QP", "B_FRAME_QP",
      "ENH_LAYER_COUNT", "BIT_RATE", "META_ROI_INFO", "MIN_QUALITY",
      "BITRATE_BOOST", "VBV_DELAY", "PEAK_BITRATE", "SLICE_MODE",
      "CONTENT_ADAPTIVE_CODING", "BLUR_TYPES", "LOWLATENCY_MODE",
      "META_TRANSCODING_STAT_INFO", "LOOKAHEAD_ENCODE_ENABLE">>, AdjustSet),
  Parent(Enc, {"HEVC"}, {"BITRATE_MODE"}, <<"LTR_COUNT", "IR_PERIOD",
      "TIME_DELTA_BASED_RC", "I_FRAME_QP", "P_FRAME_QP", "B_FRAME_QP",
      "CONSTANT_QUALITY", "ENH_LAYER_COUNT", "BIT_RATE", "META_ROI_INFO",
      "MIN_QUALITY", "BITRATE_BOOST", "VBV_DELAY", "PEAK_BITRATE",
      "SLICE_MODE", "CONTENT_ADAPTIVE_CODING", "BLUR_TYPES",
      "LOWLATENCY_MODE", "META_EVA_STATS", "META_TRANSCODING_STAT_INFO",
      "OPEN_GOP", "LOOKAHEAD_ENCODE_ENABLE", "LOG_VIDEO_ENCODE">>, AdjustSet),
  Parent(Enc, {"APV"}, {"BITRATE_MODE"}, <<"BIT_RATE", "PEAK_BITRATE",
      "META_EVA_STATS", "TIME_DELTA_BASED_RC", "LOG_VIDEO_ENCODE",
      "CONSTANT_QUALITY">>, AdjustSet),
  Parent(Enc, {"HEIC"}, {"BITRATE_MODE"}, <<"TIME_DELTA_BASED_RC",
      "CONSTANT_QUALITY">>, AdjustSet),
  Leaf(Enc, {"HEVC", "HEIC", "APV"}, {"CONSTANT_QUALITY"}, SetOnly)>>

MsmCanoeDeps3 == <<
  Parent(Enc, {"H264", "HEVC", "HEIC"}, {"GOP_SIZE"}, <<
      "ALL_INTRA">>, AdjustSet),
  Leaf(Enc, {"HEIC"}, {"GOP_SIZE"}, SetOnly),
  Parent(Enc, {"HEVC"}, {"OPEN_GOP"}, <<"GOP_SIZE">>, AdjustSet),
  Parent(Enc, {"H264", "HEVC"}, {"B_FRAME"}, <<"ALL_INTRA">>, AdjustSet),
  Leaf(Enc, {"HEIC"}, {"B_FRAME"}, SetOnly),
  Parent(Enc, {"H264", "HEVC"}, {"BLUR_TYPES"}, <<
      "BLUR_RESOLUTION">>, AdjustSet),
  Leaf(Enc, {"H264", "HEVC"}, {"BLUR_RESOLUTION", "LTR_COUNT", "USE_LTR",
      "MARK_LTR", "IR_PERIOD", "REQUEST_PREPROCESS"}, AdjustSet),
  Parent(Enc, {"H264", "HEVC", "HEIC"}, {"CSC"}, <<
      "CSC_CUSTOM_MATRIX">>, AdjustSet),
  Leaf(Enc, {"H264", "HEVC", "HEIC"}, {"CSC_CUSTOM_MATRIX"}, AdjustSet),
  Parent(Enc, {"H264", "HEVC"}, {"LOWLATENCY_MODE"}, <<"STAGE",
      "BIT_RATE">>, AdjustOnly),
  Parent(Dec, {"H264", "HEVC", "AV1"}, {"LOWLATENCY_MODE"}, <<"STAGE",
      "SLICE_DECODE", "EARLY_NOTIFY_ENABLE">>, Neither),
  Parent(Dec, {"VP9"}, {"LOWLATENCY_MODE"}, <<"STAGE">>, Neither),
  Leaf(Enc, {"H264", "HEVC"}, {"AU_DELIMITER", "VBV_DELAY"}, SetOnly),
  Leaf(Enc, {"H264"}, {"BASELAYER_PRIORITY"}, SetOnly),
  Leaf(Enc, All, {"TIME_DELTA_BASED_RC"}, AdjustSet),
  Parent(Enc, {"H264", "HEVC"}, {"CONTENT_ADAPTIVE_CODING"}, <<
      "REQUEST_PREPROCESS">>, AdjustSet),
  Parent(Enc, {"H264", "HEVC"}, {"BITRATE_BOOST"}, <<"LEVEL">>, AdjustSet),
  Parent(Enc, {"H264", "HEVC"}, {"MIN_QUALITY"}, <<"BLUR_TYPES">>, AdjustSet)>>

MsmCanoeDeps4 == <<
  Leaf(Enc, {"H264", "HEVC", "APV"}, {"PEAK_BITRATE"}, AdjustSet),
  Leaf(Enc, {"H264", "APV"}, {"MIN_FRAME_QP", "MAX_FRAME_QP"}, SetOnly),
  Leaf(Enc, {"HEVC"}, {"MIN_FRAME_QP", "MAX_FRAME_QP"}, AdjustSet)>>

MsmCanoeDeps5 == <<
  Leaf(Enc, {"HEVC"}, {"I_FRAME_QP", "P_FRAME_QP", "B_FRAME_QP"}, AdjustSet),
  Leaf(Enc, {"H264"}, {"I_FRAME_QP", "P_FRAME_QP", "B_FRAME_QP"}, SetOnly),
  Parent(Enc, {"H264"}, {"LAYER_TYPE"}, <<"CONTENT_ADAPTIVE_CODING",
      "LTR_COUNT", "LEVEL">>, Neither),
  Parent(Enc, {"HEVC"}, {"LAYER_TYPE"}, <<"CONTENT_ADAPTIVE_CODING",
      "LTR_COUNT", "OPEN_GOP">>, Neither),
  Parent(Enc, {"H264", "HEVC"}, {"LAYER_ENABLE"}, <<"CONTENT_ADAPTIVE_CODING",
      "LEVEL">>, Neither),
  Parent(Enc, {"H264"}, {"ENH_LAYER_COUNT"}, <<"GOP_SIZE", "B_FRAME",
      "BIT_RATE", "MIN_QUALITY", "SLICE_MODE", "LTR_COUNT",
      "LEVEL">>, AdjustSet),
  Parent(Enc, {"HEVC"}, {"ENH_LAYER_COUNT"}, <<"GOP_SIZE", "B_FRAME",
      "BIT_RATE", "MIN_QUALITY", "SLICE_MODE", "LTR_COUNT",
      "OPEN_GOP">>, AdjustSet),
  Leaf(Dec, {"AV1"}, {"ENH_LAYER_COUNT"}, SetOnly),
  Parent(Enc, {"H264", "HEVC"}, {"L0_BR"}, <<"L1_BR">>, AdjustSet),
  Parent(Enc, {"H264", "HEVC"}, {"L1_BR"}, <<"L2_BR">>, AdjustSet),
  Parent(Enc, {"H264", "HEVC"}, {"L2_BR"}, <<"L3_BR">>, AdjustSet),
  Parent(Enc, {"H264", "HEVC"}, {"L3_BR"}, <<"L4_BR">>, AdjustSet),
  Parent(Enc, {"H264", "HEVC"}, {"L4_BR"}, <<"L5_BR">>, AdjustSet),
  Leaf(Enc, {"H264", "HEVC"}, {"L5_BR"}, AdjustSet),
  Parent(Enc, {"H264"}, {"ENTROPY_MODE"}, <<"BIT_RATE">>, AdjustSet),
  Parent(Enc, {"H264"}, {"PROFILE"}, <<"ENTROPY_MODE", "TRANSFORM_8X8",
      "CHROMA_QP_INDEX_OFFSET">>, SetOnly),
  Parent(Dec, {"H264"}, {"PROFILE"}, <<"ENTROPY_MODE">>, SetOnly),
  Parent(Enc, {"HEIC"}, {"PROFILE"}, <<"META_SEI_MASTERING_DISP",
      "META_SEI_CLL", "META_HDR10PLUS">>, AdjustSet),
  Parent(Enc, {"HEVC"}, {"PROFILE"}, <<"META_SEI_MASTERING_DISP",
      "META_SEI_CLL", "META_HDR10PLUS", "META_HIST_INFO",
      "META_HDR10_MAX_RGB_INFO">>, AdjustSet),
  Leaf(Dec, {"HEVC", "HEIC"}, {"PROFILE"}, AdjustSet),
  Leaf(Dec, {"VP9", "AV1"}, {"PROFILE"}, SetOnly)>>

MsmCanoeDeps6 == <<
  Leaf(Both, {"APV"}, {"PROFILE"}, SetOnly),
  Leaf(Dec, All, {"LEVEL", "CONCEAL_COLOR_8BIT", "CONCEAL_COLOR_10BIT",
      "RAP_FRAME"}, SetOnly),
  Leaf(Enc, {"H264", "HEVC"}, {"LEVEL", "CHROMA_QP_INDEX_OFFSET"}, AdjustSet),
  Leaf(Enc, {"HEIC"}, {"LEVEL"}, SetOnly),
  Leaf(Enc, {"APV"}, {"LEVEL"}, AdjustSet),
  Leaf(Dec, {"AV1"}, {"AV1_TIER"}, SetOnly),
  Leaf(Both, {"HEVC", "HEIC"}, {"HEVC_TIER"}, SetOnly),
  Leaf(Enc, {"H264", "HEVC", "HEIC"}, {"LF_MODE"}, SetOnly),
  Parent(Enc, {"H264", "HEVC"}, {"SLICE_MODE"}, <<"STAGE",
      "DELIVERY_MODE">>, AdjustSet),
  Leaf(Enc, {"HEIC"}, {"SLICE_MODE"}, AdjustSet),
  Leaf(Enc, {"H264"}, {"TRANSFORM_8X8"}, AdjustSet),
  Parent(Dec, {"H264", "HEVC", "VP9", "AV1"}, {"DISPLAY_DELAY_ENABLE", "DISPLAY_DELAY"}, <<
      "OUTPUT_ORDER">>, Neither),
  Parent(Dec, {"H264", "HEVC", "AV1"}, {"OUTPUT_ORDER"}, <<"SLICE_DECODE",
      "EARLY_NOTIFY_ENABLE">>, AdjustSet),
  Leaf(Dec, {"VP9"}, {"OUTPUT_ORDER"}, AdjustSet),
  Leaf(Both, All, {"INPUT_BUF_HOST_MAX_COUNT", "OUTPUT_BUF_HOST_MAX_COUNT",
      "PRIORITY"}, AdjustSet),
  Leaf(Enc, {"H264", "HEVC", "APV"}, {"INPUT_BUF_HOST_MAX_COUNT",
      "OUTPUT_BUF_HOST_MAX_COUNT"}, AdjustSet),
  Leaf(Both, All, {"STAGE", "PIPE"}, SetOnly),
  Leaf(Enc, {"H264", "HEVC"}, {"STAGE"}, SetOnly),
  Leaf(Dec, {"H264", "HEVC", "VP9", "AV1"}, {"STAGE"}, SetOnly),
  Parent(Dec, {"H264", "HEVC", "VP9", "AV1"}, {"THUMBNAIL_MODE"}, <<
      "OUTPUT_ORDER">>, SetOnly),
  Leaf(Dec, {"HEIC", "APV"}, {"THUMBNAIL_MODE"}, SetOnly)>>

MsmCanoeDeps7 == <<
  Leaf(Both, All, {"FIRMWARE_PRIORITY_OFFSET"}, Neither),
  Leaf(Enc, All, {"CRITICAL_PRIORITY"}, Neither),
  Leaf(Enc, All, {"RESERVE_DURATION"}, SetOnly),
  Leaf(Dec, {"AV1"}, {"DRAP"}, SetOnly),
  Parent(Enc, {"H264", "HEVC"}, {"ALL_INTRA"}, <<"LTR_COUNT", "IR_PERIOD",
      "SLICE_MODE", "BIT_RATE">>, AdjustOnly),
  Leaf(Enc, {"HEVC", "APV"}, {"META_EVA_STATS"}, AdjustOnly),
  Parent(Enc, {"H264", "HEVC"}, {"META_ROI_INFO"}, <<"IR_PERIOD",
      "BLUR_TYPES">>, AdjustOnly),
  Leaf(Enc, {"HEIC"}, {"GRID_ENABLE"}, SetOnly),
  Parent(Enc, {"H264", "HEVC"}, {"DELIVERY_MODE"}, <<"LOWLATENCY_MODE",
      "OUTPUT_BUF_HOST_MAX_COUNT">>, AdjustSet),
  Leaf(Enc, {"H264", "HEVC", "HEIC"}, {"VUI_TIMING_INFO"}, SetOnly),
  Leaf(Enc, {"HEIC", "APV"}, {"SIGNAL_COLOR_INFO"}, SetOnly),
  Parent(Enc, {"H264", "HEVC"}, {"SIGNAL_COLOR_INFO"}, <<
      "REQUEST_I_FRAME">>, SetOnly),
  Parent(Enc, {"H264", "HEVC"}, {"LOOKAHEAD_ENCODE_ENABLE"}, <<
      "LOOKAHEAD_ENCODE_SIZE">>, AdjustOnly),
  Leaf(Enc, {"H264", "HEVC"}, {"LOOKAHEAD_ENCODE_SIZE"}, AdjustSet),
  Leaf(Enc, {"HEVC", "HEIC"}, {"META_SEI_MASTERING_DISP", "META_SEI_CLL",
      "META_HDR10PLUS"}, AdjustOnly),
  Leaf(Enc, {"H264", "HEVC"}, {"META_TRANSCODING_STAT_INFO"}, AdjustOnly),
  Leaf(Enc, {"HEVC"}, {"META_HIST_INFO",
      "META_HDR10_MAX_RGB_INFO"}, AdjustOnly),
  Leaf(Enc, {"APV"}, {"META_SEI_MASTERING_DISP", "META_SEI_CLL",
      "META_HDR10PLUS", "META_HIST_INFO",
      "META_HDR10_MAX_RGB_INFO"}, Neither),
  Leaf(Dec, {"HEIC"}, {"HEIF_TILES"}, SetOnly),
  Leaf(Enc, {"HEVC", "APV"}, {"LOG_VIDEO_ENCODE"}, AdjustSet)>>

MsmCanoe == [name |-> "MsmCanoe",
   enc |-> {"H264", "HEVC", "HEIC", "APV"},
   dec |-> {"H264", "HEVC", "VP9", "HEIC", "AV1", "APV"},
   caps |-> MsmCanoeCaps1 \o MsmCanoeCaps2 \o MsmCanoeCaps3 \o
           MsmCanoeCaps4 \o MsmCanoeCaps5 \o MsmCanoeCaps6 \o MsmCanoeCaps7 \o
           MsmCanoeCaps8 \o MsmCanoeCaps9 \o MsmCanoeCaps10 \o
           MsmCanoeCaps11 \o MsmCanoeCaps12 \o MsmCanoeCaps13 \o
           MsmCanoeCaps14 \o MsmCanoeCaps15 \o MsmCanoeCaps16,
   deps |-> MsmCanoeDeps1 \o MsmCanoeDeps2 \o MsmCanoeDeps3 \o
           MsmCanoeDeps4 \o MsmCanoeDeps5 \o MsmCanoeDeps6 \o MsmCanoeDeps7]

MsmCanoeSku1Caps1 == <<
  Fixed(Enc, All, {"FRAME_WIDTH", "LOSSLESS_FRAME_WIDTH", "FRAME_HEIGHT",
      "MBPF"}),
  Fixed(Enc, {"HEVC", "APV"}, {"FRAME_WIDTH", "FRAME_HEIGHT", "MBPF"}),
  Fixed(Dec, All, {"MBPF"}),
  Fixed(Dec, {"VP9", "AV1"}, {"MBPF"}),
  Fixed(Dec, {"H264", "HEVC", "VP9", "AV1", "APV"}, {"BATCH_MBPF",
      "BATCH_FPS"}),
  Fixed(Dec, {"H264", "HEVC", "AV1"}, {"SCALE_FACTOR"}),
  Fixed(Enc, {"H264"}, {"CAVLC_MAX_BITRATE", "LEVEL"}),
  Fixed(Enc, {"H264", "HEVC"}, {"ALLINTRA_MAX_BITRATE"}),
  Fixed(Enc, {"HEVC"}, {"LOWLATENCY_MAX_BITRATE"}),
  Fixed(Both, {"HEVC"}, {"PROFILE"})>>

MsmCanoeSku1Caps2 == <<
  Fixed(Enc, {"HEVC", "HEIC"}, {"LEVEL"}),
  Fixed(Dec, {"H264"}, {"LEVEL"}),
  Fixed(Dec, {"HEVC", "HEIC"}, {"LEVEL"}),
  Fixed(Dec, {"VP9"}, {"LEVEL"}),
  Fixed(Dec, {"AV1"}, {"LEVEL"}),
  Fixed(Dec, All, {"CONCEAL_COLOR_8BIT", "CONCEAL_COLOR_10BIT"}),
  Fixed(Both, {"H264", "HEVC", "VP9", "HEIC", "AV1"}, {"PIPE"}),
  Fixed(Enc, {"H264", "HEVC", "APV"}, {"META_EVA_STATS"}),
  Fixed(Enc, {"HEVC", "APV"}, {"LOG_VIDEO_ENCODE"})>>

MsmCanoeSku1 == [name |-> "MsmCanoeSku1",
   enc |-> {"H264", "HEVC", "HEIC", "APV"},
   dec |-> {"H264", "HEVC", "VP9", "HEIC", "AV1", "APV"},
   caps |-> MsmCanoeCaps1 \o MsmCanoeCaps2 \o MsmCanoeCaps3 \o
           MsmCanoeCaps4 \o MsmCanoeCaps5 \o MsmCanoeCaps6 \o MsmCanoeCaps7 \o
           MsmCanoeCaps8 \o MsmCanoeCaps9 \o MsmCanoeCaps10 \o
           MsmCanoeCaps11 \o MsmCanoeCaps12 \o MsmCanoeCaps13 \o
           MsmCanoeCaps14 \o MsmCanoeCaps15 \o MsmCanoeCaps16 \o
           MsmCanoeSku1Caps1 \o MsmCanoeSku1Caps2,
   deps |-> MsmCanoeDeps1 \o MsmCanoeDeps2 \o MsmCanoeDeps3 \o
           MsmCanoeDeps4 \o MsmCanoeDeps5 \o MsmCanoeDeps6 \o MsmCanoeDeps7]

MsmCanoeSku2Caps1 == <<
  Fixed(Both, {"H264", "HEVC", "VP9", "HEIC", "AV1"}, {"DRV_VERSION"}),
  Fixed(Enc, {"H264", "HEVC", "VP9", "HEIC", "AV1"}, {"MBPF",
      "OPERATING_RATE"}),
  Fixed(Enc, {"HEVC"}, {"MBPF"}),
  Fixed(Enc, {"HEIC"}, {"MBPF"}),
  Fixed(Dec, {"H264", "HEVC", "VP9", "HEIC", "AV1"}, {"MBPF"}),
  Fixed(Dec, {"VP9"}, {"MBPF"}),
  Fixed(Dec, {"HEIC"}, {"MBPF"}),
  Fixed(Enc, {"H264", "HEVC"}, {"LOSSLESS_MBPF", "META_EVA_STATS"}),
  Fixed(Dec, {"H264", "HEVC", "VP9", "AV1"}, {"BATCH_MBPF", "BATCH_FPS"}),
  Fixed(Both, {"H264", "HEVC", "VP9", "AV1"}, {"SECURE_MBPF"}),
  Fixed(Enc, {"HEVC"}, {"SECURE_MBPF", "LOG_VIDEO_ENCODE"}),
  Fixed(Both, {"HEVC"}, {"PROFILE"})>>

MsmCanoeSku2 == [name |-> "MsmCanoeSku2",
   enc |-> {"H264", "HEVC", "HEIC", "APV"},
   dec |-> {"H264", "HEVC", "VP9", "HEIC", "AV1", "APV"},
   caps |-> MsmCanoeCaps1 \o MsmCanoeCaps2 \o MsmCanoeCaps3 \o
           MsmCanoeCaps4 \o MsmCanoeCaps5 \o MsmCanoeCaps6 \o MsmCanoeCaps7 \o
           MsmCanoeCaps8 \o MsmCanoeCaps9 \o MsmCanoeCaps10 \o
           MsmCanoeCaps11 \o MsmCanoeCaps12 \o MsmCanoeCaps13 \o
           MsmCanoeCaps14 \o MsmCanoeCaps15 \o MsmCanoeCaps16 \o
           MsmCanoeSku2Caps1,
   deps |-> MsmCanoeDeps1 \o MsmCanoeDeps2 \o MsmCanoeDeps3 \o
           MsmCanoeDeps4 \o MsmCanoeDeps5 \o MsmCanoeDeps6 \o MsmCanoeDeps7]

MsmCanoeSku3Caps1 == <<
  Fixed(Both, {"H264", "HEVC", "VP9", "HEIC", "AV1"}, {"DRV_VERSION"}),
  Fixed(Dec, {"H264", "HEVC", "VP9", "HEIC"}, {"FRAME_WIDTH",
      "FRAME_HEIGHT"}),
  Fixed(Enc, {"H264", "HEVC", "VP9", "HEIC", "AV1"}, {"FRAME_WIDTH",
      "FRAME_HEIGHT", "MBPF"}),
  Fixed(Enc, {"HEVC"}, {"FRAME_WIDTH", "FRAME_HEIGHT", "MBPF",
      "LOWLATENCY_MAX_BITRATE"}),
  Fixed(Dec, {"VP9", "AV1"}, {"MBPF"}),
  Fixed(Dec, {"H264", "HEVC", "VP9", "AV1"}, {"BATCH_MBPF", "BATCH_FPS"}),
  Fixed(Enc, {"H264"}, {"CAVLC_MAX_BITRATE", "LEVEL"}),
  Fixed(Enc, {"H264", "HEVC"}, {"ALLINTRA_MAX_BITRATE"}),
  Fixed(Both, {"HEVC"}, {"PROFILE"})>>

MsmCanoeSku3Caps2 == <<
  Fixed(Enc, {"HEVC", "HEIC"}, {"LEVEL"}),
  Fixed(Dec, {"H264"}, {"LEVEL"}),
  Fixed(Dec, {"HEVC", "HEIC"}, {"LEVEL"}),
  Fixed(Dec, {"VP9"}, {"LEVEL"}),
  Fixed(Dec, {"AV1"}, {"LEVEL"}),
  Fixed(Dec, All, {"CONCEAL_COLOR_8BIT", "CONCEAL_COLOR_10BIT"}),
  Fixed(Both, {"H264", "HEVC", "VP9", "HEIC", "AV1"}, {"PIPE"}),
  Fixed(Enc, {"H264", "HEVC"}, {"META_EVA_STATS"}),
  Fixed(Enc, {"HEVC"}, {"LOG_VIDEO_ENCODE"})>>

MsmCanoeSku3 == [name |-> "MsmCanoeSku3",
   enc |-> {"H264", "HEVC", "HEIC", "APV"},
   dec |-> {"H264", "HEVC", "VP9", "HEIC", "AV1", "APV"},
   caps |-> MsmCanoeCaps1 \o MsmCanoeCaps2 \o MsmCanoeCaps3 \o
           MsmCanoeCaps4 \o MsmCanoeCaps5 \o MsmCanoeCaps6 \o MsmCanoeCaps7 \o
           MsmCanoeCaps8 \o MsmCanoeCaps9 \o MsmCanoeCaps10 \o
           MsmCanoeCaps11 \o MsmCanoeCaps12 \o MsmCanoeCaps13 \o
           MsmCanoeCaps14 \o MsmCanoeCaps15 \o MsmCanoeCaps16 \o
           MsmCanoeSku3Caps1 \o MsmCanoeSku3Caps2,
   deps |-> MsmCanoeDeps1 \o MsmCanoeDeps2 \o MsmCanoeDeps3 \o
           MsmCanoeDeps4 \o MsmCanoeDeps5 \o MsmCanoeDeps6 \o MsmCanoeDeps7]

SeraphCaps1 == SunCaps1
SeraphCaps2 == SunCaps2
SeraphCaps3 == SunCaps3
SeraphCaps4 == SunCaps4
SeraphCaps5 == SunCaps5
SeraphCaps6 == SunCaps6
SeraphCaps7 == SunCaps7
SeraphDeps1 == SunDeps1
SeraphDeps2 == SunDeps2
SeraphDeps3 == SunDeps3

Seraph == [name |-> "Seraph",
   enc |-> {"H264", "HEVC"},
   dec |-> {"H264", "HEVC"},
   caps |-> SeraphCaps1 \o SeraphCaps2 \o SeraphCaps3 \o SeraphCaps4 \o
           SeraphCaps5 \o SeraphCaps6 \o SeraphCaps7,
   deps |-> SeraphDeps1 \o SeraphDeps2 \o SeraphDeps3]

MsmSeraphCaps1 == <<
  Fixed(Both, All, {"DRV_VERSION"}),
  Fixed(Dec, All, {"FRAME_WIDTH"}),
  Fixed(Dec, {"VP9"}, {"FRAME_WIDTH"}),
  Fixed(Enc, All, {"FRAME_WIDTH"})>>

MsmSeraphCaps2 == <<
  Fixed(Enc, {"HEIC"}, {"FRAME_WIDTH"}),
  Fixed(Enc, All, {"LOSSLESS_FRAME_WIDTH", "SECURE_FRAME_WIDTH",
      "FRAME_HEIGHT", "LOSSLESS_FRAME_HEIGHT", "SECURE_FRAME_HEIGHT", "MBPF",
      "SECURE_MBPF", "FRAME_RATE", "OPERATING_RATE"}),
  Fixed(Enc, {"HEVC"}, {"LOSSLESS_FRAME_WIDTH"}),
  Fixed(Dec, All, {"SECURE_FRAME_WIDTH", "FRAME_HEIGHT",
      "SECURE_FRAME_HEIGHT", "MBPF"}),
  Fixed(Dec, {"VP9"}, {"FRAME_HEIGHT", "MBPF"}),
  Fixed(Enc, {"HEIC"}, {"FRAME_HEIGHT"}),
  Fixed(Both, {"H264"}, {"PIX_FMTS"}),
  Fixed(Both, {"HEVC", "VP9", "AV1"}, {"PIX_FMTS"}),
  Fixed(Enc, {"HEIC"}, {"PIX_FMTS", "MBPF", "FRAME_RATE"}),
  Fixed(Dec, {"HEIC"}, {"PIX_FMTS", "MBPF"}),
  Fixed(Both, All, {"MIN_BUFFERS_INPUT", "MIN_BUFFERS_OUTPUT", "INPUT_RATE",
      "TIMESTAMP_RATE"}),
  Fixed(Both, {"HEIC"}, {"MIN_BUFFERS_INPUT"}),
  Fixed(Enc, {"H264", "HEVC"}, {"LOSSLESS_MBPF", "SCALE_FACTOR"}),
  Fixed(Dec, {"H264", "HEVC", "VP9", "AV1"}, {"BATCH_MBPF", "BATCH_FPS",
      "SECURE_MBPF"}),
  Dynamic(Dec, All, {"FRAME_RATE", "OPERATING_RATE"}),
  Dynamic(Dec, {"VP9"}, {"FRAME_RATE"}),
  Fixed(Dec, {"H264", "HEVC", "AV1"}, {"SCALE_FACTOR", "SCALE_ENABLE"})>>

MsmSeraphCaps3 == <<
  Fixed(Enc, All, {"MB_CYCLES_VSP", "MB_CYCLES_VPP", "MB_CYCLES_LP",
      "MB_CYCLES_FW_VPP"}),
  Fixed(Dec, All, {"MB_CYCLES_VSP", "MB_CYCLES_VPP", "MB_CYCLES_LP",
      "MB_CYCLES_FW_VPP", "OUTPUT_TX_FENCE_FD"}),
  Fixed(Dec, {"VP9", "AV1"}, {"MB_CYCLES_VSP"}),
  Fixed(Both, All, {"MB_CYCLES_FW", "CLIENT_ID"}),
  Fixed(Enc, {"H264"}, {"ENC_RING_BUFFER_COUNT"}),
  Fixed(Both, {"H264", "HEVC", "VP9", "AV1"}, {"SECURE_MODE"}),
  Fixed(Dec, {"H264", "HEVC", "VP9", "AV1"}, {"META_OUTPUT_TX_FENCE",
      "OUTPUT_RX_FENCE_ENABLE", "INPUT_RX_FENCE_ENABLE",
      "INPUT_TX_FENCE_ENABLE", "INPUT_RX_FENCE_TYPE", "INPUT_TX_FENCE_TYPE",
      "OUTPUT_RX_FENCE_TYPE"}),
  Dynamic(Dec, All, {"OUTPUT_TX_FENCE_ID", "INPUT_RX_FENCE_FD"}),
  Dynamic(Both, All, {"FENCE_INFO"})>>

MsmSeraphCaps4 == <<
  Fixed(Dec, {"H264", "HEVC", "VP9", "AV1"}, {"OUTPUT_TX_FENCE_TYPE",
      "OUTPUT_SCID"}),
  Fixed(Dec, {"H264", "HEVC"}, {"TS_REORDER"}),
  Dynamic(Enc, All, {"HFLIP", "VFLIP"}),
  Fixed(Enc, All, {"ROTATION"})>>

MsmSeraphCaps5 == <<
  Dynamic(Enc, {"H264", "HEVC"}, {"SUPER_FRAME", "REQUEST_I_FRAME"}),
  Fixed(Dec, {"H264", "HEVC", "AV1"}, {"SLICE_DECODE",
      "EARLY_NOTIFY_ENABLE"}),
  Dynamic(Dec, {"H264", "HEVC", "AV1"}, {"EARLY_NOTIFY_LINE_COUNT",
      "EARLY_NOTIFY_FENCE_COUNT"}),
  Fixed(Enc, {"H264", "HEVC", "HEIC"}, {"HEADER_MODE",
      "PREPEND_SPSPPS_TO_IDR", "VUI_TIMING_INFO", "WITHOUT_STARTCODE",
      "NAL_LENGTH_FIELD"}),
  Fixed(Dec, {"AV1"}, {"WITHOUT_STARTCODE"}),
  Dynamic(Enc, {"H264"}, {"BIT_RATE"}),
  Dynamic(Enc, {"HEVC"}, {"BIT_RATE"}),
  Fixed(Enc, {"H264"}, {"BITRATE_MODE", "CAVLC_MAX_BITRATE",
      "LOWLATENCY_MAX_BITRATE"}),
  Fixed(Enc, {"HEVC"}, {"BITRATE_MODE", "LOWLATENCY_MAX_BITRATE"}),
  Fixed(Enc, {"HEIC"}, {"BITRATE_MODE"}),
  Fixed(Enc, {"H264", "HEVC"}, {"CABAC_MAX_BITRATE", "ALLINTRA_MAX_BITRATE"}),
  Fixed(Dec, All, {"NUM_COMV"})>>

MsmSeraphCaps6 == MsmAlorCaps5
MsmSeraphCaps7 == MsmSunCaps5
MsmSeraphCaps8 == MsmSunCaps6
MsmSeraphCaps9 == MsmAlorCaps8
MsmSeraphCaps10 == MsmAlorCaps9
MsmSeraphCaps11 == MsmAlorCaps10

MsmSeraphCaps12 == <<
  Fixed(Both, All, {"INPUT_BUF_HOST_MAX_COUNT", "OUTPUT_BUF_HOST_MAX_COUNT"}),
  Fixed(Dec, All, {"CONCEAL_COLOR_8BIT", "CONCEAL_COLOR_10BIT"}),
  Fixed(Both, {"H264", "HEVC", "VP9", "HEIC", "AV1"}, {"STAGE", "PIPE"})>>

MsmSeraphCaps13 == <<
  Fixed(Dec, {"H264"}, {"POC"}),
  Fixed(Dec, {"H264", "HEVC"}, {"MAX_NUM_REORDER_FRAMES"}),
  Fixed(Enc, All, {"QUALITY_MODE", "CRITICAL_PRIORITY"}),
  Fixed(Dec, {"H264", "HEVC", "HEIC"}, {"CODED_FRAMES"}),
  Fixed(Both, All, {"BIT_DEPTH", "FIRMWARE_PRIORITY_OFFSET",
      "LAST_FLAG_EVENT_ENABLE"}),
  Dynamic(Dec, {"H264", "HEVC", "HEIC", "AV1"}, {"CODEC_CONFIG"}),
  Fixed(Dec, All, {"BITSTREAM_SIZE_OVERWRITE", "THUMBNAIL_MODE",
      "DEFAULT_HEADER", "RAP_FRAME"}),
  Dynamic(Dec, All, {"SEQ_CHANGE_AT_SYNC_FRAME",
      "INPUT_EXTRA_METADATA_OFFSET"}),
  Dynamic(Both, All, {"PRIORITY"}),
  Dynamic(Enc, All, {"RESERVE_DURATION", "ENC_IP_CR"}),
  Fixed(Dec, {"AV1"}, {"FILM_GRAIN", "SUPER_BLOCK", "DRAP",
      "META_BITSTREAM_RESOLUTION", "META_CROP_OFFSETS"}),
  Fixed(Enc, {"H264", "HEVC"}, {"ALL_INTRA", "META_LTR_MARK_USE"})>>

MsmSeraphCaps14 == <<
  Fixed(Enc, {"H264", "HEVC", "HEIC"}, {"META_SEQ_HDR_NAL"}),
  Fixed(Dec, All, {"META_DPB_MISR", "META_OPB_MISR",
      "META_CONCEALED_MB_CNT"}),
  Fixed(Dec, {"H264"}, {"META_INTERLACE"}),
  Fixed(Both, All, {"META_TIMESTAMP"}),
  Fixed(Dec, {"HEVC", "VP9", "AV1"}, {"META_HIST_INFO"}),
  Fixed(Enc, {"HEVC"}, {"META_HIST_INFO", "META_HDR10_MAX_RGB_INFO"})>>

MsmSeraphCaps15 == <<
  Fixed(Dec, {"H264", "HEVC"}, {"META_TRANSCODING_STAT_INFO",
      "META_DOLBY_RPU"}),
  Fixed(Enc, {"H264", "HEVC"}, {"META_TRANSCODING_STAT_INFO",
      "META_EVA_STATS"}),
  Dynamic(Dec, All, {"META_PICTURE_TYPE", "META_BUF_TAG"}),
  Fixed(Enc, {"HEVC", "HEIC"}, {"META_SEI_MASTERING_DISP", "META_SEI_CLL",
      "META_HDR10PLUS"}),
  Fixed(Dec, {"HEVC", "HEIC", "AV1"}, {"META_SEI_MASTERING_DISP",
      "META_SEI_CLL", "META_HDR10PLUS"}),
  Fixed(Enc, {"HEVC"}, {"META_DOLBY_RPU"}),
  Fixed(Enc, All, {"META_BUF_TAG"})>>

MsmSeraphCaps16 == <<
  Fixed(Dec, {"H264", "HEVC", "VP9", "HEIC", "AV1"}, {"META_DPB_TAG_LIST",
      "META_SUBFRAME_OUTPUT"}),
  Fixed(Enc, {"H264", "HEVC", "HEIC"}, {"META_SUBFRAME_OUTPUT"}),
  Fixed(Enc, All, {"META_ENC_QP_METADATA"}),
  Fixed(Enc, {"H264", "HEVC"}, {"META_ROI_INFO", "META_SALIENCY_INFO",
      "COMPLEXITY"}),
  Fixed(Dec, All, {"META_DEC_QP_METADATA"}),
  Fixed(Enc, {"HEIC"}, {"GRID_ENABLE", "GRID_SIZE"}),
  Fixed(Enc, {"HEVC"}, {"DELIVERY_MODE", "CAPTURE_DATA_OFFSET"}),
  Fixed(Enc, {"H264"}, {"DELIVERY_MODE"}),
  Dynamic(Enc, {"H264", "HEVC", "HEIC"}, {"SIGNAL_COLOR_INFO"})>>

MsmSeraphDeps1 == MsmAlorDeps1

MsmSeraphDeps2 == <<
  Leaf(Enc, {"H264"}, {"ENC_RING_BUFFER_COUNT"}, SetOnly),
  Leaf(Both, {"H264", "HEVC", "VP9", "AV1"}, {"SECURE_MODE"}, SetOnly),
  Leaf(Both, All, {"FENCE_INFO"}, AdjustOnly),
  Parent(Dec, {"H264", "HEVC", "AV1"}, {"META_OUTPUT_TX_FENCE"}, <<
      "OUTPUT_TX_FENCE_TYPE", "SLICE_DECODE",
      "EARLY_NOTIFY_ENABLE">>, Neither),
  Parent(Dec, {"VP9"}, {"META_OUTPUT_TX_FENCE"}, <<
      "OUTPUT_TX_FENCE_TYPE">>, Neither),
  Parent(Dec, {"H264", "HEVC", "VP9", "AV1"}, {"INPUT_RX_FENCE_ENABLE"}, <<
      "INPUT_RX_FENCE_TYPE">>, Neither),
  Parent(Dec, {"H264", "HEVC", "VP9", "AV1"}, {"INPUT_TX_FENCE_ENABLE"}, <<
      "INPUT_TX_FENCE_TYPE">>, Neither),
  Parent(Dec, {"H264", "HEVC", "VP9", "AV1"}, {"OUTPUT_RX_FENCE_ENABLE"}, <<
      "OUTPUT_RX_FENCE_TYPE">>, Neither),
  Leaf(Dec, {"H264", "HEVC", "VP9", "AV1"}, {"INPUT_RX_FENCE_TYPE",
      "INPUT_TX_FENCE_TYPE", "OUTPUT_TX_FENCE_TYPE",
      "OUTPUT_RX_FENCE_TYPE"}, AdjustSet),
  Leaf(Dec, {"H264", "HEVC", "VP9", "AV1"}, {"OUTPUT_SCID"}, AdjustOnly),
  Leaf(Enc, All, {"HFLIP", "VFLIP", "ROTATION"}, SetOnly),
  Parent(Enc, {"H264", "HEVC"}, {"SUPER_FRAME"}, <<"INPUT_BUF_HOST_MAX_COUNT",
      "OUTPUT_BUF_HOST_MAX_COUNT">>, Neither),
  Leaf(Dec, {"H264", "HEVC", "AV1"}, {"SLICE_DECODE",
      "EARLY_NOTIFY_FENCE_COUNT"}, AdjustSet),
  Parent(Dec, {"H264", "HEVC", "AV1"}, {"EARLY_NOTIFY_ENABLE"}, <<
      "EARLY_NOTIFY_LINE_COUNT">>, AdjustSet),
  Parent(Dec, {"H264", "HEVC", "AV1"}, {"EARLY_NOTIFY_LINE_COUNT"}, <<
      "EARLY_NOTIFY_FENCE_COUNT">>, AdjustSet),
  Leaf(Enc, {"H264", "HEVC", "HEIC"}, {"HEADER_MODE",
      "WITHOUT_STARTCODE"}, SetOnly)>>

MsmSeraphDeps3 == <<
  Leaf(Dec, {"AV1"}, {"WITHOUT_STARTCODE"}, SetOnly),
  Leaf(Enc, {"H264", "HEVC"}, {"REQUEST_I_FRAME"}, SetOnly),
  Parent(Enc, {"H264"}, {"BIT_RATE"}, <<"PEAK_BITRATE", "BITRATE_BOOST",
      "L0_BR", "LEVEL">>, AdjustSet),
  Parent(Enc, {"HEVC"}, {"BIT_RATE"}, <<"PEAK_BITRATE", "BITRATE_BOOST",
      "L0_BR", "LEVEL">>, AdjustSet),
  Parent(Enc, {"H264"}, {"BITRATE_MODE"}, <<"LTR_COUNT", "IR_PERIOD",
      "TIME_DELTA_BASED_RC", "I_FRAME_QP", "P_FRAME_QP", "B_FRAME_QP",
      "ENH_LAYER_COUNT", "BIT_RATE", "META_ROI_INFO", "MIN_QUALITY",
      "BITRATE_BOOST", "VBV_DELAY", "PEAK_BITRATE", "SLICE_MODE",
      "CONTENT_ADAPTIVE_CODING", "BLUR_TYPES", "LOWLATENCY_MODE",
      "META_TRANSCODING_STAT_INFO">>, AdjustSet),
  Parent(Enc, {"HEVC"}, {"BITRATE_MODE"}, <<"LTR_COUNT", "IR_PERIOD",
      "TIME_DELTA_BASED_RC", "I_FRAME_QP", "P_FRAME_QP", "B_FRAME_QP",
      "CONSTANT_QUALITY", "ENH_LAYER_COUNT", "BIT_RATE", "META_ROI_INFO",
      "MIN_QUALITY", "BITRATE_BOOST", "VBV_DELAY", "PEAK_BITRATE",
      "SLICE_MODE", "CONTENT_ADAPTIVE_CODING", "BLUR_TYPES",
      "LOWLATENCY_MODE", "META_EVA_STATS", "META_TRANSCODING_STAT_INFO",
      "OPEN_GOP">>, AdjustSet)>>

MsmSeraphDeps4 == MsmAlorDeps3
MsmSeraphDeps5 == MsmSunDeps3
MsmSeraphDeps6 == MsmSunDeps4

MsmSeraphDeps7 == <<
  Leaf(Both, {"HEVC", "HEIC"}, {"HEVC_TIER"}, SetOnly),
  Leaf(Enc, {"H264", "HEVC", "HEIC"}, {"LF_MODE"}, SetOnly),
  Parent(Enc, {"H264", "HEVC"}, {"SLICE_MODE"}, <<"STAGE",
      "DELIVERY_MODE">>, AdjustSet),
  Leaf(Enc, {"HEIC"}, {"SLICE_MODE"}, AdjustSet),
  Leaf(Enc, {"H264"}, {"TRANSFORM_8X8"}, AdjustSet),
  Leaf(Enc, {"H264", "HEVC"}, {"CHROMA_QP_INDEX_OFFSET"}, AdjustSet)>>

MsmSeraphDeps8 == <<
  Parent(Dec, {"H264", "HEVC", "VP9", "AV1"}, {"DISPLAY_DELAY_ENABLE", "DISPLAY_DELAY"}, <<
      "OUTPUT_ORDER">>, Neither),
  Parent(Dec, {"H264", "HEVC", "AV1"}, {"OUTPUT_ORDER"}, <<"SLICE_DECODE",
      "EARLY_NOTIFY_ENABLE">>, AdjustSet),
  Leaf(Dec, {"VP9"}, {"OUTPUT_ORDER"}, AdjustSet),
  Leaf(Both, All, {"INPUT_BUF_HOST_MAX_COUNT", "OUTPUT_BUF_HOST_MAX_COUNT",
      "PRIORITY"}, AdjustSet),
  Leaf(Enc, {"H264", "HEVC"}, {"INPUT_BUF_HOST_MAX_COUNT",
      "OUTPUT_BUF_HOST_MAX_COUNT"}, AdjustSet),
  Leaf(Dec, All, {"CONCEAL_COLOR_8BIT", "CONCEAL_COLOR_10BIT",
      "RAP_FRAME"}, SetOnly),
  Leaf(Both, All, {"STAGE", "PIPE"}, SetOnly),
  Leaf(Enc, {"H264", "HEVC"}, {"STAGE"}, SetOnly),
  Leaf(Dec, {"H264", "HEVC", "VP9", "AV1"}, {"STAGE"}, SetOnly),
  Parent(Dec, {"H264", "HEVC", "VP9", "AV1"}, {"THUMBNAIL_MODE"}, <<
      "OUTPUT_ORDER">>, SetOnly),
  Leaf(Dec, {"HEIC"}, {"THUMBNAIL_MODE"}, SetOnly),
  Leaf(Both, All, {"FIRMWARE_PRIORITY_OFFSET"}, Neither),
  Leaf(Enc, All, {"CRITICAL_PRIORITY"}, Neither),
  Leaf(Enc, All, {"RESERVE_DURATION"}, SetOnly),
  Leaf(Dec, {"AV1"}, {"DRAP"}, SetOnly),
  Parent(Enc, {"H264", "HEVC"}, {"ALL_INTRA"}, <<"LTR_COUNT", "IR_PERIOD",
      "SLICE_MODE", "BIT_RATE">>, AdjustOnly),
  Leaf(Enc, {"HEVC"}, {"META_EVA_STATS"}, AdjustOnly),
  Parent(Enc, {"H264", "HEVC"}, {"META_ROI_INFO"}, <<"MIN_QUALITY",
      "IR_PERIOD", "BLUR_TYPES">>, AdjustOnly),
  Leaf(Enc, {"HEIC"}, {"GRID_ENABLE"}, SetOnly),
  Parent(Enc, {"H264", "HEVC"}, {"DELIVERY_MODE"}, <<"LOWLATENCY_MODE",
      "OUTPUT_BUF_HOST_MAX_COUNT">>, AdjustSet)>>

MsmSeraphDeps9 == <<
  Leaf(Enc, {"H264", "HEVC", "HEIC"}, {"VUI_TIMING_INFO",
      "SIGNAL_COLOR_INFO"}, SetOnly),
  Leaf(Enc, {"HEVC", "HEIC"}, {"META_SEI_MASTERING_DISP", "META_SEI_CLL",
      "META_HDR10PLUS"}, AdjustOnly),
  Leaf(Enc, {"H264", "HEVC"}, {"META_TRANSCODING_STAT_INFO"}, AdjustOnly),
  Leaf(Enc, {"HEVC"}, {"META_HIST_INFO",
      "META_HDR10_MAX_RGB_INFO"}, AdjustOnly)>>

MsmSeraph == [name |-> "MsmSeraph",
   enc |-> {"H264", "HEVC", "HEIC"},
   dec |-> {"H264", "HEVC", "HEIC"},
   caps |-> MsmSeraphCaps1 \o MsmSeraphCaps2 \o MsmSeraphCaps3 \o
           MsmSeraphCaps4 \o MsmSeraphCaps5 \o MsmSeraphCaps6 \o
           MsmSeraphCaps7 \o MsmSeraphCaps8 \o MsmSeraphCaps9 \o
           MsmSeraphCaps10 \o MsmSeraphCaps11 \o MsmSeraphCaps12 \o
           MsmSeraphCaps13 \o MsmSeraphCaps14 \o MsmSeraphCaps15 \o
           MsmSeraphCaps16,
   deps |-> MsmSeraphDeps1 \o MsmSeraphDeps2 \o MsmSeraphDeps3 \o
           MsmSeraphDeps4 \o MsmSeraphDeps5 \o MsmSeraphDeps6 \o
           MsmSeraphDeps7 \o MsmSeraphDeps8 \o MsmSeraphDeps9]

=============================================================================
