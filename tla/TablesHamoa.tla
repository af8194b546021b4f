----------------------------- MODULE TablesHamoa ----------------------------
(* The capability tables of hamoa, purwa, lemans, monaco and glymur         *)
(* (driver/platform): X of X.c, which the video driver is built with, MsmX  *)
(* of msm_vidc_X.c, which msm_video is built with.  A table is cut in       *)
(* parts, row for row in the order of the file; a part with the same rows   *)
(* as one of another file is that part.                                     *)
EXTENDS TablesNordau

HamoaCaps1 == <<
  Fixed(Dec, All, {"FRAME_WIDTH", "FRAME_HEIGHT", "MBPF", "MB_CYCLES_VSP",
      "MB_CYCLES_VPP", "MB_CYCLES_LP"}),
  Fixed(Dec, {"VP9"}, {"FRAME_WIDTH", "FRAME_HEIGHT", "MBPF"}),
  Fixed(Enc, All, {"FRAME_WIDTH", "LOSSLESS_FRAME_WIDTH", "FRAME_HEIGHT",
      "LOSSLESS_FRAME_HEIGHT", "MBPF", "FRAME_RATE", "OPERATING_RATE",
      "MB_CYCLES_VSP", "MB_CYCLES_VPP", "MB_CYCLES_LP"}),
  Fixed(Enc, {"HEVC"}, {"FRAME_WIDTH", "LOSSLESS_FRAME_WIDTH", "FRAME_HEIGHT",
      "LOSSLESS_FRAME_HEIGHT", "MBPF"}),
  Fixed(Both, {"H264"}, {"PIX_FMTS"}),
  Fixed(Both, {"HEVC", "VP9", "AV1"}, {"PIX_FMTS"}),
  Fixed(Both, All, {"MIN_BUFFERS_INPUT", "MIN_BUFFERS_OUTPUT", "INPUT_RATE",
      "TIMESTAMP_RATE"}),
  Fixed(Enc, {"H264", "HEVC"}, {"LOSSLESS_MBPF", "SCALE_FACTOR"}),
  Fixed(Dec, {"H264", "HEVC", "VP9", "AV1"}, {"BATCH_MBPF", "BATCH_FPS"}),
  Fixed(Dec, {"VP9", "AV1"}, {"MB_CYCLES_VSP"})>>

HamoaCaps2 == <<
  Fixed(Both, All, {"MB_CYCLES_FW", "CLIENT_ID"}),
  Fixed(Enc, All, {"MB_CYCLES_FW_VPP", "ROTATION", "HEADER_MODE",
      "PREPEND_SPSPPS_TO_IDR", "WITHOUT_STARTCODE"}),
  Fixed(Dec, All, {"MB_CYCLES_FW_VPP", "SLICE_DECODE"}),
  Fixed(Enc, {"H264"}, {"ENC_RING_BUFFER_COUNT"}),
  Dynamic(Enc, All, {"HFLIP", "VFLIP"}),
  Fixed(Enc, {"H264", "HEVC"}, {"SUPER_FRAME"})>>

HamoaCaps3 == <<
  Fixed(Dec, {"AV1"}, {"WITHOUT_STARTCODE"}),
  Fixed(Enc, All, {"NAL_LENGTH_FIELD", "CSC"}),
  Dynamic(Enc, {"H264", "HEVC"}, {"REQUEST_I_FRAME", "BIT_RATE"}),
  Fixed(Enc, {"H264"}, {"BITRATE_MODE", "CAVLC_MAX_BITRATE"}),
  Fixed(Enc, {"HEVC"}, {"BITRATE_MODE", "LOSSLESS", "OPEN_GOP"}),
  Fixed(Enc, {"H264", "HEVC"}, {"CABAC_MAX_BITRATE", "ALLINTRA_MAX_BITRATE",
      "LOWLATENCY_MAX_BITRATE", "FRAME_SKIP_MODE", "FRAME_RC_ENABLE",
      "GOP_CLOSURE", "B_FRAME", "BLUR_TYPES", "LOWLATENCY_MODE"}),
  Fixed(Dec, All, {"NUM_COMV"}),
  Dynamic(Enc, {"HEVC"}, {"CONSTANT_QUALITY"}),
  Dynamic(Enc, All, {"GOP_SIZE"}),
  Dynamic(Dec, {"H264", "HEVC", "VP9", "AV1"}, {"LOWLATENCY_MODE"})>>

HamoaCaps4 == <<
  Fixed(Enc, {"H264", "HEVC"}, {"LTR_COUNT", "IR_TYPE", "AU_DELIMITER",
      "CONTENT_ADAPTIVE_CODING", "REQUEST_PREPROCESS", "MIN_QUALITY",
      "VBV_DELAY"}),
  Dynamic(Enc, {"H264", "HEVC"}, {"USE_LTR", "MARK_LTR", "IR_PERIOD"}),
  Fixed(Enc, {"H264"}, {"BASELAYER_PRIORITY"})>>

HamoaCaps5 == <<
  Dynamic(Enc, {"H264", "HEVC"}, {"PEAK_BITRATE"}),
  Fixed(Enc, {"H264"}, {"MIN_FRAME_QP", "I_FRAME_MIN_QP", "P_FRAME_MIN_QP",
      "B_FRAME_MIN_QP", "MAX_FRAME_QP", "I_FRAME_MAX_QP", "P_FRAME_MAX_QP",
      "B_FRAME_MAX_QP"}),
  Fixed(Enc, {"HEVC"}, {"MIN_FRAME_QP", "I_FRAME_MIN_QP", "P_FRAME_MIN_QP",
      "B_FRAME_MIN_QP", "MAX_FRAME_QP", "I_FRAME_MAX_QP", "P_FRAME_MAX_QP",
      "B_FRAME_MAX_QP", "LAYER_TYPE"}),
  Dynamic(Enc, {"HEVC"}, {"I_FRAME_QP", "P_FRAME_QP", "B_FRAME_QP"}),
  Dynamic(Enc, {"H264"}, {"I_FRAME_QP", "P_FRAME_QP", "B_FRAME_QP"}),
  Fixed(Enc, {"H264"}, {"LAYER_TYPE"})>>

HamoaCaps6 == <<
  Fixed(Enc, {"H264"}, {"LAYER_ENABLE", "ENTROPY_MODE"}),
  Fixed(Enc, {"HEVC"}, {"LAYER_ENABLE"}),
  Dynamic(Enc, {"HEVC"}, {"ENH_LAYER_COUNT"}),
  Dynamic(Enc, {"H264"}, {"ENH_LAYER_COUNT", "L0_BR", "L1_BR", "L2_BR",
      "L3_BR", "L4_BR", "L5_BR"}),
  Fixed(Dec, {"AV1"}, {"ENH_LAYER_COUNT"}),
  Dynamic(Enc, {"HEVC"}, {"L0_BR", "L1_BR", "L2_BR", "L3_BR", "L4_BR",
      "L5_BR"}),
  Fixed(Dec, {"H264", "HEVC", "VP9", "AV1"}, {"ENTROPY_MODE"}),
  Fixed(Both, {"H264"}, {"PROFILE"})>>

HamoaCaps7 == <<
  Fixed(Both, {"HEVC"}, {"PROFILE"}),
  Fixed(Dec, {"VP9"}, {"PROFILE"}),
  Fixed(Dec, {"AV1"}, {"PROFILE"}),
  Fixed(Enc, {"H264"}, {"LEVEL"}),
  Fixed(Enc, {"HEVC"}, {"LEVEL"}),
  Fixed(Dec, {"H264"}, {"LEVEL"}),
  Fixed(Dec, {"HEVC"}, {"LEVEL"}),
  Fixed(Dec, {"VP9"}, {"LEVEL"})>>

HamoaCaps8 == <<
  Fixed(Dec, {"AV1"}, {"LEVEL", "AV1_TIER"}),
  Fixed(Both, {"HEVC"}, {"HEVC_TIER"}),
  Fixed(Enc, {"H264"}, {"LF_MODE", "LF_ALPHA", "LF_BETA", "TRANSFORM_8X8"}),
  Fixed(Enc, {"HEVC"}, {"LF_MODE", "LF_ALPHA", "LF_BETA",
      "CHROMA_QP_INDEX_OFFSET"}),
  Fixed(Enc, {"H264", "HEVC"}, {"SLICE_MODE", "SLICE_MAX_BYTES",
      "SLICE_MAX_MB", "MB_RC"}),
  Fixed(Dec, {"H264", "HEVC", "VP9", "AV1"}, {"DISPLAY_DELAY_ENABLE",
      "DISPLAY_DELAY", "OUTPUT_ORDER"})>>

HamoaCaps9 == <<
  Fixed(Both, All, {"INPUT_BUF_HOST_MAX_COUNT", "OUTPUT_BUF_HOST_MAX_COUNT",
      "STAGE", "PIPE", "BIT_DEPTH", "FIRMWARE_PRIORITY_OFFSET"}),
  Fixed(Dec, All, {"CONCEAL_COLOR_8BIT", "CONCEAL_COLOR_10BIT",
      "BITSTREAM_SIZE_OVERWRITE", "THUMBNAIL_MODE", "DEFAULT_HEADER",
      "RAP_FRAME"}),
  Fixed(Dec, {"H264"}, {"POC"}),
  Fixed(Enc, All, {"QUALITY_MODE"}),
  Fixed(Dec, {"H264", "HEVC"}, {"CODED_FRAMES"}),
  Dynamic(Dec, {"H264", "HEVC", "AV1"}, {"CODEC_CONFIG"}),
  Dynamic(Dec, All, {"SEQ_CHANGE_AT_SYNC_FRAME"}),
  Dynamic(Both, All, {"PRIORITY"})>>

HamoaCaps10 == <<
  Dynamic(Enc, All, {"ENC_IP_CR", "SIGNAL_COLOR_INFO"}),
  Fixed(Dec, {"AV1"}, {"FILM_GRAIN", "SUPER_BLOCK", "DRAP"}),
  Fixed(Dec, All, {"LAST_FLAG_EVENT_ENABLE"}),
  Fixed(Enc, {"H264", "HEVC"}, {"ALL_INTRA", "META_ROI_INFO", "COMPLEXITY",
      "DELIVERY_MODE"})>>

HamoaDeps1 == <<
  Parent(Enc, {"H264"}, {"PIX_FMTS"}, <<"META_ROI_INFO", "IR_PERIOD",
      "BIT_DEPTH">>, Neither),
  Parent(Enc, {"HEVC"}, {"PIX_FMTS"}, <<"PROFILE", "MIN_FRAME_QP",
      "MAX_FRAME_QP", "I_FRAME_QP", "P_FRAME_QP", "B_FRAME_QP",
      "META_ROI_INFO", "MIN_QUALITY", "BLUR_TYPES", "IR_PERIOD", "LTR_COUNT",
      "BIT_DEPTH">>, Neither),
  Parent(Dec, {"HEVC"}, {"PIX_FMTS"}, <<"PROFILE">>, Neither),
  Leaf(Enc, All, {"BIT_DEPTH"}, AdjustOnly),
  Leaf(Enc, All, {"FRAME_RATE", "HFLIP", "VFLIP", "ROTATION", "HEADER_MODE",
      "WITHOUT_STARTCODE"}, SetOnly),
  Leaf(Enc, {"H264"}, {"ENC_RING_BUFFER_COUNT"}, SetOnly),
  Parent(Enc, {"H264", "HEVC"}, {"SUPER_FRAME"}, <<"INPUT_BUF_HOST_MAX_COUNT",
      "OUTPUT_BUF_HOST_MAX_COUNT">>, Neither),
  Leaf(Dec, {"AV1"}, {"WITHOUT_STARTCODE"}, SetOnly),
  Leaf(Enc, {"H264", "HEVC"}, {"REQUEST_I_FRAME", "AU_DELIMITER"}, SetOnly),
  Parent(Enc, {"H264", "HEVC"}, {"BIT_RATE"}, <<"PEAK_BITRATE",
      "L0_BR">>, AdjustSet),
  Parent(Enc, {"H264"}, {"BITRATE_MODE"}, <<"LTR_COUNT", "IR_PERIOD",
      "I_FRAME_QP", "P_FRAME_QP", "B_FRAME_QP", "ENH_LAYER_COUNT", "BIT_RATE",
      "META_ROI_INFO", "MIN_QUALITY", "VBV_DELAY", "PEAK_BITRATE",
      "SLICE_MODE", "CONTENT_ADAPTIVE_CODING", "BLUR_TYPES",
      "LOWLATENCY_MODE">>, AdjustSet),
  Parent(Enc, {"HEVC"}, {"BITRATE_MODE"}, <<"LTR_COUNT", "IR_PERIOD",
      "I_FRAME_QP", "P_FRAME_QP", "B_FRAME_QP", "CONSTANT_QUALITY",
      "ENH_LAYER_COUNT", "BIT_RATE", "META_ROI_INFO", "MIN_QUALITY",
      "VBV_DELAY", "PEAK_BITRATE", "SLICE_MODE", "CONTENT_ADAPTIVE_CODING",
      "BLUR_TYPES", "LOWLATENCY_MODE", "OPEN_GOP">>, AdjustSet),
  Leaf(Enc, {"HEVC"}, {"CONSTANT_QUALITY"}, SetOnly),
  Parent(Enc, All, {"GOP_SIZE"}, <<"ALL_INTRA">>, AdjustSet),
  Parent(Enc, {"HEVC"}, {"OPEN_GOP"}, <<"GOP_SIZE">>, AdjustSet),
  Parent(Enc, {"H264", "HEVC"}, {"B_FRAME"}, <<"ALL_INTRA">>, AdjustSet),
  Leaf(Enc, {"H264", "HEVC"}, {"BLUR_TYPES", "LTR_COUNT", "USE_LTR",
      "MARK_LTR", "IR_PERIOD"}, AdjustSet),
  Parent(Enc, {"H264", "HEVC"}, {"LOWLATENCY_MODE"}, <<"STAGE",
      "BIT_RATE">>, AdjustOnly),
  Parent(Dec, {"H264", "HEVC", "VP9", "AV1"}, {"LOWLATENCY_MODE"}, <<
      "STAGE">>, Neither)>>

HamoaDeps2 == <<
  Parent(Enc, {"H264", "HEVC"}, {"CONTENT_ADAPTIVE_CODING"}, <<
      "REQUEST_PREPROCESS">>, AdjustSet),
  Leaf(Enc, {"H264", "HEVC"}, {"REQUEST_PREPROCESS",
      "PEAK_BITRATE"}, AdjustSet),
  Parent(Enc, {"H264"}, {"MIN_QUALITY"}, <<"BLUR_TYPES">>, AdjustSet),
  Parent(Enc, {"HEVC"}, {"MIN_QUALITY"}, <<"BLUR_TYPES">>, AdjustSet),
  Leaf(Enc, {"H264", "HEVC"}, {"VBV_DELAY"}, SetOnly),
  Leaf(Enc, {"H264"}, {"MIN_FRAME_QP", "MAX_FRAME_QP"}, SetOnly),
  Leaf(Enc, {"HEVC"}, {"MIN_FRAME_QP", "MAX_FRAME_QP", "I_FRAME_QP",
      "P_FRAME_QP", "B_FRAME_QP"}, AdjustSet),
  Leaf(Enc, {"H264"}, {"I_FRAME_QP", "P_FRAME_QP", "B_FRAME_QP"}, SetOnly),
  Parent(Enc, {"H264"}, {"LAYER_TYPE"}, <<"CONTENT_ADAPTIVE_CODING",
      "LTR_COUNT">>, Neither),
  Parent(Enc, {"HEVC"}, {"LAYER_TYPE"}, <<"CONTENT_ADAPTIVE_CODING",
      "LTR_COUNT", "OPEN_GOP">>, Neither),
  Parent(Enc, {"H264", "HEVC"}, {"LAYER_ENABLE"}, <<
      "CONTENT_ADAPTIVE_CODING">>, Neither),
  Parent(Enc, {"H264"}, {"ENH_LAYER_COUNT"}, <<"GOP_SIZE", "B_FRAME",
      "BIT_RATE", "MIN_QUALITY", "SLICE_MODE", "LTR_COUNT">>, AdjustSet),
  Parent(Enc, {"HEVC"}, {"ENH_LAYER_COUNT"}, <<"GOP_SIZE", "B_FRAME",
      "BIT_RATE", "MIN_QUALITY", "SLICE_MODE", "LTR_COUNT",
      "OPEN_GOP">>, AdjustSet),
  Leaf(Dec, {"AV1"}, {"ENH_LAYER_COUNT"}, SetOnly),
  Parent(Enc, {"H264", "HEVC"}, {"L0_BR"}, <<"L1_BR">>, AdjustSet),
  Parent(Enc, {"H264", "HEVC"}, {"L1_BR"}, <<"L2_BR">>, AdjustSet),
  Parent(Enc, {"H264", "HEVC"}, {"L2_BR"}, <<"L3_BR">>, AdjustSet)>>

HamoaDeps3 == <<
  Parent(Enc, {"H264", "HEVC"}, {"L3_BR"}, <<"L4_BR">>, AdjustSet),
  Parent(Enc, {"H264", "HEVC"}, {"L4_BR"}, <<"L5_BR">>, AdjustSet),
  Leaf(Enc, {"H264", "HEVC"}, {"L5_BR"}, AdjustSet),
  Parent(Enc, {"H264"}, {"ENTROPY_MODE"}, <<"BIT_RATE">>, AdjustSet),
  Parent(Enc, {"H264"}, {"PROFILE"}, <<"ENTROPY_MODE",
      "TRANSFORM_8X8">>, SetOnly),
  Parent(Dec, {"H264"}, {"PROFILE"}, <<"ENTROPY_MODE">>, SetOnly),
  Leaf(Both, {"HEVC"}, {"PROFILE"}, AdjustSet),
  Leaf(Dec, {"VP9", "AV1"}, {"PROFILE"}, SetOnly),
  Leaf(Dec, All, {"LEVEL", "CONCEAL_COLOR_8BIT", "CONCEAL_COLOR_10BIT",
      "RAP_FRAME"}, SetOnly),
  Leaf(Enc, All, {"LEVEL", "LF_MODE"}, SetOnly),
  Leaf(Dec, {"AV1"}, {"AV1_TIER"}, SetOnly),
  Leaf(Both, {"HEVC"}, {"HEVC_TIER"}, SetOnly),
  Parent(Enc, {"H264", "HEVC"}, {"SLICE_MODE"}, <<"STAGE",
      "DELIVERY_MODE">>, AdjustSet),
  Leaf(Enc, {"H264"}, {"TRANSFORM_8X8"}, AdjustSet),
  Leaf(Enc, {"HEVC"}, {"CHROMA_QP_INDEX_OFFSET"}, AdjustSet),
  Parent(Dec, {"H264", "HEVC", "VP9", "AV1"}, {"DISPLAY_DELAY_ENABLE", "DISPLAY_DELAY"}, <<
      "OUTPUT_ORDER">>, Neither),
  Leaf(Dec, {"H264", "HEVC", "VP9", "AV1"}, {"OUTPUT_ORDER"}, AdjustSet),
  Leaf(Both, All, {"INPUT_BUF_HOST_MAX_COUNT", "OUTPUT_BUF_HOST_MAX_COUNT",
      "PRIORITY"}, AdjustSet),
  Leaf(Enc, {"H264", "HEVC"}, {"INPUT_BUF_HOST_MAX_COUNT",
      "OUTPUT_BUF_HOST_MAX_COUNT"}, AdjustSet),
  Leaf(Both, All, {"STAGE", "PIPE"}, SetOnly),
  Parent(Dec, All, {"THUMBNAIL_MODE"}, <<"OUTPUT_ORDER">>, SetOnly)>>

HamoaDeps4 == <<
  Leaf(Both, All, {"FIRMWARE_PRIORITY_OFFSET"}, Neither),
  Leaf(Dec, {"AV1"}, {"DRAP"}, SetOnly),
  Parent(Enc, {"H264", "HEVC"}, {"ALL_INTRA"}, <<"LTR_COUNT", "IR_PERIOD",
      "SLICE_MODE", "BIT_RATE">>, AdjustOnly),
  Parent(Enc, {"H264", "HEVC"}, {"META_ROI_INFO"}, <<"MIN_QUALITY",
      "IR_PERIOD", "BLUR_TYPES">>, Neither)>>

Hamoa == [name |-> "Hamoa",
   enc |-> {"H264", "HEVC"},
   dec |-> {"H264", "HEVC", "VP9", "AV1"},
   caps |-> HamoaCaps1 \o HamoaCaps2 \o HamoaCaps3 \o HamoaCaps4 \o
           HamoaCaps5 \o HamoaCaps6 \o HamoaCaps7 \o HamoaCaps8 \o
           HamoaCaps9 \o HamoaCaps10,
   deps |-> HamoaDeps1 \o HamoaDeps2 \o HamoaDeps3 \o HamoaDeps4]

MsmHamoaCaps1 == MsmSunCaps1

MsmHamoaCaps2 == <<
  Dynamic(Dec, All, {"FRAME_RATE", "OPERATING_RATE", "OUTPUT_TX_FENCE_ID"}),
  Dynamic(Dec, {"VP9"}, {"FRAME_RATE", "OPERATING_RATE"}),
  Fixed(Enc, All, {"OPERATING_RATE", "MB_CYCLES_VSP", "MB_CYCLES_VPP",
      "MB_CYCLES_LP", "MB_CYCLES_FW_VPP"}),
  Fixed(Both, All, {"INPUT_RATE", "TIMESTAMP_RATE", "MB_CYCLES_FW",
      "CLIENT_ID"}),
  Fixed(Enc, {"H264", "HEVC"}, {"SCALE_FACTOR"}),
  Fixed(Dec, All, {"MB_CYCLES_VSP", "MB_CYCLES_VPP", "MB_CYCLES_LP",
      "MB_CYCLES_FW_VPP", "OUTPUT_TX_FENCE_FD"}),
  Fixed(Dec, {"VP9", "AV1"}, {"MB_CYCLES_VSP"}),
  Fixed(Both, {"H264", "HEVC", "VP9", "AV1"}, {"SECURE_MODE"}),
  Dynamic(Dec, {"H264", "HEVC", "VP9", "AV1"}, {"META_OUTPUT_TX_FENCE"}),
  Fixed(Dec, {"H264", "HEVC", "VP9", "AV1"}, {"OUTPUT_RX_FENCE_ENABLE",
      "INPUT_RX_FENCE_ENABLE", "INPUT_TX_FENCE_ENABLE"})>>

MsmHamoaCaps3 == <<
  Dynamic(Both, All, {"FENCE_INFO"}),
  Fixed(Dec, {"H264", "HEVC", "VP9", "AV1"}, {"INPUT_RX_FENCE_TYPE",
      "INPUT_TX_FENCE_TYPE", "OUTPUT_RX_FENCE_TYPE", "OUTPUT_TX_FENCE_TYPE"}),
  Fixed(Dec, {"H264", "HEVC"}, {"TS_REORDER"}),
  Dynamic(Enc, All, {"HFLIP", "VFLIP"}),
  Fixed(Enc, All, {"ROTATION", "HEADER_MODE", "PREPEND_SPSPPS_TO_IDR",
      "VUI_TIMING_INFO", "WITHOUT_STARTCODE", "NAL_LENGTH_FIELD"}),
  Fixed(Enc, {"H264", "HEVC"}, {"SUPER_FRAME"}),
  Fixed(Dec, {"AV1"}, {"WITHOUT_STARTCODE"}),
  Dynamic(Enc, {"H264", "HEVC"}, {"REQUEST_I_FRAME"})>>

MsmHamoaCaps4 == MsmSunCaps4

MsmHamoaCaps5 == <<
  Fixed(Enc, {"H264", "HEVC"}, {"LOWLATENCY_MODE", "LTR_COUNT"}),
  Dynamic(Dec, {"H264", "HEVC", "VP9", "AV1"}, {"LOWLATENCY_MODE"}),
  Dynamic(Enc, {"H264", "HEVC"}, {"USE_LTR", "MARK_LTR"}),
  Fixed(Enc, {"H264"}, {"BASELAYER_PRIORITY"})>>

MsmHamoaCaps6 == <<
  Fixed(Enc, {"H264", "HEVC"}, {"IR_TYPE", "AU_DELIMITER",
      "TIME_DELTA_BASED_RC", "CONTENT_ADAPTIVE_CODING", "REQUEST_PREPROCESS",
      "BITRATE_BOOST", "MIN_QUALITY", "VBV_DELAY"}),
  Dynamic(Enc, {"H264", "HEVC"}, {"IR_PERIOD", "PEAK_BITRATE"}),
  Fixed(Enc, {"HEIC"}, {"TIME_DELTA_BASED_RC"}),
  Fixed(Enc, {"H264"}, {"MIN_FRAME_QP", "I_FRAME_MIN_QP", "P_FRAME_MIN_QP",
      "B_FRAME_MIN_QP"}),
  Fixed(Enc, {"HEVC", "HEIC"}, {"MIN_FRAME_QP", "I_FRAME_MIN_QP",
      "P_FRAME_MIN_QP"})>>

MsmHamoaCaps7 == MsmSunCaps6
MsmHamoaCaps8 == MsmPineappleCaps7
MsmHamoaCaps9 == MsmSunCaps8
MsmHamoaCaps10 == MsmPineappleCaps9
MsmHamoaCaps11 == MsmKeraV0Caps10
MsmHamoaCaps12 == MsmKeraV1Caps13

MsmHamoaCaps13 == <<
  Fixed(Enc, {"HEVC"}, {"META_HIST_INFO", "META_DOLBY_RPU"}),
  Fixed(Dec, {"H264", "HEVC"}, {"META_TRANSCODING_STAT_INFO",
      "META_DOLBY_RPU"}),
  Fixed(Enc, {"H264", "HEVC"}, {"META_TRANSCODING_STAT_INFO",
      "META_EVA_STATS"}),
  Fixed(Dec, All, {"META_PICTURE_TYPE", "META_BUF_TAG"}),
  Fixed(Enc, {"HEVC", "HEIC"}, {"META_SEI_MASTERING_DISP", "META_SEI_CLL",
      "META_HDR10PLUS"}),
  Fixed(Dec, {"HEVC", "HEIC", "AV1"}, {"META_SEI_MASTERING_DISP",
      "META_SEI_CLL", "META_HDR10PLUS"}),
  Fixed(Enc, All, {"META_BUF_TAG"})>>

MsmHamoaCaps14 == <<
  Fixed(Dec, All, {"META_DPB_TAG_LIST", "META_SUBFRAME_OUTPUT",
      "META_DEC_QP_METADATA"}),
  Fixed(Enc, {"H264", "HEVC", "HEIC"}, {"META_SUBFRAME_OUTPUT"}),
  Fixed(Enc, All, {"META_ENC_QP_METADATA"}),
  Fixed(Enc, {"H264", "HEVC"}, {"META_ROI_INFO", "META_SALIENCY_INFO",
      "COMPLEXITY"}),
  Fixed(Enc, {"HEIC"}, {"GRID_ENABLE", "GRID_SIZE"}),
  Fixed(Enc, {"HEVC"}, {"DELIVERY_MODE"}),
  Fixed(Enc, {"H264"}, {"DELIVERY_MODE"}),
  Dynamic(Enc, All, {"SIGNAL_COLOR_INFO"})>>

MsmHamoaDeps1 == <<
  Parent(Enc, {"H264"}, {"PIX_FMTS"}, <<"META_ROI_INFO",
      "IR_PERIOD">>, Neither),
  Parent(Enc, {"HEVC"}, {"PIX_FMTS"}, <<"PROFILE", "MIN_FRAME_QP",
      "MAX_FRAME_QP", "I_FRAME_QP", "P_FRAME_QP", "B_FRAME_QP",
      "META_ROI_INFO", "MIN_QUALITY", "BLUR_TYPES", "IR_PERIOD",
      "LTR_COUNT">>, Neither),
  Parent(Enc, {"HEIC"}, {"PIX_FMTS"}, <<"PROFILE">>, Neither),
  Parent(Dec, {"HEVC", "HEIC"}, {"PIX_FMTS"}, <<"PROFILE">>, Neither),
  Parent(Enc, All, {"FRAME_RATE"}, <<"LEVEL">>, SetOnly),
  Leaf(Dec, All, {"FRAME_RATE", "OPERATING_RATE"}, AdjustOnly),
  Leaf(Both, {"H264", "HEVC", "VP9", "AV1"}, {"SECURE_MODE"}, SetOnly),
  Leaf(Both, All, {"FENCE_INFO"}, AdjustOnly),
  Parent(Dec, {"H264", "HEVC", "AV1"}, {"META_OUTPUT_TX_FENCE"}, <<
      "OUTPUT_TX_FENCE_TYPE">>, Neither),
  Parent(Dec, {"VP9"}, {"META_OUTPUT_TX_FENCE"}, <<
      "OUTPUT_TX_FENCE_TYPE">>, Neither),
  Parent(Dec, {"H264", "HEVC", "VP9", "AV1"}, {"INPUT_RX_FENCE_ENABLE"}, <<
      "INPUT_RX_FENCE_TYPE">>, Neither),
  Parent(Dec, {"H264", "HEVC", "VP9", "AV1"}, {"INPUT_TX_FENCE_ENABLE"}, <<
      "INPUT_TX_FENCE_TYPE">>, Neither),
  Parent(Dec, {"H264", "HEVC", "VP9", "AV1"}, {"OUTPUT_RX_FENCE_ENABLE"}, <<
      "OUTPUT_RX_FENCE_TYPE">>, Neither),
  Leaf(Dec, {"H264", "HEVC", "VP9", "AV1"}, {"INPUT_RX_FENCE_TYPE",
      "INPUT_TX_FENCE_TYPE", "OUTPUT_TX_FENCE_TYPE",
      "OUTPUT_RX_FENCE_TYPE"}, AdjustOnly),
  Leaf(Enc, All, {"HFLIP", "VFLIP", "ROTATION", "HEADER_MODE",
      "WITHOUT_STARTCODE"}, SetOnly),
  Parent(Enc, {"H264", "HEVC"}, {"SUPER_FRAME"}, <<"INPUT_BUF_HOST_MAX_COUNT",
      "OUTPUT_BUF_HOST_MAX_COUNT">>, Neither),
  Leaf(Dec, {"AV1"}, {"WITHOUT_STARTCODE"}, SetOnly),
  Leaf(Enc, {"H264", "HEVC"}, {"REQUEST_I_FRAME"}, SetOnly),
  Parent(Enc, {"H264"}, {"BIT_RATE"}, <<"PEAK_BITRATE", "BITRATE_BOOST",
      "L0_BR", "LEVEL">>, AdjustSet),
  Parent(Enc, {"HEVC"}, {"BIT_RATE"}, <<"PEAK_BITRATE", "BITRATE_BOOST",
      "L0_BR", "LEVEL">>, AdjustSet)>>

MsmHamoaDeps2 == <<
  Parent(Enc, {"H264"}, {"BITRATE_MODE"}, <<"LTR_COUNT", "IR_PERIOD",
      "TIME_DELTA_BASED_RC", "I_FRAME_QP", "P_FRAME_QP", "B_FRAME_QP",
      "ENH_LAYER_COUNT", "BIT_RATE", "META_ROI_INFO", "MIN_QUALITY",
      "BITRATE_BOOST", "VBV_DELAY", "PEAK_BITRATE", "SLICE_MODE",
      "CONTENT_ADAPTIVE_CODING", "BLUR_TYPES",
      "LOWLATENCY_MODE">>, AdjustSet),
  Parent(Enc, {"HEVC"}, {"BITRATE_MODE"}, <<"LTR_COUNT", "IR_PERIOD",
      "TIME_DELTA_BASED_RC", "I_FRAME_QP", "P_FRAME_QP", "B_FRAME_QP",
      "CONSTANT_QUALITY", "ENH_LAYER_COUNT", "BIT_RATE", "META_ROI_INFO",
      "MIN_QUALITY", "BITRATE_BOOST", "VBV_DELAY", "PEAK_BITRATE",
      "SLICE_MODE", "CONTENT_ADAPTIVE_CODING", "BLUR_TYPES",
      "LOWLATENCY_MODE", "META_EVA_STATS", "OPEN_GOP">>, AdjustSet),
  Parent(Enc, {"HEIC"}, {"BITRATE_MODE"}, <<"TIME_DELTA_BASED_RC",
      "CONSTANT_QUALITY">>, AdjustSet),
  Leaf(Enc, {"HEVC", "HEIC"}, {"CONSTANT_QUALITY"}, SetOnly),
  Parent(Enc, All, {"GOP_SIZE"}, <<"ALL_INTRA">>, AdjustSet),
  Leaf(Enc, {"HEIC"}, {"GOP_SIZE"}, SetOnly),
  Parent(Enc, {"HEVC"}, {"OPEN_GOP"}, <<"GOP_SIZE">>, AdjustSet),
  Parent(Enc, {"H264", "HEVC"}, {"B_FRAME"}, <<"ALL_INTRA">>, AdjustSet),
  Leaf(Enc, {"HEIC"}, {"B_FRAME"}, SetOnly),
  Parent(Enc, {"H264", "HEVC"}, {"BLUR_TYPES"}, <<
      "BLUR_RESOLUTION">>, AdjustSet),
  Leaf(Enc, {"H264", "HEVC"}, {"BLUR_RESOLUTION", "LTR_COUNT", "USE_LTR",
      "MARK_LTR", "IR_PERIOD", "REQUEST_PREPROCESS"}, AdjustSet),
  Leaf(Enc, All, {"CSC_CUSTOM_MATRIX"}, SetOnly),
  Parent(Enc, {"H264", "HEVC"}, {"LOWLATENCY_MODE"}, <<"STAGE",
      "BIT_RATE">>, AdjustOnly),
  Parent(Dec, {"H264", "HEVC", "AV1"}, {"LOWLATENCY_MODE"}, <<
      "STAGE">>, Neither),
  Parent(Dec, {"VP9"}, {"LOWLATENCY_MODE"}, <<"STAGE">>, Neither),
  Leaf(Enc, {"H264", "HEVC"}, {"AU_DELIMITER", "VBV_DELAY"}, SetOnly),
  Leaf(Enc, {"H264"}, {"BASELAYER_PRIORITY"}, SetOnly),
  Leaf(Enc, All, {"TIME_DELTA_BASED_RC"}, AdjustSet),
  Parent(Enc, {"H264", "HEVC"}, {"CONTENT_ADAPTIVE_CODING"}, <<
      "REQUEST_PREPROCESS">>, AdjustSet),
  Parent(Enc, {"H264", "HEVC"}, {"BITRATE_BOOST"}, <<"LEVEL">>, AdjustSet),
  Parent(Enc, {"H264"}, {"MIN_QUALITY"}, <<"BLUR_TYPES">>, AdjustSet),
  Parent(Enc, {"HEVC"}, {"MIN_QUALITY"}, <<"BLUR_TYPES">>, AdjustSet)>>

MsmHamoaDeps3 == <<
  Leaf(Enc, {"H264", "HEVC"}, {"PEAK_BITRATE", "L5_BR"}, AdjustSet),
  Leaf(Enc, {"H264"}, {"MIN_FRAME_QP", "MAX_FRAME_QP"}, SetOnly),
  Leaf(Enc, {"HEVC"}, {"MIN_FRAME_QP", "MAX_FRAME_QP", "I_FRAME_QP",
      "P_FRAME_QP", "B_FRAME_QP"}, AdjustSet),
  Leaf(Enc, {"H264"}, {"I_FRAME_QP", "P_FRAME_QP", "B_FRAME_QP"}, SetOnly),
  Parent(Enc, {"H264"}, {"LAYER_TYPE"}, <<"CONTENT_ADAPTIVE_CODING",
      "LTR_COUNT", "LEVEL">>, Neither),
  Parent(Enc, {"HEVC"}, {"LAYER_TYPE"}, <<"CONTENT_ADAPTIVE_CODING",
      "LTR_COUNT", "OPEN_GOP">>, Neither),
  Parent(Enc, {"H264", "HEVC"}, {"LAYER_ENABLE"}, <<"CONTENT_ADAPTIVE_CODING",
      "LEVEL">>, Neither),
  Parent(Enc, {"H264"}, {"ENH_LAYER_COUNT"}, <<"GOP_SIZE", "B_FRAME",
      "BIT_RATE", "MIN_QUALITY", "SLICE_MODE", "LTR_COUNT",
      "LEVEL">>, AdjustSet),
  Parent(Enc, {"HEVC"}, {"ENH_LAYER_COUNT"}, <<"GOP_SIZE", "B_FRAME",
      "BIT_RATE", "MIN_QUALITY", "SLICE_MODE", "LTR_COUNT",
      "OPEN_GOP">>, AdjustSet),
  Leaf(Dec, {"AV1"}, {"ENH_LAYER_COUNT"}, SetOnly),
  Parent(Enc, {"H264", "HEVC"}, {"L0_BR"}, <<"L1_BR">>, AdjustSet),
  Parent(Enc, {"H264", "HEVC"}, {"L1_BR"}, <<"L2_BR">>, AdjustSet),
  Parent(Enc, {"H264", "HEVC"}, {"L2_BR"}, <<"L3_BR">>, AdjustSet),
  Parent(Enc, {"H264", "HEVC"}, {"L3_BR"}, <<"L4_BR">>, AdjustSet),
  Parent(Enc, {"H264", "HEVC"}, {"L4_BR"}, <<"L5_BR">>, AdjustSet),
  Parent(Enc, {"H264"}, {"ENTROPY_MODE"}, <<"BIT_RATE">>, AdjustSet)>>

MsmHamoaDeps4 == <<
  Parent(Enc, {"H264"}, {"PROFILE"}, <<"ENTROPY_MODE",
      "TRANSFORM_8X8">>, SetOnly),
  Parent(Dec, {"H264"}, {"PROFILE"}, <<"ENTROPY_MODE">>, SetOnly),
  Parent(Enc, {"HEIC"}, {"PROFILE"}, <<"META_SEI_MASTERING_DISP",
      "META_SEI_CLL", "META_HDR10PLUS">>, AdjustSet),
  Parent(Enc, {"HEVC"}, {"PROFILE"}, <<"META_SEI_MASTERING_DISP",
      "META_SEI_CLL", "META_HDR10PLUS", "META_HIST_INFO">>, AdjustSet),
  Leaf(Dec, {"HEVC", "HEIC"}, {"PROFILE"}, AdjustSet),
  Leaf(Dec, {"VP9", "AV1"}, {"PROFILE"}, SetOnly),
  Leaf(Dec, All, {"LEVEL"}, SetOnly),
  Leaf(Enc, {"H264", "HEVC"}, {"LEVEL"}, AdjustSet),
  Leaf(Enc, {"HEIC"}, {"LEVEL"}, SetOnly),
  Leaf(Dec, {"AV1"}, {"AV1_TIER"}, SetOnly),
  Leaf(Both, {"HEVC", "HEIC"}, {"HEVC_TIER"}, SetOnly),
  Leaf(Enc, All, {"LF_MODE"}, SetOnly),
  Parent(Enc, {"H264", "HEVC"}, {"SLICE_MODE"}, <<"STAGE",
      "DELIVERY_MODE">>, AdjustSet),
  Leaf(Enc, {"HEIC"}, {"SLICE_MODE"}, AdjustSet),
  Leaf(Enc, {"H264"}, {"TRANSFORM_8X8"}, AdjustSet),
  Leaf(Enc, {"HEVC"}, {"CHROMA_QP_INDEX_OFFSET"}, AdjustSet),
  Parent(Dec, {"H264", "HEVC", "VP9", "AV1"}, {"DISPLAY_DELAY_ENABLE", "DISPLAY_DELAY"}, <<
      "OUTPUT_ORDER">>, Neither),
  Leaf(Dec, {"H264", "HEVC", "VP9", "AV1"}, {"OUTPUT_ORDER"}, AdjustSet)>>

MsmHamoaDeps5 == <<
  Leaf(Both, All, {"INPUT_BUF_HOST_MAX_COUNT", "OUTPUT_BUF_HOST_MAX_COUNT",
      "PRIORITY"}, AdjustSet),
  Leaf(Enc, {"H264", "HEVC"}, {"INPUT_BUF_HOST_MAX_COUNT",
      "OUTPUT_BUF_HOST_MAX_COUNT"}, AdjustSet),
  Leaf(Dec, All, {"CONCEAL_COLOR_8BIT", "CONCEAL_COLOR_10BIT",
      "RAP_FRAME"}, SetOnly),
  Leaf(Both, All, {"STAGE", "PIPE"}, SetOnly),
  Leaf(Enc, {"H264", "HEVC"}, {"STAGE"}, SetOnly),
  Leaf(Dec, {"H264", "HEVC", "VP9", "AV1"}, {"STAGE"}, SetOnly),
  Parent(Dec, {"H264", "HEVC", "VP9", "AV1"}, {"THUMBNAIL_MODE"}, <<
      "OUTPUT_ORDER">>, SetOnly),
  Leaf(Dec, {"HEIC"}, {"THUMBNAIL_MODE"}, SetOnly),
  Leaf(Both, All, {"FIRMWARE_PRIORITY_OFFSET"}, Neither),
  Leaf(Enc, All, {"CRITICAL_PRIORITY"}, Neither),
  Leaf(Enc, All, {"RESERVE_DURATION"}, SetOnly),
  Leaf(Dec, {"AV1"}, {"DRAP"}, SetOnly),
  Parent(Enc, {"H264", "HEVC"}, {"ALL_INTRA"}, <<"LTR_COUNT", "IR_PERIOD",
      "SLICE_MODE", "BIT_RATE">>, AdjustOnly),
  Leaf(Enc, {"HEVC"}, {"META_EVA_STATS"}, AdjustOnly),
  Parent(Enc, {"H264", "HEVC"}, {"META_ROI_INFO"}, <<"MIN_QUALITY",
      "IR_PERIOD", "BLUR_TYPES">>, AdjustOnly),
  Leaf(Enc, {"HEIC"}, {"GRID_ENABLE"}, SetOnly),
  Parent(Enc, {"H264", "HEVC"}, {"DELIVERY_MODE"}, <<"LOWLATENCY_MODE",
      "OUTPUT_BUF_HOST_MAX_COUNT">>, AdjustSet)>>

MsmHamoaDeps6 == <<
  Leaf(Enc, All, {"VUI_TIMING_INFO", "SIGNAL_COLOR_INFO"}, SetOnly),
  Leaf(Enc, {"HEVC"}, {"META_HIST_INFO"}, AdjustOnly),
  Leaf(Enc, {"HEVC", "HEIC"}, {"META_SEI_MASTERING_DISP", "META_SEI_CLL",
      "META_HDR10PLUS"}, AdjustOnly)>>

MsmHamoa == [name |-> "MsmHamoa",
   enc |-> {"H264", "HEVC", "HEIC"},
   dec |-> {"H264", "HEVC", "VP9", "HEIC", "AV1"},
   caps |-> MsmHamoaCaps1 \o MsmHamoaCaps2 \o MsmHamoaCaps3 \o
           MsmHamoaCaps4 \o MsmHamoaCaps5 \o MsmHamoaCaps6 \o MsmHamoaCaps7 \o
           MsmHamoaCaps8 \o MsmHamoaCaps9 \o MsmHamoaCaps10 \o
           MsmHamoaCaps11 \o MsmHamoaCaps12 \o MsmHamoaCaps13 \o
           MsmHamoaCaps14,
   deps |-> MsmHamoaDeps1 \o MsmHamoaDeps2 \o MsmHamoaDeps3 \o
           MsmHamoaDeps4 \o MsmHamoaDeps5 \o MsmHamoaDeps6]

PurwaCaps1 == HamoaCaps1

PurwaCaps2 == <<
  Fixed(Both, All, {"MB_CYCLES_FW", "CLIENT_ID"}),
  Fixed(Enc, All, {"MB_CYCLES_FW_VPP", "ROTATION", "HEADER_MODE",
      "PREPEND_SPSPPS_TO_IDR", "WITHOUT_STARTCODE"}),
  Fixed(Dec, All, {"MB_CYCLES_FW_VPP", "SLICE_DECODE"}),
  Dynamic(Enc, All, {"HFLIP", "VFLIP"}),
  Fixed(Enc, {"H264", "HEVC"}, {"SUPER_FRAME"})>>

PurwaCaps3 == HamoaCaps3
PurwaCaps4 == HamoaCaps4
PurwaCaps5 == HamoaCaps5
PurwaCaps6 == HamoaCaps6
PurwaCaps7 == HamoaCaps7
PurwaCaps8 == HamoaCaps8
PurwaCaps9 == HamoaCaps9

PurwaCaps10 == <<
  Dynamic(Enc, All, {"ENC_IP_CR", "SIGNAL_COLOR_INFO"}),
  Fixed(Dec, {"AV1"}, {"FILM_GRAIN", "SUPER_BLOCK", "DRAP"}),
  Fixed(Dec, All, {"LAST_FLAG_EVENT_ENABLE"}),
  Fixed(Enc, {"H264", "HEVC"}, {"ALL_INTRA", "COMPLEXITY", "DELIVERY_MODE"})>>

PurwaDeps1 == <<
  Parent(Enc, {"H264"}, {"PIX_FMTS"}, <<"LTR_COUNT", "IR_PERIOD",
      "BIT_DEPTH">>, Neither),
  Parent(Enc, {"HEVC"}, {"PIX_FMTS"}, <<"PROFILE", "MIN_FRAME_QP",
      "MAX_FRAME_QP", "I_FRAME_QP", "P_FRAME_QP", "B_FRAME_QP", "MIN_QUALITY",
      "BLUR_TYPES", "IR_PERIOD", "LTR_COUNT", "BIT_DEPTH">>, Neither),
  Parent(Dec, {"HEVC"}, {"PIX_FMTS"}, <<"PROFILE">>, Neither),
  Leaf(Enc, All, {"BIT_DEPTH"}, AdjustOnly),
  Leaf(Enc, All, {"FRAME_RATE", "HFLIP", "VFLIP", "ROTATION", "HEADER_MODE",
      "WITHOUT_STARTCODE"}, SetOnly),
  Parent(Enc, {"H264", "HEVC"}, {"SUPER_FRAME"}, <<"INPUT_BUF_HOST_MAX_COUNT",
      "OUTPUT_BUF_HOST_MAX_COUNT">>, Neither),
  Leaf(Dec, {"AV1"}, {"WITHOUT_STARTCODE"}, SetOnly),
  Leaf(Enc, {"H264", "HEVC"}, {"REQUEST_I_FRAME", "AU_DELIMITER"}, SetOnly),
  Parent(Enc, {"H264", "HEVC"}, {"BIT_RATE"}, <<"PEAK_BITRATE",
      "L0_BR">>, AdjustSet),
  Parent(Enc, {"H264"}, {"BITRATE_MODE"}, <<"LTR_COUNT", "IR_PERIOD",
      "I_FRAME_QP", "P_FRAME_QP", "B_FRAME_QP", "ENH_LAYER_COUNT", "BIT_RATE",
      "MIN_QUALITY", "VBV_DELAY", "PEAK_BITRATE", "SLICE_MODE",
      "CONTENT_ADAPTIVE_CODING", "BLUR_TYPES",
      "LOWLATENCY_MODE">>, AdjustSet),
  Parent(Enc, {"HEVC"}, {"BITRATE_MODE"}, <<"LTR_COUNT", "IR_PERIOD",
      "I_FRAME_QP", "P_FRAME_QP", "B_FRAME_QP", "CONSTANT_QUALITY",
      "ENH_LAYER_COUNT", "BIT_RATE", "MIN_QUALITY", "VBV_DELAY",
      "PEAK_BITRATE", "SLICE_MODE", "CONTENT_ADAPTIVE_CODING", "BLUR_TYPES",
      "LOWLATENCY_MODE", "OPEN_GOP">>, AdjustSet),
  Leaf(Enc, {"HEVC"}, {"CONSTANT_QUALITY"}, SetOnly),
  Parent(Enc, All, {"GOP_SIZE"}, <<"ALL_INTRA">>, AdjustSet),
  Parent(Enc, {"HEVC"}, {"OPEN_GOP"}, <<"GOP_SIZE">>, AdjustSet),
  Parent(Enc, {"H264", "HEVC"}, {"B_FRAME"}, <<"ALL_INTRA">>, AdjustSet),
  Leaf(Enc, {"H264", "HEVC"}, {"BLUR_TYPES", "LTR_COUNT", "USE_LTR",
      "MARK_LTR", "IR_PERIOD"}, AdjustSet),
  Parent(Enc, {"H264", "HEVC"}, {"LOWLATENCY_MODE"}, <<"STAGE",
      "BIT_RATE">>, AdjustOnly),
  Parent(Dec, {"H264", "HEVC", "VP9", "AV1"}, {"LOWLATENCY_MODE"}, <<
      "STAGE">>, Neither)>>

PurwaDeps2 == <<
  Parent(Enc, {"H264", "HEVC"}, {"CONTENT_ADAPTIVE_CODING"}, <<
      "REQUEST_PREPROCESS">>, AdjustSet),
  Leaf(Enc, {"H264", "HEVC"}, {"REQUEST_PREPROCESS",
      "PEAK_BITRATE"}, AdjustSet),
  Parent(Enc, {"H264"}, {"MIN_QUALITY"}, <<"BLUR_TYPES">>, AdjustSet),
  Parent(Enc, {"HEVC"}, {"MIN_QUALITY"}, <<"BLUR_TYPES">>, AdjustSet),
  Leaf(Enc, {"H264", "HEVC"}, {"VBV_DELAY"}, SetOnly),
  Leaf(Enc, {"H264"}, {"MIN_FRAME_QP", "MAX_FRAME_QP"}, SetOnly),
  Leaf(Enc, {"HEVC"}, {"MIN_FRAME_QP", "MAX_FRAME_QP", "I_FRAME_QP",
      "P_FRAME_QP", "B_FRAME_QP"}, AdjustSet),
  Leaf(Enc, {"H264"}, {"I_FRAME_QP", "P_FRAME_QP", "B_FRAME_QP"}, SetOnly),
  Parent(Enc, {"H264"}, {"LAYER_TYPE"}, <<"CONTENT_ADAPTIVE_CODING",
      "LTR_COUNT">>, Neither),
  Parent(Enc, {"HEVC"}, {"LAYER_TYPE"}, <<"CONTENT_ADAPTIVE_CODING",
      "LTR_COUNT", "OPEN_GOP">>, Neither),
  Parent(Enc, {"H264", "HEVC"}, {"LAYER_ENABLE"}, <<
      "CONTENT_ADAPTIVE_CODING">>, Neither),
  Parent(Enc, {"H264"}, {"ENH_LAYER_COUNT"}, <<"GOP_SIZE", "B_FRAME",
      "BIT_RATE", "MIN_QUALITY", "SLICE_MODE", "LTR_COUNT">>, AdjustSet)>>

PurwaDeps3 == <<
  Parent(Enc, {"HEVC"}, {"ENH_LAYER_COUNT"}, <<"GOP_SIZE", "B_FRAME",
      "BIT_RATE", "MIN_QUALITY", "LTR_COUNT", "SLICE_MODE",
      "OPEN_GOP">>, AdjustSet),
  Leaf(Dec, {"AV1"}, {"ENH_LAYER_COUNT"}, SetOnly),
  Parent(Enc, {"H264", "HEVC"}, {"L0_BR"}, <<"L1_BR">>, AdjustSet),
  Parent(Enc, {"H264", "HEVC"}, {"L1_BR"}, <<"L2_BR">>, AdjustSet),
  Parent(Enc, {"H264", "HEVC"}, {"L2_BR"}, <<"L3_BR">>, AdjustSet)>>

PurwaDeps4 == HamoaDeps3

PurwaDeps5 == <<
  Leaf(Both, All, {"FIRMWARE_PRIORITY_OFFSET"}, Neither),
  Leaf(Dec, {"AV1"}, {"DRAP"}, SetOnly),
  Parent(Enc, {"H264", "HEVC"}, {"ALL_INTRA"}, <<"LTR_COUNT", "IR_PERIOD",
      "SLICE_MODE", "BIT_RATE">>, AdjustOnly)>>

Purwa == [name |-> "Purwa",
   enc |-> {"H264", "HEVC"},
   dec |-> {"H264", "HEVC", "VP9", "AV1"},
   caps |-> PurwaCaps1 \o PurwaCaps2 \o PurwaCaps3 \o PurwaCaps4 \o
           PurwaCaps5 \o PurwaCaps6 \o PurwaCaps7 \o PurwaCaps8 \o
           PurwaCaps9 \o PurwaCaps10,
   deps |-> PurwaDeps1 \o PurwaDeps2 \o PurwaDeps3 \o PurwaDeps4 \o
           PurwaDeps5]

LemansCaps1 == <<
  Fixed(Dec, All, {"FRAME_WIDTH", "FRAME_HEIGHT", "MBPF", "MB_CYCLES_VSP",
      "MB_CYCLES_VPP", "MB_CYCLES_LP", "MB_CYCLES_FW_VPP"}),
  Fixed(Dec, {"VP9"}, {"FRAME_WIDTH", "FRAME_HEIGHT", "MBPF"}),
  Fixed(Enc, All, {"FRAME_WIDTH", "LOSSLESS_FRAME_WIDTH", "FRAME_HEIGHT",
      "LOSSLESS_FRAME_HEIGHT", "MBPF", "FRAME_RATE", "OPERATING_RATE",
      "MB_CYCLES_VSP", "MB_CYCLES_VPP", "MB_CYCLES_LP", "MB_CYCLES_FW_VPP"}),
  Fixed(Both, {"H264"}, {"PIX_FMTS"}),
  Fixed(Both, {"HEVC", "VP9", "AV1"}, {"PIX_FMTS"}),
  Fixed(Both, All, {"MIN_BUFFERS_INPUT", "MIN_BUFFERS_OUTPUT", "INPUT_RATE",
      "TIMESTAMP_RATE", "MB_CYCLES_FW", "CLIENT_ID"}),
  Fixed(Enc, {"HEVC"}, {"MBPF"}),
  Fixed(Enc, {"H264", "HEVC"}, {"LOSSLESS_MBPF", "SCALE_FACTOR"}),
  Fixed(Dec, {"H264", "HEVC", "VP9", "AV1"}, {"BATCH_MBPF", "BATCH_FPS"}),
  Fixed(Dec, {"VP9", "AV1"}, {"MB_CYCLES_VSP"}),
  Dynamic(Enc, All, {"HFLIP", "VFLIP"})>>

LemansCaps2 == <<
  Fixed(Enc, All, {"ROTATION", "HEADER_MODE", "PREPEND_SPSPPS_TO_IDR",
      "WITHOUT_STARTCODE", "NAL_LENGTH_FIELD"}),
  Fixed(Enc, {"H264", "HEVC"}, {"SUPER_FRAME", "CABAC_MAX_BITRATE",
      "ALLINTRA_MAX_BITRATE", "LOWLATENCY_MAX_BITRATE", "FRAME_SKIP_MODE",
      "FRAME_RC_ENABLE", "GOP_CLOSURE"}),
  Fixed(Dec, All, {"SLICE_DECODE", "NUM_COMV"}),
  Fixed(Dec, {"AV1"}, {"WITHOUT_STARTCODE"}),
  Dynamic(Enc, {"H264", "HEVC"}, {"REQUEST_I_FRAME", "BIT_RATE"}),
  Fixed(Enc, {"H264"}, {"BITRATE_MODE", "CAVLC_MAX_BITRATE"}),
  Fixed(Enc, {"HEVC"}, {"BITRATE_MODE", "LOSSLESS", "OPEN_GOP"}),
  Dynamic(Enc, {"HEVC"}, {"CONSTANT_QUALITY"}),
  Dynamic(Enc, All, {"GOP_SIZE"})>>

LemansCaps3 == <<
  Fixed(Enc, {"H264", "HEVC"}, {"B_FRAME", "BLUR_TYPES", "LOWLATENCY_MODE",
      "LTR_COUNT", "IR_TYPE", "AU_DELIMITER", "TIME_DELTA_BASED_RC",
      "CONTENT_ADAPTIVE_CODING", "REQUEST_PREPROCESS", "MIN_QUALITY",
      "VBV_DELAY"}),
  Fixed(Enc, All, {"CSC"}),
  Dynamic(Dec, {"H264", "HEVC", "VP9", "AV1"}, {"LOWLATENCY_MODE"}),
  Dynamic(Enc, {"H264", "HEVC"}, {"USE_LTR", "MARK_LTR", "IR_PERIOD"}),
  Dynamic(Enc, {"H264"}, {"BASELAYER_PRIORITY"})>>

LemansCaps4 == HamoaCaps5
LemansCaps5 == HamoaCaps6
LemansCaps6 == HamoaCaps7
LemansCaps7 == HamoaCaps8

LemansCaps8 == <<
  Fixed(Both, All, {"INPUT_BUF_HOST_MAX_COUNT", "OUTPUT_BUF_HOST_MAX_COUNT",
      "STAGE", "PIPE", "BIT_DEPTH"}),
  Fixed(Dec, All, {"CONCEAL_COLOR_8BIT", "CONCEAL_COLOR_10BIT",
      "BITSTREAM_SIZE_OVERWRITE", "THUMBNAIL_MODE", "DEFAULT_HEADER",
      "RAP_FRAME", "LAST_FLAG_EVENT_ENABLE"}),
  Fixed(Dec, {"H264"}, {"POC"}),
  Fixed(Enc, All, {"QUALITY_MODE"}),
  Fixed(Dec, {"H264", "HEVC"}, {"CODED_FRAMES"}),
  Dynamic(Dec, {"H264", "HEVC", "AV1"}, {"CODEC_CONFIG"}),
  Dynamic(Dec, All, {"SEQ_CHANGE_AT_SYNC_FRAME"}),
  Dynamic(Both, All, {"PRIORITY"}),
  Dynamic(Enc, All, {"ENC_IP_CR", "SIGNAL_COLOR_INFO"}),
  Fixed(Dec, {"AV1"}, {"FILM_GRAIN", "SUPER_BLOCK", "DRAP"}),
  Fixed(Enc, {"H264", "HEVC"}, {"ALL_INTRA", "META_ROI_INFO", "COMPLEXITY",
      "DELIVERY_MODE"})>>

LemansDeps1 == <<
  Parent(Enc, {"H264"}, {"PIX_FMTS"}, <<"META_ROI_INFO", "IR_PERIOD",
      "BIT_DEPTH">>, Neither),
  Parent(Enc, {"HEVC"}, {"PIX_FMTS"}, <<"PROFILE", "MIN_FRAME_QP",
      "MAX_FRAME_QP", "I_FRAME_QP", "P_FRAME_QP", "B_FRAME_QP",
      "META_ROI_INFO", "MIN_QUALITY", "BLUR_TYPES", "IR_PERIOD", "LTR_COUNT",
      "BIT_DEPTH">>, Neither),
  Parent(Dec, {"HEVC"}, {"PIX_FMTS"}, <<"PROFILE">>, Neither),
  Leaf(Enc, All, {"BIT_DEPTH"}, AdjustOnly),
  Leaf(Enc, All, {"FRAME_RATE", "HFLIP", "VFLIP", "ROTATION", "HEADER_MODE",
      "WITHOUT_STARTCODE"}, SetOnly),
  Parent(Enc, {"H264", "HEVC"}, {"SUPER_FRAME"}, <<"INPUT_BUF_HOST_MAX_COUNT",
      "OUTPUT_BUF_HOST_MAX_COUNT">>, Neither),
  Leaf(Dec, {"AV1"}, {"WITHOUT_STARTCODE"}, SetOnly),
  Leaf(Enc, {"H264", "HEVC"}, {"REQUEST_I_FRAME"}, SetOnly),
  Parent(Enc, {"H264", "HEVC"}, {"BIT_RATE"}, <<"PEAK_BITRATE",
      "L0_BR">>, AdjustSet),
  Parent(Enc, {"H264"}, {"BITRATE_MODE"}, <<"LTR_COUNT", "IR_PERIOD",
      "TIME_DELTA_BASED_RC", "I_FRAME_QP", "P_FRAME_QP", "B_FRAME_QP",
      "ENH_LAYER_COUNT", "BIT_RATE", "META_ROI_INFO", "MIN_QUALITY",
      "VBV_DELAY", "PEAK_BITRATE", "SLICE_MODE", "CONTENT_ADAPTIVE_CODING",
      "BLUR_TYPES", "LOWLATENCY_MODE">>, AdjustSet),
  Parent(Enc, {"HEVC"}, {"BITRATE_MODE"}, <<"LTR_COUNT", "IR_PERIOD",
      "TIME_DELTA_BASED_RC", "I_FRAME_QP", "P_FRAME_QP", "B_FRAME_QP",
      "CONSTANT_QUALITY", "ENH_LAYER_COUNT", "BIT_RATE", "META_ROI_INFO",
      "MIN_QUALITY", "VBV_DELAY", "PEAK_BITRATE", "SLICE_MODE",
      "CONTENT_ADAPTIVE_CODING", "BLUR_TYPES", "LOWLATENCY_MODE",
      "OPEN_GOP">>, AdjustSet),
  Leaf(Enc, {"HEVC"}, {"CONSTANT_QUALITY"}, SetOnly),
  Parent(Enc, All, {"GOP_SIZE"}, <<"ALL_INTRA">>, AdjustSet),
  Parent(Enc, {"HEVC"}, {"OPEN_GOP"}, <<"GOP_SIZE">>, AdjustSet),
  Parent(Enc, {"H264", "HEVC"}, {"B_FRAME"}, <<"ALL_INTRA">>, AdjustSet),
  Leaf(Enc, {"H264", "HEVC"}, {"BLUR_TYPES", "LTR_COUNT"}, AdjustSet),
  Parent(Enc, {"H264", "HEVC"}, {"LOWLATENCY_MODE"}, <<"STAGE",
      "BIT_RATE">>, AdjustOnly),
  Parent(Dec, {"H264", "HEVC", "VP9", "AV1"}, {"LOWLATENCY_MODE"}, <<
      "STAGE">>, Neither)>>

LemansDeps2 == <<
  Leaf(Enc, {"H264", "HEVC"}, {"USE_LTR", "MARK_LTR",
      "IR_PERIOD"}, AdjustSet),
  Leaf(Enc, {"H264", "HEVC"}, {"AU_DELIMITER"}, SetOnly),
  Leaf(Enc, {"H264"}, {"BASELAYER_PRIORITY"}, SetOnly),
  Leaf(Enc, All, {"TIME_DELTA_BASED_RC"}, AdjustSet)>>

LemansDeps3 == HamoaDeps2
LemansDeps4 == HamoaDeps3

LemansDeps5 == <<
  Leaf(Dec, {"AV1"}, {"DRAP"}, SetOnly),
  Parent(Enc, {"H264", "HEVC"}, {"ALL_INTRA"}, <<"LTR_COUNT", "IR_PERIOD",
      "SLICE_MODE", "BIT_RATE">>, AdjustOnly),
  Parent(Enc, {"H264", "HEVC"}, {"META_ROI_INFO"}, <<"MIN_QUALITY",
      "IR_PERIOD", "BLUR_TYPES">>, Neither)>>

Lemans == [name |-> "Lemans",
   enc |-> {"H264", "HEVC"},
   dec |-> {"H264", "HEVC", "VP9", "AV1"},
   caps |-> LemansCaps1 \o LemansCaps2 \o LemansCaps3 \o LemansCaps4 \o
           LemansCaps5 \o LemansCaps6 \o LemansCaps7 \o LemansCaps8,
   deps |-> LemansDeps1 \o LemansDeps2 \o LemansDeps3 \o LemansDeps4 \o
           LemansDeps5]

MonacoCaps1 == <<
  Fixed(Dec, All, {"FRAME_WIDTH", "FRAME_HEIGHT", "MBPF", "MB_CYCLES_VSP",
      "MB_CYCLES_VPP", "MB_CYCLES_LP"}),
  Fixed(Dec, {"VP9"}, {"FRAME_WIDTH", "FRAME_HEIGHT", "MBPF"}),
  Fixed(Enc, All, {"FRAME_WIDTH", "LOSSLESS_FRAME_WIDTH", "FRAME_HEIGHT",
      "LOSSLESS_FRAME_HEIGHT", "MBPF", "FRAME_RATE", "OPERATING_RATE",
      "MB_CYCLES_VSP", "MB_CYCLES_VPP", "MB_CYCLES_LP"}),
  Fixed(Both, {"H264"}, {"PIX_FMTS"}),
  Fixed(Both, {"HEVC", "VP9", "AV1"}, {"PIX_FMTS"}),
  Fixed(Both, All, {"MIN_BUFFERS_INPUT", "MIN_BUFFERS_OUTPUT", "INPUT_RATE",
      "TIMESTAMP_RATE", "MB_CYCLES_FW", "MB_CYCLES_FW_VPP", "CLIENT_ID"}),
  Fixed(Enc, {"H264", "HEVC"}, {"LOSSLESS_MBPF", "SCALE_FACTOR"}),
  Fixed(Dec, {"H264", "HEVC", "VP9", "AV1"}, {"BATCH_MBPF", "BATCH_FPS"}),
  Fixed(Dec, {"VP9", "AV1"}, {"MB_CYCLES_VSP"}),
  Fixed(Dec, All, {"MB_CYCLES_FW_VPP"}),
  Dynamic(Enc, All, {"HFLIP", "VFLIP"})>>

MonacoCaps2 == LemansCaps2
MonacoCaps3 == LemansCaps3
MonacoCaps4 == HamoaCaps5
MonacoCaps5 == HamoaCaps6
MonacoCaps6 == HamoaCaps7
MonacoCaps7 == HamoaCaps8
MonacoCaps8 == LemansCaps8
MonacoDeps1 == LemansDeps1
MonacoDeps2 == LemansDeps2
MonacoDeps3 == HamoaDeps2
MonacoDeps4 == HamoaDeps3
MonacoDeps5 == LemansDeps5

Monaco == [name |-> "Monaco",
   enc |-> {"H264", "HEVC"},
   dec |-> {"H264", "HEVC", "VP9", "AV1"},
   caps |-> MonacoCaps1 \o MonacoCaps2 \o MonacoCaps3 \o MonacoCaps4 \o
           MonacoCaps5 \o MonacoCaps6 \o MonacoCaps7 \o MonacoCaps8,
   deps |-> MonacoDeps1 \o MonacoDeps2 \o MonacoDeps3 \o MonacoDeps4 \o
           MonacoDeps5]

GlymurCaps1 == LemansCaps1
GlymurCaps2 == LemansCaps2
GlymurCaps3 == LemansCaps3
GlymurCaps4 == HamoaCaps5
GlymurCaps5 == HamoaCaps6
GlymurCaps6 == HamoaCaps7
GlymurCaps7 == HamoaCaps8
GlymurCaps8 == LemansCaps8
GlymurDeps1 == LemansDeps1
GlymurDeps2 == LemansDeps2
GlymurDeps3 == HamoaDeps2
GlymurDeps4 == HamoaDeps3
GlymurDeps5 == LemansDeps5

Glymur == [name |-> "Glymur",
   enc |-> {"H264", "HEVC"},
   dec |-> {"H264", "HEVC", "VP9", "AV1"},
   caps |-> GlymurCaps1 \o GlymurCaps2 \o GlymurCaps3 \o GlymurCaps4 \o
           GlymurCaps5 \o GlymurCaps6 \o GlymurCaps7 \o GlymurCaps8,
   deps |-> GlymurDeps1 \o GlymurDeps2 \o GlymurDeps3 \o GlymurDeps4 \o
           GlymurDeps5]

=============================================================================
