------------------------------ MODULE TablesSun -----------------------------
(* The capability tables of sun, pineapple and niobe                        *)
(* (driver/platform): X of X.c, which the video driver is built with, MsmX  *)
(* of msm_vidc_X.c, which msm_video is built with.  A table is cut in       *)
(* parts, row for row in the order of the file; a part with the same rows   *)
(* as one of another file is that part.                                     *)
EXTENDS CapRows

SunCaps1 == <<
  Fixed(Dec, All, {"FRAME_WIDTH", "FRAME_HEIGHT", "MBPF", "MB_CYCLES_VSP",
      "MB_CYCLES_VPP", "MB_CYCLES_LP", "MB_CYCLES_FW_VPP", "SLICE_DECODE"}),
  Fixed(Dec, {"VP9"}, {"FRAME_WIDTH", "FRAME_HEIGHT", "MBPF",
      "MB_CYCLES_VSP"}),
  Fixed(Enc, All, {"FRAME_WIDTH", "LOSSLESS_FRAME_WIDTH", "FRAME_HEIGHT",
      "LOSSLESS_FRAME_HEIGHT", "MBPF", "FRAME_RATE", "OPERATING_RATE",
      "MB_CYCLES_VSP", "MB_CYCLES_VPP", "MB_CYCLES_LP", "MB_CYCLES_FW_VPP",
      "ROTATION"}),
  Fixed(Enc, {"HEVC"}, {"FRAME_WIDTH", "LOSSLESS_FRAME_WIDTH", "FRAME_HEIGHT",
      "LOSSLESS_FRAME_HEIGHT", "MBPF"}),
  Fixed(Both, {"H264"}, {"PIX_FMTS"}),
  Fixed(Both, {"HEVC", "VP9"}, {"PIX_FMTS"}),
  Fixed(Both, All, {"MIN_BUFFERS_INPUT", "MIN_BUFFERS_OUTPUT", "INPUT_RATE",
      "TIMESTAMP_RATE", "MB_CYCLES_FW", "CLIENT_ID"}),
  Fixed(Enc, {"H264", "HEVC"}, {"LOSSLESS_MBPF", "SCALE_FACTOR",
      "SUPER_FRAME"}),
  Fixed(Dec, {"H264", "HEVC", "VP9"}, {"BATCH_MBPF", "BATCH_FPS"}),
  Fixed(Enc, {"H264"}, {"ENC_RING_BUFFER_COUNT"}),
  Dynamic(Enc, All, {"HFLIP", "VFLIP"})>>

SunCaps2 == <<
  Fixed(Enc, All, {"HEADER_MODE", "PREPEND_SPSPPS_TO_IDR",
      "WITHOUT_STARTCODE", "NAL_LENGTH_FIELD", "CSC"}),
  Dynamic(Enc, {"H264", "HEVC"}, {"REQUEST_I_FRAME", "BIT_RATE"}),
  Fixed(Enc, {"H264"}, {"BITRATE_MODE", "CAVLC_MAX_BITRATE"}),
  Fixed(Enc, {"HEVC"}, {"BITRATE_MODE", "LOSSLESS"}),
  Fixed(Enc, {"H264", "HEVC"}, {"CABAC_MAX_BITRATE", "ALLINTRA_MAX_BITRATE",
      "LOWLATENCY_MAX_BITRATE", "FRAME_SKIP_MODE", "FRAME_RC_ENABLE",
      "GOP_CLOSURE", "B_FRAME", "BLUR_TYPES", "LOWLATENCY_MODE"}),
  Dynamic(Enc, {"HEVC"}, {"CONSTANT_QUALITY"}),
  Dynamic(Enc, All, {"GOP_SIZE"})>>

SunCaps3 == <<
  Dynamic(Dec, {"H264", "HEVC", "VP9"}, {"LOWLATENCY_MODE"}),
  Fixed(Enc, {"H264", "HEVC"}, {"LTR_COUNT", "AU_DELIMITER",
      "CONTENT_ADAPTIVE_CODING", "REQUEST_PREPROCESS", "MIN_QUALITY",
      "VBV_DELAY"}),
  Dynamic(Enc, {"H264", "HEVC"}, {"USE_LTR", "MARK_LTR", "PEAK_BITRATE"}),
  Dynamic(Enc, {"H264"}, {"BASELAYER_PRIORITY"}),
  Fixed(Enc, {"H264"}, {"MIN_FRAME_QP", "I_FRAME_MIN_QP", "P_FRAME_MIN_QP",
      "B_FRAME_MIN_QP", "MAX_FRAME_QP", "I_FRAME_MAX_QP", "P_FRAME_MAX_QP",
      "B_FRAME_MAX_QP"}),
  Fixed(Enc, {"HEVC"}, {"MIN_FRAME_QP", "I_FRAME_MIN_QP", "P_FRAME_MIN_QP",
      "B_FRAME_MIN_QP", "MAX_FRAME_QP", "I_FRAME_MAX_QP", "P_FRAME_MAX_QP",
      "B_FRAME_MAX_QP"})>>

SunCaps4 == <<
  Dynamic(Enc, {"HEVC"}, {"I_FRAME_QP", "P_FRAME_QP", "B_FRAME_QP",
      "ENH_LAYER_COUNT"}),
  Dynamic(Enc, {"H264"}, {"I_FRAME_QP", "P_FRAME_QP", "B_FRAME_QP",
      "ENH_LAYER_COUNT", "L0_BR", "L1_BR", "L2_BR", "L3_BR", "L4_BR"}),
  Fixed(Enc, {"HEVC"}, {"LAYER_TYPE"}),
  Fixed(Enc, {"H264"}, {"LAYER_TYPE", "LAYER_ENABLE"}),
  Fixed(Enc, {"HEVC"}, {"LAYER_ENABLE"}),
  Dynamic(Enc, {"HEVC"}, {"L0_BR", "L1_BR", "L2_BR", "L3_BR"})>>

SunCaps5 == <<
  Dynamic(Enc, {"HEVC"}, {"L4_BR"}),
  Dynamic(Enc, {"H264"}, {"L5_BR"}),
  Dynamic(Enc, {"HEVC"}, {"L5_BR"}),
  Fixed(Enc, {"H264"}, {"ENTROPY_MODE", "LEVEL"}),
  Fixed(Dec, {"H264", "HEVC", "VP9"}, {"ENTROPY_MODE"}),
  Fixed(Both, {"H264"}, {"PROFILE"}),
  Fixed(Both, {"HEVC"}, {"PROFILE"}),
  Fixed(Dec, {"VP9"}, {"PROFILE"}),
  Fixed(Enc, {"HEVC"}, {"LEVEL"}),
  Fixed(Dec, {"H264"}, {"LEVEL"})>>

SunCaps6 == <<
  Fixed(Dec, {"HEVC"}, {"LEVEL"}),
  Fixed(Dec, {"VP9"}, {"LEVEL"}),
  Fixed(Both, {"HEVC"}, {"HEVC_TIER"}),
  Fixed(Enc, {"H264"}, {"LF_MODE", "LF_ALPHA", "LF_BETA", "TRANSFORM_8X8"}),
  Fixed(Enc, {"HEVC"}, {"LF_MODE", "LF_ALPHA", "LF_BETA"}),
  Fixed(Enc, {"H264", "HEVC"}, {"SLICE_MODE", "SLICE_MAX_BYTES",
      "SLICE_MAX_MB", "MB_RC", "CHROMA_QP_INDEX_OFFSET"})>>

SunCaps7 == <<
  Fixed(Dec, {"H264", "HEVC", "VP9"}, {"DISPLAY_DELAY_ENABLE",
      "DISPLAY_DELAY", "OUTPUT_ORDER"}),
  Fixed(Both, All, {"INPUT_BUF_HOST_MAX_COUNT", "OUTPUT_BUF_HOST_MAX_COUNT",
      "STAGE", "PIPE", "BIT_DEPTH", "FIRMWARE_PRIORITY_OFFSET"}),
  Fixed(Dec, All, {"CONCEAL_COLOR_8BIT", "CONCEAL_COLOR_10BIT",
      "BITSTREAM_SIZE_OVERWRITE", "THUMBNAIL_MODE", "DEFAULT_HEADER",
      "RAP_FRAME"}),
  Fixed(Dec, {"H264"}, {"POC"}),
  Fixed(Enc, All, {"QUALITY_MODE"}),
  Fixed(Dec, {"H264", "HEVC"}, {"CODED_FRAMES"}),
  Dynamic(Dec, {"H264", "HEVC"}, {"CODEC_CONFIG"}),
  Dynamic(Dec, All, {"SEQ_CHANGE_AT_SYNC_FRAME"}),
  Fixed(Enc, {"H264", "HEVC"}, {"ALL_INTRA", "COMPLEXITY"})>>

SunDeps1 == <<
  Parent(Enc, {"H264"}, {"PIX_FMTS"}, <<"BIT_DEPTH">>, Neither),
  Parent(Enc, {"HEVC"}, {"PIX_FMTS"}, <<"PROFILE", "MIN_FRAME_QP",
      "MAX_FRAME_QP", "I_FRAME_QP", "P_FRAME_QP", "B_FRAME_QP", "MIN_QUALITY",
      "BLUR_TYPES", "LTR_COUNT", "BIT_DEPTH">>, Neither),
  Parent(Dec, {"HEVC"}, {"PIX_FMTS"}, <<"PROFILE">>, Neither),
  Leaf(Enc, All, {"BIT_DEPTH"}, AdjustOnly),
  Leaf(Enc, All, {"FRAME_RATE", "HFLIP", "VFLIP", "ROTATION", "HEADER_MODE",
      "WITHOUT_STARTCODE"}, SetOnly),
  Leaf(Enc, {"H264"}, {"ENC_RING_BUFFER_COUNT"}, SetOnly),
  Parent(Enc, {"H264", "HEVC"}, {"SUPER_FRAME"}, <<"INPUT_BUF_HOST_MAX_COUNT",
      "OUTPUT_BUF_HOST_MAX_COUNT">>, Neither),
  Leaf(Enc, {"H264", "HEVC"}, {"REQUEST_I_FRAME"}, SetOnly),
  Parent(Enc, {"H264"}, {"BIT_RATE"}, <<"PEAK_BITRATE", "L0_BR">>, AdjustSet),
  Parent(Enc, {"HEVC"}, {"BIT_RATE"}, <<"PEAK_BITRATE", "L0_BR">>, AdjustSet),
  Parent(Enc, {"H264"}, {"BITRATE_MODE"}, <<"LTR_COUNT", "I_FRAME_QP",
      "P_FRAME_QP", "B_FRAME_QP", "ENH_LAYER_COUNT", "BIT_RATE",
      "MIN_QUALITY", "VBV_DELAY", "PEAK_BITRATE", "SLICE_MODE",
      "CONTENT_ADAPTIVE_CODING", "BLUR_TYPES",
      "LOWLATENCY_MODE">>, AdjustSet),
  Parent(Enc, {"HEVC"}, {"BITRATE_MODE"}, <<"LTR_COUNT", "I_FRAME_QP",
      "P_FRAME_QP", "B_FRAME_QP", "CONSTANT_QUALITY", "ENH_LAYER_COUNT",
      "BIT_RATE", "MIN_QUALITY", "VBV_DELAY", "PEAK_BITRATE", "SLICE_MODE",
      "CONTENT_ADAPTIVE_CODING", "BLUR_TYPES",
      "LOWLATENCY_MODE">>, AdjustSet),
  Leaf(Enc, {"HEVC"}, {"CONSTANT_QUALITY"}, SetOnly),
  Parent(Enc, All, {"GOP_SIZE"}, <<"ALL_INTRA">>, AdjustSet),
  Parent(Enc, {"H264", "HEVC"}, {"B_FRAME"}, <<"ALL_INTRA">>, AdjustSet)>>

SunDeps2 == <<
  Leaf(Enc, {"H264", "HEVC"}, {"BLUR_TYPES", "LTR_COUNT", "USE_LTR",
      "MARK_LTR", "REQUEST_PREPROCESS", "PEAK_BITRATE"}, AdjustSet),
  Parent(Enc, {"H264", "HEVC"}, {"LOWLATENCY_MODE"}, <<"STAGE",
      "BIT_RATE">>, AdjustOnly),
  Parent(Dec, {"H264", "HEVC", "VP9"}, {"LOWLATENCY_MODE"}, <<
      "STAGE">>, Neither),
  Leaf(Enc, {"H264", "HEVC"}, {"AU_DELIMITER", "VBV_DELAY"}, SetOnly),
  Parent(Enc, {"H264", "HEVC"}, {"CONTENT_ADAPTIVE_CODING"}, <<
      "REQUEST_PREPROCESS">>, AdjustSet),
  Parent(Enc, {"H264"}, {"MIN_QUALITY"}, <<"BLUR_TYPES">>, AdjustSet),
  Parent(Enc, {"HEVC"}, {"MIN_QUALITY"}, <<"BLUR_TYPES">>, AdjustSet),
  Leaf(Enc, {"H264"}, {"MIN_FRAME_QP", "MAX_FRAME_QP"}, SetOnly),
  Leaf(Enc, {"HEVC"}, {"MIN_FRAME_QP", "MAX_FRAME_QP", "I_FRAME_QP",
      "P_FRAME_QP", "B_FRAME_QP"}, AdjustSet),
  Leaf(Enc, {"H264"}, {"I_FRAME_QP", "P_FRAME_QP", "B_FRAME_QP"}, SetOnly),
  Parent(Enc, {"H264", "HEVC"}, {"LAYER_TYPE"}, <<"CONTENT_ADAPTIVE_CODING",
      "LTR_COUNT">>, Neither),
  Parent(Enc, {"H264", "HEVC"}, {"LAYER_ENABLE"}, <<
      "CONTENT_ADAPTIVE_CODING">>, Neither),
  Parent(Enc, {"H264", "HEVC"}, {"ENH_LAYER_COUNT"}, <<"GOP_SIZE", "B_FRAME",
      "BIT_RATE", "MIN_QUALITY", "SLICE_MODE", "LTR_COUNT">>, AdjustSet),
  Parent(Enc, {"H264", "HEVC"}, {"L0_BR"}, <<"L1_BR">>, AdjustSet),
  Parent(Enc, {"H264", "HEVC"}, {"L1_BR"}, <<"L2_BR">>, AdjustSet),
  Parent(Enc, {"H264", "HEVC"}, {"L2_BR"}, <<"L3_BR">>, AdjustSet),
  Parent(Enc, {"H264", "HEVC"}, {"L3_BR"}, <<"L4_BR">>, AdjustSet),
  Parent(Enc, {"H264", "HEVC"}, {"L4_BR"}, <<"L5_BR">>, AdjustSet)>>

SunDeps3 == <<
  Leaf(Enc, {"H264", "HEVC"}, {"L5_BR", "CHROMA_QP_INDEX_OFFSET"}, AdjustSet),
  Parent(Enc, {"H264"}, {"ENTROPY_MODE"}, <<"BIT_RATE">>, AdjustSet),
  Parent(Enc, {"H264"}, {"PROFILE"}, <<"ENTROPY_MODE", "TRANSFORM_8X8",
      "CHROMA_QP_INDEX_OFFSET">>, SetOnly),
  Parent(Dec, {"H264"}, {"PROFILE"}, <<"ENTROPY_MODE">>, SetOnly),
  Leaf(Both, {"HEVC"}, {"PROFILE"}, AdjustSet),
  Leaf(Dec, {"VP9"}, {"PROFILE"}, SetOnly),
  Leaf(Dec, All, {"LEVEL", "CONCEAL_COLOR_8BIT", "CONCEAL_COLOR_10BIT",
      "RAP_FRAME"}, SetOnly),
  Leaf(Enc, All, {"LEVEL", "LF_MODE"}, SetOnly),
  Leaf(Both, {"HEVC"}, {"HEVC_TIER"}, SetOnly),
  Parent(Enc, {"H264", "HEVC"}, {"SLICE_MODE"}, <<"STAGE",
      "DELIVERY_MODE">>, AdjustSet),
  Leaf(Enc, {"H264"}, {"TRANSFORM_8X8"}, AdjustSet),
  Parent(Dec, {"H264", "HEVC", "VP9"}, {"DISPLAY_DELAY_ENABLE", "DISPLAY_DELAY"}, <<
      "OUTPUT_ORDER">>, Neither),
  Leaf(Dec, {"H264", "HEVC", "VP9"}, {"OUTPUT_ORDER"}, AdjustSet),
  Leaf(Both, All, {"INPUT_BUF_HOST_MAX_COUNT",
      "OUTPUT_BUF_HOST_MAX_COUNT"}, AdjustSet),
  Leaf(Enc, {"H264", "HEVC"}, {"INPUT_BUF_HOST_MAX_COUNT",
      "OUTPUT_BUF_HOST_MAX_COUNT"}, AdjustSet),
  Leaf(Both, All, {"STAGE", "PIPE"}, SetOnly),
  Leaf(Enc, {"H264", "HEVC"}, {"STAGE"}, SetOnly),
  Leaf(Dec, {"H264", "HEVC", "VP9"}, {"STAGE"}, SetOnly),
  Parent(Dec, All, {"THUMBNAIL_MODE"}, <<"OUTPUT_ORDER">>, SetOnly),
  Leaf(Both, All, {"FIRMWARE_PRIORITY_OFFSET"}, Neither),
  Parent(Enc, {"H264", "HEVC"}, {"ALL_INTRA"}, <<"LTR_COUNT", "SLICE_MODE",
      "BIT_RATE">>, AdjustOnly)>>

Sun == [name |-> "Sun",
   enc |-> {"H264", "HEVC"},
   dec |-> {"H264", "HEVC", "VP9"},
   caps |-> SunCaps1 \o SunCaps2 \o SunCaps3 \o SunCaps4 \o SunCaps5 \o
           SunCaps6 \o SunCaps7,
   deps |-> SunDeps1 \o SunDeps2 \o SunDeps3]

MsmSunCaps1 == <<
  Fixed(Both, All, {"DRV_VERSION", "MIN_BUFFERS_INPUT",
      "MIN_BUFFERS_OUTPUT"}),
  Fixed(Dec, All, {"FRAME_WIDTH", "SECURE_FRAME_WIDTH", "FRAME_HEIGHT",
      "SECURE_FRAME_HEIGHT", "MBPF"}),
  Fixed(Dec, {"VP9"}, {"FRAME_WIDTH", "FRAME_HEIGHT", "MBPF"}),
  Fixed(Enc, All, {"FRAME_WIDTH", "LOSSLESS_FRAME_WIDTH",
      "SECURE_FRAME_WIDTH", "FRAME_HEIGHT", "LOSSLESS_FRAME_HEIGHT",
      "SECURE_FRAME_HEIGHT", "MBPF", "FRAME_RATE"}),
  Fixed(Enc, {"HEVC"}, {"FRAME_WIDTH", "LOSSLESS_FRAME_WIDTH",
      "SECURE_FRAME_WIDTH", "FRAME_HEIGHT", "LOSSLESS_FRAME_HEIGHT",
      "SECURE_FRAME_HEIGHT", "MBPF"}),
  Fixed(Enc, {"HEIC"}, {"FRAME_WIDTH", "FRAME_HEIGHT"}),
  Fixed(Both, {"H264"}, {"PIX_FMTS"}),
  Fixed(Both, {"HEVC", "VP9", "AV1"}, {"PIX_FMTS"}),
  Fixed(Enc, {"HEIC"}, {"PIX_FMTS", "MBPF", "FRAME_RATE"}),
  Fixed(Dec, {"HEIC"}, {"PIX_FMTS", "MBPF"}),
  Fixed(Both, {"HEIC"}, {"MIN_BUFFERS_INPUT"}),
  Fixed(Enc, {"H264", "HEVC"}, {"LOSSLESS_MBPF"}),
  Fixed(Dec, {"H264", "HEVC", "VP9", "AV1"}, {"BATCH_MBPF", "BATCH_FPS"}),
  Fixed(Both, {"H264", "HEVC", "VP9", "AV1"}, {"SECURE_MBPF"}),
  Fixed(Enc, {"HEVC"}, {"SECURE_MBPF"})>>

MsmSunCaps2 == <<
  Dynamic(Dec, All, {"FRAME_RATE", "OPERATING_RATE", "OUTPUT_TX_FENCE_ID",
      "INPUT_RX_FENCE_FD"}),
  Dynamic(Dec, {"VP9"}, {"FRAME_RATE"}),
  Fixed(Enc, All, {"OPERATING_RATE", "MB_CYCLES_VSP", "MB_CYCLES_VPP",
      "MB_CYCLES_LP", "MB_CYCLES_FW_VPP"}),
  Fixed(Both, All, {"INPUT_RATE", "TIMESTAMP_RATE", "MB_CYCLES_FW",
      "CLIENT_ID"}),
  Fixed(Enc, {"H264", "HEVC"}, {"SCALE_FACTOR"}),
  Fixed(Dec, All, {"MB_CYCLES_VSP", "MB_CYCLES_VPP", "MB_CYCLES_LP",
      "MB_CYCLES_FW_VPP", "OUTPUT_TX_FENCE_FD"}),
  Fixed(Dec, {"VP9", "AV1"}, {"MB_CYCLES_VSP"}),
  Fixed(Enc, {"H264"}, {"ENC_RING_BUFFER_COUNT"}),
  Fixed(Both, {"H264", "HEVC", "VP9", "AV1"}, {"SECURE_MODE"}),
  Fixed(Dec, {"H264", "HEVC", "VP9", "AV1"}, {"META_OUTPUT_TX_FENCE",
      "OUTPUT_RX_FENCE_ENABLE", "INPUT_RX_FENCE_ENABLE",
      "INPUT_TX_FENCE_ENABLE"}),
  Dynamic(Both, All, {"FENCE_INFO"})>>

MsmSunCaps3 == <<
  Fixed(Dec, {"H264", "HEVC", "VP9", "AV1"}, {"INPUT_RX_FENCE_TYPE",
      "INPUT_TX_FENCE_TYPE", "OUTPUT_RX_FENCE_TYPE", "OUTPUT_TX_FENCE_TYPE"}),
  Fixed(Dec, {"H264", "HEVC"}, {"TS_REORDER"}),
  Dynamic(Enc, All, {"HFLIP", "VFLIP"}),
  Fixed(Enc, All, {"ROTATION", "HEADER_MODE", "PREPEND_SPSPPS_TO_IDR",
      "VUI_TIMING_INFO", "WITHOUT_STARTCODE", "NAL_LENGTH_FIELD"}),
  Dynamic(Enc, {"H264", "HEVC"}, {"SUPER_FRAME", "REQUEST_I_FRAME"}),
  Fixed(Dec, {"H264", "HEVC", "AV1"}, {"SLICE_DECODE",
      "EARLY_NOTIFY_ENABLE"}),
  Dynamic(Dec, {"H264", "HEVC", "AV1"}, {"EARLY_NOTIFY_LINE_COUNT",
      "EARLY_NOTIFY_FENCE_COUNT"}),
  Fixed(Dec, {"AV1"}, {"WITHOUT_STARTCODE"})>>

MsmSunCaps4 == <<
  Dynamic(Enc, {"H264", "HEVC"}, {"BIT_RATE", "BLUR_RESOLUTION"}),
  Fixed(Enc, {"H264"}, {"BITRATE_MODE", "CAVLC_MAX_BITRATE"}),
  Fixed(Enc, {"HEVC"}, {"BITRATE_MODE", "LOSSLESS", "OPEN_GOP"}),
  Fixed(Enc, {"HEIC"}, {"BITRATE_MODE"}),
  Fixed(Enc, {"H264", "HEVC"}, {"CABAC_MAX_BITRATE", "ALLINTRA_MAX_BITRATE",
      "LOWLATENCY_MAX_BITRATE", "GOP_CLOSURE", "B_FRAME", "BLUR_TYPES"}),
  Fixed(Dec, All, {"NUM_COMV"}),
  Fixed(Enc, {"H264", "HEVC", "HEIC"}, {"FRAME_SKIP_MODE",
      "FRAME_RC_ENABLE"}),
  Dynamic(Enc, {"HEVC"}, {"CONSTANT_QUALITY"}),
  Dynamic(Enc, {"HEIC"}, {"CONSTANT_QUALITY"}),
  Dynamic(Enc, All, {"GOP_SIZE"}),
  Dynamic(Enc, {"HEIC"}, {"GOP_SIZE"}),
  Fixed(Enc, {"HEIC"}, {"B_FRAME"}),
  Fixed(Enc, All, {"CSC", "CSC_CUSTOM_MATRIX"})>>

MsmSunCaps5 == <<
  Fixed(Enc, {"H264", "HEVC"}, {"LOWLATENCY_MODE", "LTR_COUNT", "IR_TYPE",
      "AU_DELIMITER", "TIME_DELTA_BASED_RC", "CONTENT_ADAPTIVE_CODING",
      "REQUEST_PREPROCESS", "BITRATE_BOOST", "MIN_QUALITY", "VBV_DELAY"}),
  Dynamic(Dec, {"H264", "HEVC", "VP9", "AV1"}, {"LOWLATENCY_MODE"}),
  Dynamic(Enc, {"H264", "HEVC"}, {"USE_LTR", "MARK_LTR", "IR_PERIOD",
      "PEAK_BITRATE"}),
  Dynamic(Enc, {"H264"}, {"BASELAYER_PRIORITY"}),
  Fixed(Enc, {"HEIC"}, {"TIME_DELTA_BASED_RC"}),
  Fixed(Enc, {"H264"}, {"MIN_FRAME_QP", "I_FRAME_MIN_QP", "P_FRAME_MIN_QP",
      "B_FRAME_MIN_QP"}),
  Fixed(Enc, {"HEVC", "HEIC"}, {"MIN_FRAME_QP", "I_FRAME_MIN_QP",
      "P_FRAME_MIN_QP"})>>

MsmSunCaps6 == <<
  Fixed(Enc, {"HEVC", "HEIC"}, {"B_FRAME_MIN_QP"}),
  Fixed(Enc, {"H264"}, {"MAX_FRAME_QP", "I_FRAME_MAX_QP", "P_FRAME_MAX_QP",
      "B_FRAME_MAX_QP"}),
  Fixed(Enc, {"HEVC", "HEIC"}, {"MAX_FRAME_QP", "I_FRAME_MAX_QP",
      "P_FRAME_MAX_QP", "B_FRAME_MAX_QP"}),
  Dynamic(Enc, {"HEVC"}, {"I_FRAME_QP", "P_FRAME_QP", "B_FRAME_QP",
      "ENH_LAYER_COUNT"}),
  Dynamic(Enc, {"H264"}, {"I_FRAME_QP", "P_FRAME_QP", "B_FRAME_QP",
      "ENH_LAYER_COUNT", "L0_BR"}),
  Fixed(Enc, {"HEVC"}, {"LAYER_TYPE"}),
  Fixed(Enc, {"H264"}, {"LAYER_TYPE", "LAYER_ENABLE"}),
  Fixed(Enc, {"HEVC"}, {"LAYER_ENABLE"}),
  Fixed(Dec, {"AV1"}, {"ENH_LAYER_COUNT"}),
  Dynamic(Enc, {"HEVC"}, {"L0_BR"})>>

MsmSunCaps7 == <<
  Dynamic(Enc, {"H264"}, {"L1_BR", "L2_BR", "L3_BR", "L4_BR", "L5_BR"}),
  Dynamic(Enc, {"HEVC"}, {"L1_BR", "L2_BR", "L3_BR", "L4_BR", "L5_BR"}),
  Fixed(Enc, {"H264"}, {"ENTROPY_MODE"}),
  Fixed(Dec, {"H264", "HEVC", "VP9", "AV1"}, {"ENTROPY_MODE"}),
  Fixed(Both, {"H264"}, {"PROFILE"}),
  Fixed(Both, {"HEIC"}, {"PROFILE"}),
  Fixed(Both, {"HEVC"}, {"PROFILE"})>>

MsmSunCaps8 == <<
  Fixed(Dec, {"VP9"}, {"PROFILE"}),
  Fixed(Dec, {"AV1"}, {"PROFILE"}),
  Fixed(Enc, {"H264"}, {"LEVEL"}),
  Fixed(Enc, {"HEVC", "HEIC"}, {"LEVEL"}),
  Fixed(Dec, {"H264"}, {"LEVEL"}),
  Fixed(Dec, {"HEVC", "HEIC"}, {"LEVEL"}),
  Fixed(Dec, {"VP9"}, {"LEVEL"})>>

MsmSunCaps9 == <<
  Fixed(Dec, {"AV1"}, {"LEVEL", "AV1_TIER"}),
  Fixed(Both, {"HEVC"}, {"HEVC_TIER"}),
  Fixed(Both, {"HEIC"}, {"HEVC_TIER"}),
  Fixed(Enc, {"H264"}, {"LF_MODE", "LF_ALPHA", "LF_BETA", "TRANSFORM_8X8"}),
  Fixed(Enc, {"HEVC", "HEIC"}, {"LF_MODE", "LF_ALPHA", "LF_BETA"}),
  Fixed(Enc, {"H264", "HEVC"}, {"SLICE_MODE", "SLICE_MAX_BYTES",
      "SLICE_MAX_MB", "MB_RC", "CHROMA_QP_INDEX_OFFSET"}),
  Fixed(Enc, {"HEIC"}, {"SLICE_MODE"})>>

MsmSunCaps10 == <<
  Fixed(Dec, {"H264", "HEVC", "VP9", "AV1"}, {"DISPLAY_DELAY_ENABLE",
      "DISPLAY_DELAY", "OUTPUT_ORDER"}),
  Fixed(Both, All, {"INPUT_BUF_HOST_MAX_COUNT", "OUTPUT_BUF_HOST_MAX_COUNT",
      "STAGE", "PIPE", "BIT_DEPTH", "FIRMWARE_PRIORITY_OFFSET"}),
  Fixed(Dec, All, {"CONCEAL_COLOR_8BIT", "CONCEAL_COLOR_10BIT",
      "BITSTREAM_SIZE_OVERWRITE", "THUMBNAIL_MODE", "DEFAULT_HEADER",
      "RAP_FRAME"}),
  Fixed(Dec, {"H264"}, {"POC"}),
  Fixed(Dec, {"H264", "HEVC"}, {"MAX_NUM_REORDER_FRAMES"}),
  Fixed(Enc, All, {"QUALITY_MODE", "CRITICAL_PRIORITY"}),
  Fixed(Dec, {"H264", "HEVC", "HEIC"}, {"CODED_FRAMES"}),
  Dynamic(Dec, {"H264", "HEVC", "HEIC", "AV1"}, {"CODEC_CONFIG"}),
  Dynamic(Dec, All, {"SEQ_CHANGE_AT_SYNC_FRAME",
      "INPUT_EXTRA_METADATA_OFFSET"}),
  Dynamic(Both, All, {"PRIORITY"}),
  Dynamic(Enc, All, {"RESERVE_DURATION", "ENC_IP_CR"})>>

MsmSunCaps11 == <<
  Fixed(Dec, {"AV1"}, {"FILM_GRAIN", "SUPER_BLOCK", "DRAP",
      "META_BITSTREAM_RESOLUTION", "META_CROP_OFFSETS"}),
  Fixed(Both, All, {"LAST_FLAG_EVENT_ENABLE", "META_TIMESTAMP"}),
  Fixed(Enc, {"H264", "HEVC"}, {"ALL_INTRA", "META_LTR_MARK_USE"}),
  Fixed(Enc, All, {"META_SEQ_HDR_NAL"}),
  Fixed(Dec, All, {"META_DPB_MISR", "META_OPB_MISR",
      "META_CONCEALED_MB_CNT"}),
  Fixed(Dec, {"H264"}, {"META_INTERLACE"}),
  Fixed(Dec, {"HEVC", "VP9", "AV1"}, {"META_HIST_INFO"})>>

MsmSunCaps12 == <<
  Fixed(Enc, {"HEVC"}, {"META_HIST_INFO", "META_HDR10_MAX_RGB_INFO",
      "META_VIEW_ID", "META_THREE_DIMENSIONAL_REF_DISP_INFO",
      "META_DOLBY_RPU"}),
  Fixed(Dec, {"H264", "HEVC"}, {"META_TRANSCODING_STAT_INFO"}),
  Fixed(Enc, {"H264", "HEVC"}, {"META_TRANSCODING_STAT_INFO"}),
  Dynamic(Dec, All, {"META_PICTURE_TYPE"}),
  Fixed(Enc, {"HEVC", "HEIC"}, {"META_SEI_MASTERING_DISP", "META_SEI_CLL",
      "META_HDR10PLUS"}),
  Fixed(Dec, {"HEVC", "HEIC", "AV1"}, {"META_SEI_MASTERING_DISP",
      "META_SEI_CLL", "META_HDR10PLUS"})>>

MsmSunCaps13 == <<
  Fixed(Dec, {"H264", "HEVC"}, {"META_DOLBY_RPU"}),
  Fixed(Enc, {"H264", "HEVC"}, {"META_EVA_STATS", "META_ROI_INFO",
      "META_SALIENCY_INFO", "COMPLEXITY"}),
  Fixed(Enc, All, {"META_BUF_TAG", "META_ENC_QP_METADATA"}),
  Dynamic(Dec, All, {"META_BUF_TAG"}),
  Fixed(Dec, All, {"META_DPB_TAG_LIST", "META_SUBFRAME_OUTPUT",
      "META_DEC_QP_METADATA"}),
  Fixed(Enc, {"H264", "HEVC", "HEIC"}, {"META_SUBFRAME_OUTPUT"}),
  Fixed(Enc, {"HEIC"}, {"GRID_ENABLE", "GRID_SIZE"}),
  Fixed(Enc, {"HEVC"}, {"DELIVERY_MODE", "CAPTURE_DATA_OFFSET"}),
  Fixed(Enc, {"H264"}, {"DELIVERY_MODE"}),
  Dynamic(Enc, All, {"SIGNAL_COLOR_INFO"})>>

MsmSunDeps1 == <<
  Parent(Enc, {"H264"}, {"PIX_FMTS"}, <<"META_ROI_INFO", "IR_PERIOD", "CSC",
      "BIT_DEPTH">>, Neither),
  Parent(Enc, {"HEVC"}, {"PIX_FMTS"}, <<"PROFILE", "MIN_FRAME_QP",
      "MAX_FRAME_QP", "I_FRAME_QP", "P_FRAME_QP", "B_FRAME_QP",
      "META_ROI_INFO", "MIN_QUALITY", "BLUR_TYPES", "IR_PERIOD", "LTR_COUNT",
      "CSC", "BIT_DEPTH">>, Neither),
  Parent(Enc, {"HEIC"}, {"PIX_FMTS"}, <<"PROFILE", "CSC",
      "BIT_DEPTH">>, Neither),
  Parent(Dec, {"HEVC", "HEIC"}, {"PIX_FMTS"}, <<"PROFILE">>, Neither),
  Leaf(Enc, All, {"BIT_DEPTH"}, AdjustOnly),
  Parent(Enc, All, {"FRAME_RATE"}, <<"LEVEL">>, SetOnly),
  Leaf(Dec, All, {"FRAME_RATE", "OPERATING_RATE"}, AdjustOnly),
  Leaf(Enc, {"H264"}, {"ENC_RING_BUFFER_COUNT"}, SetOnly),
  Leaf(Both, {"H264", "HEVC", "VP9", "AV1"}, {"SECURE_MODE"}, SetOnly),
  Leaf(Both, All, {"FENCE_INFO"}, AdjustOnly),
  Parent(Dec, {"H264", "HEVC", "AV1"}, {"META_OUTPUT_TX_FENCE"}, <<
      "OUTPUT_TX_FENCE_TYPE", "SLICE_DECODE",
      "EARLY_NOTIFY_ENABLE">>, Neither),
  Parent(Dec, {"VP9"}, {"META_OUTPUT_TX_FENCE"}, <<
      "OUTPUT_TX_FENCE_TYPE">>, Neither),
  Parent(Dec, {"H264", "HEVC", "VP9", "AV1"}, {"INPUT_RX_FENCE_ENABLE"}, <<
      "INPUT_RX_FENCE_TYPE">>, Neither),
  Parent(Dec, {"H264", "HEVC", "VP9", "AV1"}, {"INPUT_TX_FENCE_ENABLE"}, <<
      "INPUT_TX_FENCE_TYPE">>, Neither),
  Parent(Dec, {"H264", "HEVC", "VP9", "AV1"}, {"OUTPUT_RX_FENCE_ENABLE"}, <<
      "OUTPUT_RX_FENCE_TYPE">>, Neither),
  Leaf(Dec, {"H264", "HEVC", "VP9", "AV1"}, {"INPUT_RX_FENCE_TYPE",
      "INPUT_TX_FENCE_TYPE", "OUTPUT_TX_FENCE_TYPE",
      "OUTPUT_RX_FENCE_TYPE"}, AdjustOnly),
  Leaf(Enc, All, {"HFLIP", "VFLIP", "ROTATION"}, SetOnly),
  Parent(Enc, {"H264", "HEVC"}, {"SUPER_FRAME"}, <<"INPUT_BUF_HOST_MAX_COUNT",
      "OUTPUT_BUF_HOST_MAX_COUNT">>, Neither),
  Leaf(Dec, {"H264", "HEVC", "AV1"}, {"SLICE_DECODE",
      "EARLY_NOTIFY_FENCE_COUNT"}, AdjustSet),
  Parent(Dec, {"H264", "HEVC", "AV1"}, {"EARLY_NOTIFY_ENABLE"}, <<
      "EARLY_NOTIFY_LINE_COUNT">>, AdjustSet),
  Parent(Dec, {"H264", "HEVC", "AV1"}, {"EARLY_NOTIFY_LINE_COUNT"}, <<
      "EARLY_NOTIFY_FENCE_COUNT">>, AdjustSet)>>

MsmSunDeps2 == <<
  Leaf(Enc, All, {"HEADER_MODE", "WITHOUT_STARTCODE"}, SetOnly),
  Leaf(Dec, {"AV1"}, {"WITHOUT_STARTCODE"}, SetOnly),
  Leaf(Enc, {"H264", "HEVC"}, {"REQUEST_I_FRAME"}, SetOnly),
  Parent(Enc, {"H264"}, {"BIT_RATE"}, <<"PEAK_BITRATE", "BITRATE_BOOST",
      "L0_BR", "LEVEL">>, AdjustSet),
  Parent(Enc, {"HEVC"}, {"BIT_RATE"}, <<"PEAK_BITRATE", "BITRATE_BOOST",
      "L0_BR", "LEVEL">>, AdjustSet),
  Parent(Enc, {"H264"}, {"BITRATE_MODE"}, <<"LTR_COUNT", "IR_PERIOD",
      "TIME_DELTA_BASED_RC", "I_FRAME_QP", "P_FRAME_QP", "B_FRAME_QP",
      "ENH_LAYER_COUNT", "BIT_RATE", "META_ROI_INFO", "MIN_QUALITY",
      "BITRATE_BOOST", "VBV_DELAY", "PEAK_BITRATE", "SLICE_MODE",
      "CONTENT_ADAPTIVE_CODING", "BLUR_TYPES", "LOWLATENCY_MODE",
      "META_TRANSCODING_STAT_INFO">>, AdjustSet),
  Parent(Enc, {"HEVC"}, {"BITRATE_MODE"}, <<"LTR_COUNT", "IR_PERIOD",
      "TIME_DELTA_BASED_RC", "I_FRAME_QP", "P_FRAME_QP", "B_FRAME_QP",
      "CONSTANT_QUALITY", "ENH_LAYER_COUNT", "BIT_RATE", "META_ROI_INFO",
      "MIN_QUALITY", "BITRATE_BOOST", "VBV_DELAY", "PEAK_BITRATE",
      "SLICE_MODE", "CONTENT_ADAPTIVE_CODING", "BLUR_TYPES",
      "LOWLATENCY_MODE", "META_EVA_STATS", "META_TRANSCODING_STAT_INFO",
      "OPEN_GOP">>, AdjustSet),
  Parent(Enc, {"HEIC"}, {"BITRATE_MODE"}, <<"TIME_DELTA_BASED_RC",
      "CONSTANT_QUALITY">>, AdjustSet),
  Leaf(Enc, {"HEVC", "HEIC"}, {"CONSTANT_QUALITY"}, SetOnly),
  Parent(Enc, All, {"GOP_SIZE"}, <<"ALL_INTRA">>, AdjustSet),
  Leaf(Enc, {"HEIC"}, {"GOP_SIZE"}, SetOnly),
  Parent(Enc, {"HEVC"}, {"OPEN_GOP"}, <<"GOP_SIZE">>, AdjustSet),
  Parent(Enc, {"H264", "HEVC"}, {"B_FRAME"}, <<"ALL_INTRA">>, AdjustSet),
  Leaf(Enc, {"HEIC"}, {"B_FRAME"}, SetOnly),
  Parent(Enc, {"H264", "HEVC"}, {"BLUR_TYPES"}, <<
      "BLUR_RESOLUTION">>, AdjustSet),
  Leaf(Enc, {"H264", "HEVC"}, {"BLUR_RESOLUTION"}, AdjustSet),
  Parent(Enc, All, {"CSC"}, <<"CSC_CUSTOM_MATRIX">>, AdjustSet),
  Leaf(Enc, All, {"CSC_CUSTOM_MATRIX"}, AdjustSet)>>

MsmSunDeps3 == <<
  Parent(Enc, {"H264", "HEVC"}, {"LOWLATENCY_MODE"}, <<"STAGE",
      "BIT_RATE">>, AdjustOnly),
  Parent(Dec, {"H264", "HEVC", "AV1"}, {"LOWLATENCY_MODE"}, <<"STAGE",
      "SLICE_DECODE", "EARLY_NOTIFY_ENABLE">>, Neither),
  Parent(Dec, {"VP9"}, {"LOWLATENCY_MODE"}, <<"STAGE">>, Neither),
  Leaf(Enc, {"H264", "HEVC"}, {"LTR_COUNT", "USE_LTR", "MARK_LTR",
      "IR_PERIOD", "REQUEST_PREPROCESS", "PEAK_BITRATE"}, AdjustSet),
  Leaf(Enc, {"H264", "HEVC"}, {"AU_DELIMITER", "VBV_DELAY"}, SetOnly),
  Leaf(Enc, {"H264"}, {"BASELAYER_PRIORITY", "MIN_FRAME_QP",
      "MAX_FRAME_QP"}, SetOnly),
  Leaf(Enc, All, {"TIME_DELTA_BASED_RC"}, AdjustSet),
  Parent(Enc, {"H264", "HEVC"}, {"CONTENT_ADAPTIVE_CODING"}, <<
      "REQUEST_PREPROCESS">>, AdjustSet),
  Parent(Enc, {"H264", "HEVC"}, {"BITRATE_BOOST"}, <<"LEVEL">>, AdjustSet),
  Parent(Enc, {"H264", "HEVC"}, {"MIN_QUALITY"}, <<"BLUR_TYPES">>, AdjustSet),
  Leaf(Enc, {"HEVC"}, {"MIN_FRAME_QP", "MAX_FRAME_QP", "I_FRAME_QP",
      "P_FRAME_QP", "B_FRAME_QP"}, AdjustSet),
  Leaf(Enc, {"H264"}, {"I_FRAME_QP", "P_FRAME_QP", "B_FRAME_QP"}, SetOnly),
  Parent(Enc, {"H264"}, {"LAYER_TYPE"}, <<"CONTENT_ADAPTIVE_CODING",
      "LTR_COUNT", "LEVEL">>, Neither),
  Parent(Enc, {"HEVC"}, {"LAYER_TYPE"}, <<"CONTENT_ADAPTIVE_CODING",
      "LTR_COUNT", "OPEN_GOP">>, Neither),
  Parent(Enc, {"H264", "HEVC"}, {"LAYER_ENABLE"}, <<"CONTENT_ADAPTIVE_CODING",
      "LEVEL">>, Neither),
  Parent(Enc, {"H264"}, {"ENH_LAYER_COUNT"}, <<"GOP_SIZE", "B_FRAME",
      "BIT_RATE", "MIN_QUALITY", "SLICE_MODE", "LTR_COUNT",
      "LEVEL">>, AdjustSet),
  Parent(Enc, {"HEVC"}, {"ENH_LAYER_COUNT"}, <<"GOP_SIZE", "B_FRAME",
      "BIT_RATE", "MIN_QUALITY", "SLICE_MODE", "LTR_COUNT",
      "OPEN_GOP">>, AdjustSet)>>

MsmSunDeps4 == <<
  Leaf(Dec, {"AV1"}, {"ENH_LAYER_COUNT", "AV1_TIER"}, SetOnly),
  Parent(Enc, {"H264", "HEVC"}, {"L0_BR"}, <<"L1_BR">>, AdjustSet),
  Parent(Enc, {"H264", "HEVC"}, {"L1_BR"}, <<"L2_BR">>, AdjustSet),
  Parent(Enc, {"H264", "HEVC"}, {"L2_BR"}, <<"L3_BR">>, AdjustSet),
  Parent(Enc, {"H264", "HEVC"}, {"L3_BR"}, <<"L4_BR">>, AdjustSet),
  Parent(Enc, {"H264", "HEVC"}, {"L4_BR"}, <<"L5_BR">>, AdjustSet),
  Leaf(Enc, {"H264", "HEVC"}, {"L5_BR", "LEVEL"}, AdjustSet),
  Parent(Enc, {"H264"}, {"ENTROPY_MODE"}, <<"BIT_RATE">>, AdjustSet),
  Parent(Enc, {"H264"}, {"PROFILE"}, <<"ENTROPY_MODE", "TRANSFORM_8X8",
      "CHROMA_QP_INDEX_OFFSET">>, SetOnly),
  Parent(Dec, {"H264"}, {"PROFILE"}, <<"ENTROPY_MODE">>, SetOnly),
  Parent(Enc, {"HEIC"}, {"PROFILE"}, <<"META_SEI_MASTERING_DISP",
      "META_SEI_CLL", "META_HDR10PLUS">>, AdjustSet),
  Parent(Enc, {"HEVC"}, {"PROFILE"}, <<"META_SEI_MASTERING_DISP",
      "META_SEI_CLL", "META_HDR10PLUS", "META_HIST_INFO",
      "META_HDR10_MAX_RGB_INFO">>, AdjustSet),
  Leaf(Dec, {"HEVC", "HEIC"}, {"PROFILE"}, AdjustSet),
  Leaf(Dec, {"VP9", "AV1"}, {"PROFILE"}, SetOnly),
  Leaf(Dec, All, {"LEVEL"}, SetOnly),
  Leaf(Enc, {"HEIC"}, {"LEVEL"}, SetOnly)>>

MsmSunDeps5 == <<
  Leaf(Both, {"HEVC", "HEIC"}, {"HEVC_TIER"}, SetOnly),
  Leaf(Enc, All, {"LF_MODE", "RESERVE_DURATION"}, SetOnly),
  Parent(Enc, {"H264", "HEVC"}, {"SLICE_MODE"}, <<"STAGE",
      "DELIVERY_MODE">>, AdjustSet),
  Leaf(Enc, {"HEIC"}, {"SLICE_MODE"}, AdjustSet),
  Leaf(Enc, {"H264"}, {"TRANSFORM_8X8"}, AdjustSet),
  Leaf(Enc, {"H264", "HEVC"}, {"CHROMA_QP_INDEX_OFFSET"}, AdjustSet),
  Parent(Dec, {"H264", "HEVC", "VP9", "AV1"}, {"DISPLAY_DELAY_ENABLE", "DISPLAY_DELAY"}, <<
      "OUTPUT_ORDER">>, Neither),
  Parent(Dec, {"H264", "HEVC", "AV1"}, {"OUTPUT_ORDER"}, <<"SLICE_DECODE",
      "EARLY_NOTIFY_ENABLE">>, AdjustSet),
  Leaf(Dec, {"VP9"}, {"OUTPUT_ORDER"}, AdjustSet),
  Leaf(Both, All, {"INPUT_BUF_HOST_MAX_COUNT", "OUTPUT_BUF_HOST_MAX_COUNT",
      "PRIORITY"}, AdjustSet),
  Leaf(Enc, {"H264", "HEVC"}, {"INPUT_BUF_HOST_MAX_COUNT",
      "OUTPUT_BUF_HOST_MAX_COUNT"}, AdjustSet),
  Leaf(Dec, All, {"CONCEAL_COLOR_8BIT", "CONCEAL_COLOR_10BIT",
      "RAP_FRAME"}, SetOnly),
  Leaf(Both, All, {"STAGE", "PIPE"}, SetOnly),
  Leaf(Enc, {"H264", "HEVC"}, {"STAGE"}, SetOnly),
  Leaf(Dec, {"H264", "HEVC", "VP9", "AV1"}, {"STAGE"}, SetOnly),
  Parent(Dec, {"H264", "HEVC", "VP9", "AV1"}, {"THUMBNAIL_MODE"}, <<
      "OUTPUT_ORDER">>, SetOnly),
  Leaf(Dec, {"HEIC"}, {"THUMBNAIL_MODE"}, SetOnly),
  Leaf(Both, All, {"FIRMWARE_PRIORITY_OFFSET"}, Neither),
  Leaf(Enc, All, {"CRITICAL_PRIORITY"}, Neither),
  Leaf(Dec, {"AV1"}, {"DRAP"}, SetOnly),
  Parent(Enc, {"H264", "HEVC"}, {"ALL_INTRA"}, <<"LTR_COUNT", "IR_PERIOD",
      "SLICE_MODE", "BIT_RATE">>, AdjustOnly),
  Leaf(Enc, {"HEVC"}, {"META_EVA_STATS"}, AdjustOnly)>>

MsmSunDeps6 == <<
  Parent(Enc, {"H264", "HEVC"}, {"META_ROI_INFO"}, <<"IR_PERIOD",
      "BLUR_TYPES">>, AdjustOnly),
  Leaf(Enc, {"HEIC"}, {"GRID_ENABLE"}, SetOnly),
  Parent(Enc, {"H264", "HEVC"}, {"DELIVERY_MODE"}, <<"LOWLATENCY_MODE",
      "OUTPUT_BUF_HOST_MAX_COUNT">>, AdjustSet),
  Leaf(Enc, All, {"VUI_TIMING_INFO", "SIGNAL_COLOR_INFO"}, SetOnly),
  Leaf(Enc, {"HEVC", "HEIC"}, {"META_SEI_MASTERING_DISP", "META_SEI_CLL",
      "META_HDR10PLUS"}, AdjustOnly),
  Leaf(Enc, {"H264", "HEVC"}, {"META_TRANSCODING_STAT_INFO"}, AdjustOnly),
  Leaf(Enc, {"HEVC"}, {"META_HIST_INFO",
      "META_HDR10_MAX_RGB_INFO"}, AdjustOnly)>>

MsmSun == [name |-> "MsmSun",
   enc |-> {"H264", "HEVC", "HEIC"},
   dec |-> {"H264", "HEVC", "VP9", "HEIC", "AV1"},
   caps |-> MsmSunCaps1 \o MsmSunCaps2 \o MsmSunCaps3 \o MsmSunCaps4 \o
           MsmSunCaps5 \o MsmSunCaps6 \o MsmSunCaps7 \o MsmSunCaps8 \o
           MsmSunCaps9 \o MsmSunCaps10 \o MsmSunCaps11 \o MsmSunCaps12 \o
           MsmSunCaps13,
   deps |-> MsmSunDeps1 \o MsmSunDeps2 \o MsmSunDeps3 \o MsmSunDeps4 \o
           MsmSunDeps5 \o MsmSunDeps6]

PineappleCaps1 == SunCaps1
PineappleCaps2 == SunCaps2
PineappleCaps3 == SunCaps3
PineappleCaps4 == SunCaps4
PineappleCaps5 == SunCaps5

PineappleCaps6 == <<
  Fixed(Dec, {"HEVC"}, {"LEVEL"}),
  Fixed(Dec, {"VP9"}, {"LEVEL"}),
  Fixed(Both, {"HEVC"}, {"HEVC_TIER"}),
  Fixed(Enc, {"H264"}, {"LF_MODE", "LF_ALPHA", "LF_BETA", "TRANSFORM_8X8"}),
  Fixed(Enc, {"HEVC"}, {"LF_MODE", "LF_ALPHA", "LF_BETA",
      "CHROMA_QP_INDEX_OFFSET"}),
  Fixed(Enc, {"H264", "HEVC"}, {"SLICE_MODE", "SLICE_MAX_BYTES",
      "SLICE_MAX_MB", "MB_RC"})>>

PineappleCaps7 == SunCaps7
PineappleDeps1 == SunDeps1
PineappleDeps2 == SunDeps2

PineappleDeps3 == <<
  Leaf(Enc, {"H264", "HEVC"}, {"L5_BR"}, AdjustSet),
  Parent(Enc, {"H264"}, {"ENTROPY_MODE"}, <<"BIT_RATE">>, AdjustSet),
  Parent(Enc, {"H264"}, {"PROFILE"}, <<"ENTROPY_MODE",
      "TRANSFORM_8X8">>, SetOnly),
  Parent(Dec, {"H264"}, {"PROFILE"}, <<"ENTROPY_MODE">>, SetOnly),
  Leaf(Both, {"HEVC"}, {"PROFILE"}, AdjustSet),
  Leaf(Dec, {"VP9"}, {"PROFILE"}, SetOnly),
  Leaf(Dec, All, {"LEVEL", "CONCEAL_COLOR_8BIT", "CONCEAL_COLOR_10BIT",
      "RAP_FRAME"}, SetOnly),
  Leaf(Enc, All, {"LEVEL", "LF_MODE"}, SetOnly),
  Leaf(Both, {"HEVC"}, {"HEVC_TIER"}, SetOnly),
  Parent(Enc, {"H264", "HEVC"}, {"SLICE_MODE"}, <<"STAGE",
      "DELIVERY_MODE">>, AdjustSet),
  Leaf(Enc, {"H264"}, {"TRANSFORM_8X8"}, AdjustSet),
  Leaf(Enc, {"HEVC"}, {"CHROMA_QP_INDEX_OFFSET"}, AdjustSet),
  Parent(Dec, {"H264", "HEVC", "VP9"}, {"DISPLAY_DELAY_ENABLE", "DISPLAY_DELAY"}, <<
      "OUTPUT_ORDER">>, Neither),
  Leaf(Dec, {"H264", "HEVC", "VP9"}, {"OUTPUT_ORDER"}, AdjustSet),
  Leaf(Both, All, {"INPUT_BUF_HOST_MAX_COUNT",
      "OUTPUT_BUF_HOST_MAX_COUNT"}, AdjustSet),
  Leaf(Enc, {"H264", "HEVC"}, {"INPUT_BUF_HOST_MAX_COUNT",
      "OUTPUT_BUF_HOST_MAX_COUNT"}, AdjustSet),
  Leaf(Both, All, {"STAGE", "PIPE"}, SetOnly),
  Leaf(Enc, {"H264", "HEVC"}, {"STAGE"}, SetOnly),
  Leaf(Dec, {"H264", "HEVC", "VP9"}, {"STAGE"}, SetOnly),
  Parent(Dec, All, {"THUMBNAIL_MODE"}, <<"OUTPUT_ORDER">>, SetOnly),
  Leaf(Both, All, {"FIRMWARE_PRIORITY_OFFSET"}, Neither),
  Parent(Enc, {"H264", "HEVC"}, {"ALL_INTRA"}, <<"LTR_COUNT", "SLICE_MODE",
      "BIT_RATE">>, AdjustOnly)>>

Pineapple == [name |-> "Pineapple",
   enc |-> {"H264", "HEVC"},
   dec |-> {"H264", "HEVC", "VP9"},
   caps |-> PineappleCaps1 \o PineappleCaps2 \o PineappleCaps3 \o
           PineappleCaps4 \o PineappleCaps5 \o PineappleCaps6 \o
           PineappleCaps7,
   deps |-> PineappleDeps1 \o PineappleDeps2 \o PineappleDeps3]

MsmPineappleCaps1 == MsmSunCaps1
MsmPineappleCaps2 == MsmSunCaps2
MsmPineappleCaps3 == MsmSunCaps3
MsmPineappleCaps4 == MsmSunCaps4
MsmPineappleCaps5 == MsmSunCaps5
MsmPineappleCaps6 == MsmSunCaps6

MsmPineappleCaps7 == <<
  Dynamic(Enc, {"H264"}, {"L1_BR", "L2_BR", "L3_BR", "L4_BR", "L5_BR"}),
  Dynamic(Enc, {"HEVC"}, {"L1_BR", "L2_BR", "L3_BR", "L4_BR", "L5_BR"}),
  Fixed(Enc, {"H264"}, {"ENTROPY_MODE"}),
  Fixed(Dec, {"H264", "HEVC", "VP9", "AV1"}, {"ENTROPY_MODE"}),
  Fixed(Both, {"H264"}, {"PROFILE"}),
  Fixed(Both, {"HEVC", "HEIC"}, {"PROFILE"})>>

MsmPineappleCaps8 == MsmSunCaps8

MsmPineappleCaps9 == <<
  Fixed(Dec, {"AV1"}, {"LEVEL", "AV1_TIER"}),
  Fixed(Both, {"HEVC"}, {"HEVC_TIER"}),
  Fixed(Both, {"HEIC"}, {"HEVC_TIER"}),
  Fixed(Enc, {"H264"}, {"LF_MODE", "LF_ALPHA", "LF_BETA", "TRANSFORM_8X8"}),
  Fixed(Enc, {"HEVC", "HEIC"}, {"LF_MODE", "LF_ALPHA", "LF_BETA"}),
  Fixed(Enc, {"H264", "HEVC"}, {"SLICE_MODE", "SLICE_MAX_BYTES",
      "SLICE_MAX_MB", "MB_RC"}),
  Fixed(Enc, {"HEIC"}, {"SLICE_MODE"}),
  Fixed(Enc, {"HEVC"}, {"CHROMA_QP_INDEX_OFFSET"})>>

MsmPineappleCaps10 == MsmSunCaps10
MsmPineappleCaps11 == MsmSunCaps11

MsmPineappleCaps12 == <<
  Fixed(Dec, {"H264", "HEVC"}, {"META_TRANSCODING_STAT_INFO"}),
  Fixed(Enc, {"H264", "HEVC"}, {"META_TRANSCODING_STAT_INFO"}),
  Dynamic(Dec, All, {"META_PICTURE_TYPE"}),
  Fixed(Enc, {"HEVC", "HEIC"}, {"META_SEI_MASTERING_DISP", "META_SEI_CLL",
      "META_HDR10PLUS"}),
  Fixed(Dec, {"HEVC", "HEIC", "AV1"}, {"META_SEI_MASTERING_DISP",
      "META_SEI_CLL"})>>

MsmPineappleCaps13 == <<
  Fixed(Dec, {"HEVC", "HEIC", "AV1"}, {"META_HDR10PLUS"}),
  Fixed(Enc, {"HEVC"}, {"META_DOLBY_RPU", "DELIVERY_MODE"}),
  Fixed(Dec, {"H264", "HEVC"}, {"META_DOLBY_RPU"}),
  Fixed(Enc, {"H264", "HEVC"}, {"META_EVA_STATS", "META_ROI_INFO",
      "META_SALIENCY_INFO", "COMPLEXITY"}),
  Fixed(Enc, All, {"META_BUF_TAG", "META_ENC_QP_METADATA"}),
  Dynamic(Dec, All, {"META_BUF_TAG"}),
  Fixed(Dec, All, {"META_DPB_TAG_LIST", "META_SUBFRAME_OUTPUT",
      "META_DEC_QP_METADATA"}),
  Fixed(Enc, {"H264", "HEVC", "HEIC"}, {"META_SUBFRAME_OUTPUT"}),
  Fixed(Enc, {"HEIC"}, {"GRID_ENABLE", "GRID_SIZE"}),
  Fixed(Enc, {"H264"}, {"DELIVERY_MODE"}),
  Dynamic(Enc, All, {"SIGNAL_COLOR_INFO"})>>

MsmPineappleDeps1 == MsmSunDeps1
MsmPineappleDeps2 == MsmSunDeps2
MsmPineappleDeps3 == MsmSunDeps3

MsmPineappleDeps4 == <<
  Leaf(Dec, {"AV1"}, {"ENH_LAYER_COUNT", "AV1_TIER"}, SetOnly),
  Parent(Enc, {"H264", "HEVC"}, {"L0_BR"}, <<"L1_BR">>, AdjustSet),
  Parent(Enc, {"H264", "HEVC"}, {"L1_BR"}, <<"L2_BR">>, AdjustSet),
  Parent(Enc, {"H264", "HEVC"}, {"L2_BR"}, <<"L3_BR">>, AdjustSet),
  Parent(Enc, {"H264", "HEVC"}, {"L3_BR"}, <<"L4_BR">>, AdjustSet),
  Parent(Enc, {"H264", "HEVC"}, {"L4_BR"}, <<"L5_BR">>, AdjustSet),
  Leaf(Enc, {"H264", "HEVC"}, {"L5_BR", "LEVEL"}, AdjustSet),
  Parent(Enc, {"H264"}, {"ENTROPY_MODE"}, <<"BIT_RATE">>, AdjustSet),
  Parent(Enc, {"H264"}, {"PROFILE"}, <<"ENTROPY_MODE",
      "TRANSFORM_8X8">>, SetOnly),
  Parent(Dec, {"H264"}, {"PROFILE"}, <<"ENTROPY_MODE">>, SetOnly),
  Parent(Enc, {"HEVC", "HEIC"}, {"PROFILE"}, <<"META_SEI_MASTERING_DISP",
      "META_SEI_CLL", "META_HDR10PLUS">>, AdjustSet),
  Leaf(Dec, {"HEVC", "HEIC"}, {"PROFILE"}, AdjustSet),
  Leaf(Dec, {"VP9", "AV1"}, {"PROFILE"}, SetOnly),
  Leaf(Dec, All, {"LEVEL"}, SetOnly),
  Leaf(Enc, {"HEIC"}, {"LEVEL"}, SetOnly),
  Leaf(Both, {"HEVC", "HEIC"}, {"HEVC_TIER"}, SetOnly),
  Leaf(Enc, All, {"LF_MODE"}, SetOnly),
  Parent(Enc, {"H264", "HEVC"}, {"SLICE_MODE"}, <<"STAGE",
      "DELIVERY_MODE">>, AdjustSet),
  Leaf(Enc, {"HEIC"}, {"SLICE_MODE"}, AdjustSet),
  Leaf(Enc, {"H264"}, {"TRANSFORM_8X8"}, AdjustSet),
  Leaf(Enc, {"HEVC"}, {"CHROMA_QP_INDEX_OFFSET"}, AdjustSet),
  Parent(Dec, {"H264", "HEVC", "VP9", "AV1"}, {"DISPLAY_DELAY_ENABLE", "DISPLAY_DELAY"}, <<
      "OUTPUT_ORDER">>, Neither),
  Parent(Dec, {"H264", "HEVC", "AV1"}, {"OUTPUT_ORDER"}, <<"SLICE_DECODE",
      "EARLY_NOTIFY_ENABLE">>, AdjustSet)>>

MsmPineappleDeps5 == <<
  Leaf(Dec, {"VP9"}, {"OUTPUT_ORDER"}, AdjustSet),
  Leaf(Both, All, {"INPUT_BUF_HOST_MAX_COUNT", "OUTPUT_BUF_HOST_MAX_COUNT",
      "PRIORITY"}, AdjustSet),
  Leaf(Enc, {"H264", "HEVC"}, {"INPUT_BUF_HOST_MAX_COUNT",
      "OUTPUT_BUF_HOST_MAX_COUNT"}, AdjustSet),
  Leaf(Dec, All, {"CONCEAL_COLOR_8BIT", "CONCEAL_COLOR_10BIT",
      "RAP_FRAME"}, SetOnly),
  Leaf(Both, All, {"STAGE", "PIPE"}, SetOnly),
  Leaf(Enc, {"H264", "HEVC"}, {"STAGE"}, SetOnly),
  Leaf(Dec, {"H264", "HEVC", "VP9", "AV1"}, {"STAGE"}, SetOnly),
  Parent(Dec, {"H264", "HEVC", "VP9", "AV1"}, {"THUMBNAIL_MODE"}, <<
      "OUTPUT_ORDER">>, SetOnly),
  Leaf(Dec, {"HEIC"}, {"THUMBNAIL_MODE"}, SetOnly),
  Leaf(Both, All, {"FIRMWARE_PRIORITY_OFFSET"}, Neither),
  Leaf(Enc, All, {"CRITICAL_PRIORITY"}, Neither),
  Leaf(Enc, All, {"RESERVE_DURATION", "VUI_TIMING_INFO",
      "SIGNAL_COLOR_INFO"}, SetOnly),
  Leaf(Dec, {"AV1"}, {"DRAP"}, SetOnly),
  Parent(Enc, {"H264", "HEVC"}, {"ALL_INTRA"}, <<"LTR_COUNT", "IR_PERIOD",
      "SLICE_MODE", "BIT_RATE">>, AdjustOnly),
  Leaf(Enc, {"HEVC"}, {"META_EVA_STATS"}, AdjustOnly),
  Parent(Enc, {"H264", "HEVC"}, {"META_ROI_INFO"}, <<"MIN_QUALITY",
      "IR_PERIOD", "BLUR_TYPES">>, AdjustOnly),
  Leaf(Enc, {"HEIC"}, {"GRID_ENABLE"}, SetOnly),
  Parent(Enc, {"H264", "HEVC"}, {"DELIVERY_MODE"}, <<"LOWLATENCY_MODE",
      "OUTPUT_BUF_HOST_MAX_COUNT">>, AdjustSet),
  Leaf(Enc, {"HEVC", "HEIC"}, {"META_SEI_MASTERING_DISP", "META_SEI_CLL",
      "META_HDR10PLUS"}, AdjustOnly),
  Leaf(Enc, {"H264", "HEVC"}, {"META_TRANSCODING_STAT_INFO"}, AdjustOnly)>>

MsmPineapple == [name |-> "MsmPineapple",
   enc |-> {"H264", "HEVC", "HEIC"},
   dec |-> {"H264", "HEVC", "VP9", "HEIC", "AV1"},
   caps |-> MsmPineappleCaps1 \o MsmPineappleCaps2 \o MsmPineappleCaps3 \o
           MsmPineappleCaps4 \o MsmPineappleCaps5 \o MsmPineappleCaps6 \o
           MsmPineappleCaps7 \o MsmPineappleCaps8 \o MsmPineappleCaps9 \o
           MsmPineappleCaps10 \o MsmPineappleCaps11 \o MsmPineappleCaps12 \o
           MsmPineappleCaps13,
   deps |-> MsmPineappleDeps1 \o MsmPineappleDeps2 \o MsmPineappleDeps3 \o
           MsmPineappleDeps4 \o MsmPineappleDeps5]

NiobeCaps1 == <<
  Fixed(Dec, All, {"FRAME_WIDTH", "FRAME_HEIGHT", "MBPF", "MB_CYCLES_VSP",
      "MB_CYCLES_VPP", "MB_CYCLES_LP"}),
  Fixed(Dec, {"VP9"}, {"FRAME_WIDTH", "FRAME_HEIGHT", "MBPF",
      "MB_CYCLES_VSP"}),
  Fixed(Enc, All, {"FRAME_WIDTH", "LOSSLESS_FRAME_WIDTH", "FRAME_HEIGHT",
      "LOSSLESS_FRAME_HEIGHT", "MBPF", "FRAME_RATE", "OPERATING_RATE",
      "MB_CYCLES_VSP", "MB_CYCLES_VPP", "MB_CYCLES_LP", "MB_CYCLES_FW_VPP"}),
  Fixed(Enc, {"HEVC"}, {"FRAME_WIDTH", "LOSSLESS_FRAME_WIDTH", "FRAME_HEIGHT",
      "LOSSLESS_FRAME_HEIGHT", "MBPF"}),
  Fixed(Both, {"H264"}, {"PIX_FMTS"}),
  Fixed(Both, {"HEVC", "VP9"}, {"PIX_FMTS"}),
  Fixed(Both, All, {"MIN_BUFFERS_INPUT", "MIN_BUFFERS_OUTPUT", "INPUT_RATE",
      "TIMESTAMP_RATE", "MB_CYCLES_FW"}),
  Fixed(Enc, {"H264", "HEVC"}, {"LOSSLESS_MBPF", "SCALE_FACTOR"}),
  Fixed(Dec, {"H264", "HEVC", "VP9"}, {"BATCH_MBPF", "BATCH_FPS"})>>

NiobeCaps2 == <<
  Fixed(Dec, All, {"MB_CYCLES_FW_VPP", "SLICE_DECODE"}),
  Fixed(Enc, All, {"ENC_RING_BUFFER_COUNT", "ROTATION"}),
  Fixed(Both, All, {"CLIENT_ID"}),
  Dynamic(Enc, All, {"HFLIP", "VFLIP"}),
  Fixed(Enc, {"H264", "HEVC"}, {"SUPER_FRAME"})>>

NiobeCaps3 == SunCaps2
NiobeCaps4 == SunCaps3
NiobeCaps5 == SunCaps4
NiobeCaps6 == SunCaps5
NiobeCaps7 == PineappleCaps6
NiobeCaps8 == SunCaps7

NiobeDeps1 == <<
  Parent(Enc, {"H264"}, {"PIX_FMTS"}, <<"BIT_DEPTH">>, Neither),
  Parent(Enc, {"HEVC"}, {"PIX_FMTS"}, <<"PROFILE", "MIN_FRAME_QP",
      "MAX_FRAME_QP", "I_FRAME_QP", "P_FRAME_QP", "B_FRAME_QP", "MIN_QUALITY",
      "BLUR_TYPES", "LTR_COUNT", "BIT_DEPTH">>, Neither),
  Parent(Dec, {"HEVC"}, {"PIX_FMTS"}, <<"PROFILE">>, Neither),
  Leaf(Enc, All, {"BIT_DEPTH"}, AdjustOnly),
  Leaf(Enc, All, {"FRAME_RATE", "ENC_RING_BUFFER_COUNT"}, SetOnly)>>

NiobeDeps2 == <<
  Leaf(Enc, All, {"HFLIP", "VFLIP", "ROTATION", "HEADER_MODE",
      "WITHOUT_STARTCODE"}, SetOnly),
  Parent(Enc, {"H264", "HEVC"}, {"SUPER_FRAME"}, <<"INPUT_BUF_HOST_MAX_COUNT",
      "OUTPUT_BUF_HOST_MAX_COUNT">>, Neither),
  Leaf(Enc, {"H264", "HEVC"}, {"REQUEST_I_FRAME"}, SetOnly),
  Parent(Enc, {"H264"}, {"BIT_RATE"}, <<"PEAK_BITRATE", "L0_BR">>, AdjustSet),
  Parent(Enc, {"HEVC"}, {"BIT_RATE"}, <<"PEAK_BITRATE", "L0_BR">>, AdjustSet),
  Parent(Enc, {"H264"}, {"BITRATE_MODE"}, <<"LTR_COUNT", "I_FRAME_QP",
      "P_FRAME_QP", "B_FRAME_QP", "ENH_LAYER_COUNT", "BIT_RATE",
      "MIN_QUALITY", "VBV_DELAY", "PEAK_BITRATE", "SLICE_MODE",
      "CONTENT_ADAPTIVE_CODING", "BLUR_TYPES",
      "LOWLATENCY_MODE">>, AdjustSet),
  Parent(Enc, {"HEVC"}, {"BITRATE_MODE"}, <<"LTR_COUNT", "I_FRAME_QP",
      "P_FRAME_QP", "B_FRAME_QP", "CONSTANT_QUALITY", "ENH_LAYER_COUNT",
      "BIT_RATE", "MIN_QUALITY", "VBV_DELAY", "PEAK_BITRATE", "SLICE_MODE",
      "CONTENT_ADAPTIVE_CODING", "BLUR_TYPES",
      "LOWLATENCY_MODE">>, AdjustSet),
  Leaf(Enc, {"HEVC"}, {"CONSTANT_QUALITY"}, SetOnly),
  Parent(Enc, All, {"GOP_SIZE"}, <<"ALL_INTRA">>, AdjustSet),
  Parent(Enc, {"H264", "HEVC"}, {"B_FRAME"}, <<"ALL_INTRA">>, AdjustSet)>>

NiobeDeps3 == SunDeps2
NiobeDeps4 == PineappleDeps3

Niobe == [name |-> "Niobe",
   enc |-> {"H264", "HEVC"},
   dec |-> {"H264", "HEVC", "VP9"},
   caps |-> NiobeCaps1 \o NiobeCaps2 \o NiobeCaps3 \o NiobeCaps4 \o
           NiobeCaps5 \o NiobeCaps6 \o NiobeCaps7 \o NiobeCaps8,
   deps |-> NiobeDeps1 \o NiobeDeps2 \o NiobeDeps3 \o NiobeDeps4]

MsmNiobeCaps1 == <<
  Fixed(Both, All, {"DRV_VERSION", "MIN_BUFFERS_INPUT",
      "MIN_BUFFERS_OUTPUT"}),
  Fixed(Dec, All, {"FRAME_WIDTH", "SECURE_FRAME_WIDTH", "FRAME_HEIGHT",
      "SECURE_FRAME_HEIGHT", "MBPF"}),
  Fixed(Dec, {"VP9"}, {"FRAME_WIDTH", "FRAME_HEIGHT", "MBPF"}),
  Fixed(Enc, All, {"FRAME_WIDTH", "LOSSLESS_FRAME_WIDTH",
      "SECURE_FRAME_WIDTH", "FRAME_HEIGHT", "LOSSLESS_FRAME_HEIGHT",
      "SECURE_FRAME_HEIGHT", "MBPF", "FRAME_RATE"}),
  Fixed(Enc, {"HEVC"}, {"FRAME_WIDTH", "LOSSLESS_FRAME_WIDTH",
      "SECURE_FRAME_WIDTH", "FRAME_HEIGHT", "LOSSLESS_FRAME_HEIGHT",
      "SECURE_FRAME_HEIGHT", "MBPF"}),
  Fixed(Enc, {"HEIC"}, {"FRAME_WIDTH", "FRAME_HEIGHT"}),
  Fixed(Dec, {"VP9", "HEIC"}, {"SECURE_FRAME_WIDTH", "SECURE_FRAME_HEIGHT"}),
  Fixed(Both, {"H264"}, {"PIX_FMTS"}),
  Fixed(Both, {"HEVC", "VP9", "AV1"}, {"PIX_FMTS"}),
  Fixed(Enc, {"HEIC"}, {"PIX_FMTS", "MBPF", "FRAME_RATE"}),
  Fixed(Dec, {"HEIC"}, {"PIX_FMTS", "MBPF"}),
  Fixed(Both, {"HEIC"}, {"MIN_BUFFERS_INPUT"}),
  Fixed(Enc, {"H264", "HEVC"}, {"LOSSLESS_MBPF"}),
  Fixed(Dec, {"H264", "HEVC", "VP9", "AV1"}, {"BATCH_MBPF", "BATCH_FPS"}),
  Fixed(Dec, {"H264", "HEVC", "AV1"}, {"SECURE_MBPF"}),
  Fixed(Dec, {"VP9"}, {"SECURE_MBPF"}),
  Fixed(Enc, {"H264"}, {"SECURE_MBPF"}),
  Fixed(Enc, {"HEVC"}, {"SECURE_MBPF"})>>

MsmNiobeCaps2 == <<
  Dynamic(Dec, All, {"FRAME_RATE", "OPERATING_RATE"}),
  Dynamic(Dec, {"VP9"}, {"FRAME_RATE"}),
  Fixed(Enc, All, {"OPERATING_RATE", "MB_CYCLES_VSP", "MB_CYCLES_VPP",
      "MB_CYCLES_LP", "MB_CYCLES_FW_VPP"}),
  Fixed(Both, All, {"INPUT_RATE", "TIMESTAMP_RATE", "MB_CYCLES_FW"}),
  Fixed(Enc, {"H264", "HEVC"}, {"SCALE_FACTOR"}),
  Fixed(Dec, All, {"MB_CYCLES_VSP", "MB_CYCLES_VPP", "MB_CYCLES_LP",
      "MB_CYCLES_FW_VPP"}),
  Fixed(Dec, {"VP9", "AV1"}, {"MB_CYCLES_VSP"})>>

MsmNiobeCaps3 == <<
  Fixed(Both, All, {"CLIENT_ID"}),
  Fixed(Both, {"H264", "HEVC", "VP9", "AV1"}, {"SECURE_MODE"}),
  Fixed(Dec, {"H264", "HEVC", "VP9", "AV1"}, {"META_OUTPUT_TX_FENCE",
      "OUTPUT_RX_FENCE_ENABLE", "INPUT_RX_FENCE_ENABLE",
      "INPUT_TX_FENCE_ENABLE"}),
  Dynamic(Dec, All, {"OUTPUT_TX_FENCE_ID", "INPUT_RX_FENCE_FD"}),
  Fixed(Dec, All, {"OUTPUT_TX_FENCE_FD"}),
  Dynamic(Both, All, {"FENCE_INFO"})>>

MsmNiobeCaps4 == MsmSunCaps3
MsmNiobeCaps5 == MsmSunCaps4
MsmNiobeCaps6 == MsmSunCaps5
MsmNiobeCaps7 == MsmSunCaps6
MsmNiobeCaps8 == MsmSunCaps7
MsmNiobeCaps9 == MsmSunCaps8
MsmNiobeCaps10 == MsmPineappleCaps9
MsmNiobeCaps11 == MsmSunCaps10
MsmNiobeCaps12 == MsmSunCaps11

MsmNiobeCaps13 == <<
  Fixed(Dec, {"H264", "HEVC"}, {"META_TRANSCODING_STAT_INFO"}),
  Fixed(Enc, {"H264", "HEVC"}, {"META_TRANSCODING_STAT_INFO"}),
  Fixed(Enc, {"HEVC"}, {"META_VIEW_ID",
      "META_THREE_DIMENSIONAL_REF_DISP_INFO"}),
  Fixed(Dec, {"HEVC"}, {"META_VIEW_ID", "META_MULTI_VIEW_PAIR",
      "META_THREE_DIMENSIONAL_REF_DISP_INFO"}),
  Dynamic(Dec, All, {"META_PICTURE_TYPE"}),
  Fixed(Enc, {"HEVC", "HEIC"}, {"META_SEI_MASTERING_DISP", "META_SEI_CLL",
      "META_HDR10PLUS"}),
  Fixed(Dec, {"HEVC", "HEIC", "AV1"}, {"META_SEI_MASTERING_DISP",
      "META_SEI_CLL"})>>

MsmNiobeCaps14 == MsmPineappleCaps13

MsmNiobeDeps1 == <<
  Parent(Enc, {"H264"}, {"PIX_FMTS"}, <<"META_ROI_INFO", "IR_PERIOD", "CSC",
      "BIT_DEPTH">>, Neither),
  Parent(Enc, {"HEVC"}, {"PIX_FMTS"}, <<"PROFILE", "MIN_FRAME_QP",
      "MAX_FRAME_QP", "I_FRAME_QP", "P_FRAME_QP", "B_FRAME_QP",
      "META_ROI_INFO", "MIN_QUALITY", "BLUR_TYPES", "IR_PERIOD", "LTR_COUNT",
      "CSC", "BIT_DEPTH">>, Neither),
  Parent(Enc, {"HEIC"}, {"PIX_FMTS"}, <<"PROFILE", "CSC",
      "BIT_DEPTH">>, Neither),
  Parent(Dec, {"HEVC", "HEIC"}, {"PIX_FMTS"}, <<"PROFILE">>, Neither),
  Leaf(Enc, All, {"BIT_DEPTH"}, AdjustOnly),
  Parent(Enc, All, {"FRAME_RATE"}, <<"LEVEL">>, SetOnly),
  Leaf(Dec, All, {"FRAME_RATE", "OPERATING_RATE"}, AdjustOnly)>>

MsmNiobeDeps2 == <<
  Leaf(Both, {"H264", "HEVC", "VP9", "AV1"}, {"SECURE_MODE"}, SetOnly),
  Leaf(Both, All, {"FENCE_INFO"}, AdjustOnly),
  Parent(Dec, {"H264", "HEVC", "AV1"}, {"META_OUTPUT_TX_FENCE"}, <<
      "OUTPUT_TX_FENCE_TYPE", "SLICE_DECODE",
      "EARLY_NOTIFY_ENABLE">>, Neither),
  Parent(Dec, {"VP9"}, {"META_OUTPUT_TX_FENCE"}, <<
      "OUTPUT_TX_FENCE_TYPE">>, Neither),
  Parent(Dec, {"H264", "HEVC", "VP9", "AV1"}, {"INPUT_RX_FENCE_ENABLE"}, <<
      "INPUT_RX_FENCE_TYPE">>, Neither),
  Parent(Dec, {"H264", "HEVC", "VP9", "AV1"}, {"INPUT_TX_FENCE_ENABLE"}, <<
      "INPUT_TX_FENCE_TYPE">>, Neither),
  Parent(Dec, {"H264", "HEVC", "VP9", "AV1"}, {"OUTPUT_RX_FENCE_ENABLE"}, <<
      "OUTPUT_RX_FENCE_TYPE">>, Neither),
  Leaf(Dec, {"H264", "HEVC", "VP9", "AV1"}, {"INPUT_RX_FENCE_TYPE",
      "INPUT_TX_FENCE_TYPE", "OUTPUT_TX_FENCE_TYPE",
      "OUTPUT_RX_FENCE_TYPE"}, AdjustOnly)>>

MsmNiobeDeps3 == <<
  Leaf(Enc, All, {"HFLIP", "VFLIP", "ROTATION", "HEADER_MODE",
      "WITHOUT_STARTCODE", "CSC_CUSTOM_MATRIX"}, SetOnly),
  Parent(Enc, {"H264", "HEVC"}, {"SUPER_FRAME"}, <<"INPUT_BUF_HOST_MAX_COUNT",
      "OUTPUT_BUF_HOST_MAX_COUNT">>, Neither),
  Leaf(Dec, {"H264", "HEVC", "AV1"}, {"SLICE_DECODE",
      "EARLY_NOTIFY_FENCE_COUNT"}, AdjustSet),
  Parent(Dec, {"H264", "HEVC", "AV1"}, {"EARLY_NOTIFY_ENABLE"}, <<
      "EARLY_NOTIFY_LINE_COUNT">>, AdjustSet),
  Parent(Dec, {"H264", "HEVC", "AV1"}, {"EARLY_NOTIFY_LINE_COUNT"}, <<
      "EARLY_NOTIFY_FENCE_COUNT">>, AdjustSet),
  Leaf(Dec, {"AV1"}, {"WITHOUT_STARTCODE"}, SetOnly),
  Leaf(Enc, {"H264", "HEVC"}, {"REQUEST_I_FRAME"}, SetOnly),
  Parent(Enc, {"H264"}, {"BIT_RATE"}, <<"PEAK_BITRATE", "BITRATE_BOOST",
      "L0_BR", "LEVEL">>, AdjustSet),
  Parent(Enc, {"HEVC"}, {"BIT_RATE"}, <<"PEAK_BITRATE", "BITRATE_BOOST",
      "L0_BR", "LEVEL">>, AdjustSet),
  Parent(Enc, {"H264"}, {"BITRATE_MODE"}, <<"LTR_COUNT", "IR_PERIOD",
      "TIME_DELTA_BASED_RC", "I_FRAME_QP", "P_FRAME_QP", "B_FRAME_QP",
      "ENH_LAYER_COUNT", "BIT_RATE", "META_ROI_INFO", "MIN_QUALITY",
      "BITRATE_BOOST", "VBV_DELAY", "PEAK_BITRATE", "SLICE_MODE",
      "CONTENT_ADAPTIVE_CODING", "BLUR_TYPES", "LOWLATENCY_MODE",
      "META_TRANSCODING_STAT_INFO">>, AdjustSet),
  Parent(Enc, {"HEVC"}, {"BITRATE_MODE"}, <<"LTR_COUNT", "IR_PERIOD",
      "TIME_DELTA_BASED_RC", "I_FRAME_QP", "P_FRAME_QP", "B_FRAME_QP",
      "CONSTANT_QUALITY", "ENH_LAYER_COUNT", "BIT_RATE", "META_ROI_INFO",
      "MIN_QUALITY", "BITRATE_BOOST", "VBV_DELAY", "PEAK_BITRATE",
      "SLICE_MODE", "CONTENT_ADAPTIVE_CODING", "BLUR_TYPES",
      "LOWLATENCY_MODE", "META_EVA_STATS", "META_TRANSCODING_STAT_INFO",
      "OPEN_GOP">>, AdjustSet),
  Parent(Enc, {"HEIC"}, {"BITRATE_MODE"}, <<"TIME_DELTA_BASED_RC",
      "CONSTANT_QUALITY">>, AdjustSet),
  Leaf(Enc, {"HEVC", "HEIC"}, {"CONSTANT_QUALITY"}, SetOnly),
  Parent(Enc, All, {"GOP_SIZE"}, <<"ALL_INTRA">>, AdjustSet),
  Leaf(Enc, {"HEIC"}, {"GOP_SIZE"}, SetOnly),
  Parent(Enc, {"HEVC"}, {"OPEN_GOP"}, <<"GOP_SIZE">>, AdjustSet),
  Parent(Enc, {"H264", "HEVC"}, {"B_FRAME"}, <<"ALL_INTRA">>, AdjustSet),
  Leaf(Enc, {"HEIC"}, {"B_FRAME"}, SetOnly),
  Parent(Enc, {"H264", "HEVC"}, {"BLUR_TYPES"}, <<
      "BLUR_RESOLUTION">>, AdjustSet),
  Leaf(Enc, {"H264", "HEVC"}, {"BLUR_RESOLUTION"}, AdjustSet),
  Leaf(Enc, All, {"CSC"}, AdjustSet)>>

MsmNiobeDeps4 == MsmSunDeps3
MsmNiobeDeps5 == MsmPineappleDeps4
MsmNiobeDeps6 == MsmPineappleDeps5

MsmNiobe == [name |-> "MsmNiobe",
   enc |-> {"H264", "HEVC", "HEIC"},
   dec |-> {"H264", "HEVC", "VP9", "HEIC", "AV1"},
   caps |-> MsmNiobeCaps1 \o MsmNiobeCaps2 \o MsmNiobeCaps3 \o
           MsmNiobeCaps4 \o MsmNiobeCaps5 \o MsmNiobeCaps6 \o MsmNiobeCaps7 \o
           MsmNiobeCaps8 \o MsmNiobeCaps9 \o MsmNiobeCaps10 \o
           MsmNiobeCaps11 \o MsmNiobeCaps12 \o MsmNiobeCaps13 \o
           MsmNiobeCaps14,
   deps |-> MsmNiobeDeps1 \o MsmNiobeDeps2 \o MsmNiobeDeps3 \o
           MsmNiobeDeps4 \o MsmNiobeDeps5 \o MsmNiobeDeps6]

=============================================================================
