---------------------------- MODULE TablesNordau ----------------------------
(* The capability tables of nordau, chora and kodiak                        *)
(* (driver/platform): X of X.c, which the video driver is built with, MsmX  *)
(* of msm_vidc_X.c, which msm_video is built with.  A table is cut in       *)
(* parts, row for row in the order of the file; a part with the same rows   *)
(* as one of another file is that part.                                     *)
EXTENDS TablesTuna

NordauCaps1 == <<
  Fixed(Dec, All, {"FRAME_WIDTH", "FRAME_HEIGHT"}),
  Fixed(Dec, {"VP9"}, {"FRAME_WIDTH", "FRAME_HEIGHT"}),
  Fixed(Dec, {"MPEG2"}, {"FRAME_WIDTH", "FRAME_HEIGHT"}),
  Fixed(Enc, All, {"FRAME_WIDTH", "LOSSLESS_FRAME_WIDTH", "FRAME_HEIGHT",
      "LOSSLESS_FRAME_HEIGHT"}),
  Fixed(Enc, {"HEVC"}, {"FRAME_WIDTH", "LOSSLESS_FRAME_WIDTH", "FRAME_HEIGHT",
      "LOSSLESS_FRAME_HEIGHT"}),
  Fixed(Both, {"H264", "MPEG2"}, {"PIX_FMTS"})>>

NordauCaps2 == <<
  Fixed(Both, {"HEVC", "VP9"}, {"PIX_FMTS"}),
  Fixed(Both, All, {"MIN_BUFFERS_INPUT", "MIN_BUFFERS_OUTPUT", "INPUT_RATE",
      "TIMESTAMP_RATE", "MB_CYCLES_FW", "CLIENT_ID"}),
  Fixed(Enc, All, {"MBPF", "FRAME_RATE", "OPERATING_RATE", "MB_CYCLES_VSP",
      "MB_CYCLES_VPP", "MB_CYCLES_LP", "MB_CYCLES_FW_VPP", "ROTATION"}),
  Fixed(Enc, {"HEVC"}, {"MBPF"}),
  Fixed(Dec, All, {"MBPF", "MB_CYCLES_VSP", "MB_CYCLES_VPP", "MB_CYCLES_LP",
      "MB_CYCLES_FW_VPP"}),
  Fixed(Dec, {"VP9"}, {"MBPF", "MB_CYCLES_VSP"}),
  Fixed(Enc, {"H264", "HEVC"}, {"LOSSLESS_MBPF", "SCALE_FACTOR",
      "SUPER_FRAME"}),
  Fixed(Dec, {"H264", "HEVC", "VP9"}, {"BATCH_MBPF", "BATCH_FPS"}),
  Fixed(Enc, {"H264"}, {"ENC_RING_BUFFER_COUNT"}),
  Dynamic(Enc, All, {"HFLIP", "VFLIP"})>>

NordauCaps3 == SunCaps2
NordauCaps4 == SunCaps3
NordauCaps5 == SunCaps4

NordauCaps6 == <<
  Dynamic(Enc, {"HEVC"}, {"L4_BR"}),
  Dynamic(Enc, {"H264"}, {"L5_BR"}),
  Dynamic(Enc, {"HEVC"}, {"L5_BR"}),
  Fixed(Enc, {"H264"}, {"ENTROPY_MODE"}),
  Fixed(Dec, {"H264", "HEVC", "VP9", "MPEG2"}, {"ENTROPY_MODE"}),
  Fixed(Both, {"H264"}, {"PROFILE"}),
  Fixed(Both, {"HEVC"}, {"PROFILE"})>>

NordauCaps7 == <<
  Fixed(Dec, {"VP9"}, {"PROFILE"}),
  Fixed(Dec, {"MPEG2"}, {"PROFILE"}),
  Fixed(Enc, {"H264"}, {"LEVEL"}),
  Fixed(Enc, {"HEVC"}, {"LEVEL"}),
  Fixed(Dec, {"H264"}, {"LEVEL"}),
  Fixed(Dec, {"HEVC"}, {"LEVEL"}),
  Fixed(Dec, {"VP9"}, {"LEVEL"}),
  Fixed(Dec, {"MPEG2"}, {"LEVEL"})>>

NordauCaps8 == <<
  Fixed(Both, {"HEVC"}, {"HEVC_TIER"}),
  Fixed(Enc, {"H264"}, {"LF_MODE", "LF_ALPHA", "LF_BETA", "TRANSFORM_8X8"}),
  Fixed(Enc, {"HEVC"}, {"LF_MODE", "LF_ALPHA", "LF_BETA",
      "CHROMA_QP_INDEX_OFFSET"}),
  Fixed(Enc, {"H264", "HEVC"}, {"SLICE_MODE", "SLICE_MAX_BYTES",
      "SLICE_MAX_MB", "MB_RC"})>>

NordauCaps9 == SunCaps7
NordauDeps1 == TunaDeps1
NordauDeps2 == SunDeps2
NordauDeps3 == PineappleDeps3

Nordau == [name |-> "Nordau",
   enc |-> {"H264", "HEVC"},
   dec |-> {"H264", "HEVC", "VP9", "MPEG2"},
   caps |-> NordauCaps1 \o NordauCaps2 \o NordauCaps3 \o NordauCaps4 \o
           NordauCaps5 \o NordauCaps6 \o NordauCaps7 \o NordauCaps8 \o
           NordauCaps9,
   deps |-> NordauDeps1 \o NordauDeps2 \o NordauDeps3]

MsmNordauCaps1 == <<
  Fixed(Both, All, {"DRV_VERSION", "MIN_BUFFERS_INPUT",
      "MIN_BUFFERS_OUTPUT"}),
  Fixed(Dec, All, {"FRAME_WIDTH", "SECURE_FRAME_WIDTH", "FRAME_HEIGHT",
      "SECURE_FRAME_HEIGHT", "MBPF"}),
  Fixed(Dec, {"VP9"}, {"FRAME_WIDTH", "FRAME_HEIGHT", "MBPF"}),
  Fixed(Dec, {"MPEG2"}, {"FRAME_WIDTH", "FRAME_HEIGHT"}),
  Fixed(Enc, All, {"FRAME_WIDTH", "LOSSLESS_FRAME_WIDTH",
      "SECURE_FRAME_WIDTH", "FRAME_HEIGHT", "LOSSLESS_FRAME_HEIGHT",
      "SECURE_FRAME_HEIGHT", "MBPF", "FRAME_RATE"}),
  Fixed(Enc, {"HEVC"}, {"FRAME_WIDTH", "LOSSLESS_FRAME_WIDTH",
      "SECURE_FRAME_WIDTH", "FRAME_HEIGHT", "LOSSLESS_FRAME_HEIGHT",
      "SECURE_FRAME_HEIGHT", "MBPF"}),
  Fixed(Enc, {"HEIC"}, {"FRAME_WIDTH", "FRAME_HEIGHT"}),
  Fixed(Both, {"H264", "MPEG2"}, {"PIX_FMTS"}),
  Fixed(Both, {"HEVC", "VP9", "AV1"}, {"PIX_FMTS"}),
  Fixed(Enc, {"HEIC"}, {"PIX_FMTS", "MBPF", "FRAME_RATE"}),
  Fixed(Dec, {"HEIC"}, {"PIX_FMTS", "MBPF"}),
  Fixed(Both, {"HEIC"}, {"MIN_BUFFERS_INPUT"}),
  Fixed(Enc, {"H264", "HEVC"}, {"LOSSLESS_MBPF"}),
  Fixed(Dec, {"H264", "HEVC", "VP9", "AV1"}, {"BATCH_MBPF", "BATCH_FPS"}),
  Fixed(Both, {"H264", "HEVC", "VP9", "AV1"}, {"SECURE_MBPF"}),
  Fixed(Enc, {"HEVC"}, {"SECURE_MBPF"})>>

MsmNordauCaps2 == MsmNiobeCaps2

MsmNordauCaps3 == <<
  Fixed(Both, All, {"CLIENT_ID"}),
  Fixed(Both, {"H264", "HEVC", "VP9", "AV1", "MPEG2"}, {"SECURE_MODE"}),
  Fixed(Dec, {"H264", "HEVC"}, {"TS_REORDER"}),
  Dynamic(Enc, All, {"HFLIP", "VFLIP"}),
  Fixed(Enc, All, {"ROTATION", "HEADER_MODE", "PREPEND_SPSPPS_TO_IDR",
      "VUI_TIMING_INFO", "WITHOUT_STARTCODE", "NAL_LENGTH_FIELD"}),
  Dynamic(Enc, {"H264", "HEVC"}, {"SUPER_FRAME", "REQUEST_I_FRAME"}),
  Fixed(Dec, {"AV1"}, {"WITHOUT_STARTCODE"})>>

MsmNordauCaps4 == MsmSunCaps4

MsmNordauCaps5 == <<
  Fixed(Enc, {"H264", "HEVC"}, {"LOWLATENCY_MODE", "LTR_COUNT", "IR_TYPE",
      "AU_DELIMITER", "TIME_DELTA_BASED_RC", "CONTENT_ADAPTIVE_CODING",
      "REQUEST_PREPROCESS"}),
  Dynamic(Dec, {"H264", "HEVC", "VP9", "AV1", "MPEG2"}, {"LOWLATENCY_MODE"}),
  Dynamic(Enc, {"H264", "HEVC"}, {"USE_LTR", "MARK_LTR", "IR_PERIOD"}),
  Dynamic(Enc, {"H264"}, {"BASELAYER_PRIORITY"}),
  Fixed(Enc, {"HEIC"}, {"TIME_DELTA_BASED_RC"})>>

MsmNordauCaps6 == MsmMalabarCaps5

MsmNordauCaps7 == <<
  Fixed(Enc, {"H264"}, {"LAYER_TYPE", "LAYER_ENABLE"}),
  Fixed(Enc, {"HEVC"}, {"LAYER_ENABLE"}),
  Dynamic(Enc, {"HEVC"}, {"ENH_LAYER_COUNT"}),
  Dynamic(Enc, {"H264"}, {"ENH_LAYER_COUNT", "L0_BR", "L1_BR", "L2_BR",
      "L3_BR", "L4_BR", "L5_BR"}),
  Fixed(Dec, {"AV1"}, {"ENH_LAYER_COUNT"}),
  Dynamic(Enc, {"HEVC"}, {"L0_BR", "L1_BR", "L2_BR", "L3_BR", "L4_BR",
      "L5_BR"})>>

MsmNordauCaps8 == <<
  Fixed(Enc, {"H264"}, {"ENTROPY_MODE", "LEVEL"}),
  Fixed(Dec, {"H264", "HEVC", "VP9", "AV1", "MPEG2"}, {"ENTROPY_MODE"}),
  Fixed(Both, {"H264"}, {"PROFILE"}),
  Fixed(Both, {"HEIC"}, {"PROFILE"}),
  Fixed(Both, {"HEVC"}, {"PROFILE"}),
  Fixed(Dec, {"VP9"}, {"PROFILE"}),
  Fixed(Dec, {"AV1"}, {"PROFILE"}),
  Fixed(Dec, {"MPEG2"}, {"PROFILE"}),
  Fixed(Enc, {"HEVC", "HEIC"}, {"LEVEL"})>>

MsmNordauCaps9 == <<
  Fixed(Dec, {"H264"}, {"LEVEL"}),
  Fixed(Dec, {"HEVC", "HEIC"}, {"LEVEL"}),
  Fixed(Dec, {"VP9"}, {"LEVEL"}),
  Fixed(Dec, {"AV1"}, {"LEVEL", "AV1_TIER"}),
  Fixed(Dec, {"MPEG2"}, {"LEVEL"}),
  Fixed(Both, {"HEVC"}, {"HEVC_TIER"}),
  Fixed(Both, {"HEIC"}, {"HEVC_TIER"})>>

MsmNordauCaps10 == <<
  Fixed(Enc, {"H264"}, {"LF_MODE", "LF_ALPHA", "LF_BETA", "TRANSFORM_8X8"}),
  Fixed(Enc, {"HEVC", "HEIC"}, {"LF_MODE", "LF_ALPHA", "LF_BETA"}),
  Fixed(Enc, {"H264", "HEVC"}, {"SLICE_MODE", "SLICE_MAX_BYTES",
      "SLICE_MAX_MB", "MB_RC"}),
  Fixed(Enc, {"HEIC"}, {"SLICE_MODE"}),
  Fixed(Enc, {"HEVC"}, {"CHROMA_QP_INDEX_OFFSET"}),
  Fixed(Dec, {"H264", "HEVC", "VP9", "AV1"}, {"DISPLAY_DELAY_ENABLE",
      "DISPLAY_DELAY", "OUTPUT_ORDER"}),
  Fixed(Both, All, {"INPUT_BUF_HOST_MAX_COUNT", "OUTPUT_BUF_HOST_MAX_COUNT",
      "STAGE", "PIPE"}),
  Fixed(Dec, All, {"CONCEAL_COLOR_8BIT", "CONCEAL_COLOR_10BIT"})>>

MsmNordauCaps11 == MsmSeraphCaps13

MsmNordauCaps12 == <<
  Fixed(Enc, All, {"META_SEQ_HDR_NAL"}),
  Fixed(Dec, All, {"META_DPB_MISR", "META_OPB_MISR",
      "META_CONCEALED_MB_CNT"}),
  Fixed(Dec, {"H264", "MPEG2"}, {"META_INTERLACE"}),
  Fixed(Both, All, {"META_TIMESTAMP"}),
  Fixed(Dec, {"HEVC", "VP9", "AV1"}, {"META_HIST_INFO"})>>

MsmNordauCaps13 == MsmSunCaps12
MsmNordauCaps14 == MsmSunCaps13

MsmNordauCaps15 == <<
  Fixed(Both, All, {"CORE_ID_MASK"})>>

MsmNordauDeps1 == MsmNiobeDeps1

MsmNordauDeps2 == <<
  Leaf(Both, {"H264", "HEVC", "VP9", "AV1"}, {"SECURE_MODE"}, SetOnly),
  Leaf(Enc, All, {"HFLIP", "VFLIP", "ROTATION"}, SetOnly),
  Parent(Enc, {"H264", "HEVC"}, {"SUPER_FRAME"}, <<"INPUT_BUF_HOST_MAX_COUNT",
      "OUTPUT_BUF_HOST_MAX_COUNT">>, Neither)>>

MsmNordauDeps3 == MsmSunDeps2

MsmNordauDeps4 == <<
  Parent(Enc, {"H264", "HEVC"}, {"LOWLATENCY_MODE"}, <<"STAGE",
      "BIT_RATE">>, AdjustOnly),
  Parent(Dec, {"H264", "HEVC", "AV1", "MPEG2"}, {"LOWLATENCY_MODE"}, <<
      "STAGE">>, Neither),
  Parent(Dec, {"VP9"}, {"LOWLATENCY_MODE"}, <<"STAGE">>, Neither),
  Leaf(Enc, {"H264", "HEVC"}, {"LTR_COUNT", "USE_LTR", "MARK_LTR",
      "IR_PERIOD", "REQUEST_PREPROCESS", "PEAK_BITRATE"}, AdjustSet),
  Leaf(Enc, {"H264", "HEVC"}, {"AU_DELIMITER", "VBV_DELAY"}, SetOnly),
  Leaf(Enc, {"H264"}, {"BASELAYER_PRIORITY", "MIN_FRAME_QP",
      "MAX_FRAME_QP"}, SetOnly),
  Leaf(Enc, All, {"TIME_DELTA_BASED_RC"}, AdjustSet),
  Parent(Enc, {"H264", "HEVC"}, {"CONTENT_ADAPTIVE_CODING"}, <<
      "REQUEST_PREPROCESS">>, AdjustSet),
  Parent(Enc, {"H264", "HEVC"}, {"BITRATE_BOOST"}, <<"LEVEL">>, AdjustSet),
  Parent(Enc, {"H264", "HEVC"}, {"MIN_QUALITY"}, <<"BLUR_TYPES">>, SetOnly),
  Leaf(Enc, {"HEVC"}, {"MIN_FRAME_QP", "MAX_FRAME_QP", "I_FRAME_QP",
      "P_FRAME_QP", "B_FRAME_QP"}, AdjustSet),
  Leaf(Enc, {"H264"}, {"I_FRAME_QP", "P_FRAME_QP", "B_FRAME_QP"}, SetOnly),
  Parent(Enc, {"H264"}, {"LAYER_TYPE"}, <<"CONTENT_ADAPTIVE_CODING",
      "LTR_COUNT", "LEVEL", "CORE_ID_MASK">>, Neither),
  Parent(Enc, {"HEVC"}, {"LAYER_TYPE"}, <<"CONTENT_ADAPTIVE_CODING",
      "LTR_COUNT", "OPEN_GOP", "CORE_ID_MASK">>, Neither)>>

MsmNordauDeps5 == <<
  Parent(Enc, {"H264", "HEVC"}, {"LAYER_ENABLE"}, <<"CONTENT_ADAPTIVE_CODING",
      "LEVEL">>, Neither),
  Parent(Enc, {"H264"}, {"ENH_LAYER_COUNT"}, <<"GOP_SIZE", "B_FRAME",
      "BIT_RATE", "MIN_QUALITY", "SLICE_MODE", "LTR_COUNT",
      "LEVEL">>, AdjustSet),
  Parent(Enc, {"HEVC"}, {"ENH_LAYER_COUNT"}, <<"GOP_SIZE", "B_FRAME",
      "BIT_RATE", "MIN_QUALITY", "SLICE_MODE", "LTR_COUNT",
      "OPEN_GOP">>, AdjustSet),
  Leaf(Dec, {"AV1"}, {"ENH_LAYER_COUNT"}, SetOnly),
  Parent(Enc, {"H264", "HEVC"}, {"L0_BR"}, <<"L1_BR">>, AdjustSet),
  Parent(Enc, {"H264", "HEVC"}, {"L1_BR"}, <<"L2_BR">>, AdjustSet),
  Parent(Enc, {"H264", "HEVC"}, {"L2_BR"}, <<"L3_BR">>, AdjustSet),
  Parent(Enc, {"H264", "HEVC"}, {"L3_BR"}, <<"L4_BR">>, AdjustSet),
  Parent(Enc, {"H264", "HEVC"}, {"L4_BR"}, <<"L5_BR">>, AdjustSet),
  Leaf(Enc, {"H264", "HEVC"}, {"L5_BR"}, AdjustSet),
  Parent(Enc, {"H264"}, {"ENTROPY_MODE"}, <<"BIT_RATE">>, AdjustSet)>>

MsmNordauDeps6 == <<
  Parent(Enc, {"H264"}, {"PROFILE"}, <<"ENTROPY_MODE",
      "TRANSFORM_8X8">>, SetOnly),
  Parent(Dec, {"H264"}, {"PROFILE"}, <<"ENTROPY_MODE">>, SetOnly),
  Parent(Enc, {"HEIC"}, {"PROFILE"}, <<"META_SEI_MASTERING_DISP",
      "META_SEI_CLL", "META_HDR10PLUS">>, AdjustSet),
  Parent(Enc, {"HEVC"}, {"PROFILE"}, <<"META_SEI_MASTERING_DISP",
      "META_SEI_CLL", "META_HDR10PLUS", "META_HIST_INFO",
      "META_HDR10_MAX_RGB_INFO">>, AdjustSet),
  Leaf(Dec, {"HEVC", "HEIC"}, {"PROFILE"}, AdjustSet),
  Leaf(Dec, {"VP9", "AV1"}, {"PROFILE"}, SetOnly),
  Leaf(Dec, {"AV1"}, {"AV1_TIER"}, SetOnly),
  Leaf(Both, {"HEVC", "HEIC"}, {"HEVC_TIER"}, SetOnly),
  Leaf(Enc, All, {"LF_MODE"}, SetOnly),
  Parent(Enc, {"H264", "HEVC"}, {"SLICE_MODE"}, <<"STAGE",
      "DELIVERY_MODE">>, AdjustSet),
  Leaf(Enc, {"HEIC"}, {"SLICE_MODE"}, AdjustSet),
  Leaf(Enc, {"H264"}, {"TRANSFORM_8X8"}, AdjustSet),
  Leaf(Enc, {"HEVC"}, {"CHROMA_QP_INDEX_OFFSET"}, AdjustSet),
  Parent(Dec, {"H264", "HEVC", "VP9", "AV1"}, {"DISPLAY_DELAY_ENABLE", "DISPLAY_DELAY"}, <<
      "OUTPUT_ORDER">>, Neither),
  Leaf(Dec, {"H264", "HEVC", "AV1"}, {"OUTPUT_ORDER"}, AdjustSet)>>

MsmNordauDeps7 == <<
  Leaf(Dec, {"VP9"}, {"OUTPUT_ORDER"}, AdjustSet),
  Leaf(Both, All, {"INPUT_BUF_HOST_MAX_COUNT", "OUTPUT_BUF_HOST_MAX_COUNT",
      "PRIORITY"}, AdjustSet),
  Leaf(Enc, {"H264", "HEVC"}, {"INPUT_BUF_HOST_MAX_COUNT",
      "OUTPUT_BUF_HOST_MAX_COUNT"}, AdjustSet),
  Leaf(Dec, All, {"CONCEAL_COLOR_8BIT", "CONCEAL_COLOR_10BIT",
      "RAP_FRAME"}, SetOnly),
  Leaf(Both, All, {"STAGE", "PIPE"}, SetOnly),
  Leaf(Enc, {"H264", "HEVC"}, {"STAGE"}, SetOnly),
  Leaf(Dec, {"H264", "HEVC", "VP9", "AV1"}, {"STAGE"}, SetOnly),
  Parent(Dec, {"H264", "HEVC", "VP9", "AV1"}, {"THUMBNAIL_MODE"}, <<
      "OUTPUT_ORDER">>, SetOnly),
  Leaf(Dec, {"HEIC"}, {"THUMBNAIL_MODE"}, SetOnly),
  Leaf(Both, All, {"FIRMWARE_PRIORITY_OFFSET"}, Neither),
  Leaf(Enc, All, {"CRITICAL_PRIORITY"}, Neither),
  Leaf(Enc, All, {"RESERVE_DURATION"}, SetOnly),
  Leaf(Dec, {"AV1"}, {"DRAP"}, SetOnly)>>

MsmNordauDeps8 == <<
  Parent(Enc, {"H264", "HEVC"}, {"ALL_INTRA"}, <<"LTR_COUNT", "IR_PERIOD",
      "SLICE_MODE", "BIT_RATE", "CORE_ID_MASK">>, AdjustOnly),
  Parent(Enc, {"HEVC"}, {"LOSSLESS"}, <<"CORE_ID_MASK">>, Neither),
  Leaf(Both, All, {"CORE_ID_MASK"}, AdjustSet),
  Leaf(Enc, {"HEVC"}, {"META_EVA_STATS"}, AdjustOnly)>>

MsmNordauDeps9 == MsmSunDeps6

MsmNordau == [name |-> "MsmNordau",
   enc |-> {"H264", "HEVC", "HEIC"},
   dec |-> {"H264", "HEVC", "VP9", "HEIC", "AV1", "MPEG2"},
   caps |-> MsmNordauCaps1 \o MsmNordauCaps2 \o MsmNordauCaps3 \o
           MsmNordauCaps4 \o MsmNordauCaps5 \o MsmNordauCaps6 \o
           MsmNordauCaps7 \o MsmNordauCaps8 \o MsmNordauCaps9 \o
           MsmNordauCaps10 \o MsmNordauCaps11 \o MsmNordauCaps12 \o
           MsmNordauCaps13 \o MsmNordauCaps14 \o MsmNordauCaps15,
   deps |-> MsmNordauDeps1 \o MsmNordauDeps2 \o MsmNordauDeps3 \o
           MsmNordauDeps4 \o MsmNordauDeps5 \o MsmNordauDeps6 \o
           MsmNordauDeps7 \o MsmNordauDeps8 \o MsmNordauDeps9]

ChoraCaps1 == <<
  Fixed(Dec, All, {"FRAME_WIDTH", "FRAME_HEIGHT", "MBPF", "FRAME_RATE",
      "OPERATING_RATE", "MB_CYCLES_VSP", "MB_CYCLES_VPP", "MB_CYCLES_LP"}),
  Fixed(Enc, All, {"FRAME_WIDTH", "LOSSLESS_FRAME_WIDTH", "FRAME_HEIGHT",
      "MBPF", "FRAME_RATE", "OPERATING_RATE", "MB_CYCLES_VSP",
      "MB_CYCLES_VPP", "MB_CYCLES_LP"}),
  Fixed(Enc, {"HEVC"}, {"LOSSLESS_FRAME_WIDTH"}),
  Fixed(Enc, {"H264", "HEVC"}, {"LOSSLESS_FRAME_WIDTH", "SECURE_FRAME_WIDTH",
      "LOSSLESS_FRAME_HEIGHT", "SECURE_FRAME_HEIGHT", "LOSSLESS_MBPF",
      "SCALE_FACTOR"}),
  Fixed(Dec, {"H264", "HEVC", "VP9"}, {"SECURE_FRAME_WIDTH",
      "SECURE_FRAME_HEIGHT", "BATCH_MBPF", "BATCH_FPS"}),
  Fixed(Enc, {"H264"}, {"PIX_FMTS"}),
  Fixed(Enc, {"HEVC"}, {"PIX_FMTS"}),
  Fixed(Dec, {"HEVC", "HEIC"}, {"PIX_FMTS"}),
  Fixed(Dec, {"H264"}, {"PIX_FMTS"}),
  Fixed(Dec, {"VP9"}, {"PIX_FMTS", "FRAME_RATE", "OPERATING_RATE",
      "MB_CYCLES_VSP"}),
  Fixed(Both, All, {"MIN_BUFFERS_INPUT", "MIN_BUFFERS_OUTPUT", "MB_CYCLES_FW",
      "MB_CYCLES_FW_VPP", "CLIENT_ID"}),
  Fixed(Both, {"H264", "HEVC", "VP9"}, {"SECURE_MBPF", "SECURE_MODE"})>>

ChoraCaps2 == <<
  Dynamic(Enc, {"H264", "HEVC"}, {"HFLIP", "VFLIP", "REQUEST_I_FRAME",
      "BIT_RATE"}),
  Fixed(Enc, {"H264", "HEVC"}, {"ROTATION", "SUPER_FRAME"}),
  Fixed(Enc, All, {"HEADER_MODE", "PREPEND_SPSPPS_TO_IDR", "VUI_TIMING_INFO",
      "META_SEQ_HDR_NAL", "WITHOUT_STARTCODE", "NAL_LENGTH_FIELD"}),
  Fixed(Enc, {"H264"}, {"BITRATE_MODE"}),
  Fixed(Enc, {"HEVC"}, {"BITRATE_MODE", "LOSSLESS"}),
  Fixed(Enc, {"H264", "HEVC", "HEIC"}, {"FRAME_SKIP_MODE", "FRAME_RC_ENABLE"})>>

ChoraCaps3 == <<
  Dynamic(Enc, {"HEVC"}, {"CONSTANT_QUALITY"}),
  Dynamic(Enc, All, {"GOP_SIZE"}),
  Fixed(Enc, {"H264", "HEVC"}, {"GOP_CLOSURE", "B_FRAME"})>>

ChoraCaps4 == <<
  Fixed(Enc, {"H264", "HEVC"}, {"BLUR_TYPES", "LOWLATENCY_MODE", "LTR_COUNT",
      "AU_DELIMITER", "CONTENT_ADAPTIVE_CODING", "BITRATE_BOOST",
      "VBV_DELAY"}),
  Dynamic(Enc, {"H264", "HEVC"}, {"BLUR_RESOLUTION", "USE_LTR", "MARK_LTR",
      "PEAK_BITRATE"}),
  Fixed(Enc, All, {"CSC", "CSC_CUSTOM_MATRIX", "TIME_DELTA_BASED_RC"}),
  Fixed(Dec, {"H264", "HEVC", "VP9"}, {"LOWLATENCY_MODE"}),
  Fixed(Enc, {"H264"}, {"BASELAYER_PRIORITY", "MIN_QUALITY"}),
  Fixed(Enc, {"HEVC"}, {"MIN_QUALITY"})>>

ChoraCaps5 == <<
  Fixed(Enc, {"H264"}, {"MIN_FRAME_QP", "I_FRAME_MIN_QP", "P_FRAME_MIN_QP",
      "B_FRAME_MIN_QP", "MAX_FRAME_QP", "I_FRAME_MAX_QP", "P_FRAME_MAX_QP",
      "B_FRAME_MAX_QP"}),
  Fixed(Enc, {"HEVC", "HEIC"}, {"MIN_FRAME_QP", "I_FRAME_MIN_QP",
      "P_FRAME_MIN_QP", "B_FRAME_MIN_QP", "MAX_FRAME_QP", "I_FRAME_MAX_QP",
      "P_FRAME_MAX_QP", "B_FRAME_MAX_QP"}),
  Dynamic(Enc, {"HEVC"}, {"I_FRAME_QP", "P_FRAME_QP", "B_FRAME_QP"}),
  Dynamic(Enc, {"H264"}, {"I_FRAME_QP", "P_FRAME_QP", "B_FRAME_QP"}),
  Fixed(Enc, {"HEVC"}, {"LAYER_TYPE"}),
  Fixed(Enc, {"H264"}, {"LAYER_TYPE"})>>

ChoraCaps6 == <<
  Fixed(Enc, {"H264"}, {"LAYER_ENABLE", "ENTROPY_MODE"}),
  Dynamic(Enc, {"HEVC"}, {"ENH_LAYER_COUNT", "L0_BR", "L1_BR", "L2_BR",
      "L3_BR", "L4_BR", "L5_BR"}),
  Dynamic(Enc, {"H264"}, {"ENH_LAYER_COUNT", "L0_BR", "L1_BR", "L2_BR",
      "L3_BR", "L4_BR", "L5_BR"}),
  Fixed(Dec, {"H264", "HEVC", "VP9"}, {"ENTROPY_MODE"})>>

ChoraCaps7 == <<
  Fixed(Enc, {"H264"}, {"PROFILE", "LEVEL"}),
  Fixed(Dec, {"H264"}, {"PROFILE"}),
  Fixed(Dec, {"HEVC", "HEIC"}, {"PROFILE"}),
  Fixed(Enc, {"HEVC", "HEIC"}, {"PROFILE"}),
  Fixed(Dec, {"VP9"}, {"PROFILE", "LEVEL"}),
  Fixed(Dec, {"H264"}, {"LEVEL"}),
  Fixed(Dec, {"HEVC", "HEIC"}, {"LEVEL"})>>

ChoraCaps8 == <<
  Fixed(Enc, {"HEVC", "HEIC"}, {"LEVEL"}),
  Fixed(Both, {"HEVC"}, {"HEVC_TIER"}),
  Fixed(Enc, {"H264"}, {"LF_MODE", "LF_ALPHA", "LF_BETA", "TRANSFORM_8X8"}),
  Fixed(Enc, {"HEVC", "HEIC"}, {"LF_MODE", "LF_ALPHA", "LF_BETA"}),
  Fixed(Enc, {"H264", "HEVC", "HEIC"}, {"SLICE_MODE", "SLICE_MAX_BYTES",
      "SLICE_MAX_MB"}),
  Fixed(Enc, {"H264", "HEVC"}, {"MB_RC"}),
  Fixed(Enc, {"HEVC"}, {"CHROMA_QP_INDEX_OFFSET"}),
  Fixed(Dec, {"H264", "HEVC", "VP9"}, {"DISPLAY_DELAY_ENABLE",
      "DISPLAY_DELAY"})>>

ChoraCaps9 == <<
  Fixed(Dec, All, {"CONCEAL_COLOR_8BIT", "CONCEAL_COLOR_10BIT", "BIT_DEPTH",
      "BITSTREAM_SIZE_OVERWRITE", "THUMBNAIL_MODE", "DEFAULT_HEADER",
      "RAP_FRAME", "META_DPB_MISR", "META_OPB_MISR"}),
  Fixed(Both, All, {"STAGE", "PIPE", "META_TIMESTAMP"}),
  Fixed(Enc, {"H264", "HEVC"}, {"STAGE", "ALL_INTRA", "META_LTR_MARK_USE"}),
  Fixed(Dec, {"H264"}, {"POC", "META_INTERLACE"}),
  Fixed(Enc, All, {"QUALITY_MODE", "META_SEQ_HDR_NAL"}),
  Fixed(Dec, {"H264", "HEVC", "HEIC"}, {"CODED_FRAMES"}),
  Dynamic(Dec, {"H264", "HEVC", "HEIC"}, {"CODEC_CONFIG"}),
  Dynamic(Dec, All, {"SEQ_CHANGE_AT_SYNC_FRAME"}),
  Dynamic(Both, All, {"PRIORITY"}),
  Dynamic(Enc, All, {"ENC_IP_CR"})>>

ChoraCaps10 == <<
  Fixed(Dec, All, {"META_CONCEALED_MB_CNT", "META_HIST_INFO"}),
  Fixed(Both, {"HEVC", "HEIC"}, {"META_SEI_MASTERING_DISP", "META_SEI_CLL"}),
  Fixed(Dec, {"HEVC", "HEIC"}, {"META_HDR10PLUS"})>>

ChoraCaps11 == <<
  Fixed(Enc, All, {"META_EVA_STATS", "META_ENC_QP_METADATA",
      "META_ROI_INFO"}),
  Fixed(Both, All, {"META_BUF_TAG"}),
  Fixed(Dec, All, {"META_DPB_TAG_LIST", "META_SUBFRAME_OUTPUT",
      "META_DEC_QP_METADATA"}),
  Fixed(Enc, {"H264", "HEVC"}, {"META_ROI_INFO", "COMPLEXITY"}),
  Fixed(Enc, {"HEIC"}, {"FRAME_WIDTH", "FRAME_HEIGHT", "MBPF", "BITRATE_MODE",
      "TIME_DELTA_BASED_RC", "GRID_ENABLE", "B_FRAME", "PIX_FMTS",
      "FRAME_RATE", "META_SUBFRAME_OUTPUT"}),
  Fixed(Both, {"HEIC"}, {"MIN_BUFFERS_INPUT", "HEVC_TIER"}),
  Fixed(Dec, {"HEIC"}, {"MBPF"}),
  Dynamic(Enc, {"HEIC"}, {"CONSTANT_QUALITY", "GOP_SIZE"}),
  Dynamic(Enc, All, {"SIGNAL_COLOR_INFO"}),
  Fixed(Dec, {"H264", "HEVC"}, {"META_MAX_NUM_REORDER_FRAMES"})>>

ChoraDeps1 == KeraDeps1
ChoraDeps2 == NiobeDeps2
ChoraDeps3 == SunDeps2
ChoraDeps4 == SunDeps3

Chora == [name |-> "Chora",
   enc |-> {"H264", "HEVC", "HEIC"},
   dec |-> {"H264", "HEVC", "VP9", "HEIC"},
   caps |-> ChoraCaps1 \o ChoraCaps2 \o ChoraCaps3 \o ChoraCaps4 \o
           ChoraCaps5 \o ChoraCaps6 \o ChoraCaps7 \o ChoraCaps8 \o
           ChoraCaps9 \o ChoraCaps10 \o ChoraCaps11,
   deps |-> ChoraDeps1 \o ChoraDeps2 \o ChoraDeps3 \o ChoraDeps4]

MsmChoraV0Caps1 == <<
  Fixed(Dec, All, {"FRAME_WIDTH", "SECURE_FRAME_WIDTH", "FRAME_HEIGHT",
      "SECURE_FRAME_HEIGHT"}),
  Fixed(Enc, All, {"FRAME_WIDTH", "LOSSLESS_FRAME_WIDTH",
      "SECURE_FRAME_WIDTH"}),
  Fixed(Enc, {"HEIC"}, {"FRAME_WIDTH", "FRAME_HEIGHT"}),
  Fixed(Enc, All, {"FRAME_HEIGHT", "LOSSLESS_FRAME_HEIGHT",
      "SECURE_FRAME_HEIGHT"}),
  Fixed(Enc, {"H264"}, {"PIX_FMTS"}),
  Fixed(Dec, {"H264"}, {"PIX_FMTS"}),
  Fixed(Enc, {"HEVC"}, {"PIX_FMTS"}),
  Fixed(Enc, {"VP9"}, {"PIX_FMTS"})>>

MsmChoraV0Caps2 == <<
  Fixed(Dec, {"HEVC"}, {"PIX_FMTS"}),
  Fixed(Dec, {"VP9"}, {"PIX_FMTS"}),
  Fixed(Enc, {"HEIC"}, {"PIX_FMTS"}),
  Fixed(Dec, {"HEIC"}, {"PIX_FMTS"}),
  Fixed(Both, All, {"MIN_BUFFERS_INPUT", "MIN_BUFFERS_OUTPUT", "INPUT_RATE",
      "TIMESTAMP_RATE", "MB_CYCLES_FW"}),
  Fixed(Both, {"HEIC"}, {"MIN_BUFFERS_INPUT"}),
  Fixed(Enc, All, {"MBPF", "FRAME_RATE", "OPERATING_RATE", "MB_CYCLES_VPP",
      "MB_CYCLES_LP", "MB_CYCLES_FW_VPP"}),
  Fixed(Dec, All, {"MBPF", "MB_CYCLES_VPP", "MB_CYCLES_LP",
      "MB_CYCLES_FW_VPP"}),
  Fixed(Dec, {"HEIC"}, {"MBPF"}),
  Fixed(Enc, {"HEIC"}, {"MBPF", "FRAME_RATE"}),
  Fixed(Enc, {"H264", "HEVC"}, {"LOSSLESS_MBPF", "SCALE_FACTOR"}),
  Fixed(Dec, {"H264", "HEVC", "VP9"}, {"BATCH_MBPF", "BATCH_FPS"}),
  Fixed(Both, {"H264", "HEVC", "VP9"}, {"SECURE_MBPF", "SECURE_MODE"}),
  Dynamic(Dec, {"H264", "HEVC", "VP9", "HEIC"}, {"FRAME_RATE"}),
  Dynamic(Dec, {"VP9"}, {"FRAME_RATE"}),
  Dynamic(Dec, All, {"OPERATING_RATE"}),
  Fixed(Dec, {"VP9"}, {"OPERATING_RATE"}),
  Fixed(Enc, {"H264", "HEVC", "VP9", "HEIC"}, {"MB_CYCLES_VSP"}),
  Fixed(Dec, {"H264", "HEVC", "VP9", "HEIC"}, {"MB_CYCLES_VSP"}),
  Fixed(Dec, {"VP9"}, {"MB_CYCLES_VSP"}),
  Fixed(Enc, {"H264"}, {"ENC_RING_BUFFER_COUNT"}),
  Fixed(Both, {"H264", "HEVC", "VP9", "HEIC"}, {"CLIENT_ID"})>>

MsmChoraV0Caps3 == MsmMalabarCaps2
MsmChoraV0Caps4 == MsmMalabarCaps3

MsmChoraV0Caps5 == <<
  Fixed(Enc, {"H264", "HEVC"}, {"LTR_COUNT", "IR_TYPE", "IR_PERIOD",
      "AU_DELIMITER", "TIME_DELTA_BASED_RC", "CONTENT_ADAPTIVE_CODING",
      "BITRATE_BOOST", "MIN_QUALITY", "VBV_DELAY"}),
  Dynamic(Enc, {"H264", "HEVC"}, {"USE_LTR", "MARK_LTR", "PEAK_BITRATE"}),
  Fixed(Enc, {"H264"}, {"BASELAYER_PRIORITY"}),
  Fixed(Enc, {"HEIC"}, {"TIME_DELTA_BASED_RC"})>>

MsmChoraV0Caps6 == ChoraCaps5

MsmChoraV0Caps7 == <<
  Fixed(Enc, {"H264"}, {"LAYER_ENABLE", "ENTROPY_MODE"}),
  Fixed(Enc, {"HEVC"}, {"LAYER_ENABLE"}),
  Dynamic(Enc, {"HEVC"}, {"ENH_LAYER_COUNT"}),
  Dynamic(Enc, {"H264"}, {"ENH_LAYER_COUNT", "L0_BR", "L1_BR", "L2_BR",
      "L3_BR", "L4_BR", "L5_BR"}),
  Dynamic(Enc, {"HEVC"}, {"L0_BR", "L1_BR", "L2_BR", "L3_BR", "L4_BR",
      "L5_BR"}),
  Fixed(Dec, {"H264", "HEVC", "VP9"}, {"ENTROPY_MODE"}),
  Fixed(Both, {"H264"}, {"PROFILE"})>>

MsmChoraV0Caps8 == <<
  Fixed(Dec, {"HEVC", "HEIC"}, {"PROFILE"}),
  Fixed(Enc, {"HEVC", "HEIC"}, {"PROFILE"}),
  Fixed(Dec, {"VP9"}, {"PROFILE"}),
  Fixed(Enc, {"H264"}, {"LEVEL"}),
  Fixed(Enc, {"HEVC", "HEIC"}, {"LEVEL"}),
  Fixed(Dec, {"H264"}, {"LEVEL"}),
  Fixed(Dec, {"HEVC", "HEIC"}, {"LEVEL"}),
  Fixed(Dec, {"VP9"}, {"LEVEL"}),
  Fixed(Both, {"HEVC"}, {"HEVC_TIER"})>>

MsmChoraV0Caps9 == <<
  Fixed(Both, {"HEIC"}, {"HEVC_TIER"}),
  Fixed(Enc, {"H264"}, {"LF_MODE", "LF_ALPHA", "LF_BETA", "TRANSFORM_8X8"}),
  Fixed(Enc, {"HEVC", "HEIC"}, {"LF_MODE", "LF_ALPHA", "LF_BETA"}),
  Fixed(Enc, {"H264", "HEVC"}, {"SLICE_MODE", "MB_RC",
      "CHROMA_QP_INDEX_OFFSET"}),
  Fixed(Enc, {"HEIC"}, {"SLICE_MODE"}),
  Fixed(Enc, {"H264", "HEVC", "HEIC"}, {"SLICE_MAX_BYTES", "SLICE_MAX_MB"}),
  Fixed(Dec, {"H264", "HEVC", "VP9"}, {"DISPLAY_DELAY_ENABLE",
      "DISPLAY_DELAY", "OUTPUT_ORDER"}),
  Fixed(Both, {"H264", "HEVC", "VP9", "HEIC"}, {"INPUT_BUF_HOST_MAX_COUNT"})>>

MsmChoraV0Caps10 == <<
  Fixed(Both, {"H264", "HEVC", "VP9", "HEIC"}, {"OUTPUT_BUF_HOST_MAX_COUNT",
      "STAGE", "PIPE", "FIRMWARE_PRIORITY_OFFSET", "LAST_FLAG_EVENT_ENABLE"}),
  Fixed(Dec, All, {"CONCEAL_COLOR_8BIT", "CONCEAL_COLOR_10BIT"}),
  Fixed(Dec, {"H264"}, {"POC"}),
  Fixed(Dec, {"H264", "HEVC"}, {"MAX_NUM_REORDER_FRAMES"}),
  Fixed(Enc, {"H264", "HEVC", "VP9", "HEIC"}, {"QUALITY_MODE",
      "CRITICAL_PRIORITY"}),
  Fixed(Dec, {"H264", "HEVC", "HEIC"}, {"CODED_FRAMES"}),
  Fixed(Dec, {"H264", "HEVC", "VP9", "HEIC"}, {"BIT_DEPTH",
      "BITSTREAM_SIZE_OVERWRITE", "THUMBNAIL_MODE", "DEFAULT_HEADER",
      "RAP_FRAME"}),
  Dynamic(Dec, {"H264", "HEVC", "HEIC"}, {"CODEC_CONFIG"}),
  Dynamic(Dec, {"H264", "HEVC", "VP9", "HEIC"}, {"SEQ_CHANGE_AT_SYNC_FRAME",
      "INPUT_EXTRA_METADATA_OFFSET"}),
  Dynamic(Both, {"H264", "HEVC", "VP9", "HEIC"}, {"PRIORITY"}),
  Dynamic(Enc, {"H264", "HEVC", "VP9", "HEIC"}, {"RESERVE_DURATION",
      "ENC_IP_CR"}),
  Fixed(Enc, {"H264", "HEVC"}, {"ALL_INTRA", "META_LTR_MARK_USE"})>>

MsmChoraV0Caps11 == <<
  Fixed(Enc, {"H264", "HEVC", "HEIC"}, {"META_SEQ_HDR_NAL"}),
  Fixed(Dec, {"H264", "HEVC", "VP9", "HEIC"}, {"META_DPB_MISR",
      "META_OPB_MISR", "META_CONCEALED_MB_CNT"}),
  Fixed(Dec, {"H264"}, {"META_INTERLACE"}),
  Fixed(Both, {"H264", "HEVC", "VP9", "HEIC"}, {"META_TIMESTAMP"}),
  Fixed(Dec, {"HEVC", "VP9"}, {"META_HIST_INFO"}),
  Fixed(Enc, {"HEVC"}, {"META_HIST_INFO", "META_DOLBY_RPU"}),
  Fixed(Dec, {"H264", "HEVC"}, {"META_TRANSCODING_STAT_INFO",
      "META_DOLBY_RPU"}),
  Fixed(Enc, {"H264", "HEVC"}, {"META_TRANSCODING_STAT_INFO"}),
  Dynamic(Dec, {"H264", "HEVC", "VP9", "HEIC"}, {"META_PICTURE_TYPE"}),
  Fixed(Enc, {"HEVC", "HEIC"}, {"META_SEI_MASTERING_DISP", "META_SEI_CLL",
      "META_HDR10PLUS"}),
  Fixed(Dec, {"HEVC", "HEIC"}, {"META_SEI_MASTERING_DISP", "META_SEI_CLL",
      "META_HDR10PLUS"})>>

MsmChoraV0Caps12 == <<
  Fixed(Enc, {"H264", "HEVC"}, {"META_EVA_STATS", "META_ROI_INFO",
      "META_SALIENCY_INFO", "COMPLEXITY"}),
  Fixed(Enc, {"H264", "HEVC", "VP9", "HEIC"}, {"META_BUF_TAG",
      "META_ENC_QP_METADATA"}),
  Dynamic(Dec, {"H264", "HEVC", "VP9", "HEIC"}, {"META_BUF_TAG"}),
  Fixed(Dec, {"H264", "HEVC", "VP9", "HEIC"}, {"META_DPB_TAG_LIST",
      "META_SUBFRAME_OUTPUT", "META_DEC_QP_METADATA"}),
  Fixed(Enc, {"H264", "HEVC", "HEIC"}, {"META_SUBFRAME_OUTPUT"}),
  Fixed(Enc, {"HEIC"}, {"GRID_ENABLE", "GRID_SIZE"}),
  Fixed(Enc, {"HEVC"}, {"DELIVERY_MODE", "CAPTURE_DATA_OFFSET"}),
  Fixed(Enc, {"H264"}, {"DELIVERY_MODE"}),
  Dynamic(Enc, {"H264", "HEVC", "HEIC"}, {"SIGNAL_COLOR_INFO"})>>

MsmChoraDeps1 == <<
  Parent(Enc, {"H264"}, {"PIX_FMTS"}, <<"IR_PERIOD", "CSC", "LTR_COUNT",
      "META_ROI_INFO">>, Neither),
  Parent(Enc, {"HEVC"}, {"PIX_FMTS"}, <<"PROFILE", "MIN_FRAME_QP",
      "MAX_FRAME_QP", "I_FRAME_QP", "P_FRAME_QP", "B_FRAME_QP", "MIN_QUALITY",
      "BLUR_TYPES", "IR_PERIOD", "LTR_COUNT", "CSC",
      "META_ROI_INFO">>, Neither),
  Parent(Enc, {"HEIC"}, {"PIX_FMTS"}, <<"PROFILE", "CSC">>, Neither),
  Parent(Dec, {"HEVC", "HEIC"}, {"PIX_FMTS"}, <<"PROFILE">>, Neither),
  Parent(Enc, All, {"FRAME_RATE"}, <<"LEVEL">>, SetOnly),
  Leaf(Dec, All, {"FRAME_RATE", "OPERATING_RATE"}, AdjustOnly),
  Leaf(Enc, {"H264"}, {"ENC_RING_BUFFER_COUNT"}, SetOnly)>>

MsmChoraDeps2 == MsmMalabarDeps2

MsmChoraDeps3 == <<
  Parent(Dec, {"VP9"}, {"LOWLATENCY_MODE"}, <<"STAGE">>, Neither),
  Leaf(Enc, {"H264", "HEVC"}, {"LTR_COUNT", "USE_LTR", "MARK_LTR",
      "IR_PERIOD", "CONTENT_ADAPTIVE_CODING", "PEAK_BITRATE"}, AdjustSet),
  Leaf(Enc, {"H264", "HEVC"}, {"AU_DELIMITER", "VBV_DELAY"}, SetOnly),
  Leaf(Enc, {"H264"}, {"BASELAYER_PRIORITY", "MIN_FRAME_QP",
      "MAX_FRAME_QP"}, SetOnly),
  Leaf(Enc, All, {"TIME_DELTA_BASED_RC"}, AdjustSet),
  Parent(Enc, {"H264", "HEVC"}, {"BITRATE_BOOST"}, <<"LEVEL">>, AdjustSet),
  Parent(Enc, {"H264", "HEVC"}, {"MIN_QUALITY"}, <<"BLUR_TYPES",
      "BITRATE_BOOST">>, AdjustSet),
  Leaf(Enc, {"HEVC"}, {"MIN_FRAME_QP", "MAX_FRAME_QP", "I_FRAME_QP",
      "P_FRAME_QP", "B_FRAME_QP"}, AdjustSet),
  Leaf(Enc, {"H264"}, {"I_FRAME_QP", "P_FRAME_QP", "B_FRAME_QP"}, SetOnly)>>

MsmChoraDeps4 == <<
  Parent(Enc, {"H264"}, {"LAYER_TYPE"}, <<"CONTENT_ADAPTIVE_CODING",
      "LTR_COUNT", "LEVEL">>, Neither),
  Parent(Enc, {"HEVC"}, {"LAYER_TYPE"}, <<"CONTENT_ADAPTIVE_CODING",
      "LTR_COUNT", "OPEN_GOP">>, Neither),
  Parent(Enc, {"H264", "HEVC"}, {"LAYER_ENABLE"}, <<"CONTENT_ADAPTIVE_CODING",
      "LEVEL">>, Neither),
  Parent(Enc, {"H264"}, {"ENH_LAYER_COUNT"}, <<"GOP_SIZE", "B_FRAME",
      "BIT_RATE", "MIN_QUALITY", "SLICE_MODE", "LTR_COUNT",
      "LEVEL">>, AdjustSet),
  Parent(Enc, {"HEVC"}, {"ENH_LAYER_COUNT"}, <<"GOP_SIZE", "B_FRAME",
      "BIT_RATE", "MIN_QUALITY", "SLICE_MODE", "LTR_COUNT",
      "OPEN_GOP">>, AdjustSet),
  Parent(Enc, {"H264", "HEVC"}, {"L0_BR"}, <<"L1_BR">>, AdjustSet),
  Parent(Enc, {"H264", "HEVC"}, {"L1_BR"}, <<"L2_BR">>, AdjustSet),
  Parent(Enc, {"H264", "HEVC"}, {"L2_BR"}, <<"L3_BR">>, AdjustSet),
  Parent(Enc, {"H264", "HEVC"}, {"L3_BR"}, <<"L4_BR">>, AdjustSet),
  Parent(Enc, {"H264", "HEVC"}, {"L4_BR"}, <<"L5_BR">>, AdjustSet),
  Leaf(Enc, {"H264", "HEVC"}, {"L5_BR", "LEVEL"}, AdjustSet),
  Parent(Enc, {"H264"}, {"ENTROPY_MODE"}, <<"BIT_RATE">>, AdjustSet),
  Parent(Enc, {"H264"}, {"PROFILE"}, <<"ENTROPY_MODE", "TRANSFORM_8X8",
      "CHROMA_QP_INDEX_OFFSET">>, SetOnly),
  Parent(Dec, {"H264"}, {"PROFILE"}, <<"ENTROPY_MODE">>, SetOnly),
  Parent(Enc, {"HEIC"}, {"PROFILE"}, <<"META_SEI_MASTERING_DISP",
      "META_SEI_CLL", "META_HDR10PLUS">>, AdjustSet),
  Parent(Enc, {"HEVC"}, {"PROFILE"}, <<"META_SEI_MASTERING_DISP",
      "META_SEI_CLL", "META_HDR10PLUS", "META_HIST_INFO">>, AdjustSet),
  Leaf(Dec, {"HEVC", "HEIC"}, {"PROFILE"}, AdjustSet),
  Leaf(Dec, {"VP9"}, {"PROFILE"}, SetOnly),
  Leaf(Dec, All, {"LEVEL"}, SetOnly),
  Leaf(Enc, {"HEIC"}, {"LEVEL"}, SetOnly)>>

MsmChoraDeps5 == MsmSeraphDeps7

MsmChoraDeps6 == <<
  Parent(Dec, {"H264", "HEVC", "VP9"}, {"DISPLAY_DELAY_ENABLE", "DISPLAY_DELAY"}, <<
      "OUTPUT_ORDER">>, Neither),
  Leaf(Dec, {"H264", "HEVC"}, {"OUTPUT_ORDER"}, AdjustSet),
  Leaf(Dec, {"VP9"}, {"OUTPUT_ORDER"}, AdjustSet),
  Leaf(Both, {"H264", "HEVC", "VP9", "HEIC"}, {"INPUT_BUF_HOST_MAX_COUNT",
      "OUTPUT_BUF_HOST_MAX_COUNT", "PRIORITY"}, AdjustSet),
  Leaf(Enc, {"H264", "HEVC"}, {"INPUT_BUF_HOST_MAX_COUNT",
      "OUTPUT_BUF_HOST_MAX_COUNT"}, AdjustSet),
  Leaf(Dec, {"H264", "HEVC", "VP9", "HEIC"}, {"CONCEAL_COLOR_8BIT",
      "CONCEAL_COLOR_10BIT", "RAP_FRAME"}, SetOnly),
  Leaf(Both, {"H264", "HEVC", "VP9", "HEIC"}, {"STAGE", "PIPE"}, SetOnly),
  Leaf(Enc, {"H264", "HEVC"}, {"STAGE"}, SetOnly),
  Leaf(Dec, {"H264", "HEVC", "VP9"}, {"STAGE"}, SetOnly),
  Parent(Dec, {"H264", "HEVC", "VP9"}, {"THUMBNAIL_MODE"}, <<
      "OUTPUT_ORDER">>, SetOnly),
  Leaf(Dec, {"HEIC"}, {"THUMBNAIL_MODE"}, SetOnly)>>

MsmChoraDeps7 == MsmMalabarDeps6

MsmChoraDeps8 == <<
  Parent(Enc, {"H264", "HEVC"}, {"DELIVERY_MODE"}, <<"LOWLATENCY_MODE",
      "OUTPUT_BUF_HOST_MAX_COUNT">>, AdjustSet),
  Leaf(Enc, {"H264", "HEVC", "HEIC"}, {"VUI_TIMING_INFO",
      "SIGNAL_COLOR_INFO"}, SetOnly),
  Leaf(Enc, {"HEVC", "HEIC"}, {"META_SEI_MASTERING_DISP", "META_SEI_CLL",
      "META_HDR10PLUS"}, AdjustOnly),
  Leaf(Enc, {"H264", "HEVC"}, {"META_TRANSCODING_STAT_INFO"}, AdjustOnly),
  Leaf(Enc, {"HEVC"}, {"META_HIST_INFO"}, AdjustOnly)>>

MsmChoraV0 == [name |-> "MsmChoraV0",
   enc |-> {"H264", "HEVC", "HEIC"},
   dec |-> {"H264", "HEVC", "VP9", "HEIC"},
   caps |-> MsmChoraV0Caps1 \o MsmChoraV0Caps2 \o MsmChoraV0Caps3 \o
           MsmChoraV0Caps4 \o MsmChoraV0Caps5 \o MsmChoraV0Caps6 \o
           MsmChoraV0Caps7 \o MsmChoraV0Caps8 \o MsmChoraV0Caps9 \o
           MsmChoraV0Caps10 \o MsmChoraV0Caps11 \o MsmChoraV0Caps12,
   deps |-> MsmChoraDeps1 \o MsmChoraDeps2 \o MsmChoraDeps3 \o
           MsmChoraDeps4 \o MsmChoraDeps5 \o MsmChoraDeps6 \o MsmChoraDeps7 \o
           MsmChoraDeps8]

MsmChoraV1Caps1 == MsmChoraV0Caps1
MsmChoraV1Caps2 == MsmChoraV0Caps2
MsmChoraV1Caps3 == MsmMalabarCaps2
MsmChoraV1Caps4 == MsmMalabarCaps3
MsmChoraV1Caps5 == MsmChoraV0Caps5
MsmChoraV1Caps6 == ChoraCaps5
MsmChoraV1Caps7 == MsmChoraV0Caps7
MsmChoraV1Caps8 == MsmChoraV0Caps8
MsmChoraV1Caps9 == MsmChoraV0Caps9
MsmChoraV1Caps10 == MsmChoraV0Caps10
MsmChoraV1Caps11 == MsmChoraV0Caps11
MsmChoraV1Caps12 == MsmChoraV0Caps12

MsmChoraV1 == [name |-> "MsmChoraV1",
   enc |-> {"H264", "HEVC", "HEIC"},
   dec |-> {"H264", "HEVC", "VP9", "HEIC"},
   caps |-> MsmChoraV1Caps1 \o MsmChoraV1Caps2 \o MsmChoraV1Caps3 \o
           MsmChoraV1Caps4 \o MsmChoraV1Caps5 \o MsmChoraV1Caps6 \o
           MsmChoraV1Caps7 \o MsmChoraV1Caps8 \o MsmChoraV1Caps9 \o
           MsmChoraV1Caps10 \o MsmChoraV1Caps11 \o MsmChoraV1Caps12,
   deps |-> MsmChoraDeps1 \o MsmChoraDeps2 \o MsmChoraDeps3 \o
           MsmChoraDeps4 \o MsmChoraDeps5 \o MsmChoraDeps6 \o MsmChoraDeps7 \o
           MsmChoraDeps8]

KodiakV0Caps1 == <<
  Fixed(Dec, All, {"FRAME_WIDTH"}),
  Fixed(Enc, All, {"FRAME_WIDTH"}),
  Fixed(Enc, {"HEIC"}, {"FRAME_WIDTH"})>>

KodiakV0Caps2 == <<
  Fixed(Enc, All, {"LOSSLESS_FRAME_WIDTH", "SECURE_FRAME_WIDTH",
      "FRAME_HEIGHT", "LOSSLESS_FRAME_HEIGHT", "SECURE_FRAME_HEIGHT", "MBPF",
      "FRAME_RATE", "OPERATING_RATE"}),
  Fixed(Dec, All, {"SECURE_FRAME_WIDTH", "FRAME_HEIGHT",
      "SECURE_FRAME_HEIGHT", "MBPF"}),
  Fixed(Enc, {"H264"}, {"PIX_FMTS"}),
  Fixed(Dec, {"H264"}, {"PIX_FMTS"}),
  Fixed(Enc, {"HEVC"}, {"PIX_FMTS"}),
  Fixed(Enc, {"VP9"}, {"PIX_FMTS"}),
  Fixed(Dec, {"HEVC"}, {"PIX_FMTS"}),
  Fixed(Dec, {"VP9"}, {"PIX_FMTS"}),
  Fixed(Enc, {"HEIC"}, {"PIX_FMTS", "MBPF", "FRAME_RATE"}),
  Fixed(Dec, {"HEIC"}, {"PIX_FMTS", "MBPF"}),
  Fixed(Both, All, {"MIN_BUFFERS_INPUT", "MIN_BUFFERS_OUTPUT", "INPUT_RATE",
      "TIMESTAMP_RATE"}),
  Fixed(Both, {"HEIC"}, {"MIN_BUFFERS_INPUT"}),
  Fixed(Enc, {"H264", "HEVC"}, {"LOSSLESS_MBPF", "SCALE_FACTOR"}),
  Fixed(Dec, {"H264", "HEVC", "VP9"}, {"BATCH_MBPF", "BATCH_FPS"}),
  Fixed(Both, {"H264", "HEVC", "VP9"}, {"SECURE_MBPF"}),
  Dynamic(Dec, {"H264", "HEVC", "VP9", "HEIC"}, {"FRAME_RATE"}),
  Dynamic(Dec, {"VP9"}, {"FRAME_RATE"}),
  Dynamic(Dec, All, {"OPERATING_RATE"}),
  Fixed(Dec, {"VP9"}, {"OPERATING_RATE"}),
  Fixed(Enc, {"H264", "HEVC", "VP9", "HEIC"}, {"MB_CYCLES_VSP"}),
  Fixed(Dec, {"H264", "HEVC", "VP9", "HEIC"}, {"MB_CYCLES_VSP"}),
  Fixed(Dec, {"VP9"}, {"MB_CYCLES_VSP"})>>

KodiakV0Caps3 == <<
  Fixed(Enc, All, {"MB_CYCLES_VPP", "MB_CYCLES_LP"}),
  Fixed(Dec, All, {"MB_CYCLES_VPP", "MB_CYCLES_LP"}),
  Fixed(Both, All, {"MB_CYCLES_FW", "MB_CYCLES_FW_VPP"}),
  Fixed(Both, {"H264", "HEVC", "VP9", "HEIC"}, {"CLIENT_ID"}),
  Fixed(Both, {"H264", "HEVC", "VP9"}, {"SECURE_MODE"})>>

KodiakV0Caps4 == MsmMalabarCaps2
KodiakV0Caps5 == MsmMalabarCaps3
KodiakV0Caps6 == MsmChoraV0Caps5
KodiakV0Caps7 == ChoraCaps5
KodiakV0Caps8 == MsmChoraV0Caps7
KodiakV0Caps9 == MsmChoraV0Caps8
KodiakV0Caps10 == MsmChoraV0Caps9

KodiakV0Caps11 == <<
  Fixed(Both, {"H264", "HEVC", "VP9", "HEIC"}, {"OUTPUT_BUF_HOST_MAX_COUNT",
      "STAGE", "PIPE"}),
  Fixed(Dec, All, {"CONCEAL_COLOR_8BIT", "CONCEAL_COLOR_10BIT"}),
  Fixed(Dec, {"H264"}, {"POC"}),
  Fixed(Dec, {"H264", "HEVC"}, {"MAX_NUM_REORDER_FRAMES"}),
  Fixed(Enc, {"H264", "HEVC", "VP9", "HEIC"}, {"QUALITY_MODE"}),
  Fixed(Dec, {"H264", "HEVC", "HEIC"}, {"CODED_FRAMES"}),
  Fixed(Dec, {"H264", "HEVC", "VP9", "HEIC"}, {"BIT_DEPTH",
      "BITSTREAM_SIZE_OVERWRITE", "THUMBNAIL_MODE", "DEFAULT_HEADER",
      "RAP_FRAME"}),
  Dynamic(Dec, {"H264", "HEVC", "HEIC"}, {"CODEC_CONFIG"}),
  Dynamic(Dec, {"H264", "HEVC", "VP9", "HEIC"}, {"SEQ_CHANGE_AT_SYNC_FRAME"}),
  Dynamic(Both, {"H264", "HEVC", "VP9", "HEIC"}, {"PRIORITY"})>>

KodiakV0Caps12 == <<
  Dynamic(Enc, {"H264", "HEVC", "VP9", "HEIC"}, {"ENC_IP_CR"}),
  Dynamic(Dec, {"H264", "HEVC", "VP9", "HEIC"}, {
      "INPUT_EXTRA_METADATA_OFFSET"}),
  Fixed(Both, {"H264", "HEVC", "VP9", "HEIC"}, {"LAST_FLAG_EVENT_ENABLE"}),
  Fixed(Enc, {"H264", "HEVC"}, {"ALL_INTRA", "META_LTR_MARK_USE"})>>

KodiakV0Caps13 == MsmChoraV0Caps11
KodiakV0Caps14 == MsmMalabarCaps11

KodiakV0Caps15 == <<
  Fixed(Enc, {"HEVC"}, {"CAPTURE_DATA_OFFSET"})>>

KodiakDeps1 == <<
  Parent(Enc, {"H264"}, {"PIX_FMTS"}, <<"IR_PERIOD", "CSC", "LTR_COUNT",
      "META_ROI_INFO">>, Neither),
  Parent(Enc, {"HEVC"}, {"PIX_FMTS"}, <<"PROFILE", "MIN_FRAME_QP",
      "MAX_FRAME_QP", "I_FRAME_QP", "P_FRAME_QP", "B_FRAME_QP", "MIN_QUALITY",
      "BLUR_TYPES", "IR_PERIOD", "LTR_COUNT", "CSC",
      "META_ROI_INFO">>, Neither),
  Parent(Enc, {"HEIC"}, {"PIX_FMTS"}, <<"PROFILE", "CSC">>, Neither),
  Parent(Dec, {"HEVC", "HEIC"}, {"PIX_FMTS"}, <<"PROFILE">>, Neither),
  Parent(Enc, All, {"FRAME_RATE"}, <<"LEVEL">>, SetOnly)>>

KodiakDeps2 == <<
  Leaf(Both, {"H264", "HEVC", "VP9"}, {"SECURE_MODE"}, SetOnly),
  Leaf(Enc, All, {"HFLIP", "VFLIP"}, SetOnly),
  Leaf(Enc, {"H264", "HEVC", "VP9", "HEIC"}, {"ROTATION"}, SetOnly),
  Parent(Enc, {"H264", "HEVC"}, {"SUPER_FRAME"}, <<"INPUT_BUF_HOST_MAX_COUNT",
      "OUTPUT_BUF_HOST_MAX_COUNT">>, Neither),
  Leaf(Enc, {"H264", "HEVC", "HEIC"}, {"HEADER_MODE",
      "WITHOUT_STARTCODE"}, SetOnly),
  Leaf(Enc, {"H264", "HEVC"}, {"REQUEST_I_FRAME"}, SetOnly),
  Parent(Enc, {"H264"}, {"BIT_RATE"}, <<"PEAK_BITRATE", "BITRATE_BOOST",
      "L0_BR", "LEVEL">>, AdjustSet),
  Parent(Enc, {"HEVC"}, {"BIT_RATE"}, <<"PEAK_BITRATE", "BITRATE_BOOST",
      "L0_BR", "LEVEL">>, AdjustSet),
  Parent(Enc, {"H264"}, {"BITRATE_MODE"}, <<"LTR_COUNT", "IR_PERIOD",
      "TIME_DELTA_BASED_RC", "I_FRAME_QP", "P_FRAME_QP", "B_FRAME_QP",
      "ENH_LAYER_COUNT", "BIT_RATE", "META_ROI_INFO", "MIN_QUALITY",
      "BITRATE_BOOST", "VBV_DELAY", "PEAK_BITRATE", "SLICE_MODE",
      "CONTENT_ADAPTIVE_CODING", "BLUR_TYPES", "LOWLATENCY_MODE",
      "META_EVA_STATS", "META_TRANSCODING_STAT_INFO">>, AdjustSet),
  Parent(Enc, {"HEVC"}, {"BITRATE_MODE"}, <<"LTR_COUNT", "IR_PERIOD",
      "TIME_DELTA_BASED_RC", "I_FRAME_QP", "P_FRAME_QP", "B_FRAME_QP",
      "CONSTANT_QUALITY", "ENH_LAYER_COUNT", "BIT_RATE", "META_ROI_INFO",
      "MIN_QUALITY", "BITRATE_BOOST", "VBV_DELAY", "PEAK_BITRATE",
      "SLICE_MODE", "CONTENT_ADAPTIVE_CODING", "BLUR_TYPES",
      "LOWLATENCY_MODE", "META_EVA_STATS", "META_TRANSCODING_STAT_INFO",
      "OPEN_GOP">>, AdjustSet),
  Parent(Enc, {"HEIC"}, {"BITRATE_MODE"}, <<"TIME_DELTA_BASED_RC",
      "CONSTANT_QUALITY">>, AdjustSet),
  Leaf(Enc, {"HEVC", "HEIC"}, {"CONSTANT_QUALITY"}, SetOnly),
  Parent(Enc, {"H264", "HEVC", "HEIC"}, {"GOP_SIZE"}, <<
      "ALL_INTRA">>, AdjustSet),
  Leaf(Enc, {"HEIC"}, {"GOP_SIZE"}, SetOnly),
  Parent(Enc, {"HEVC"}, {"OPEN_GOP"}, <<"GOP_SIZE">>, AdjustSet),
  Parent(Enc, {"H264", "HEVC"}, {"B_FRAME"}, <<"ALL_INTRA">>, AdjustSet),
  Leaf(Enc, {"HEIC"}, {"B_FRAME"}, SetOnly),
  Parent(Enc, {"H264", "HEVC"}, {"BLUR_TYPES"}, <<
      "BLUR_RESOLUTION">>, AdjustSet),
  Leaf(Enc, {"H264", "HEVC"}, {"BLUR_RESOLUTION"}, AdjustSet)>>

KodiakDeps3 == <<
  Parent(Enc, {"H264", "HEVC"}, {"LOWLATENCY_MODE"}, <<"STAGE",
      "BIT_RATE">>, AdjustOnly),
  Parent(Dec, {"H264", "HEVC"}, {"LOWLATENCY_MODE"}, <<"STAGE">>, Neither)>>

KodiakDeps4 == MsmChoraDeps3
KodiakDeps5 == MsmChoraDeps4

KodiakDeps6 == <<
  Leaf(Both, {"HEVC", "HEIC"}, {"HEVC_TIER"}, SetOnly),
  Leaf(Enc, {"H264", "HEVC", "HEIC"}, {"LF_MODE"}, SetOnly),
  Parent(Enc, {"H264", "HEVC"}, {"SLICE_MODE"}, <<"STAGE">>, AdjustSet),
  Leaf(Enc, {"HEIC"}, {"SLICE_MODE"}, AdjustSet),
  Leaf(Enc, {"H264"}, {"TRANSFORM_8X8"}, AdjustSet),
  Leaf(Enc, {"H264", "HEVC"}, {"CHROMA_QP_INDEX_OFFSET"}, AdjustSet)>>

KodiakDeps7 == MsmChoraDeps6

KodiakDeps8 == <<
  Parent(Enc, {"H264", "HEVC"}, {"ALL_INTRA"}, <<"LTR_COUNT", "IR_PERIOD",
      "SLICE_MODE", "BIT_RATE">>, AdjustOnly),
  Leaf(Enc, {"H264", "HEVC"}, {"META_EVA_STATS",
      "META_TRANSCODING_STAT_INFO"}, AdjustOnly),
  Parent(Enc, {"H264", "HEVC"}, {"META_ROI_INFO"}, <<"MIN_QUALITY",
      "IR_PERIOD", "BLUR_TYPES">>, AdjustOnly),
  Leaf(Enc, {"HEIC"}, {"GRID_ENABLE"}, SetOnly),
  Leaf(Enc, {"H264", "HEVC", "HEIC"}, {"VUI_TIMING_INFO"}, SetOnly),
  Leaf(Enc, {"HEVC", "HEIC"}, {"META_SEI_MASTERING_DISP", "META_SEI_CLL",
      "META_HDR10PLUS"}, AdjustOnly),
  Leaf(Enc, {"HEVC"}, {"META_HIST_INFO"}, AdjustOnly)>>

KodiakV0 == [name |-> "KodiakV0",
   enc |-> {"H264", "HEVC", "HEIC"},
   dec |-> {"H264", "HEVC", "VP9", "HEIC"},
   caps |-> KodiakV0Caps1 \o KodiakV0Caps2 \o KodiakV0Caps3 \o
           KodiakV0Caps4 \o KodiakV0Caps5 \o KodiakV0Caps6 \o KodiakV0Caps7 \o
           KodiakV0Caps8 \o KodiakV0Caps9 \o KodiakV0Caps10 \o
           KodiakV0Caps11 \o KodiakV0Caps12 \o KodiakV0Caps13 \o
           KodiakV0Caps14 \o KodiakV0Caps15,
   deps |-> KodiakDeps1 \o KodiakDeps2 \o KodiakDeps3 \o KodiakDeps4 \o
           KodiakDeps5 \o KodiakDeps6 \o KodiakDeps7 \o KodiakDeps8]

=============================================================================
