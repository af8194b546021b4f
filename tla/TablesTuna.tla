----------------------------- MODULE TablesTuna -----------------------------
(* The capability tables of tuna, kera and malabar                          *)
(* (driver/platform): X of X.c, which the video driver is built with, MsmX  *)
(* of msm_vidc_X.c, which msm_video is built with.  A table is cut in       *)
(* parts, row for row in the order of the file; a part with the same rows   *)
(* as one of another file is that part.                                     *)
EXTENDS TablesCanoe

TunaCaps1 == SunCaps1
TunaCaps2 == SunCaps2
TunaCaps3 == SunCaps3
TunaCaps4 == SunCaps4
TunaCaps5 == SunCaps5
TunaCaps6 == SunCaps6
TunaCaps7 == SunCaps7

TunaDeps1 == <<
  Parent(Enc, {"H264"}, {"PIX_FMTS"}, <<"BIT_DEPTH">>, Neither),
  Parent(Enc, {"HEVC"}, {"PIX_FMTS"}, <<"PROFILE", "MIN_FRAME_QP",
      "MAX_FRAME_QP", "I_FRAME_QP", "P_FRAME_QP", "B_FRAME_QP", "MIN_QUALITY",
      "BLUR_TYPES", "LTR_COUNT", "BIT_DEPTH">>, Neither),
  Parent(Dec, {"HEVC"}, {"PIX_FMTS"}, <<"PROFILE">>, Neither),
  Leaf(Enc, All, {"BIT_DEPTH"}, AdjustOnly),
  Leaf(Enc, All, {"FRAME_RATE", "HFLIP", "VFLIP", "ROTATION", "HEADER_MODE",
      "WITHOUT_STARTCODE"}, SetOnly),
  Parent(Enc, {"H264", "HEVC"}, {"SUPER_FRAME"}, <<"INPUT_BUF_HOST_MAX_COUNT",
      "OUTPUT_BUF_HOST_MAX_COUNT">>, Neither),
  Leaf(Enc, {"H264", "HEVC"}, {"REQUEST_I_FRAME"}, SetOnly),
  Parent(Enc, {"H264"}, {"BIT_RATE"}, <<"PEAK_BITRATE", "L0_BR">>, AdjustSet),
  Parent(Enc, {"HEVC"}, {"BIT_RATE"}, <<"PEAK_BITRATE", "L0_BR">>, AdjustSet),
  Parent(Enc, {"H264"}, {"BITRATE_MODE"}, <<"LTR_COUNT", "I_FRAME_QP",
      "P_FRAME_QP", "B_FRAME_QP", "ENH_LAYER_COUNT", "BIT_RATE",
      "MIN_QUALITY", "VBV_DELAY", "PEAK_BITRATE", "SLICE_MODE",
      "CONTENT_ADAPTIVE_CODING", "BLUR_TYPES",
      "LOWLATENCY_MODE">>, AdjustSet),
  Parent(Enc, {"HEVC"}, {"BITRATE_MODE"}, <<"LTR_COUNT", "I_FRAME_QP",
      "P_FRAME_QP", "B_FRAME_QP", "CONSTANT_QUALITY", "ENH_LAYER_COUNT",
      "BIT_RATE", "MIN_QUALITY", "VBV_DELAY", "PEAK_BITRATE", "SLICE_MODE",
      "CONTENT_ADAPTIVE_CODING", "BLUR_TYPES",
      "LOWLATENCY_MODE">>, AdjustSet),
  Leaf(Enc, {"HEVC"}, {"CONSTANT_QUALITY"}, SetOnly),
  Parent(Enc, All, {"GOP_SIZE"}, <<"ALL_INTRA">>, AdjustSet),
  Parent(Enc, {"H264", "HEVC"}, {"B_FRAME"}, <<"ALL_INTRA">>, AdjustSet)>>

TunaDeps2 == SunDeps2
TunaDeps3 == SunDeps3

Tuna == [name |-> "Tuna",
   enc |-> {"H264", "HEVC"},
   dec |-> {"H264", "HEVC", "VP9"},
   caps |-> TunaCaps1 \o TunaCaps2 \o TunaCaps3 \o TunaCaps4 \o TunaCaps5 \o
           TunaCaps6 \o TunaCaps7,
   deps |-> TunaDeps1 \o TunaDeps2 \o TunaDeps3]

MsmTunaV0Caps1 == <<
  Fixed(Both, All, {"DRV_VERSION", "MIN_BUFFERS_INPUT",
      "MIN_BUFFERS_OUTPUT"}),
  Fixed(Dec, All, {"FRAME_WIDTH", "SECURE_FRAME_WIDTH", "FRAME_HEIGHT",
      "SECURE_FRAME_HEIGHT", "MBPF"}),
  Fixed(Dec, {"VP9", "AV1"}, {"FRAME_WIDTH", "FRAME_HEIGHT", "MBPF"}),
  Fixed(Enc, All, {"FRAME_WIDTH", "LOSSLESS_FRAME_WIDTH",
      "SECURE_FRAME_WIDTH", "FRAME_HEIGHT", "LOSSLESS_FRAME_HEIGHT",
      "SECURE_FRAME_HEIGHT", "MBPF", "FRAME_RATE"}),
  Fixed(Enc, {"HEVC"}, {"FRAME_WIDTH", "LOSSLESS_FRAME_WIDTH",
      "SECURE_FRAME_WIDTH", "FRAME_HEIGHT", "LOSSLESS_FRAME_HEIGHT",
      "SECURE_FRAME_HEIGHT", "MBPF"}),
  Fixed(Enc, {"HEIC"}, {"FRAME_WIDTH", "FRAME_HEIGHT"}),
  Fixed(Both, {"H264"}, {"PIX_FMTS"}),
  Fixed(Both, {"HEVC", "VP9", "AV1"}, {"PIX_FMTS"}),
  Fixed(Enc, {"HEIC"}, {"PIX_FMTS", "MBPF", "FRAME_RATE"}),
  Fixed(Dec, {"HEIC"}, {"PIX_FMTS", "MBPF"}),
  Fixed(Both, {"HEIC"}, {"MIN_BUFFERS_INPUT"}),
  Fixed(Enc, {"H264", "HEVC"}, {"LOSSLESS_MBPF"}),
  Fixed(Dec, {"H264", "HEVC", "VP9", "AV1"}, {"BATCH_MBPF", "BATCH_FPS"}),
  Fixed(Both, {"H264", "HEVC", "VP9", "AV1"}, {"SECURE_MBPF"}),
  Fixed(Enc, {"HEVC"}, {"SECURE_MBPF"})>>

MsmTunaV0Caps2 == <<
  Dynamic(Dec, All, {"FRAME_RATE", "OPERATING_RATE", "OUTPUT_TX_FENCE_ID",
      "INPUT_RX_FENCE_FD"}),
  Dynamic(Dec, {"VP9"}, {"FRAME_RATE"}),
  Fixed(Enc, All, {"OPERATING_RATE", "MB_CYCLES_VSP", "MB_CYCLES_VPP",
      "MB_CYCLES_LP", "MB_CYCLES_FW_VPP", "ENC_RING_BUFFER_COUNT"}),
  Fixed(Both, All, {"INPUT_RATE", "TIMESTAMP_RATE", "MB_CYCLES_FW",
      "CLIENT_ID"}),
  Fixed(Enc, {"H264", "HEVC"}, {"SCALE_FACTOR"}),
  Fixed(Dec, All, {"MB_CYCLES_VSP", "MB_CYCLES_VPP", "MB_CYCLES_LP",
      "MB_CYCLES_FW_VPP", "OUTPUT_TX_FENCE_FD"}),
  Fixed(Dec, {"VP9", "AV1"}, {"MB_CYCLES_VSP"}),
  Fixed(Both, {"H264", "HEVC", "VP9", "AV1"}, {"SECURE_MODE"}),
  Fixed(Dec, {"H264", "HEVC", "VP9", "AV1"}, {"META_OUTPUT_TX_FENCE",
      "OUTPUT_RX_FENCE_ENABLE", "INPUT_RX_FENCE_ENABLE",
      "INPUT_TX_FENCE_ENABLE"}),
  Dynamic(Both, All, {"FENCE_INFO"})>>

MsmTunaV0Caps3 == MsmSunCaps3
MsmTunaV0Caps4 == MsmSunCaps4
MsmTunaV0Caps5 == MsmSunCaps5
MsmTunaV0Caps6 == MsmSunCaps6
MsmTunaV0Caps7 == MsmPineappleCaps7
MsmTunaV0Caps8 == MsmSunCaps8
MsmTunaV0Caps9 == MsmSunCaps9
MsmTunaV0Caps10 == MsmSunCaps10
MsmTunaV0Caps11 == MsmSunCaps11
MsmTunaV0Caps12 == MsmPineappleCaps12
MsmTunaV0Caps13 == MsmPineappleCaps13
MsmTunaDeps1 == MsmNiobeDeps1

MsmTunaDeps2 == <<
  Leaf(Enc, All, {"ENC_RING_BUFFER_COUNT"}, Neither),
  Leaf(Both, {"H264", "HEVC", "VP9", "AV1"}, {"SECURE_MODE"}, SetOnly),
  Parent(Dec, {"H264", "HEVC", "AV1"}, {"META_OUTPUT_TX_FENCE"}, <<
      "OUTPUT_TX_FENCE_TYPE", "SLICE_DECODE",
      "EARLY_NOTIFY_ENABLE">>, Neither),
  Parent(Dec, {"VP9"}, {"META_OUTPUT_TX_FENCE"}, <<
      "OUTPUT_TX_FENCE_TYPE">>, Neither),
  Parent(Dec, {"H264", "HEVC", "VP9", "AV1"}, {"INPUT_RX_FENCE_ENABLE"}, <<
      "INPUT_RX_FENCE_TYPE">>, Neither),
  Parent(Dec, {"H264", "HEVC", "VP9", "AV1"}, {"INPUT_TX_FENCE_ENABLE"}, <<
      "INPUT_TX_FENCE_TYPE">>, Neither),
  Parent(Dec, {"H264", "HEVC", "VP9", "AV1"}, {"OUTPUT_RX_FENCE_ENABLE"}, <<
      "OUTPUT_RX_FENCE_TYPE">>, Neither),
  Leaf(Dec, {"H264", "HEVC", "VP9", "AV1"}, {"INPUT_RX_FENCE_TYPE",
      "INPUT_TX_FENCE_TYPE", "OUTPUT_TX_FENCE_TYPE",
      "OUTPUT_RX_FENCE_TYPE"}, AdjustOnly)>>

MsmTunaDeps3 == MsmNiobeDeps3
MsmTunaDeps4 == MsmSunDeps3

MsmTunaDeps5 == <<
  Leaf(Dec, {"AV1"}, {"ENH_LAYER_COUNT", "AV1_TIER"}, SetOnly),
  Parent(Enc, {"H264", "HEVC"}, {"L0_BR"}, <<"L1_BR">>, AdjustSet),
  Parent(Enc, {"H264", "HEVC"}, {"L1_BR"}, <<"L2_BR">>, AdjustSet),
  Parent(Enc, {"H264", "HEVC"}, {"L2_BR"}, <<"L3_BR">>, AdjustSet),
  Parent(Enc, {"H264", "HEVC"}, {"L3_BR"}, <<"L4_BR">>, AdjustSet),
  Parent(Enc, {"H264", "HEVC"}, {"L4_BR"}, <<"L5_BR">>, AdjustSet),
  Leaf(Enc, {"H264", "HEVC"}, {"L5_BR", "LEVEL",
      "CHROMA_QP_INDEX_OFFSET"}, AdjustSet),
  Parent(Enc, {"H264"}, {"ENTROPY_MODE"}, <<"BIT_RATE">>, AdjustSet),
  Parent(Enc, {"H264"}, {"PROFILE"}, <<"ENTROPY_MODE", "TRANSFORM_8X8",
      "CHROMA_QP_INDEX_OFFSET">>, SetOnly),
  Parent(Dec, {"H264"}, {"PROFILE"}, <<"ENTROPY_MODE">>, SetOnly),
  Parent(Enc, {"HEVC", "HEIC"}, {"PROFILE"}, <<"META_SEI_MASTERING_DISP",
      "META_SEI_CLL", "META_HDR10PLUS">>, AdjustSet),
  Leaf(Dec, {"HEVC", "HEIC"}, {"PROFILE"}, AdjustSet),
  Leaf(Dec, {"VP9", "AV1"}, {"PROFILE"}, SetOnly),
  Leaf(Dec, All, {"LEVEL"}, SetOnly),
  Leaf(Enc, {"HEIC"}, {"LEVEL"}, SetOnly),
  Leaf(Both, {"HEVC", "HEIC"}, {"HEVC_TIER"}, SetOnly),
  Leaf(Enc, All, {"LF_MODE"}, SetOnly),
  Parent(Enc, {"H264", "HEVC"}, {"SLICE_MODE"}, <<"STAGE",
      "DELIVERY_MODE">>, AdjustSet),
  Leaf(Enc, {"HEIC"}, {"SLICE_MODE"}, AdjustSet),
  Leaf(Enc, {"H264"}, {"TRANSFORM_8X8"}, AdjustSet),
  Parent(Dec, {"H264", "HEVC", "VP9", "AV1"}, {"DISPLAY_DELAY_ENABLE", "DISPLAY_DELAY"}, <<
      "OUTPUT_ORDER">>, Neither),
  Parent(Dec, {"H264", "HEVC", "AV1"}, {"OUTPUT_ORDER"}, <<"SLICE_DECODE",
      "EARLY_NOTIFY_ENABLE">>, AdjustSet)>>

MsmTunaDeps6 == MsmPineappleDeps5

MsmTunaV0 == [name |-> "MsmTunaV0",
   enc |-> {"H264", "HEVC", "HEIC"},
   dec |-> {"H264", "HEVC", "VP9", "HEIC", "AV1"},
   caps |-> MsmTunaV0Caps1 \o MsmTunaV0Caps2 \o MsmTunaV0Caps3 \o
           MsmTunaV0Caps4 \o MsmTunaV0Caps5 \o MsmTunaV0Caps6 \o
           MsmTunaV0Caps7 \o MsmTunaV0Caps8 \o MsmTunaV0Caps9 \o
           MsmTunaV0Caps10 \o MsmTunaV0Caps11 \o MsmTunaV0Caps12 \o
           MsmTunaV0Caps13,
   deps |-> MsmTunaDeps1 \o MsmTunaDeps2 \o MsmTunaDeps3 \o MsmTunaDeps4 \o
           MsmTunaDeps5 \o MsmTunaDeps6]

MsmTunaV1Caps1 == <<
  Fixed(Both, All, {"DRV_VERSION", "MIN_BUFFERS_INPUT",
      "MIN_BUFFERS_OUTPUT"}),
  Fixed(Dec, All, {"FRAME_WIDTH", "SECURE_FRAME_WIDTH", "FRAME_HEIGHT",
      "SECURE_FRAME_HEIGHT", "MBPF"}),
  Fixed(Enc, All, {"FRAME_WIDTH", "LOSSLESS_FRAME_WIDTH",
      "SECURE_FRAME_WIDTH", "FRAME_HEIGHT", "LOSSLESS_FRAME_HEIGHT",
      "SECURE_FRAME_HEIGHT", "MBPF", "FRAME_RATE"}),
  Fixed(Enc, {"HEVC"}, {"FRAME_WIDTH", "LOSSLESS_FRAME_WIDTH",
      "SECURE_FRAME_WIDTH", "FRAME_HEIGHT", "LOSSLESS_FRAME_HEIGHT",
      "SECURE_FRAME_HEIGHT", "MBPF"}),
  Fixed(Enc, {"HEIC"}, {"FRAME_WIDTH", "FRAME_HEIGHT"}),
  Fixed(Both, {"H264"}, {"PIX_FMTS"}),
  Fixed(Both, {"HEVC", "VP9", "AV1"}, {"PIX_FMTS"}),
  Fixed(Enc, {"HEIC"}, {"PIX_FMTS", "MBPF", "FRAME_RATE"}),
  Fixed(Dec, {"HEIC"}, {"PIX_FMTS", "MBPF"}),
  Fixed(Both, {"HEIC"}, {"MIN_BUFFERS_INPUT"}),
  Fixed(Enc, {"H264", "HEVC"}, {"LOSSLESS_MBPF"}),
  Fixed(Dec, {"H264", "HEVC", "VP9", "AV1"}, {"BATCH_MBPF", "BATCH_FPS"}),
  Fixed(Both, {"H264", "HEVC", "VP9", "AV1"}, {"SECURE_MBPF"}),
  Fixed(Enc, {"HEVC"}, {"SECURE_MBPF"})>>

MsmTunaV1Caps2 == MsmNiobeCaps2

MsmTunaV1Caps3 == <<
  Fixed(Enc, All, {"ENC_RING_BUFFER_COUNT", "ROTATION"}),
  Fixed(Both, All, {"CLIENT_ID"}),
  Fixed(Both, {"H264", "HEVC", "VP9", "AV1"}, {"SECURE_MODE"}),
  Dynamic(Dec, {"H264", "HEVC", "VP9", "AV1"}, {"META_OUTPUT_TX_FENCE"}),
  Dynamic(Dec, All, {"OUTPUT_TX_FENCE_ID", "INPUT_RX_FENCE_FD"}),
  Fixed(Dec, All, {"OUTPUT_TX_FENCE_FD"}),
  Fixed(Dec, {"H264", "HEVC", "VP9", "AV1"}, {"INPUT_RX_FENCE_TYPE",
      "INPUT_TX_FENCE_TYPE", "OUTPUT_RX_FENCE_TYPE", "OUTPUT_TX_FENCE_TYPE"}),
  Fixed(Dec, {"H264", "HEVC"}, {"TS_REORDER"}),
  Dynamic(Enc, All, {"HFLIP", "VFLIP"}),
  Dynamic(Enc, {"H264", "HEVC"}, {"SUPER_FRAME"}),
  Fixed(Dec, {"H264", "HEVC", "AV1"}, {"SLICE_DECODE"})>>

MsmTunaV1Caps4 == <<
  Fixed(Enc, All, {"HEADER_MODE", "PREPEND_SPSPPS_TO_IDR", "VUI_TIMING_INFO",
      "WITHOUT_STARTCODE", "NAL_LENGTH_FIELD"}),
  Fixed(Dec, {"AV1"}, {"WITHOUT_STARTCODE"}),
  Dynamic(Enc, {"H264", "HEVC"}, {"REQUEST_I_FRAME"})>>

MsmTunaV1Caps5 == MsmSunCaps4
MsmTunaV1Caps6 == MsmSunCaps5
MsmTunaV1Caps7 == MsmSunCaps6
MsmTunaV1Caps8 == MsmPineappleCaps7
MsmTunaV1Caps9 == MsmSunCaps8
MsmTunaV1Caps10 == MsmPineappleCaps9

MsmTunaV1Caps11 == <<
  Fixed(Dec, {"H264", "HEVC", "VP9", "AV1"}, {"DISPLAY_DELAY_ENABLE",
      "DISPLAY_DELAY", "OUTPUT_ORDER"}),
  Fixed(Both, All, {"INPUT_BUF_HOST_MAX_COUNT", "OUTPUT_BUF_HOST_MAX_COUNT",
      "STAGE", "PIPE", "BIT_DEPTH", "FIRMWARE_PRIORITY_OFFSET"}),
  Fixed(Dec, All, {"CONCEAL_COLOR_8BIT", "CONCEAL_COLOR_10BIT",
      "BITSTREAM_SIZE_OVERWRITE", "THUMBNAIL_MODE", "DEFAULT_HEADER",
      "RAP_FRAME"}),
  Fixed(Dec, {"H264"}, {"POC"}),
  Fixed(Dec, {"H264", "HEVC"}, {"MAX_NUM_REORDER_FRAMES"}),
  Fixed(Enc, All, {"QUALITY_MODE", "CRITICAL_PRIORITY"}),
  Fixed(Dec, {"H264", "HEVC", "HEIC"}, {"CODED_FRAMES"}),
  Dynamic(Dec, {"H264", "HEVC", "HEIC", "AV1"}, {"CODEC_CONFIG"}),
  Dynamic(Dec, All, {"SEQ_CHANGE_AT_SYNC_FRAME"}),
  Dynamic(Both, All, {"PRIORITY"}),
  Dynamic(Enc, All, {"RESERVE_DURATION", "ENC_IP_CR"})>>

MsmTunaV1Caps12 == MsmSunCaps11
MsmTunaV1Caps13 == MsmPineappleCaps12
MsmTunaV1Caps14 == MsmPineappleCaps13

MsmTunaV1 == [name |-> "MsmTunaV1",
   enc |-> {"H264", "HEVC", "HEIC"},
   dec |-> {"H264", "HEVC", "VP9", "HEIC", "AV1"},
   caps |-> MsmTunaV1Caps1 \o MsmTunaV1Caps2 \o MsmTunaV1Caps3 \o
           MsmTunaV1Caps4 \o MsmTunaV1Caps5 \o MsmTunaV1Caps6 \o
           MsmTunaV1Caps7 \o MsmTunaV1Caps8 \o MsmTunaV1Caps9 \o
           MsmTunaV1Caps10 \o MsmTunaV1Caps11 \o MsmTunaV1Caps12 \o
           MsmTunaV1Caps13 \o MsmTunaV1Caps14,
   deps |-> MsmTunaDeps1 \o MsmTunaDeps2 \o MsmTunaDeps3 \o MsmTunaDeps4 \o
           MsmTunaDeps5 \o MsmTunaDeps6]

KeraCaps1 == SunCaps1
KeraCaps2 == SunCaps2
KeraCaps3 == SunCaps3
KeraCaps4 == SunCaps4
KeraCaps5 == SunCaps5
KeraCaps6 == SunCaps6

KeraCaps7 == <<
  Fixed(Dec, {"H264", "HEVC", "VP9"}, {"DISPLAY_DELAY_ENABLE",
      "DISPLAY_DELAY", "OUTPUT_ORDER"}),
  Fixed(Both, All, {"INPUT_BUF_HOST_MAX_COUNT", "OUTPUT_BUF_HOST_MAX_COUNT",
      "STAGE", "PIPE", "FIRMWARE_PRIORITY_OFFSET"}),
  Fixed(Dec, All, {"CONCEAL_COLOR_8BIT", "CONCEAL_COLOR_10BIT", "BIT_DEPTH",
      "BITSTREAM_SIZE_OVERWRITE", "THUMBNAIL_MODE", "DEFAULT_HEADER",
      "RAP_FRAME"}),
  Fixed(Dec, {"H264"}, {"POC"}),
  Fixed(Enc, All, {"QUALITY_MODE"}),
  Fixed(Dec, {"H264", "HEVC"}, {"CODED_FRAMES"}),
  Dynamic(Dec, {"H264", "HEVC"}, {"CODEC_CONFIG"}),
  Dynamic(Dec, All, {"SEQ_CHANGE_AT_SYNC_FRAME"}),
  Fixed(Enc, {"H264", "HEVC"}, {"ALL_INTRA", "COMPLEXITY"})>>

KeraDeps1 == <<
  Parent(Enc, {"HEVC"}, {"PIX_FMTS"}, <<"PROFILE", "MIN_FRAME_QP",
      "MAX_FRAME_QP", "I_FRAME_QP", "P_FRAME_QP", "B_FRAME_QP", "MIN_QUALITY",
      "BLUR_TYPES", "LTR_COUNT">>, Neither),
  Parent(Dec, {"HEVC"}, {"PIX_FMTS"}, <<"PROFILE">>, Neither),
  Leaf(Enc, All, {"FRAME_RATE"}, SetOnly)>>

KeraDeps2 == NiobeDeps2
KeraDeps3 == SunDeps2
KeraDeps4 == SunDeps3

Kera == [name |-> "Kera",
   enc |-> {"H264", "HEVC"},
   dec |-> {"H264", "HEVC", "VP9"},
   caps |-> KeraCaps1 \o KeraCaps2 \o KeraCaps3 \o KeraCaps4 \o KeraCaps5 \o
           KeraCaps6 \o KeraCaps7,
   deps |-> KeraDeps1 \o KeraDeps2 \o KeraDeps3 \o KeraDeps4]

MsmKeraV0Caps1 == MsmTunaV1Caps1
MsmKeraV0Caps2 == MsmTunaV0Caps2
MsmKeraV0Caps3 == MsmSunCaps3
MsmKeraV0Caps4 == MsmSunCaps4
MsmKeraV0Caps5 == MsmSunCaps5
MsmKeraV0Caps6 == MsmSunCaps6
MsmKeraV0Caps7 == MsmPineappleCaps7
MsmKeraV0Caps8 == MsmSunCaps8
MsmKeraV0Caps9 == MsmSunCaps9

MsmKeraV0Caps10 == <<
  Fixed(Dec, {"H264", "HEVC", "VP9", "AV1"}, {"DISPLAY_DELAY_ENABLE",
      "DISPLAY_DELAY", "OUTPUT_ORDER"}),
  Fixed(Both, All, {"INPUT_BUF_HOST_MAX_COUNT", "OUTPUT_BUF_HOST_MAX_COUNT",
      "STAGE", "PIPE", "FIRMWARE_PRIORITY_OFFSET"}),
  Fixed(Dec, All, {"CONCEAL_COLOR_8BIT", "CONCEAL_COLOR_10BIT", "BIT_DEPTH",
      "BITSTREAM_SIZE_OVERWRITE", "THUMBNAIL_MODE", "DEFAULT_HEADER",
      "RAP_FRAME"}),
  Fixed(Dec, {"H264"}, {"POC"}),
  Fixed(Dec, {"H264", "HEVC"}, {"MAX_NUM_REORDER_FRAMES"}),
  Fixed(Enc, All, {"QUALITY_MODE"}),
  Fixed(Dec, {"H264", "HEVC", "HEIC"}, {"CODED_FRAMES"}),
  Dynamic(Dec, {"H264", "HEVC", "HEIC", "AV1"}, {"CODEC_CONFIG"}),
  Dynamic(Dec, All, {"SEQ_CHANGE_AT_SYNC_FRAME"}),
  Dynamic(Both, All, {"PRIORITY"})>>

MsmKeraV0Caps11 == <<
  Fixed(Enc, All, {"CRITICAL_PRIORITY", "META_SEQ_HDR_NAL"}),
  Dynamic(Enc, All, {"RESERVE_DURATION", "ENC_IP_CR"}),
  Dynamic(Dec, All, {"INPUT_EXTRA_METADATA_OFFSET"}),
  Fixed(Dec, {"AV1"}, {"FILM_GRAIN", "SUPER_BLOCK", "DRAP",
      "META_BITSTREAM_RESOLUTION", "META_CROP_OFFSETS"}),
  Fixed(Both, All, {"LAST_FLAG_EVENT_ENABLE", "META_TIMESTAMP"}),
  Fixed(Enc, {"H264", "HEVC"}, {"ALL_INTRA", "META_LTR_MARK_USE"}),
  Fixed(Dec, All, {"META_DPB_MISR", "META_OPB_MISR",
      "META_CONCEALED_MB_CNT"}),
  Fixed(Dec, {"H264"}, {"META_INTERLACE"}),
  Fixed(Dec, {"HEVC", "VP9", "AV1"}, {"META_HIST_INFO"})>>

MsmKeraV0Caps12 == MsmPineappleCaps12
MsmKeraV0Caps13 == MsmPineappleCaps13

MsmKeraDeps1 == <<
  Parent(Enc, {"H264"}, {"PIX_FMTS"}, <<"META_ROI_INFO", "IR_PERIOD",
      "CSC">>, Neither),
  Parent(Enc, {"HEVC"}, {"PIX_FMTS"}, <<"PROFILE", "MIN_FRAME_QP",
      "MAX_FRAME_QP", "I_FRAME_QP", "P_FRAME_QP", "B_FRAME_QP",
      "META_ROI_INFO", "MIN_QUALITY", "BLUR_TYPES", "IR_PERIOD", "LTR_COUNT",
      "CSC">>, Neither),
  Parent(Enc, {"HEIC"}, {"PIX_FMTS"}, <<"PROFILE", "CSC">>, Neither),
  Parent(Dec, {"HEVC", "HEIC"}, {"PIX_FMTS"}, <<"PROFILE">>, Neither),
  Parent(Enc, All, {"FRAME_RATE"}, <<"LEVEL">>, SetOnly),
  Leaf(Dec, All, {"FRAME_RATE", "OPERATING_RATE"}, AdjustOnly)>>

MsmKeraDeps2 == MsmTunaDeps2
MsmKeraDeps3 == MsmNiobeDeps3
MsmKeraDeps4 == MsmSunDeps3
MsmKeraDeps5 == MsmTunaDeps5
MsmKeraDeps6 == MsmPineappleDeps5

MsmKeraV0 == [name |-> "MsmKeraV0",
   enc |-> {"H264", "HEVC", "HEIC"},
   dec |-> {"H264", "HEVC", "VP9", "HEIC", "AV1"},
   caps |-> MsmKeraV0Caps1 \o MsmKeraV0Caps2 \o MsmKeraV0Caps3 \o
           MsmKeraV0Caps4 \o MsmKeraV0Caps5 \o MsmKeraV0Caps6 \o
           MsmKeraV0Caps7 \o MsmKeraV0Caps8 \o MsmKeraV0Caps9 \o
           MsmKeraV0Caps10 \o MsmKeraV0Caps11 \o MsmKeraV0Caps12 \o
           MsmKeraV0Caps13,
   deps |-> MsmKeraDeps1 \o MsmKeraDeps2 \o MsmKeraDeps3 \o MsmKeraDeps4 \o
           MsmKeraDeps5 \o MsmKeraDeps6]

MsmKeraV1Caps1 == MsmTunaV1Caps1

MsmKeraV1Caps2 == <<
  Dynamic(Dec, All, {"FRAME_RATE", "OPERATING_RATE"}),
  Dynamic(Dec, {"VP9"}, {"FRAME_RATE"}),
  Fixed(Enc, All, {"OPERATING_RATE", "MB_CYCLES_VSP", "MB_CYCLES_VPP",
      "MB_CYCLES_LP"}),
  Fixed(Both, All, {"INPUT_RATE", "TIMESTAMP_RATE"}),
  Fixed(Enc, {"H264", "HEVC"}, {"SCALE_FACTOR"}),
  Fixed(Dec, All, {"MB_CYCLES_VSP", "MB_CYCLES_VPP"}),
  Fixed(Dec, {"VP9", "AV1"}, {"MB_CYCLES_VSP"})>>

MsmKeraV1Caps3 == <<
  Fixed(Dec, All, {"MB_CYCLES_LP"}),
  Fixed(Both, All, {"MB_CYCLES_FW", "MB_CYCLES_FW_VPP"}),
  Fixed(Dec, All, {"MB_CYCLES_FW_VPP"})>>

MsmKeraV1Caps4 == MsmTunaV1Caps3
MsmKeraV1Caps5 == MsmTunaV1Caps4
MsmKeraV1Caps6 == MsmSunCaps4
MsmKeraV1Caps7 == MsmSunCaps5
MsmKeraV1Caps8 == MsmSunCaps6
MsmKeraV1Caps9 == MsmPineappleCaps7
MsmKeraV1Caps10 == MsmSunCaps8
MsmKeraV1Caps11 == MsmPineappleCaps9
MsmKeraV1Caps12 == MsmKeraV0Caps10

MsmKeraV1Caps13 == <<
  Fixed(Enc, All, {"CRITICAL_PRIORITY", "META_SEQ_HDR_NAL"}),
  Dynamic(Enc, All, {"RESERVE_DURATION", "ENC_IP_CR"}),
  Fixed(Dec, {"AV1"}, {"FILM_GRAIN", "SUPER_BLOCK", "DRAP",
      "META_BITSTREAM_RESOLUTION", "META_CROP_OFFSETS"}),
  Fixed(Both, All, {"LAST_FLAG_EVENT_ENABLE", "META_TIMESTAMP"}),
  Fixed(Enc, {"H264", "HEVC"}, {"ALL_INTRA", "META_LTR_MARK_USE"}),
  Fixed(Dec, All, {"META_DPB_MISR", "META_OPB_MISR",
      "META_CONCEALED_MB_CNT"}),
  Fixed(Dec, {"H264"}, {"META_INTERLACE"}),
  Fixed(Dec, {"HEVC", "VP9", "AV1"}, {"META_HIST_INFO"})>>

MsmKeraV1Caps14 == MsmPineappleCaps12
MsmKeraV1Caps15 == MsmPineappleCaps13

MsmKeraV1 == [name |-> "MsmKeraV1",
   enc |-> {"H264", "HEVC", "HEIC"},
   dec |-> {"H264", "HEVC", "VP9", "HEIC", "AV1"},
   caps |-> MsmKeraV1Caps1 \o MsmKeraV1Caps2 \o MsmKeraV1Caps3 \o
           MsmKeraV1Caps4 \o MsmKeraV1Caps5 \o MsmKeraV1Caps6 \o
           MsmKeraV1Caps7 \o MsmKeraV1Caps8 \o MsmKeraV1Caps9 \o
           MsmKeraV1Caps10 \o MsmKeraV1Caps11 \o MsmKeraV1Caps12 \o
           MsmKeraV1Caps13 \o MsmKeraV1Caps14 \o MsmKeraV1Caps15,
   deps |-> MsmKeraDeps1 \o MsmKeraDeps2 \o MsmKeraDeps3 \o MsmKeraDeps4 \o
           MsmKeraDeps5 \o MsmKeraDeps6]

MalabarCaps1 == <<
  Fixed(Dec, All, {"FRAME_WIDTH", "FRAME_HEIGHT", "MB_CYCLES_VSP",
      "MB_CYCLES_VPP", "MB_CYCLES_LP", "MB_CYCLES_FW_VPP", "SLICE_DECODE"}),
  Fixed(Enc, All, {"FRAME_WIDTH", "LOSSLESS_FRAME_WIDTH", "FRAME_HEIGHT",
      "LOSSLESS_FRAME_HEIGHT", "FRAME_RATE", "OPERATING_RATE",
      "MB_CYCLES_VSP", "MB_CYCLES_VPP", "MB_CYCLES_LP", "MB_CYCLES_FW_VPP",
      "ROTATION"}),
  Fixed(Enc, {"HEVC"}, {"LOSSLESS_FRAME_WIDTH", "LOSSLESS_FRAME_HEIGHT"}),
  Fixed(Both, {"H264"}, {"PIX_FMTS"}),
  Fixed(Both, {"HEVC", "VP9"}, {"PIX_FMTS"}),
  Fixed(Both, All, {"MIN_BUFFERS_INPUT", "MIN_BUFFERS_OUTPUT", "MBPF",
      "INPUT_RATE", "TIMESTAMP_RATE", "MB_CYCLES_FW", "CLIENT_ID"}),
  Fixed(Enc, {"H264", "HEVC"}, {"LOSSLESS_MBPF", "SCALE_FACTOR",
      "SUPER_FRAME"}),
  Fixed(Dec, {"H264", "HEVC", "VP9"}, {"BATCH_MBPF", "BATCH_FPS"}),
  Fixed(Dec, {"VP9"}, {"MB_CYCLES_VSP"}),
  Dynamic(Enc, All, {"HFLIP", "VFLIP"})>>

MalabarCaps2 == SunCaps2
MalabarCaps3 == SunCaps3
MalabarCaps4 == SunCaps4
MalabarCaps5 == SunCaps5
MalabarCaps6 == SunCaps6
MalabarCaps7 == SunCaps7
MalabarDeps1 == TunaDeps1
MalabarDeps2 == SunDeps2
MalabarDeps3 == SunDeps3

Malabar == [name |-> "Malabar",
   enc |-> {"H264", "HEVC"},
   dec |-> {"H264", "HEVC", "VP9"},
   caps |-> MalabarCaps1 \o MalabarCaps2 \o MalabarCaps3 \o MalabarCaps4 \o
           MalabarCaps5 \o MalabarCaps6 \o MalabarCaps7,
   deps |-> MalabarDeps1 \o MalabarDeps2 \o MalabarDeps3]

MsmMalabarCaps1 == <<
  Fixed(Both, All, {"DRV_VERSION", "PIX_FMTS", "MIN_BUFFERS_INPUT",
      "MIN_BUFFERS_OUTPUT", "MBPF", "INPUT_RATE", "TIMESTAMP_RATE",
      "MB_CYCLES_FW", "MB_CYCLES_FW_VPP"}),
  Fixed(Dec, All, {"FRAME_WIDTH", "SECURE_FRAME_WIDTH", "FRAME_HEIGHT",
      "SECURE_FRAME_HEIGHT", "MB_CYCLES_VPP", "MB_CYCLES_LP"}),
  Fixed(Enc, All, {"FRAME_WIDTH", "LOSSLESS_FRAME_WIDTH",
      "SECURE_FRAME_WIDTH", "FRAME_HEIGHT", "LOSSLESS_FRAME_HEIGHT",
      "SECURE_FRAME_HEIGHT", "FRAME_RATE", "OPERATING_RATE", "MB_CYCLES_VPP",
      "MB_CYCLES_LP"}),
  Fixed(Enc, {"HEIC"}, {"FRAME_WIDTH", "FRAME_HEIGHT", "FRAME_RATE"}),
  Fixed(Both, {"HEIC"}, {"MIN_BUFFERS_INPUT", "MBPF"}),
  Fixed(Enc, {"H264", "HEVC"}, {"LOSSLESS_MBPF", "SCALE_FACTOR"}),
  Fixed(Dec, {"H264", "HEVC", "VP9"}, {"BATCH_MBPF", "BATCH_FPS"}),
  Fixed(Both, {"H264", "HEVC", "VP9"}, {"SECURE_MBPF", "SECURE_MODE"}),
  Dynamic(Dec, {"H264", "HEVC", "VP9", "HEIC"}, {"FRAME_RATE"}),
  Dynamic(Dec, {"VP9"}, {"FRAME_RATE"}),
  Dynamic(Dec, All, {"OPERATING_RATE"}),
  Fixed(Enc, {"H264", "HEVC", "VP9", "HEIC"}, {"MB_CYCLES_VSP"}),
  Fixed(Dec, {"H264", "HEVC", "VP9", "HEIC"}, {"MB_CYCLES_VSP"}),
  Fixed(Both, {"H264", "HEVC", "VP9", "HEIC"}, {"CLIENT_ID"}),
  Fixed(Dec, {"H264", "HEVC"}, {"TS_REORDER"})>>

MsmMalabarCaps2 == <<
  Dynamic(Enc, All, {"HFLIP", "VFLIP"}),
  Fixed(Enc, All, {"ROTATION"}),
  Dynamic(Enc, {"H264", "HEVC"}, {"SUPER_FRAME", "REQUEST_I_FRAME",
      "BIT_RATE"}),
  Fixed(Enc, {"H264", "HEVC", "HEIC"}, {"HEADER_MODE",
      "PREPEND_SPSPPS_TO_IDR", "VUI_TIMING_INFO", "WITHOUT_STARTCODE",
      "NAL_LENGTH_FIELD"}),
  Fixed(Enc, {"H264"}, {"BITRATE_MODE", "CAVLC_MAX_BITRATE"}),
  Fixed(Enc, {"HEVC"}, {"BITRATE_MODE"}),
  Fixed(Enc, {"HEIC"}, {"BITRATE_MODE"}),
  Fixed(Enc, {"H264", "HEVC"}, {"CABAC_MAX_BITRATE"})>>

MsmMalabarCaps3 == <<
  Fixed(Enc, {"H264", "HEVC"}, {"ALLINTRA_MAX_BITRATE",
      "LOWLATENCY_MAX_BITRATE", "GOP_CLOSURE", "B_FRAME", "BLUR_TYPES",
      "LOWLATENCY_MODE"}),
  Fixed(Dec, {"H264", "HEVC", "VP9", "HEIC"}, {"NUM_COMV"}),
  Fixed(Enc, {"HEVC"}, {"LOSSLESS", "OPEN_GOP"}),
  Fixed(Enc, {"H264", "HEVC", "HEIC"}, {"FRAME_SKIP_MODE", "FRAME_RC_ENABLE",
      "CSC", "CSC_CUSTOM_MATRIX"}),
  Dynamic(Enc, {"HEVC"}, {"CONSTANT_QUALITY"}),
  Dynamic(Enc, {"HEIC"}, {"CONSTANT_QUALITY"}),
  Dynamic(Enc, {"H264", "HEVC"}, {"GOP_SIZE", "BLUR_RESOLUTION"}),
  Dynamic(Enc, {"HEIC"}, {"GOP_SIZE"}),
  Fixed(Enc, {"HEIC"}, {"B_FRAME"}),
  Dynamic(Dec, {"H264", "HEVC", "VP9"}, {"LOWLATENCY_MODE"})>>

MsmMalabarCaps4 == <<
  Fixed(Enc, {"H264", "HEVC"}, {"LTR_COUNT", "IR_TYPE", "AU_DELIMITER",
      "TIME_DELTA_BASED_RC", "CONTENT_ADAPTIVE_CODING"}),
  Dynamic(Enc, {"H264", "HEVC"}, {"USE_LTR", "MARK_LTR", "IR_PERIOD"}),
  Dynamic(Enc, {"H264"}, {"BASELAYER_PRIORITY"}),
  Fixed(Enc, {"HEIC"}, {"TIME_DELTA_BASED_RC"})>>

MsmMalabarCaps5 == <<
  Fixed(Enc, {"H264", "HEVC"}, {"BITRATE_BOOST", "MIN_QUALITY", "VBV_DELAY"}),
  Dynamic(Enc, {"H264", "HEVC"}, {"PEAK_BITRATE"}),
  Fixed(Enc, {"H264"}, {"MIN_FRAME_QP", "I_FRAME_MIN_QP", "P_FRAME_MIN_QP",
      "B_FRAME_MIN_QP", "MAX_FRAME_QP", "I_FRAME_MAX_QP", "P_FRAME_MAX_QP",
      "B_FRAME_MAX_QP"}),
  Fixed(Enc, {"HEVC", "HEIC"}, {"MIN_FRAME_QP", "I_FRAME_MIN_QP",
      "P_FRAME_MIN_QP", "B_FRAME_MIN_QP", "MAX_FRAME_QP", "I_FRAME_MAX_QP",
      "P_FRAME_MAX_QP", "B_FRAME_MAX_QP"}),
  Dynamic(Enc, {"HEVC"}, {"I_FRAME_QP", "P_FRAME_QP", "B_FRAME_QP"}),
  Dynamic(Enc, {"H264"}, {"I_FRAME_QP", "P_FRAME_QP", "B_FRAME_QP"}),
  Fixed(Enc, {"HEVC"}, {"LAYER_TYPE"})>>

MsmMalabarCaps6 == <<
  Fixed(Enc, {"H264"}, {"LAYER_TYPE", "LAYER_ENABLE", "ENTROPY_MODE"}),
  Fixed(Enc, {"HEVC"}, {"LAYER_ENABLE"}),
  Dynamic(Enc, {"HEVC"}, {"ENH_LAYER_COUNT"}),
  Dynamic(Enc, {"H264"}, {"ENH_LAYER_COUNT", "L0_BR", "L1_BR", "L2_BR",
      "L3_BR", "L4_BR", "L5_BR"}),
  Dynamic(Enc, {"HEVC"}, {"L0_BR", "L1_BR", "L2_BR", "L3_BR", "L4_BR",
      "L5_BR"}),
  Fixed(Dec, {"H264", "HEVC", "VP9"}, {"ENTROPY_MODE"}),
  Fixed(Both, {"H264"}, {"PROFILE"})>>

MsmMalabarCaps7 == <<
  Fixed(Both, {"HEVC", "HEIC"}, {"PROFILE"}),
  Fixed(Dec, {"VP9"}, {"PROFILE"}),
  Fixed(Enc, {"H264"}, {"LEVEL", "LF_MODE"}),
  Fixed(Enc, {"HEVC", "HEIC"}, {"LEVEL"}),
  Fixed(Dec, {"H264"}, {"LEVEL"}),
  Fixed(Dec, {"HEVC", "HEIC"}, {"LEVEL"}),
  Fixed(Dec, {"VP9"}, {"LEVEL"}),
  Fixed(Both, {"HEVC"}, {"HEVC_TIER"}),
  Fixed(Both, {"HEIC"}, {"HEVC_TIER"})>>

MsmMalabarCaps8 == <<
  Fixed(Enc, {"HEVC", "HEIC"}, {"LF_MODE"}),
  Fixed(Enc, {"H264"}, {"LF_ALPHA", "LF_BETA", "TRANSFORM_8X8"}),
  Fixed(Enc, {"HEVC", "HEIC"}, {"LF_ALPHA", "LF_BETA"}),
  Fixed(Enc, {"H264", "HEVC", "HEIC"}, {"SLICE_MODE", "SLICE_MAX_BYTES",
      "SLICE_MAX_MB"}),
  Fixed(Enc, {"H264", "HEVC"}, {"MB_RC", "CHROMA_QP_INDEX_OFFSET"}),
  Fixed(Dec, {"H264", "HEVC", "VP9"}, {"DISPLAY_DELAY_ENABLE",
      "DISPLAY_DELAY", "OUTPUT_ORDER"}),
  Fixed(Both, {"H264", "HEVC", "VP9", "HEIC"}, {"INPUT_BUF_HOST_MAX_COUNT",
      "OUTPUT_BUF_HOST_MAX_COUNT", "STAGE", "PIPE"}),
  Fixed(Dec, All, {"CONCEAL_COLOR_8BIT"}),
  Fixed(Dec, {"H264"}, {"POC"}),
  Fixed(Dec, {"H264", "HEVC"}, {"MAX_NUM_REORDER_FRAMES"}),
  Fixed(Enc, {"H264", "HEVC", "VP9", "HEIC"}, {"QUALITY_MODE"}),
  Fixed(Dec, {"H264", "HEVC", "HEIC"}, {"CODED_FRAMES"})>>

MsmMalabarCaps9 == <<
  Fixed(Both, All, {"BIT_DEPTH"}),
  Dynamic(Dec, {"H264", "HEVC", "HEIC"}, {"CODEC_CONFIG"}),
  Fixed(Dec, {"H264", "HEVC", "VP9", "HEIC"}, {"BITSTREAM_SIZE_OVERWRITE",
      "THUMBNAIL_MODE", "DEFAULT_HEADER", "RAP_FRAME", "META_DPB_MISR",
      "META_OPB_MISR", "META_CONCEALED_MB_CNT"}),
  Dynamic(Dec, {"H264", "HEVC", "VP9", "HEIC"}, {"SEQ_CHANGE_AT_SYNC_FRAME",
      "INPUT_EXTRA_METADATA_OFFSET"}),
  Dynamic(Both, {"H264", "HEVC", "VP9", "HEIC"}, {"PRIORITY"}),
  Fixed(Both, {"H264", "HEVC", "VP9", "HEIC"}, {"FIRMWARE_PRIORITY_OFFSET",
      "LAST_FLAG_EVENT_ENABLE", "META_TIMESTAMP"}),
  Fixed(Enc, {"H264", "HEVC", "VP9", "HEIC"}, {"CRITICAL_PRIORITY"}),
  Dynamic(Enc, {"H264", "HEVC", "VP9", "HEIC"}, {"ENC_IP_CR"}),
  Fixed(Enc, {"H264", "HEVC"}, {"ALL_INTRA", "META_LTR_MARK_USE"}),
  Fixed(Enc, {"H264", "HEVC", "HEIC"}, {"META_SEQ_HDR_NAL"}),
  Fixed(Dec, {"H264"}, {"META_INTERLACE"}),
  Fixed(Dec, {"HEVC", "VP9"}, {"META_HIST_INFO"}),
  Fixed(Enc, {"HEVC"}, {"META_HIST_INFO", "META_HDR10_MAX_RGB_INFO"})>>

MsmMalabarCaps10 == <<
  Fixed(Dec, {"H264", "HEVC"}, {"META_TRANSCODING_STAT_INFO"}),
  Fixed(Enc, {"H264", "HEVC"}, {"META_TRANSCODING_STAT_INFO"}),
  Dynamic(Dec, {"H264", "HEVC", "VP9", "HEIC"}, {"META_PICTURE_TYPE"}),
  Fixed(Enc, {"HEVC", "HEIC"}, {"META_SEI_MASTERING_DISP", "META_SEI_CLL",
      "META_HDR10PLUS"}),
  Fixed(Dec, {"HEVC", "HEIC"}, {"META_SEI_MASTERING_DISP", "META_SEI_CLL",
      "META_HDR10PLUS"})>>

MsmMalabarCaps11 == <<
  Fixed(Enc, {"H264", "HEVC"}, {"META_EVA_STATS", "META_ROI_INFO",
      "META_SALIENCY_INFO", "COMPLEXITY"}),
  Fixed(Enc, {"H264", "HEVC", "VP9", "HEIC"}, {"META_BUF_TAG",
      "META_ENC_QP_METADATA"}),
  Dynamic(Dec, {"H264", "HEVC", "VP9", "HEIC"}, {"META_BUF_TAG"}),
  Fixed(Dec, {"H264", "HEVC", "VP9", "HEIC"}, {"META_DPB_TAG_LIST",
      "META_SUBFRAME_OUTPUT", "META_DEC_QP_METADATA"}),
  Fixed(Enc, {"H264", "HEVC", "HEIC"}, {"META_SUBFRAME_OUTPUT"}),
  Fixed(Enc, {"HEIC"}, {"GRID_ENABLE", "GRID_SIZE"}),
  Dynamic(Enc, {"H264", "HEVC", "HEIC"}, {"SIGNAL_COLOR_INFO"})>>

MsmMalabarDeps1 == MsmAlorDeps1

MsmMalabarDeps2 == <<
  Leaf(Both, {"H264", "HEVC", "VP9"}, {"SECURE_MODE"}, SetOnly),
  Leaf(Enc, All, {"HFLIP", "VFLIP"}, SetOnly),
  Leaf(Enc, {"H264", "HEVC", "VP9", "HEIC"}, {"ROTATION"}, SetOnly),
  Parent(Enc, {"H264", "HEVC"}, {"SUPER_FRAME"}, <<"INPUT_BUF_HOST_MAX_COUNT",
      "OUTPUT_BUF_HOST_MAX_COUNT">>, Neither),
  Leaf(Enc, {"H264", "HEVC", "HEIC"}, {"HEADER_MODE",
      "WITHOUT_STARTCODE"}, SetOnly),
  Leaf(Enc, {"H264", "HEVC"}, {"REQUEST_I_FRAME"}, SetOnly),
  Parent(Enc, {"H264"}, {"BIT_RATE"}, <<"PEAK_BITRATE", "BITRATE_BOOST",
      "L0_BR", "LEVEL">>, AdjustSet),
  Parent(Enc, {"HEVC"}, {"BIT_RATE"}, <<"PEAK_BITRATE", "BITRATE_BOOST",
      "L0_BR", "LEVEL">>, AdjustSet),
  Parent(Enc, {"H264"}, {"BITRATE_MODE"}, <<"LTR_COUNT", "IR_PERIOD",
      "TIME_DELTA_BASED_RC", "I_FRAME_QP", "P_FRAME_QP", "B_FRAME_QP",
      "ENH_LAYER_COUNT", "BIT_RATE", "META_ROI_INFO", "MIN_QUALITY",
      "BITRATE_BOOST", "VBV_DELAY", "PEAK_BITRATE", "SLICE_MODE",
      "CONTENT_ADAPTIVE_CODING", "BLUR_TYPES", "LOWLATENCY_MODE",
      "META_EVA_STATS", "META_TRANSCODING_STAT_INFO">>, AdjustSet),
  Parent(Enc, {"HEVC"}, {"BITRATE_MODE"}, <<"LTR_COUNT", "IR_PERIOD",
      "TIME_DELTA_BASED_RC", "I_FRAME_QP", "P_FRAME_QP", "B_FRAME_QP",
      "CONSTANT_QUALITY", "ENH_LAYER_COUNT", "BIT_RATE", "META_ROI_INFO",
      "MIN_QUALITY", "BITRATE_BOOST", "VBV_DELAY", "PEAK_BITRATE",
      "SLICE_MODE", "CONTENT_ADAPTIVE_CODING", "BLUR_TYPES",
      "LOWLATENCY_MODE", "META_EVA_STATS", "META_TRANSCODING_STAT_INFO",
      "OPEN_GOP">>, AdjustSet),
  Parent(Enc, {"HEIC"}, {"BITRATE_MODE"}, <<"TIME_DELTA_BASED_RC",
      "CONSTANT_QUALITY">>, AdjustSet),
  Leaf(Enc, {"HEVC", "HEIC"}, {"CONSTANT_QUALITY"}, SetOnly),
  Parent(Enc, {"H264", "HEVC", "HEIC"}, {"GOP_SIZE"}, <<
      "ALL_INTRA">>, AdjustSet),
  Leaf(Enc, {"HEIC"}, {"GOP_SIZE"}, SetOnly),
  Parent(Enc, {"HEVC"}, {"OPEN_GOP"}, <<"GOP_SIZE">>, AdjustSet),
  Parent(Enc, {"H264", "HEVC"}, {"B_FRAME"}, <<"ALL_INTRA">>, AdjustSet),
  Leaf(Enc, {"HEIC"}, {"B_FRAME"}, SetOnly),
  Parent(Enc, {"H264", "HEVC"}, {"BLUR_TYPES"}, <<
      "BLUR_RESOLUTION">>, AdjustSet),
  Leaf(Enc, {"H264", "HEVC"}, {"BLUR_RESOLUTION"}, AdjustSet),
  Parent(Enc, {"H264", "HEVC", "HEIC"}, {"CSC"}, <<
      "CSC_CUSTOM_MATRIX">>, AdjustSet),
  Leaf(Enc, {"H264", "HEVC", "HEIC"}, {"CSC_CUSTOM_MATRIX"}, AdjustSet),
  Parent(Enc, {"H264", "HEVC"}, {"LOWLATENCY_MODE"}, <<"STAGE",
      "BIT_RATE">>, AdjustOnly),
  Parent(Dec, {"H264", "HEVC"}, {"LOWLATENCY_MODE"}, <<"STAGE">>, Neither)>>

MsmMalabarDeps3 == <<
  Parent(Dec, {"VP9"}, {"LOWLATENCY_MODE"}, <<"STAGE">>, Neither),
  Leaf(Enc, {"H264", "HEVC"}, {"LTR_COUNT", "USE_LTR", "MARK_LTR",
      "IR_PERIOD", "REQUEST_PREPROCESS", "PEAK_BITRATE"}, AdjustSet),
  Leaf(Enc, {"H264", "HEVC"}, {"AU_DELIMITER", "VBV_DELAY"}, SetOnly),
  Leaf(Enc, {"H264"}, {"BASELAYER_PRIORITY", "MIN_FRAME_QP",
      "MAX_FRAME_QP"}, SetOnly),
  Leaf(Enc, All, {"TIME_DELTA_BASED_RC"}, AdjustSet),
  Parent(Enc, {"H264", "HEVC"}, {"CONTENT_ADAPTIVE_CODING"}, <<
      "REQUEST_PREPROCESS">>, AdjustSet),
  Parent(Enc, {"H264", "HEVC"}, {"BITRATE_BOOST"}, <<"LEVEL">>, AdjustSet),
  Parent(Enc, {"H264", "HEVC"}, {"MIN_QUALITY"}, <<"BLUR_TYPES">>, AdjustSet),
  Leaf(Enc, {"HEVC"}, {"MIN_FRAME_QP", "MAX_FRAME_QP", "I_FRAME_QP",
      "P_FRAME_QP", "B_FRAME_QP"}, AdjustSet),
  Leaf(Enc, {"H264"}, {"I_FRAME_QP", "P_FRAME_QP", "B_FRAME_QP"}, SetOnly),
  Parent(Enc, {"H264"}, {"LAYER_TYPE"}, <<"CONTENT_ADAPTIVE_CODING",
      "LTR_COUNT", "LEVEL">>, Neither),
  Parent(Enc, {"HEVC"}, {"LAYER_TYPE"}, <<"CONTENT_ADAPTIVE_CODING",
      "LTR_COUNT", "OPEN_GOP">>, Neither),
  Parent(Enc, {"H264", "HEVC"}, {"LAYER_ENABLE"}, <<"CONTENT_ADAPTIVE_CODING",
      "LEVEL">>, Neither),
  Parent(Enc, {"H264"}, {"ENH_LAYER_COUNT"}, <<"GOP_SIZE", "B_FRAME",
      "BIT_RATE", "MIN_QUALITY", "SLICE_MODE", "LTR_COUNT",
      "LEVEL">>, AdjustSet),
  Parent(Enc, {"HEVC"}, {"ENH_LAYER_COUNT"}, <<"GOP_SIZE", "B_FRAME",
      "BIT_RATE", "MIN_QUALITY", "SLICE_MODE", "LTR_COUNT",
      "OPEN_GOP">>, AdjustSet)>>

MsmMalabarDeps4 == <<
  Parent(Enc, {"H264", "HEVC"}, {"L0_BR"}, <<"L1_BR">>, AdjustSet),
  Parent(Enc, {"H264", "HEVC"}, {"L1_BR"}, <<"L2_BR">>, AdjustSet),
  Parent(Enc, {"H264", "HEVC"}, {"L2_BR"}, <<"L3_BR">>, AdjustSet),
  Parent(Enc, {"H264", "HEVC"}, {"L3_BR"}, <<"L4_BR">>, AdjustSet),
  Parent(Enc, {"H264", "HEVC"}, {"L4_BR"}, <<"L5_BR">>, AdjustSet),
  Leaf(Enc, {"H264", "HEVC"}, {"L5_BR"}, AdjustSet),
  Parent(Enc, {"H264"}, {"ENTROPY_MODE"}, <<"BIT_RATE">>, AdjustSet),
  Parent(Enc, {"H264"}, {"PROFILE"}, <<"ENTROPY_MODE", "TRANSFORM_8X8",
      "CHROMA_QP_INDEX_OFFSET">>, SetOnly),
  Parent(Dec, {"H264"}, {"PROFILE"}, <<"ENTROPY_MODE">>, SetOnly),
  Parent(Enc, {"HEIC"}, {"PROFILE"}, <<"META_SEI_MASTERING_DISP",
      "META_SEI_CLL", "META_HDR10PLUS">>, AdjustSet),
  Parent(Enc, {"HEVC"}, {"PROFILE"}, <<"META_SEI_MASTERING_DISP",
      "META_SEI_CLL", "META_HDR10PLUS", "META_HIST_INFO",
      "META_HDR10_MAX_RGB_INFO">>, AdjustSet),
  Leaf(Dec, {"HEVC", "HEIC"}, {"PROFILE"}, AdjustSet)>>

MsmMalabarDeps5 == <<
  Leaf(Dec, {"VP9"}, {"PROFILE"}, SetOnly),
  Leaf(Dec, All, {"LEVEL"}, SetOnly),
  Leaf(Enc, {"H264", "HEVC"}, {"LEVEL", "CHROMA_QP_INDEX_OFFSET"}, AdjustSet),
  Leaf(Enc, {"HEIC"}, {"LEVEL"}, SetOnly),
  Leaf(Both, {"HEVC", "HEIC"}, {"HEVC_TIER"}, SetOnly),
  Leaf(Enc, {"H264", "HEVC", "HEIC"}, {"LF_MODE"}, SetOnly),
  Parent(Enc, {"H264", "HEVC"}, {"SLICE_MODE"}, <<"STAGE">>, AdjustSet),
  Leaf(Enc, {"HEIC"}, {"SLICE_MODE"}, AdjustSet),
  Leaf(Enc, {"H264"}, {"TRANSFORM_8X8"}, AdjustSet),
  Parent(Dec, {"H264", "HEVC", "VP9"}, {"DISPLAY_DELAY_ENABLE", "DISPLAY_DELAY"}, <<
      "OUTPUT_ORDER">>, Neither),
  Leaf(Dec, {"H264", "HEVC"}, {"OUTPUT_ORDER"}, AdjustSet),
  Leaf(Dec, {"VP9"}, {"OUTPUT_ORDER"}, AdjustSet),
  Leaf(Both, {"H264", "HEVC", "VP9", "HEIC"}, {"INPUT_BUF_HOST_MAX_COUNT",
      "OUTPUT_BUF_HOST_MAX_COUNT", "PRIORITY"}, AdjustSet),
  Leaf(Enc, {"H264", "HEVC"}, {"INPUT_BUF_HOST_MAX_COUNT",
      "OUTPUT_BUF_HOST_MAX_COUNT"}, AdjustSet),
  Leaf(Dec, {"H264", "HEVC", "VP9", "HEIC"}, {"CONCEAL_COLOR_8BIT",
      "CONCEAL_COLOR_10BIT", "RAP_FRAME"}, SetOnly),
  Leaf(Both, {"H264", "HEVC", "VP9", "HEIC"}, {"STAGE", "PIPE"}, SetOnly),
  Leaf(Enc, {"H264", "HEVC"}, {"STAGE"}, SetOnly),
  Leaf(Dec, {"H264", "HEVC", "VP9"}, {"STAGE"}, SetOnly),
  Parent(Dec, {"H264", "HEVC", "VP9"}, {"THUMBNAIL_MODE"}, <<
      "OUTPUT_ORDER">>, SetOnly),
  Leaf(Dec, {"HEIC"}, {"THUMBNAIL_MODE"}, SetOnly)>>

MsmMalabarDeps6 == <<
  Leaf(Both, {"H264", "HEVC", "VP9", "HEIC"}, {
      "FIRMWARE_PRIORITY_OFFSET"}, Neither),
  Leaf(Enc, {"H264", "HEVC", "VP9", "HEIC"}, {"CRITICAL_PRIORITY"}, Neither),
  Leaf(Enc, {"H264", "HEVC", "VP9", "HEIC"}, {"RESERVE_DURATION"}, SetOnly),
  Parent(Enc, {"H264", "HEVC"}, {"ALL_INTRA"}, <<"LTR_COUNT", "IR_PERIOD",
      "SLICE_MODE", "BIT_RATE">>, AdjustOnly),
  Leaf(Enc, {"H264", "HEVC"}, {"META_EVA_STATS"}, AdjustOnly),
  Parent(Enc, {"H264", "HEVC"}, {"META_ROI_INFO"}, <<"MIN_QUALITY",
      "IR_PERIOD", "BLUR_TYPES">>, AdjustOnly),
  Leaf(Enc, {"HEIC"}, {"GRID_ENABLE"}, SetOnly)>>

MsmMalabarDeps7 == MsmSeraphDeps9

MsmMalabar == [name |-> "MsmMalabar",
   enc |-> {"H264", "HEVC", "HEIC"},
   dec |-> {"H264", "HEVC", "VP9", "HEIC"},
   caps |-> MsmMalabarCaps1 \o MsmMalabarCaps2 \o MsmMalabarCaps3 \o
           MsmMalabarCaps4 \o MsmMalabarCaps5 \o MsmMalabarCaps6 \o
           MsmMalabarCaps7 \o MsmMalabarCaps8 \o MsmMalabarCaps9 \o
           MsmMalabarCaps10 \o MsmMalabarCaps11,
   deps |-> MsmMalabarDeps1 \o MsmMalabarDeps2 \o MsmMalabarDeps3 \o
           MsmMalabarDeps4 \o MsmMalabarDeps5 \o MsmMalabarDeps6 \o
           MsmMalabarDeps7]

=============================================================================
