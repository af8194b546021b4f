------------------------------ MODULE CapRows -------------------------------
(***************************************************************************)
(* The rows of a platform's capability tables (driver/platform):           *)
(*   - msm_platform_inst_capability: which capabilities a domain and codec *)
(*     has, and whether the client may set one while it streams;           *)
(*   - msm_platform_inst_cap_dependency: the children of a capability, and *)
(*     whether it has an adjust and a set function.                        *)
(* The ranges, defaults and ids of a row are left out.  Rows that differ   *)
(* in nothing but the capability are one row here, of a set of them.       *)
(***************************************************************************)
EXTENDS Sequences

Enc  == {"ENC"}
Dec  == {"DEC"}
Both == {"ENC", "DEC"}

\* CODECS_ALL: each file's has every codec of its core data.
All == {"H264", "HEVC", "VP9", "HEIC", "AV1", "MPEG2", "APV"}

\* The functions a dependency row names.
AdjustSet  == {"adjust", "set"}
AdjustOnly == {"adjust"}
SetOnly    == {"set"}
Neither    == {}

\* dynamic: CAP_FLAG_DYNAMIC_ALLOWED.
CapRow(domain, codec, names, dynamic) ==
  [domain |-> domain, codec |-> codec, caps |-> names, dynamic |-> dynamic]
Fixed(domain, codec, names)   == CapRow(domain, codec, names, FALSE)
Dynamic(domain, codec, names) == CapRow(domain, codec, names, TRUE)

Parent(domain, codec, names, kids, has) ==
  [domain |-> domain, codec |-> codec, caps |-> names, kids |-> kids,
   has |-> has]
Leaf(domain, codec, names, has) == Parent(domain, codec, names, << >>, has)
=============================================================================
