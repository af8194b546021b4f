--------------------------- MODULE MCCapabilities ---------------------------
(***************************************************************************)
(* Tables of three capabilities with every choice of children, and the     *)
(* tables of all platforms.                                                 *)
(***************************************************************************)
EXTENDS Capabilities, PlatformTables, TLC

\* Three capabilities a small table has, and one it has not.
SmallCaps == <<"EARLY_NOTIFY_LINE_COUNT", "BIT_RATE", "GOP_SIZE">>
NotThere  == "DELIVERY_MODE"

\* What children each of them has: none, one of the other two or both.  Of two
\* codecs one has a first capability with a child that is not there as well.
Pick      == {"0", "1", "2", "3"}
Graphs    == Pick \X Pick \X Pick
Name(g)   == g[1] \o g[2] \o g[3]
Names     == {Name(g) : g \in Graphs}
Others(m) == <<SmallCaps[(m % 3) + 1], SmallCaps[((m + 1) % 3) + 1]>>
SmallKids(g, codec, m) ==
  (IF g[m] \in {"1", "3"} THEN <<Others(m)[1]>> ELSE << >>)
  \o (IF g[m] \in {"2", "3"} THEN <<Others(m)[2]>> ELSE << >>)
  \o (IF codec = "HEVC" /\ m = 1 THEN <<NotThere>> ELSE << >>)
SmallTable(g, codec) ==
  [platform |-> Name(g), domain |-> "ENC", codec |-> codec, accepted |-> TRUE,
   caps     |-> SmallCaps,
   kids     |-> [c \in ToSet(SmallCaps) |->
                   SmallKids(g, codec, CHOOSE m \in 1..3 : SmallCaps[m] = c)],
   adjust   |-> {"EARLY_NOTIFY_LINE_COUNT", "BIT_RATE"},
   beside   |-> [c \in {"EARLY_NOTIFY_LINE_COUNT", "BIT_RATE"} |->
                   IF c = "BIT_RATE" THEN {"GOP_SIZE"} ELSE {}],
   set      |-> {"BIT_RATE", "GOP_SIZE"},
   dynamic  |-> ToSet(SmallCaps)]

\* The HEVC encoder of sun, with no more than two bit rates, its profile, level
\* and tier: what a client changes of it need not change all the children.
TierCaps == {"BIT_RATE", "L0_BR", "PROFILE", "LEVEL", "HEVC_TIER"}
Cut(t)   == [t EXCEPT
  !.platform = "SunTier",
  !.caps    = SelectSeq(@, LAMBDA c : c \in TierCaps),
  !.kids    = [c \in TierCaps |-> SelectSeq(@[c], LAMBDA n : n \in TierCaps)],
  !.adjust  = @ \cap TierCaps, !.set = @ \cap TierCaps,
  !.dynamic = @ \cap TierCaps,
  !.beside  = [c \in t.adjust \cap TierCaps |-> @[c] \cap TierCaps]]
TierTable == {Cut(t) : t \in {u \in init_instance_caps(MsmSun) :
                                u.domain = "ENC" /\ u.codec = "HEVC"}}

\* Functions and sets TLC evaluates at once, and not where they are applied.
Evaluated(f)  == f @@ << >>
Elements(set) == {x : x \in set}
Tables == {[t EXCEPT !.kids = Evaluated(@), !.adjust = Elements(@),
                     !.set = Elements(@), !.dynamic = Elements(@),
                     !.beside = Evaluated(@)] :
  t \in {SmallTable(g, codec) : g \in Graphs, codec \in {"H264", "HEVC"}}
        \cup TierTable \cup InstTables}

\* The tables of the driver alone.
DriverTables == {t \in Tables : t.platform \notin Names \cup {"SunTier"}}

\* TLC keeps the value of a definition, and not of one a constant stands for.
MCConfig == Tables
MCCap    == CapIds
MCBusy   == Names \cup {"SunTier"}
MCDriver == DriverTables

-----------------------------------------------------------------------------
Session == <<inst.platform, inst.domain, inst.codec>>

\* Platforms whose probe fails, and the sessions of the others that get no
\* buffers.
DeadPlatforms == {"Chora", "MsmMalabar", "MsmKeraV1", "MsmTunaV1"}
NoBuffers ==
  ({"Alor", "Canoe", "Kera", "Malabar", "Niobe", "Nordau", "Pineapple",
    "Seraph", "Sun", "Tuna"} \X {"ENC"} \X {"H264", "HEVC"})
  \cup {<<"MsmAlor", "ENC", "HEIC">>, <<"Nordau", "DEC", "MPEG2">>}

(* Of the tables the driver has these and no others are refused: the four  *)
(* platforms by the probe, which finds a dependency row of a capability a  *)
(* session does not have (msm_vidc_update_inst_cap_dependency), the        *)
(* sessions by the sort, which finds a child the session does not have.    *)
(* Whoever adds a row to a table adds no other.                            *)
TablesAsKnown ==
  inst.platform \notin Busy =>
    /\ pc = "absent" => inst.platform \in DeadPlatforms
    /\ pc \notin {"probe", "absent"} => inst.platform \notin DeadPlatforms
    /\ pc = "refused" => Session \in NoBuffers
    /\ prepared => Session \notin NoBuffers

(* What an adjust function changes beside its own capability is in no list *)
(* of the control it runs for, although "cap value for the L*_BR is        *)
(* changed.  Hence, update cap, and add to FW_LIST to set new values to    *)
(* firmware." (msm_vidc_platform.c:2136).  In the driver's tables, while a *)
(* session streams whose controls have all succeeded, this is known to     *)
(* leave without a call of their set function only the bit rates, where    *)
(* the total is what the set functions of all of them send (4069), and the *)
(* tier of an HEVC encoder, changed for LEVEL when a new bit rate comes    *)
(* (1073), which is so never sent.  A set function that is called may find *)
(* that there is nothing to send.                                          *)
AsideAsKnown ==
  inst.platform \notin Names /\ pc = "rest" /\ streaming /\ ~failed /\ ~stale =>
    aside \cap inst.set \subseteq
      Layers \cup {"BIT_RATE"}
        \cup {c \in {"HEVC_TIER"} : inst.domain = "ENC" /\ inst.codec = "HEVC"}
=============================================================================
