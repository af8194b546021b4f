------------------------------ MODULE Admission ------------------------------
(***************************************************************************)
(* Which sessions may stream together: msm_vidc_check_session_supported    *)
(* and its callers, with one video core or two.                            *)
(*                                                                         *)
(* A session is added to core->instances by an open and is counted from    *)
(* then on.  At every streamon, and when an encoder raises its frame rate, *)
(* it scans that list again and again, each time under core->lock but      *)
(* letting it go in between, compares what it has summed with the limits   *)
(* of the platform, and goes on, fails, or asks decoders to lower their    *)
(* priority, which each does at its next qbuf.  inst->lock is held over    *)
(* all of it: only the session itself changes its size and rate, and other *)
(* sessions are at any point of their own checks.                          *)
(***************************************************************************)
EXTENDS Naturals, FiniteSets, FiniteSetsExt, Functions

CONSTANTS
  Inst,           \* sessions
  Size,           \* msm_vidc_get_mbs_per_frame
  Rate,           \* frame rates
  Config,         \* [enc, rt, critical]: the sessions taken into account
  Cores,          \* data.num_cores of the platforms, a subset of {1, 2}
  MaxSessions,    \* MAX_SESSION_COUNT
  MaxMbps, MaxMbpf, MaxRtMbpf,
  LargeSize, MaxLarge   \* a large size, MAX_NUM_4K_SESSIONS

ASSUME LimitAssumption ==
  /\ Size \subseteq Nat \ {0} /\ Rate \subseteq Nat \ {0}
  /\ Size # {} /\ Rate # {}
  /\ Config \subseteq [enc : BOOLEAN, rt : BOOLEAN, critical : BOOLEAN]
  /\ Cores \subseteq {1, 2}
  /\ {MaxSessions, MaxMbps, MaxMbpf, MaxRtMbpf, LargeSize, MaxLarge} \subseteq Nat

VARIABLES
  cores,          \* data.num_cores
  listed,         \* core->instances
  s,              \* the fields of each session that the scans read
  pc,             \* where its check is
  plan,           \* what its last scan lets it do
  sure            \* ghost: who streams with a size, load, core as checked

vars == <<cores, listed, s, pc, plan, sure>>

NoPlan == [ok |-> TRUE, lower |-> "none", fits |-> {}, light |-> 1]

Init ==
  /\ cores \in Cores
  /\ listed = {}
  /\ s \in [Inst -> {[enc |-> c.enc, rt |-> c.rt, critical |-> c.critical, size |-> z,
                      rate |-> r, core |-> 0, adjust |-> FALSE, on |-> FALSE, old |-> r] :
                     c \in Config, z \in {Min(Size)}, r \in {Min(Rate)}}]
  /\ pc = [i \in Inst |-> "idle"]
  /\ plan = [i \in Inst |-> NoPlan]
  /\ sure = [size |-> {}, load |-> {}, core |-> {}]

-----------------------------------------------------------------------------
(* The sums.                                                               *)

Mbps(I) == SumFunctionOnSet([i \in Inst |-> s[i].size * s[i].rate], I)
Mbpf(I) == SumFunctionOnSet([i \in Inst |-> s[i].size], I)

\* Mutant: only sessions that stream are counted.
OnStreaming(c) == {i \in listed : s[i].on /\ (cores = 2 => s[i].core = c)}

\* The listed sessions on core c, all of them with a single core.
On(c) == {i \in listed : cores = 2 => s[i].core = c}
Critical(c) == {i \in On(c) : s[i].critical}
Realtime(c) == {i \in On(c) : s[i].rt}
Encoders(c) == {i \in Realtime(c) : s[i].enc}

\* A sum is over its limit when it is on every core.
Overloaded(sum, max) == \A c \in 1 .. cores : sum[c] > max

\* What a check on two cores finds: whether the session still fits on its
\* core; if it has none, where it would fit, and which core is less loaded.
Seats == {c \in 1 .. 2 : Cardinality(Realtime(c)) < MaxSessions \div 2}

Weigh(i, sum, new, max, seats) ==
  IF cores = 1 THEN NoPlan
  ELSE [ok |-> s[i].core # 0 => sum[s[i].core] <= max,
        lower |-> "none",
        fits |-> {c \in seats : sum[c] + new <= max},
        light |-> IF sum[1] <= sum[2] THEN 1 ELSE 2]

\* Whether a session is let in, and its core from then on; 0 is none.
Pick(i, p, seats) ==
  LET fits == p.fits \cap seats
  IN  IF cores = 1 \/ s[i].core # 0 \/ ~p.ok \/ fits = {} THEN s[i].core
      ELSE IF fits = {1, 2} THEN p.light ELSE CHOOSE c \in fits : TRUE

LetIn(i, p, seats) == p.ok /\ (cores = 2 => Pick(i, p, seats) # 0)

-----------------------------------------------------------------------------
(* Sessions.                                                               *)

Idle(i) == i \in listed /\ pc[i] = "idle"
Unsure(i) == [size |-> sure.size \ {i}, load |-> sure.load \ {i}, core |-> sure.core \ {i}]
LoadUnsure(i) == [sure EXCEPT !.load = @ \ {i}]

\* msm_vidc_add_session.
AddSession(i) ==
  /\ i \notin listed /\ pc[i] = "idle"
  /\ Cardinality(listed) < MaxSessions
  /\ listed' = listed \cup {i}
  /\ UNCHANGED <<cores, s, pc, plan, sure>>

\* msm_vidc_remove_session at a close; the next open is of a new session.
RemoveSession(i) ==
  /\ Idle(i)
  /\ listed' = listed \ {i}
  /\ s' = [s EXCEPT ![i].core = 0, ![i].adjust = FALSE, ![i].on = FALSE,
                    ![i].size = Min(Size), ![i].rate = Min(Rate), ![i].old = Min(Rate)]
  /\ sure' = Unsure(i)
  /\ UNCHANGED <<cores, pc, plan>>

\* S_FMT before streamon, or a settings change of a stream that is decoded.
SetSize(i, z) ==
  /\ Idle(i) /\ (s[i].on => ~s[i].enc)
  /\ z # s[i].size
  /\ s' = [s EXCEPT ![i].size = z]
  /\ sure' = Unsure(i)
  /\ UNCHANGED <<cores, listed, pc, plan>>

\* V4L2_CID_MPEG_VIDC_PRIORITY may change while the session streams.
SetPriority(i) ==
  /\ Idle(i) /\ ~s[i].critical
  /\ s' = [s EXCEPT ![i].rt = ~@]
  /\ sure' = LoadUnsure(i)
  /\ UNCHANGED <<cores, listed, pc, plan>>

\* msm_vdec_qbuf: a decoder lowers its priority, which the buffers kept for
\* a streamon make it do before its own check.
Lowers(i) ==
  /\ Idle(i) /\ s[i].adjust
  /\ s' = [s EXCEPT ![i].adjust = FALSE, ![i].rt = FALSE]
  /\ sure' = LoadUnsure(i)
  /\ UNCHANGED <<cores, listed, pc, plan>>

\* A port of the session is to stream.
StreamOn(i) ==
  /\ Idle(i)
  /\ pc' = [pc EXCEPT ![i] = IF s[i].rt THEN "critical_mbps" ELSE "critical_mbpf"]
  /\ s' = [s EXCEPT ![i].old = s[i].rate]
  /\ UNCHANGED <<cores, listed, plan, sure>>

StreamOff(i) ==
  /\ Idle(i) /\ s[i].on
  /\ s' = [s EXCEPT ![i].on = FALSE]
  /\ sure' = Unsure(i)
  /\ UNCHANGED <<cores, listed, pc, plan>>

\* msm_venc_s_param: a streaming encoder is checked again with its new rate.
SetRate(i, r) ==
  /\ Idle(i) /\ s[i].enc /\ r # s[i].rate
  /\ s' = [s EXCEPT ![i].rate = r, ![i].old = s[i].rate]
  /\ pc' = [pc EXCEPT ![i] = IF s[i].rt /\ s[i].on THEN "rate_critical" ELSE "idle"]
  /\ sure' = LoadUnsure(i)
  /\ UNCHANGED <<cores, listed, plan>>

-----------------------------------------------------------------------------
(* The check, one scan a step.                                             *)

\* A check that fails leaves the session as it was, but for its core; a
\* rate that was set is reset.
Fails(i) ==
  /\ pc' = [pc EXCEPT ![i] = "idle"]
  /\ s' = [s EXCEPT ![i].rate = s[i].old]

CriticalMbps(i) ==
  /\ pc[i] \in {"critical_mbps", "rate_critical"}
  /\ IF Overloaded([c \in 1 .. 2 |-> Mbps(Critical(c))], MaxMbps)
     THEN Fails(i)
     ELSE /\ pc' = [pc EXCEPT ![i] = IF pc[i] = "rate_critical" THEN "rate_mbps" ELSE "mbps"]
          /\ UNCHANGED s
  /\ UNCHANGED <<cores, listed, plan, sure>>

\* The loads of the real-time sessions, and what follows from them.
MbpsPlan(i) ==
  LET total == [c \in 1 .. 2 |-> Mbps(Realtime(c))]
      lower == IF s[i].enc
               THEN IF \E c \in 1 .. cores : total[c] > MaxMbps THEN "all" ELSE "none"
               ELSE IF Overloaded(total, MaxMbps) THEN "self" ELSE "none"
  IN  IF s[i].enc /\ Overloaded([c \in 1 .. 2 |-> Mbps(Encoders(c))], MaxMbps)
      THEN [NoPlan EXCEPT !.ok = FALSE]
      ELSE [Weigh(i, total, s[i].size * s[i].rate, MaxMbps, Seats) EXCEPT !.lower = lower]

ScanMbps(i) ==
  /\ pc[i] \in {"mbps", "rate_mbps"}
  /\ plan' = [plan EXCEPT ![i] = MbpsPlan(i)]
  /\ pc' = [pc EXCEPT ![i] = IF pc[i] = "mbps" THEN "decide" ELSE "rate_decide"]
  /\ UNCHANGED <<cores, listed, s, sure>>

\* Mutant: only decoders that stream already are asked.
AskedStreaming(i) ==
  {j \in listed : \/ plan[i].lower = "self" /\ j = i
                  \/ plan[i].lower = "all" /\ s[j].on /\ s[j].rt /\ ~s[j].enc}

\* Who is asked to lower its priority when i is let in: itself, or all the
\* real-time decoders.
Asked(i) ==
  {j \in listed : \/ plan[i].lower = "self" /\ j = i
                  \/ plan[i].lower = "all" /\ s[j].rt /\ ~s[j].enc}

Decide(i) ==
  /\ pc[i] \in {"decide", "rate_decide"}
  /\ LET in == LetIn(i, plan[i], {1, 2})
     IN  /\ s' = [j \in Inst |->
                    [s[j] EXCEPT !.adjust = @ \/ j \in Asked(i),
                                 !.core = IF j = i THEN Pick(i, plan[i], {1, 2}) ELSE @,
                                 !.rate = IF j = i /\ ~in THEN s[i].old ELSE @]]
         /\ pc' = [pc EXCEPT ![i] = IF in /\ pc[i] = "decide" THEN "critical_mbpf" ELSE "idle"]
         /\ sure' = IF in /\ pc[i] = "rate_decide"
                    THEN [sure EXCEPT !.load = @ \cup {i}] ELSE sure
  /\ plan' = [plan EXCEPT ![i] = NoPlan]
  /\ UNCHANGED <<cores, listed>>

CriticalMbpf(i) ==
  /\ pc[i] = "critical_mbpf"
  /\ IF Overloaded([c \in 1 .. 2 |-> Mbpf(Critical(c))], MaxMbpf)
     THEN Fails(i)
     ELSE pc' = [pc EXCEPT ![i] = "mbpf"] /\ UNCHANGED s
  /\ UNCHANGED <<cores, listed, plan, sure>>

ScanMbpf(i) ==
  LET total == [c \in 1 .. 2 |-> Mbpf(On(c))]
  IN  /\ pc[i] = "mbpf"
      /\ IF Overloaded(total, MaxMbpf)
         THEN Fails(i) /\ UNCHANGED plan
         ELSE /\ plan' = [plan EXCEPT ![i] = Weigh(i, total, s[i].size, MaxMbpf, {1, 2})]
              /\ pc' = [pc EXCEPT ![i] = "rt_mbpf"]
              /\ UNCHANGED s
  /\ UNCHANGED <<cores, listed, sure>>

\* The core is set when all scans are done.
ScanRtMbpf(i) ==
  /\ pc[i] = "rt_mbpf"
  /\ IF Overloaded([c \in 1 .. 2 |-> Mbpf(Realtime(c))], MaxRtMbpf)
     THEN Fails(i)
     ELSE /\ s' = [s EXCEPT ![i].core = Pick(i, plan[i], Seats)]
          /\ pc' = [pc EXCEPT ![i] = IF LetIn(i, plan[i], Seats) THEN "sessions" ELSE "idle"]
  /\ plan' = [plan EXCEPT ![i] = NoPlan]
  /\ UNCHANGED <<cores, listed, sure>>

Large == {i \in listed : s[i].size >= LargeSize}

\* msm_vidc_check_max_sessions, and the port streams.
CheckMaxSessions(i) ==
  /\ pc[i] = "sessions"
  /\ pc' = [pc EXCEPT ![i] = "idle"]
  /\ IF Cardinality(Large) > MaxLarge
     THEN UNCHANGED <<s, sure>>
     ELSE /\ s' = [s EXCEPT ![i].on = TRUE]
          /\ sure' = [size |-> sure.size \cup {i},
                      load |-> IF s[i].rt THEN sure.load \cup {i} ELSE sure.load,
                      core |-> IF s[i].rt THEN sure.core \cup {i} ELSE sure.core]
  /\ UNCHANGED <<cores, listed, plan>>

Check(i) == \/ CriticalMbps(i) \/ ScanMbps(i) \/ Decide(i) \/ CriticalMbpf(i)
            \/ ScanMbpf(i) \/ ScanRtMbpf(i) \/ CheckMaxSessions(i)

Client(i) == \/ AddSession(i) \/ RemoveSession(i) \/ SetPriority(i) \/ Lowers(i)
             \/ StreamOn(i) \/ StreamOff(i)
             \/ \E z \in Size : SetSize(i, z)
             \/ \E r \in Rate : SetRate(i, r)

Next == \E i \in Inst : Client(i) \/ Check(i)

Spec == Init /\ [][Next]_vars

-----------------------------------------------------------------------------
(* Properties.                                                             *)

\* However the checks of several sessions overlap, those that stream with the
\* size they were checked with are together within the limits of a single
\* core, the real-time encoders also within its load; on two cores, within
\* those of their core, if they were real-time when they were checked, so
\* that their core was set before the last scans (msm_vidc_driver.c:5868,
\* :6003, :6219, :6504).
AdmittedFit ==
  /\ cores = 1 =>
       /\ Mbpf(sure.size) <= MaxMbpf
       /\ Mbps({i \in sure.load : s[i].enc}) <= MaxMbps
  /\ cores = 2 =>
       \A c \in 1 .. 2 : Mbpf({i \in sure.core : s[i].core = c}) <= MaxMbpf
  /\ Cardinality({i \in sure.size : s[i].size >= LargeSize}) <= MaxLarge

\* On a single core real-time sessions that stream with the load they were
\* checked with never exceed what the core can do for good: a decoder among
\* them has been asked to lower its priority and will at its next qbuf
\* (msm_vidc_platform.c:2785, "Driver may move decode realtime sessions to
\* non-realtime", msm_vidc_driver.c:6186, :6202).
OverloadIsRelieved ==
  cores = 1 /\ Mbps(sure.load) > MaxMbps =>
    \E i \in sure.load : ~s[i].enc /\ s[i].adjust
=============================================================================
