------------------------------ MODULE CameraFeed ------------------------------
(***************************************************************************)
(* One camera: from the frames it uploads (stream.py, websocket.py) over    *)
(* the throttle, the inference and the confidence window of MLService      *)
(* (ml_service.py) to the stored row and the status handed to the fusion   *)
(* state.                                                                  *)
(*                                                                         *)
(* Uploads are requests of their own: frames that have passed the throttle *)
(* overlap in the executor, during the upload of the picture and in the    *)
(* database. Time is kept as ages, so that no clock needs a bound.         *)
(***************************************************************************)
EXTENDS Integers, Sequences, FiniteSets

CONSTANTS
  Slots,        \* frames that may be under way at once
  K,            \* OBSTRUCTION_WINDOW_K
  BaseGap,      \* ticks between two inferences, FRAME_CAPTURE_INTERVAL_SECONDS - 5
  ElevatedGap,  \* the same while the risk is elevated
  Hysteresis,   \* ELEVATED_RELAX_HYSTERESIS_SECONDS, in ticks
  MaxFaults     \* restarts, failed inferences and lost rows of a behaviour

ASSUME CameraAssumption ==
  /\ K \in Nat \ {0}
  /\ BaseGap \in Nat /\ ElevatedGap \in 1 .. BaseGap
  /\ Hysteresis \in Nat \ {0}
  /\ MaxFaults \in Nat

Raw == {"clear", "partial", "blocked"}
CameraTiers == {"clear", "possible", "likely", "confirmed"}

\* A slot between two frames, and what no frame has set.
None == "none"

VARIABLES
  frame,      \* where the frame of each slot is between two awaits
  raw,        \* the status the inference found in it
  tier,       \* the confidence tier computed with it
  elders,     \* the frames under way when it was accepted
  overtaken,  \* frames older than the newest row
  window,     \* _windows: the last raw statuses
  sinceLast,  \* age of _last_processed
  elevated,   \* ticks until _elevated_until
  risk,       \* the fusion level is Warning or Critical
  newest,     \* blockage_status of the row with the newest timestamp
  fused,      \* BlockageStatus of the fusion state
  scene,      \* what the camera looks at
  graded,     \* how many frames this process has graded, up to K
  flagged,    \* and how many of them were not clear, up to 2
  faults

cameraVars == <<frame, raw, tier, elders, overtaken, window, sinceLast,
                elevated, risk, newest, fused, scene, graded, flagged, faults>>

\* An age at which nothing depends on it any more.
Long == BaseGap

CameraTypeOK ==
  /\ frame \in [Slots -> {"idle", "inferring", "uploading", "stored"}]
  /\ raw \in [Slots -> Raw \cup {None}]
  /\ tier \in [Slots -> CameraTiers \cup {None}]
  /\ elders \in [Slots -> SUBSET Slots]
  /\ overtaken \subseteq Slots
  /\ window \in Seq(Raw) /\ Len(window) <= K
  /\ sinceLast \in 0 .. Long
  /\ elevated \in 0 .. Hysteresis
  /\ risk \in BOOLEAN
  /\ newest \in Raw \cup {None}
  /\ fused \in [status : Raw \cup {None}, tier : CameraTiers \cup {None}]
  /\ scene \in Raw
  /\ graded \in 0 .. K
  /\ flagged \in 0 .. 2
  /\ faults \in 0 .. MaxFaults

\* No age is remembered: as if nothing had happened for long.
CameraInit ==
  /\ frame = [f \in Slots |-> "idle"]
  /\ raw = [f \in Slots |-> None]
  /\ tier = [f \in Slots |-> None]
  /\ elders = [f \in Slots |-> {}]
  /\ overtaken = {}
  /\ window = <<>>
  /\ sinceLast = Long
  /\ elevated = 0
  /\ graded = 0
  /\ flagged = 0
  /\ risk = FALSE
  /\ newest = None
  /\ fused = [status |-> None, tier |-> None]
  /\ scene \in Raw
  /\ faults = 0

Fault == faults < MaxFaults /\ faults' = faults + 1

\* load_initial_state takes the raw status of the newest row, if it is recent.
LoadedFrame == {[status |-> newest, tier |-> None], [status |-> None, tier |-> None]}

\* The process dies and starts again; rows and camera stay.
CameraRestart ==
  /\ Fault
  /\ frame' = [f \in Slots |-> "idle"]
  /\ raw' = [f \in Slots |-> None]
  /\ tier' = [f \in Slots |-> None]
  /\ elders' = [f \in Slots |-> {}]
  /\ overtaken' = {}
  /\ window' = <<>>
  /\ sinceLast' = Long
  /\ elevated' = 0
  /\ graded' = 0
  /\ flagged' = 0
  /\ fused' \in LoadedFrame
  /\ UNCHANGED <<risk, newest, scene>>

-----------------------------------------------------------------------------
(***************************************************************************)
(* process_frame_bytes up to its first await: the throttle.                *)
(***************************************************************************)

\* _capture_interval_seconds: an elevated risk starts the hysteresis anew.
Elevation == IF risk THEN Hysteresis ELSE elevated
Gap == IF risk \/ elevated > 0 THEN ElevatedGap ELSE BaseGap

\* _last_processed is set before the first await.
AcceptFrame(f) ==
  /\ frame[f] = "idle"
  /\ sinceLast >= Gap
  /\ sinceLast' = 0
  /\ elevated' = Elevation
  /\ frame' = [frame EXCEPT ![f] = "inferring"]
  /\ elders' = [elders EXCEPT ![f] = {g \in Slots : frame[g] # "idle"}]
  /\ UNCHANGED <<raw, tier, overtaken, window, risk, newest, fused, scene, graded,
                 flagged, faults>>

\* A frame that comes too early is shown to the clients, and forgotten.
SkipFrame ==
  /\ sinceLast < Gap
  /\ elevated' = Elevation
  /\ UNCHANGED <<frame, raw, tier, elders, overtaken, window, sinceLast,
                 risk, newest, fused, scene, graded, flagged, faults>>

-----------------------------------------------------------------------------
(***************************************************************************)
(* The inference, and the confidence window.                               *)
(***************************************************************************)

\* A full deque that refuses the new status.
WindowStuck(s) == IF Len(window) < K THEN Append(window, s) ELSE window

\* deque(maxlen=k).append
Windowed(s) == IF Len(window) < K THEN Append(window, s) ELSE Append(Tail(window), s)

Blocked(w) == {i \in DOMAIN w : w[i] = "blocked"}
Partial(w) == {i \in DOMAIN w : w[i] = "partial"}

\* OBSTRUCTION_PARTIAL_WEIGHT is a half: the weights are in halves.
Weight(w) == 2 * Cardinality(Blocked(w)) + Cardinality(Partial(w))

\* OBSTRUCTION_TIER_CONFIRMED and OBSTRUCTION_TIER_LIKELY are tenths of the
\* whole window.
Fraction(w, tenths) == 10 * Weight(w) >= tenths * 2 * K

Tier(w, full, confirmed, likely) ==
  CASE full /\ confirmed -> "confirmed"
    [] full /\ ~confirmed /\ likely -> "likely"
    [] ~(full /\ likely) /\ Blocked(w) \cup Partial(w) # {} -> "possible"
    [] OTHER -> "clear"

\* A window that has just begun is judged by what it has.
TierCold(w) == Tier(w, TRUE, 10 * Weight(w) >= 16 * Len(w), 10 * Weight(w) >= 12 * Len(w))

\* _compute_confidence: only a full window goes past "possible".
TierOf(w) == Tier(w, Len(w) >= K, Fraction(w, 8), Fraction(w, 6))

\* The tier itself taken for a status.
StatusIsTier(t) == t

\* _status_from_tier
StatusOf(t) ==
  CASE t \in {"likely", "confirmed"} -> "blocked"
    [] t = "possible" -> "partial"
    [] t = "clear" -> "clear"

\* The result of the executor and the confidence are one step. What fails in
\* the inference counts as a clear frame.
Grade(f, s) ==
  /\ frame[f] = "inferring"
  /\ raw' = [raw EXCEPT ![f] = s]
  /\ window' = Windowed(s)
  /\ tier' = [tier EXCEPT ![f] = TierOf(window')]
  /\ graded' = IF graded < K THEN graded + 1 ELSE K
  /\ flagged' = IF s # "clear" /\ flagged < 2 THEN flagged + 1 ELSE flagged
  /\ frame' = [frame EXCEPT ![f] = "uploading"]
  /\ UNCHANGED <<elders, overtaken, sinceLast, elevated, risk, newest,
                 fused, scene>>

Infer(f) == Grade(f, scene) /\ UNCHANGED faults
InferFails(f) == Grade(f, "clear") /\ Fault

-----------------------------------------------------------------------------
(***************************************************************************)
(* The row, the broadcast and the fusion state.                            *)
(***************************************************************************)

\* The slot is free for another frame.
Ends(f) ==
  /\ frame' = [frame EXCEPT ![f] = "idle"]
  /\ raw' = [raw EXCEPT ![f] = None]
  /\ tier' = [tier EXCEPT ![f] = None]
  /\ elders' = [g \in Slots |-> elders[g] \ {f}]

\* The picture is uploaded, or not within 30 seconds: the row is written in
\* either case, with the raw status and the time of acceptance.
StoreFrame(f) ==
  /\ frame[f] = "uploading"
  /\ frame' = [frame EXCEPT ![f] = "stored"]
  /\ newest' = IF f \in overtaken THEN newest ELSE raw[f]
  /\ overtaken' = overtaken \cup elders[f]
  /\ UNCHANGED <<raw, tier, elders, window, sinceLast, elevated, risk,
                 fused, scene, graded, flagged, faults>>

\* The database refuses the row: the frame ends, and the window keeps its status.
LoseFrame(f) ==
  /\ frame[f] = "uploading"
  /\ Fault
  /\ Ends(f)
  /\ overtaken' = overtaken \ {f}
  /\ UNCHANGED <<window, sinceLast, elevated, risk, newest, fused, scene,
                 graded, flagged>>

\* The status of the row goes to the fusion state.
RawFused(f) == [status |-> raw[f], tier |-> None]

\* The status that fusion gets is that of the tier.
SmoothedFused(f) == [status |-> StatusOf(tier[f]), tier |-> tier[f]]

\* The broadcast is over, and recalculate_visual_status_score has the lock.
FuseFrame(f) ==
  /\ frame[f] = "stored"
  /\ fused' = SmoothedFused(f)
  /\ Ends(f)
  /\ overtaken' = overtaken \ {f}
  /\ UNCHANGED <<window, sinceLast, elevated, risk, newest, scene, graded,
                 flagged, faults>>

-----------------------------------------------------------------------------
(***************************************************************************)
(* The environment: time, the other sources of the level, the water.       *)
(***************************************************************************)
CameraTick ==
  /\ sinceLast' = IF sinceLast < Long THEN sinceLast + 1 ELSE Long
  /\ elevated' = IF elevated > 0 THEN elevated - 1 ELSE 0
  /\ UNCHANGED <<frame, raw, tier, elders, overtaken, window, risk, newest, fused,
                 scene, graded, flagged, faults>>

RiskChanges ==
  /\ risk' = ~risk
  /\ UNCHANGED <<frame, raw, tier, elders, overtaken, window, sinceLast,
                 elevated, newest, fused, scene, graded, flagged, faults>>

SceneChanges ==
  /\ \E s \in Raw \ {scene} : scene' = s
  /\ UNCHANGED <<frame, raw, tier, elders, overtaken, window, sinceLast,
                 elevated, risk, newest, fused, graded, flagged, faults>>

ProcessFrame(f) == Infer(f) \/ StoreFrame(f) \/ FuseFrame(f)

CameraNext ==
  \/ \E f \in Slots : AcceptFrame(f) \/ ProcessFrame(f)
  \/ \E f \in Slots : InferFails(f) \/ LoseFrame(f)
  \/ SkipFrame
  \/ CameraTick
  \/ RiskChanges
  \/ SceneChanges
  \/ CameraRestart

CameraSpec == CameraInit /\ [][CameraNext]_cameraVars

-----------------------------------------------------------------------------
(***************************************************************************)
(* Properties.                                                             *)
(***************************************************************************)

\* "Sustained-evidence status drives fusion; a lone flagged frame stays
\* possible" (process_frame_bytes): a status with a confidence of likely or
\* confirmed rests on a window that this process has filled, and on two
\* flagged frames at least, however frames overlap, fail or are lost. A
\* restart starts the evidence anew; the row it loads has no confidence.
EvidenceIsSustained ==
  fused.tier \in {"likely", "confirmed"} => graded = K /\ flagged = 2

\* A blockage that stays is noticed: in the end the fusion state holds it for
\* good, whatever was lost, restarted or overtaken before.
BlockageIsNoticed ==
  <>[](scene = "blocked") => <>[](fused.status = "blocked")
=============================================================================
