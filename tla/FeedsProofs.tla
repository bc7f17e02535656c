----------------------------- MODULE FeedsProofs -----------------------------
(***************************************************************************)
(* Theorems about the camera and the weather, for every number of frames    *)
(* under way, of locations, of retries and every length of the window.      *)
(*                                                                         *)
(* Camera: a tier that says the blockage lasts can only be handed on from a *)
(* full window of which this process has flagged at least two frames, and a *)
(* frame carries its tier over two awaits, so the invariant speaks of the   *)
(* frames under way as well as of the fusion state.                         *)
(*                                                                         *)
(* Weather: a fetch writes the row of a location and hands it on in two     *)
(* steps, so the invariant speaks of the location that is between the two.  *)
(***************************************************************************)
EXTENDS FeedsMC, FiniteSetTheorems, TLAPS

-----------------------------------------------------------------------------
(***************************************************************************)
(* Camera.                                                                 *)
(***************************************************************************)

Sustained == {"likely", "confirmed"}

\* The window holds the frames that this process has graded last, and no more
\* flagged ones than it has counted.
WindowCounted ==
  /\ Len(window) = graded
  /\ flagged = 0 => \A i \in 1 .. Len(window) : window[i] = "clear"
  /\ flagged < 2 => \A i, j \in 1 .. Len(window) :
                      window[i] # "clear" /\ window[j] # "clear" => i = j

\* A frame past the inference has a tier, which it hands to the fusion state.
TierKnown == \A f \in Slots : frame[f] \in {"uploading", "stored"} => tier[f] \in CameraTiers

\* The tiers that frames under way will hand to the fusion state.
TiersSustained ==
  \A f \in Slots : tier[f] \in Sustained => graded = K /\ flagged = 2

CameraInv == CameraTypeOK /\ TierKnown
EvidenceInv == CameraInv /\ WindowCounted /\ TiersSustained /\ EvidenceIsSustained

-----------------------------------------------------------------------------
\* The deque takes a status at its end, and drops its oldest when it is full.
LEMMA WindowedShape ==
  ASSUME CameraTypeOK, NEW s \in Raw
  PROVE  /\ Windowed(s) \in Seq(Raw)
         /\ Len(window) < K =>
              /\ Len(Windowed(s)) = Len(window) + 1
              /\ \A i \in 1 .. Len(window) : Windowed(s)[i] = window[i]
              /\ Windowed(s)[Len(window) + 1] = s
         /\ ~(Len(window) < K) =>
              /\ Len(window) = K /\ Len(Windowed(s)) = K
              /\ \A i \in 1 .. K - 1 : Windowed(s)[i] = window[i + 1]
              /\ Windowed(s)[K] = s
<1>1. window \in Seq(Raw) /\ Len(window) \in Nat /\ Len(window) <= K /\ K \in Nat \ {0}
  BY CameraAssumption DEF CameraTypeOK
<1>2. CASE Len(window) < K
  BY <1>1, <1>2 DEF Windowed
<1>3. CASE ~(Len(window) < K)
  <2>1. Len(window) = K /\ window # <<>>
    BY <1>1, <1>3
  <2>2. /\ Tail(window) \in Seq(Raw) /\ Len(Tail(window)) = K - 1
        /\ \A i \in 1 .. K - 1 : Tail(window)[i] = window[i + 1]
    BY <1>1, <2>1
  <2>3. Windowed(s) = Append(Tail(window), s)
    BY <1>3 DEF Windowed
  <2> QED BY <1>1, <1>3, <2>1, <2>2, <2>3
<1> QED BY <1>2, <1>3

LEMMA TierTyped ==
  ASSUME NEW w
  PROVE  TierOf(w) \in CameraTiers
  BY DEF TierOf, Tier, CameraTiers

\* One flagged frame weighs two halves at most, which is less than six tenths
\* of a window of two.
LEMMA OneWeighsLittle ==
  ASSUME NEW w \in Seq(Raw),
         \A i, j \in 1 .. Len(w) : w[i] # "clear" /\ w[j] # "clear" => i = j
  PROVE  Weight(w) \in Nat /\ Weight(w) <= 2
<1>1. DOMAIN w = 1 .. Len(w)
  OBVIOUS
<1>2. CASE Blocked(w) = {} /\ Partial(w) = {}
  BY <1>2, FS_EmptySet DEF Weight
<1>3. ASSUME NEW i \in Blocked(w) PROVE Blocked(w) = {i} /\ Partial(w) = {}
  BY <1>1, <1>3 DEF Blocked, Partial
<1>4. ASSUME NEW i \in Partial(w) PROVE Partial(w) = {i} /\ Blocked(w) = {}
  BY <1>1, <1>4 DEF Blocked, Partial
<1>5. ASSUME NEW i \in Blocked(w) PROVE Weight(w) \in Nat /\ Weight(w) <= 2
  <2>1. Cardinality(Blocked(w)) = 1 /\ Cardinality(Partial(w)) = 0
    BY <1>3, <1>5, FS_EmptySet, FS_Singleton
  <2> QED BY <2>1 DEF Weight
<1>6. ASSUME NEW i \in Partial(w) PROVE Weight(w) \in Nat /\ Weight(w) <= 2
  <2>1. Cardinality(Blocked(w)) = 0 /\ Cardinality(Partial(w)) = 1
    BY <1>4, <1>6, FS_EmptySet, FS_Singleton
  <2> QED BY <2>1 DEF Weight
<1> QED BY <1>2, <1>5, <1>6

\* "A lone flagged frame stays possible", in a window of two or more.
LEMMA LoneFrameIsPossible ==
  ASSUME K > 1, NEW w \in Seq(Raw), TierOf(w) \in Sustained
  PROVE  /\ Len(w) >= K
         /\ \E i, j \in 1 .. Len(w) : i # j /\ w[i] # "clear" /\ w[j] # "clear"
<1>1. Len(w) >= K /\ (Fraction(w, 8) \/ Fraction(w, 6))
  BY DEF TierOf, Tier, Sustained
<1>2. SUFFICES ASSUME \A i, j \in 1 .. Len(w) : w[i] # "clear" /\ w[j] # "clear" => i = j
               PROVE  FALSE
  BY <1>1
<1>3. Weight(w) \in Nat /\ Weight(w) <= 2
  BY <1>2, OneWeighsLittle
<1>4. K \in Nat
  BY CameraAssumption
<1> QED BY <1>1, <1>3, <1>4 DEF Fraction

-----------------------------------------------------------------------------
LEMMA InitCamera == CameraInit => EvidenceInv
<1> SUFFICES ASSUME CameraInit PROVE EvidenceInv
  OBVIOUS
<1>1. CameraTypeOK
  <2>1. <<>> \in Seq(Raw) /\ Len(<<>>) = 0
    OBVIOUS
  <2>2. Long \in 0 .. Long /\ 0 \in 0 .. Hysteresis /\ 0 \in 0 .. K /\ 0 \in 0 .. MaxFaults
        /\ 0 <= K
    BY CameraAssumption DEF Long
  <2>3. [status |-> None, tier |-> None]
          \in [status : Raw \cup {None}, tier : CameraTiers \cup {None}]
    OBVIOUS
  <2>4. /\ frame \in [Slots -> {"idle", "inferring", "uploading", "stored"}]
        /\ raw \in [Slots -> Raw \cup {None}] /\ tier \in [Slots -> CameraTiers \cup {None}]
        /\ elders \in [Slots -> SUBSET Slots]
    BY DEF CameraInit
  <2>5. overtaken \subseteq Slots /\ risk \in BOOLEAN
    BY DEF CameraInit
  <2>6. flagged \in 0 .. 2
    BY DEF CameraInit
  <2> QED BY <2>1, <2>2, <2>3, <2>4, <2>5, <2>6 DEF CameraInit, CameraTypeOK
<1>2. WindowCounted
  BY DEF CameraInit, WindowCounted
<1>3. TiersSustained /\ EvidenceIsSustained
  BY DEF CameraInit, TiersSustained, EvidenceIsSustained, Sustained, None
<1>4. TierKnown
  BY DEF CameraInit, TierKnown
<1> QED BY <1>1, <1>2, <1>3, <1>4 DEF EvidenceInv, CameraInv

-----------------------------------------------------------------------------
(***************************************************************************)
(* Types.                                                                  *)
(***************************************************************************)

\* What the types leave of the ages and the fault count.
LEMMA CameraNumbers ==
  ASSUME CameraTypeOK
  PROVE  /\ sinceLast \in Int /\ 0 <= sinceLast /\ sinceLast <= Long
         /\ elevated \in Int /\ 0 <= elevated /\ elevated <= Hysteresis
         /\ faults \in Int /\ 0 <= faults /\ faults <= MaxFaults
         /\ graded \in Int /\ 0 <= graded /\ graded <= K
         /\ Long \in Nat /\ Hysteresis \in Nat /\ MaxFaults \in Nat /\ K \in Nat
  BY CameraAssumption DEF CameraTypeOK, Long

LEMMA FaultTyped ==
  ASSUME CameraTypeOK, Fault
  PROVE  faults' \in 0 .. MaxFaults
  BY CameraNumbers DEF Fault

LEMMA ElevationTyped ==
  ASSUME CameraTypeOK
  PROVE  Elevation \in 0 .. Hysteresis
  BY CameraNumbers DEF Elevation

\* A slot that is free again.
LEMMA EndsTyped ==
  ASSUME CameraTypeOK, NEW f \in Slots, Ends(f)
  PROVE  /\ frame' \in [Slots -> {"idle", "inferring", "uploading", "stored"}]
         /\ raw' \in [Slots -> Raw \cup {None}]
         /\ tier' \in [Slots -> CameraTiers \cup {None}]
         /\ elders' \in [Slots -> SUBSET Slots]
         /\ tier'[f] = None /\ \A g \in Slots \ {f} : tier'[g] = tier[g]
<1>1. elders' \in [Slots -> SUBSET Slots]
  BY DEF CameraTypeOK, Ends
<1> QED BY <1>1 DEF CameraTypeOK, Ends

LEMMA GradeTyped ==
  ASSUME CameraInv, NEW f \in Slots, NEW s \in Raw, Grade(f, s), faults' \in 0 .. MaxFaults
  PROVE  CameraInv'
<1> CameraTypeOK /\ TierKnown
  BY DEF CameraInv
<1>1. /\ raw' \in [Slots -> Raw \cup {None}]
      /\ frame' \in [Slots -> {"idle", "inferring", "uploading", "stored"}]
  BY DEF Grade, CameraTypeOK
<1>2. /\ tier' \in [Slots -> CameraTiers \cup {None}]
      /\ tier'[f] \in CameraTiers
      /\ \A g \in Slots \ {f} : tier'[g] = tier[g] /\ frame'[g] = frame[g]
  BY TierTyped DEF Grade, CameraTypeOK
<1>3. window' \in Seq(Raw) /\ Len(window') <= K
  <2>1. window' = Windowed(s) /\ Len(window) \in Nat /\ K \in Nat
    BY CameraNumbers DEF Grade, CameraTypeOK
  <2> QED BY <2>1, WindowedShape
<1>4. graded' \in 0 .. K
  BY CameraNumbers DEF Grade
<1>5. flagged' \in 0 .. 2
  BY DEF Grade, CameraTypeOK
<1>6. UNCHANGED <<elders, overtaken, sinceLast, elevated, risk, newest, fused, scene>>
  BY DEF Grade
<1>7. CameraTypeOK'
  BY <1>1, <1>2, <1>3, <1>4, <1>5, <1>6 DEF CameraTypeOK
<1> QED BY <1>2, <1>7 DEF CameraInv, TierKnown

LEMMA FrameTyped ==
  ASSUME CameraInv, NEW f \in Slots,
         AcceptFrame(f) \/ StoreFrame(f) \/ LoseFrame(f) \/ FuseFrame(f)
  PROVE  CameraInv'
<1> CameraTypeOK /\ TierKnown
  BY DEF CameraInv
<1>1. CASE AcceptFrame(f)
  <2>1. /\ frame' \in [Slots -> {"idle", "inferring", "uploading", "stored"}]
        /\ elders' \in [Slots -> SUBSET Slots]
        /\ frame'[f] = "inferring" /\ \A g \in Slots \ {f} : frame'[g] = frame[g]
    BY <1>1 DEF AcceptFrame, CameraTypeOK
  <2>2. sinceLast' \in 0 .. Long /\ elevated' \in 0 .. Hysteresis
    BY <1>1, CameraNumbers, ElevationTyped DEF AcceptFrame
  <2>3. UNCHANGED <<raw, tier, overtaken, window, risk, newest, fused, scene, graded,
                    flagged, faults>>
    BY <1>1 DEF AcceptFrame
  <2>4. CameraTypeOK'
    BY <2>1, <2>2, <2>3 DEF CameraTypeOK
  <2> QED BY <2>1, <2>3, <2>4 DEF CameraInv, TierKnown
<1>2. CASE StoreFrame(f)
  <2>1. /\ frame' \in [Slots -> {"idle", "inferring", "uploading", "stored"}]
        /\ frame[f] = "uploading" /\ \A g \in Slots \ {f} : frame'[g] = frame[g]
    BY <1>2 DEF StoreFrame, CameraTypeOK
  <2>2. newest' \in Raw \cup {None} /\ overtaken' \subseteq Slots
    BY <1>2 DEF StoreFrame, CameraTypeOK
  <2>3. UNCHANGED <<raw, tier, elders, window, sinceLast, elevated, risk, fused, scene, graded,
                    flagged, faults>>
    BY <1>2 DEF StoreFrame
  <2>4. CameraTypeOK'
    BY <2>1, <2>2, <2>3 DEF CameraTypeOK
  <2> QED BY <2>1, <2>3, <2>4 DEF CameraInv, TierKnown
<1>3. ASSUME Ends(f), overtaken' = overtaken \ {f}, faults' \in 0 .. MaxFaults,
             fused' \in [status : Raw \cup {None}, tier : CameraTiers \cup {None}],
             UNCHANGED <<window, sinceLast, elevated, risk, newest, scene, graded, flagged>>
      PROVE  CameraInv'
  <2>1. CameraTypeOK'
    BY <1>3, EndsTyped DEF CameraTypeOK
  <2>2. frame'[f] = "idle" /\ \A g \in Slots \ {f} : frame'[g] = frame[g] /\ tier'[g] = tier[g]
    BY <1>3 DEF Ends, CameraTypeOK
  <2> QED BY <2>1, <2>2 DEF CameraInv, TierKnown
<1>4. CASE LoseFrame(f)
  <2>1. fused' \in [status : Raw \cup {None}, tier : CameraTiers \cup {None}]
    BY <1>4 DEF LoseFrame, CameraTypeOK
  <2> QED BY <1>3, <1>4, <2>1, FaultTyped DEF LoseFrame
<1>5. CASE FuseFrame(f)
  <2>1. tier[f] \in CameraTiers
    BY <1>5 DEF FuseFrame, TierKnown
  <2>2. StatusOf(tier[f]) \in Raw
    BY <2>1 DEF StatusOf, CameraTiers, Raw
  <2>3. fused' \in [status : Raw \cup {None}, tier : CameraTiers \cup {None}]
    BY <1>5, <2>1, <2>2 DEF FuseFrame, SmoothedFused
  <2>4. faults' \in 0 .. MaxFaults
    BY <1>5 DEF FuseFrame, CameraTypeOK
  <2> QED BY <1>3, <1>5, <2>3, <2>4 DEF FuseFrame
<1> QED BY <1>1, <1>2, <1>4, <1>5

LEMMA RestartTyped ==
  ASSUME CameraInv, CameraRestart
  PROVE  CameraInv'
<1> CameraTypeOK
  BY DEF CameraInv
<1>1. /\ frame' \in [Slots -> {"idle", "inferring", "uploading", "stored"}]
      /\ raw' \in [Slots -> Raw \cup {None}]
      /\ tier' \in [Slots -> CameraTiers \cup {None}]
      /\ elders' \in [Slots -> SUBSET Slots]
      /\ \A f \in Slots : frame'[f] = "idle"
  BY DEF CameraRestart
<1>2. /\ overtaken' \subseteq Slots /\ window' \in Seq(Raw) /\ Len(window') = 0
      /\ UNCHANGED <<risk, newest, scene>>
  BY DEF CameraRestart
<1>3. /\ sinceLast' \in 0 .. Long /\ elevated' \in 0 .. Hysteresis /\ graded' \in 0 .. K
      /\ flagged' \in 0 .. 2 /\ faults' \in 0 .. MaxFaults /\ 0 <= K
  BY CameraNumbers, FaultTyped DEF CameraRestart
<1>4. fused' \in [status : Raw \cup {None}, tier : CameraTiers \cup {None}]
  BY DEF CameraRestart, LoadedFrame, CameraTypeOK
<1>5. CameraTypeOK'
  BY <1>1, <1>2, <1>3, <1>4 DEF CameraTypeOK
<1> QED BY <1>1, <1>5 DEF CameraInv, TierKnown

LEMMA AmbientTyped ==
  ASSUME CameraInv,
         SkipFrame \/ CameraTick \/ RiskChanges \/ SceneChanges \/ UNCHANGED cameraVars
  PROVE  CameraInv'
<1> CameraTypeOK
  BY DEF CameraInv
<1>1. UNCHANGED <<frame, raw, tier, elders, overtaken, window, newest, fused, graded, flagged,
                  faults>>
  BY DEF SkipFrame, CameraTick, RiskChanges, SceneChanges, cameraVars
<1>2. sinceLast' \in 0 .. Long
  BY CameraNumbers DEF SkipFrame, CameraTick, RiskChanges, SceneChanges, cameraVars
<1>3. elevated' \in 0 .. Hysteresis
  BY CameraNumbers, ElevationTyped
  DEF SkipFrame, CameraTick, RiskChanges, SceneChanges, cameraVars
<1>4. risk' \in BOOLEAN /\ scene' \in Raw
  BY DEF CameraTypeOK, SkipFrame, CameraTick, RiskChanges, SceneChanges, cameraVars
<1>5. CameraTypeOK'
  BY <1>1, <1>2, <1>3, <1>4 DEF CameraTypeOK
<1> QED BY <1>1, <1>5 DEF CameraInv, TierKnown

LEMMA StepCamera == CameraInv /\ [CameraNext]_cameraVars => CameraInv'
<1> SUFFICES ASSUME CameraInv, [CameraNext]_cameraVars PROVE CameraInv'
  OBVIOUS
<1>1. ASSUME NEW f \in Slots, Infer(f) \/ InferFails(f) PROVE CameraInv'
  <2>1. \E s \in Raw : Grade(f, s)
    BY <1>1 DEF Infer, InferFails, CameraInv, CameraTypeOK, Raw
  <2>2. faults' \in 0 .. MaxFaults
    BY <1>1, FaultTyped DEF Infer, InferFails, CameraInv, CameraTypeOK
  <2> QED BY <2>1, <2>2, GradeTyped
<1> QED BY <1>1, FrameTyped, RestartTyped, AmbientTyped DEF CameraNext, ProcessFrame

-----------------------------------------------------------------------------
(***************************************************************************)
(* The evidence.                                                           *)
(***************************************************************************)

\* A step that grades no frame, and hands on the tiers there are.
LEMMA HandedOn ==
  ASSUME EvidenceInv, CameraInv', UNCHANGED <<window, graded, flagged>>,
         \A f \in Slots : tier'[f] = tier[f] \/ tier'[f] = None,
         fused' = fused \/ \E f \in Slots : fused'.tier = tier[f]
  PROVE  EvidenceInv'
<1>1. WindowCounted'
  BY DEF EvidenceInv, WindowCounted
<1>2. TiersSustained' /\ EvidenceIsSustained'
  BY DEF EvidenceInv, TiersSustained, EvidenceIsSustained, Sustained, None
<1> QED BY <1>1, <1>2 DEF EvidenceInv

LEMMA GradeKeepsEvidence ==
  ASSUME K > 1, EvidenceInv, CameraInv', NEW f \in Slots, NEW s \in Raw, Grade(f, s)
  PROVE  EvidenceInv'
<1>1. /\ window' = Windowed(s) /\ tier' = [tier EXCEPT ![f] = TierOf(window')]
      /\ graded' = (IF graded < K THEN graded + 1 ELSE K)
      /\ flagged' = (IF s # "clear" /\ flagged < 2 THEN flagged + 1 ELSE flagged)
      /\ fused' = fused
  BY DEF Grade
<1>2. /\ CameraTypeOK /\ WindowCounted /\ TiersSustained /\ EvidenceIsSustained
      /\ flagged \in 0 .. 2 /\ graded \in 0 .. K /\ K \in Nat /\ Len(window) = graded
      /\ window' \in Seq(Raw)
  BY CameraNumbers DEF EvidenceInv, CameraInv, CameraTypeOK, WindowCounted
<1>3. Len(window') = graded'
  BY <1>1, <1>2, WindowedShape
\* The statuses before the last are old ones, in their order.
<1>4. \E shift \in {0, 1} :
        \A i \in 1 .. Len(window') :
          IF i = Len(window') THEN window'[i] = s
          ELSE i + shift \in 1 .. Len(window) /\ window'[i] = window[i + shift]
  <2>1. CASE Len(window) < K
    <3>1. \A i \in 1 .. Len(window') :
            IF i = Len(window') THEN window'[i] = s
            ELSE i + 0 \in 1 .. Len(window) /\ window'[i] = window[i + 0]
      BY <1>1, <1>2, <2>1, WindowedShape
    <3> QED BY <3>1
  <2>2. CASE ~(Len(window) < K)
    <3>1. \A i \in 1 .. Len(window') :
            IF i = Len(window') THEN window'[i] = s
            ELSE i + 1 \in 1 .. Len(window) /\ window'[i] = window[i + 1]
      BY <1>1, <1>2, <2>2, WindowedShape
    <3> QED BY <3>1
  <2> QED BY <2>1, <2>2
<1>5. PICK shift \in {0, 1} :
        \A i \in 1 .. Len(window') :
          IF i = Len(window') THEN window'[i] = s
          ELSE i + shift \in 1 .. Len(window) /\ window'[i] = window[i + shift]
  BY <1>4
<1>6. flagged' = 0 => \A i \in 1 .. Len(window') : window'[i] = "clear"
  BY <1>1, <1>2, <1>5 DEF WindowCounted
<1>7. flagged' < 2 => \A i, j \in 1 .. Len(window') :
                        window'[i] # "clear" /\ window'[j] # "clear" => i = j
  <2> SUFFICES ASSUME flagged' < 2, NEW i \in 1 .. Len(window'), NEW j \in 1 .. Len(window'),
                      window'[i] # "clear", window'[j] # "clear"
               PROVE  i = j
    OBVIOUS
  <2>1. CASE s = "clear"
    <3>1. flagged < 2 /\ i # Len(window') /\ j # Len(window')
      BY <1>1, <1>5, <2>1
    <3>2. i + shift = j + shift
      BY <1>2, <1>5, <3>1 DEF WindowCounted
    <3> QED BY <3>2
  <2>2. CASE s # "clear"
    <3>1. flagged = 0
      BY <1>1, <1>2, <2>2
    <3>2. i = Len(window') /\ j = Len(window')
      BY <1>2, <1>5, <3>1 DEF WindowCounted
    <3> QED BY <3>2
  <2> QED BY <2>1, <2>2
<1>8. WindowCounted'
  BY <1>3, <1>6, <1>7 DEF WindowCounted
<1>9. TierOf(window') \in Sustained => graded' = K /\ flagged' = 2
  <2> SUFFICES ASSUME TierOf(window') \in Sustained PROVE graded' = K /\ flagged' = 2
    OBVIOUS
  <2>1. /\ Len(window') >= K
        /\ \E i, j \in 1 .. Len(window') :
             i # j /\ window'[i] # "clear" /\ window'[j] # "clear"
    BY <1>2, LoneFrameIsPossible
  <2>2. ~(flagged' < 2) /\ flagged' \in 0 .. 2 /\ graded' \in 0 .. K
    BY <1>7, <2>1 DEF CameraInv, CameraTypeOK
  <2> QED BY <1>2, <1>3, <2>1, <2>2
<1>10. graded = K /\ flagged = 2 => graded' = K /\ flagged' = 2
  BY <1>1, <1>2
<1>11. TiersSustained'
  BY <1>1, <1>2, <1>9, <1>10 DEF TiersSustained, CameraTypeOK
<1>12. EvidenceIsSustained'
  BY <1>1, <1>2, <1>10 DEF EvidenceIsSustained
<1> QED BY <1>8, <1>11, <1>12 DEF EvidenceInv

LEMMA StepEvidence ==
  ASSUME K > 1 PROVE EvidenceInv /\ [CameraNext]_cameraVars => EvidenceInv'
<1> SUFFICES ASSUME EvidenceInv, [CameraNext]_cameraVars PROVE EvidenceInv'
  OBVIOUS
<1>1. CameraTypeOK /\ CameraInv'
  BY StepCamera DEF EvidenceInv, CameraInv
<1>2. ASSUME NEW f \in Slots, Infer(f) \/ InferFails(f) PROVE EvidenceInv'
  <2>1. \E s \in Raw : Grade(f, s)
    BY <1>1, <1>2 DEF Infer, InferFails, CameraTypeOK, Raw
  <2> QED BY <1>1, <2>1, GradeKeepsEvidence
<1>3. ASSUME NEW f \in Slots, AcceptFrame(f) \/ StoreFrame(f) PROVE EvidenceInv'
  <2>1. UNCHANGED <<window, graded, flagged, tier, fused>>
    BY <1>3 DEF AcceptFrame, StoreFrame
  <2> QED BY <1>1, <2>1, HandedOn
<1>4. ASSUME NEW f \in Slots, LoseFrame(f) \/ FuseFrame(f) PROVE EvidenceInv'
  <2>1. UNCHANGED <<window, graded, flagged>> /\ Ends(f)
    BY <1>4 DEF LoseFrame, FuseFrame
  <2>2. \A g \in Slots : tier'[g] = tier[g] \/ tier'[g] = None
    BY <1>1, <2>1, EndsTyped
  <2>3. fused' = fused \/ fused'.tier = tier[f]
    BY <1>4 DEF LoseFrame, FuseFrame, SmoothedFused
  <2> QED BY <1>1, <2>1, <2>2, <2>3, HandedOn
<1>5. CASE SkipFrame \/ CameraTick \/ RiskChanges \/ SceneChanges \/ UNCHANGED cameraVars
  <2>1. UNCHANGED <<window, graded, flagged, tier, fused>>
    BY <1>5 DEF SkipFrame, CameraTick, RiskChanges, SceneChanges, cameraVars
  <2> QED BY <1>1, <2>1, HandedOn
<1>6. CASE CameraRestart
  <2>1. /\ window' = <<>> /\ graded' = 0 /\ flagged' = 0 /\ fused'.tier = None
        /\ \A f \in Slots : tier'[f] = None
    BY <1>6 DEF CameraRestart, LoadedFrame
  <2>2. WindowCounted'
    BY <2>1 DEF WindowCounted
  <2>3. TiersSustained' /\ EvidenceIsSustained'
    BY <2>1 DEF TiersSustained, EvidenceIsSustained, Sustained, None
  <2> QED BY <1>1, <2>2, <2>3 DEF EvidenceInv
<1> QED BY <1>2, <1>3, <1>4, <1>5, <1>6 DEF CameraNext, ProcessFrame

-----------------------------------------------------------------------------
(***************************************************************************)
(* Weather.                                                                *)
(***************************************************************************)

\* The location that is about to be fused has the row that was just written.
FusedIsSaved ==
  \A l \in Locations : fetch = "fusing" /\ Turn(l) => row[l] = pending[l]

WeatherInv == WeatherTypeOK /\ FusedIsSaved /\ WeatherIsFused

-----------------------------------------------------------------------------
LEMMA InitWeather == WeatherInit => WeatherInv
<1> SUFFICES ASSUME WeatherInit PROVE WeatherInv
  OBVIOUS
<1>1. Nothing \in Reports
  BY DEF Nothing, Reports
<1>2. 0 \in 0 .. MaxRetries
  BY WeatherAssumption
<1>3. WeatherTypeOK
  BY <1>1, <1>2 DEF WeatherInit, WeatherTypeOK
<1> QED BY <1>3 DEF WeatherInit, WeatherInv, FusedIsSaved, WeatherIsFused

\* A retry keeps the numbers of retries within the maximum.
LEMMA RetryTyped ==
  ASSUME WeatherTypeOK, Retry
  PROVE  retryCount' \in 0 .. MaxRetries /\ retries' \subseteq 1 .. MaxRetries
<1>1. retryCount \in Int /\ 0 <= retryCount /\ retryCount <= MaxRetries /\ MaxRetries \in Int
  BY WeatherAssumption DEF WeatherTypeOK
<1>2. retryCount < MaxRetries =>
        retryCount + 1 \in 1 .. MaxRetries /\ retryCount + 1 \in 0 .. MaxRetries
  BY <1>1
<1>3. CASE retryCount < MaxRetries
  BY <1>2, <1>3 DEF WeatherTypeOK, Retry
<1>4. CASE ~(retryCount < MaxRetries)
  BY <1>4 DEF WeatherTypeOK, Retry
<1> QED BY <1>3, <1>4

\* What a job does that touches no condition, no row and no fusion state.
LEMMA JobKeeps ==
  ASSUME WeatherInv,
         UNCHANGED <<pending, row, rain, unfused>>, recent' \subseteq recent,
         \/ fetch' = fetch
         \/ fetch = "free" /\ fetch' = "fetching"
         \/ fetch' = "down",
         retryCount' \in 0 .. MaxRetries, retries' \subseteq 1 .. MaxRetries,
         refetch' \in BOOLEAN, rested' \in BOOLEAN, healthy' \in BOOLEAN
  PROVE  WeatherInv'
<1>1. WeatherTypeOK'
  BY DEF WeatherInv, WeatherTypeOK
<1>2. FusedIsSaved'
  BY DEF WeatherInv, FusedIsSaved, Turn
<1>3. WeatherIsFused'
  BY DEF WeatherInv, WeatherIsFused, Turn
<1> QED BY <1>1, <1>2, <1>3 DEF WeatherInv

\* The end of a fetch, before the loop over the conditions.
LEMMA FetchEndsKeeps ==
  ASSUME WeatherInv, FetchEnds
  PROVE  WeatherInv'
<1>1. /\ fetch = "fetching" /\ fetch' \in {"saving", "free"}
      /\ UNCHANGED <<row, recent, rain, unfused, refetch, rested, healthy>>
  BY DEF FetchEnds, Released
<1>2. pending' \in Reports
  BY DEF FetchEnds, Released, Reported, Nothing, Reports
<1>3. retryCount' \in 0 .. MaxRetries /\ retries' \subseteq 1 .. MaxRetries
  <2>1. 0 \in 0 .. MaxRetries
    BY WeatherAssumption
  <2>2. WeatherTypeOK
    BY DEF WeatherInv
  <2>3. retryCount \in 0 .. MaxRetries /\ retries \subseteq 1 .. MaxRetries
    BY <2>2 DEF WeatherTypeOK
  <2>4. \/ retryCount' = 0 /\ UNCHANGED retries
        \/ UNCHANGED <<retryCount, retries>>
        \/ Retry
    BY DEF FetchEnds
  <2> QED BY <2>1, <2>2, <2>3, <2>4, RetryTyped
<1>4. WeatherTypeOK'
  BY <1>1, <1>2, <1>3 DEF WeatherInv, WeatherTypeOK
<1> QED BY <1>1, <1>4 DEF WeatherInv, FusedIsSaved, WeatherIsFused

LEMMA SaveWeatherKeeps ==
  ASSUME WeatherInv, NEW l \in Locations, SaveWeather(l)
  PROVE  WeatherInv'
<1>1. /\ fetch = "saving" /\ fetch' = "fusing" /\ Turn(l) /\ pending[l] # NoWeather
      /\ recent' = recent \cup {l}
      /\ UNCHANGED <<pending, rain, unfused, retryCount, retries, refetch, rested, healthy>>
  BY DEF SaveWeather, Turn
<1>2. /\ row' \in Reports /\ row'[l] = pending[l]
      /\ \A k \in Locations \ {l} : row'[k] = row[k]
  BY DEF SaveWeather, WeatherInv, WeatherTypeOK, Reports
<1>3. WeatherTypeOK'
  BY <1>1, <1>2 DEF WeatherInv, WeatherTypeOK
<1>4. \A k \in Locations : Turn(k)' => k = l
  BY <1>1 DEF Turn, Locations
<1>5. FusedIsSaved'
  BY <1>1, <1>2, <1>4 DEF FusedIsSaved
<1>6. Turn(l)'
  BY <1>1 DEF Turn
<1>7. WeatherIsFused'
  BY <1>1, <1>2, <1>6 DEF WeatherInv, WeatherIsFused
<1> QED BY <1>3, <1>5, <1>7 DEF WeatherInv

LEMMA FuseWeatherKeeps ==
  ASSUME WeatherInv, NEW l \in Locations, FuseWeather(l)
  PROVE  WeatherInv'
<1>1. /\ fetch = "fusing" /\ fetch' \in {"saving", "free"} /\ Turn(l)
      /\ unfused' = unfused \ {l}
      /\ UNCHANGED <<row, recent, retryCount, retries, refetch, rested, healthy>>
  BY DEF FuseWeather, Released
<1>2. /\ rain' \in Reports /\ rain'[l] = pending[l]
      /\ \A k \in Locations \ {l} : rain'[k] = rain[k]
  BY DEF FuseWeather, LocationOf, WeatherInv, WeatherTypeOK, Reports
<1>3. pending' \in Reports
  BY DEF FuseWeather, Released, Nothing, WeatherInv, WeatherTypeOK, Reports
<1>4. WeatherTypeOK'
  BY <1>1, <1>2, <1>3 DEF WeatherInv, WeatherTypeOK
<1>5. rain'[l] = row[l]
  BY <1>1, <1>2 DEF WeatherInv, FusedIsSaved
<1>6. \A k \in Locations \ {l} : ~Turn(k)
  BY <1>1 DEF Turn, Locations
<1>7. WeatherIsFused'
  BY <1>1, <1>2, <1>5, <1>6 DEF WeatherInv, WeatherIsFused
<1> QED BY <1>1, <1>4, <1>7 DEF WeatherInv, FusedIsSaved

\* The startup loads what the rows say, whatever became of its own fetch.
LEMMA StartWeatherKeeps ==
  ASSUME WeatherInv, StartWeather
  PROVE  WeatherInv'
<1>1. /\ fetch' = "free" /\ pending' = Nothing
      /\ rain' = [l \in Locations |-> IF l \in recent' THEN row'[l] ELSE NoWeather]
      /\ unfused' = {}
      /\ UNCHANGED <<refetch, rested, healthy>>
  BY DEF StartWeather, Released, Loads
<1>2. row' \in Reports /\ recent' \subseteq {l \in Locations : row'[l] # NoWeather}
  <2>1. CASE UNCHANGED <<row, recent>>
    BY <2>1 DEF WeatherInv, WeatherTypeOK
  <2>2. ASSUME NEW r \in Reports, NEW upTo \in Locations \cup {0},
               row' = Saved(r, upTo), recent' = recent \cup SavedNow(r, upTo)
        PROVE  row' \in Reports /\ recent' \subseteq {l \in Locations : row'[l] # NoWeather}
    BY <2>2 DEF Saved, SavedNow, Reports, WeatherInv, WeatherTypeOK
  <2> QED BY <2>1, <2>2 DEF StartWeather, Reported
<1>3. retryCount' \in 0 .. MaxRetries /\ retries' \subseteq 1 .. MaxRetries
  BY RetryTyped DEF StartWeather, WeatherInv, WeatherTypeOK
<1>4. pending' \in Reports /\ rain' \in Reports
  BY <1>1, <1>2 DEF Nothing, Reports
<1>5. WeatherTypeOK'
  BY <1>1, <1>2, <1>3, <1>4 DEF WeatherInv, WeatherTypeOK
<1>6. WeatherIsFused'
  BY <1>1 DEF WeatherIsFused
<1> QED BY <1>1, <1>5, <1>6 DEF WeatherInv, FusedIsSaved

LEMMA StopWeatherKeeps ==
  ASSUME WeatherInv, StopWeather
  PROVE  WeatherInv'
<1>1. 0 \in 0 .. MaxRetries /\ Nothing \in Reports
  BY WeatherAssumption DEF Nothing, Reports
<1>2. WeatherTypeOK'
  BY <1>1 DEF StopWeather, WeatherInv, WeatherTypeOK
<1> QED BY <1>2 DEF StopWeather, WeatherInv, FusedIsSaved, WeatherIsFused

\* A save that raises leaves the fusion states with the rows there were, but
\* for its own location, if the row was committed.
LEMMA SaveRaisesKeeps ==
  ASSUME WeatherInv, NEW l \in Locations, SaveRaises(l)
  PROVE  WeatherInv'
<1>1. /\ fetch' = "free" /\ pending' = Nothing
      /\ UNCHANGED <<rain, retryCount, retries, refetch, rested, healthy>>
      /\ pending[l] # NoWeather
  BY DEF SaveRaises, Released, Turn
<1>2. CASE UNCHANGED <<row, recent, unfused>>
  <2>1. WeatherTypeOK'
    BY <1>1, <1>2 DEF WeatherInv, WeatherTypeOK, Nothing, Reports
  <2>2. fetch = "saving"
    BY DEF SaveRaises
  <2> QED BY <1>1, <1>2, <2>1, <2>2 DEF WeatherInv, FusedIsSaved, WeatherIsFused
<1>3. CASE /\ row' = [row EXCEPT ![l] = pending[l]]
           /\ recent' = recent \cup {l}
           /\ unfused' = unfused \cup {l}
  <2>1. /\ row' \in Reports /\ row'[l] = pending[l]
        /\ \A k \in Locations \ {l} : row'[k] = row[k]
    BY <1>3 DEF WeatherInv, WeatherTypeOK, Reports
  <2>2. WeatherTypeOK'
    BY <1>1, <1>3, <2>1 DEF WeatherInv, WeatherTypeOK, Nothing, Reports
  <2>3. fetch = "saving"
    BY DEF SaveRaises
  <2>4. WeatherIsFused'
    BY <1>1, <1>3, <2>1, <2>3 DEF WeatherInv, WeatherIsFused
  <2> QED BY <1>1, <2>2, <2>4 DEF WeatherInv, FusedIsSaved
<1> QED BY <1>2, <1>3 DEF SaveRaises

LEMMA StepWeather == WeatherInv /\ [WeatherNext]_weatherVars => WeatherInv'
<1> SUFFICES ASSUME WeatherInv, [WeatherNext]_weatherVars PROVE WeatherInv'
  OBVIOUS
<1>1. /\ retryCount \in 0 .. MaxRetries /\ retries \subseteq 1 .. MaxRetries
      /\ refetch \in BOOLEAN /\ rested \in BOOLEAN /\ healthy \in BOOLEAN
  BY DEF WeatherInv, WeatherTypeOK
<1>2. CASE IntervalJob \/ RefetchJob \/ \E n \in retries : RetryJob(n)
  BY <1>1, <1>2, JobKeeps DEF IntervalJob, RefetchJob, RetryJob, Runs
<1>3. CASE RequestRefetch \/ WeatherAges \/ HealthChanges \/ UNCHANGED weatherVars
  BY <1>1, <1>3, JobKeeps DEF RequestRefetch, WeatherAges, HealthChanges, weatherVars
<1>4. CASE FetchGoesOn
  BY <1>4, FetchEndsKeeps, SaveWeatherKeeps, FuseWeatherKeeps DEF FetchGoesOn
<1> QED BY <1>2, <1>3, <1>4, StartWeatherKeeps, StopWeatherKeeps, SaveRaisesKeeps DEF WeatherNext

-----------------------------------------------------------------------------
(***************************************************************************)
(* Theorems.                                                               *)
(***************************************************************************)

\* The smoothing of camera_service: the fusion state is told that a blockage is
\* likely or confirmed only when the window is full and two of the frames this
\* process has graded were flagged. With a window of one frame it is false:
\* that frame alone is six tenths of it.
THEOREM Evidence == ASSUME K > 1 PROVE CameraSpec => []EvidenceIsSustained
<1>1. CameraSpec => []EvidenceInv
  BY InitCamera, StepEvidence, PTL DEF CameraSpec
<1> QED BY <1>1, PTL DEF EvidenceInv

\* The fetch of weather_service: between the locations of a fetch, the fusion
\* state has the rain of the row that was saved, whatever fetch fails, raises or
\* is cut off by a restart; but for a row whose save raised after its commit.
THEOREM RainIsFused == WeatherSpec => []WeatherIsFused
<1>1. WeatherSpec => []WeatherInv
  BY InitWeather, StepWeather, PTL DEF WeatherSpec
<1> QED BY <1>1, PTL DEF WeatherInv

\* The variables of both keep values of their types, side by side.
THEOREM FeedsTyped == Spec => []FeedsTypeOK
<1>1. Init => CameraInv /\ WeatherInv
  <2>1. SUFFICES ASSUME CameraInit PROVE CameraInv
    BY InitWeather DEF Init
  <2> QED BY <2>1, InitCamera DEF EvidenceInv
<1>2. CameraInv /\ WeatherInv /\ [Next]_vars => CameraInv' /\ WeatherInv'
  BY StepCamera, StepWeather DEF Next, Camera, Weather, vars
<1> QED BY <1>1, <1>2, PTL DEF Spec, CameraInv, WeatherInv, FeedsTypeOK
=============================================================================
