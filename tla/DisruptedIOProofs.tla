-------------------------- MODULE DisruptedIOProofs --------------------------
(***************************************************************************)
(* Proofs about DisruptedIO.  The bounds on false alarms and on masked     *)
(* failures are not inductive: each needs, for every worker, the one       *)
(* request it has under way that a window has touched and that has not     *)
(* been judged yet (TooLate, TooEarly), and the excuse that the flag or    *)
(* event_clear_flg still holds in store (Stored).                          *)
(***************************************************************************)
EXTENDS DisruptedIO, TLAPS

One(p) == IF p THEN 1 ELSE 0

PodTypes ==
    /\ event \in BOOLEAN /\ flag \in BOOLEAN /\ given \in BOOLEAN
    /\ dpc \in {"next", "shutting", "clear", "flag", "check", "failed"}
    /\ opened \in 0..MaxPods /\ closed \in 0..MaxPods

CastTypes ==
    /\ kind \in [Worker -> Kind] /\ holds \in [Worker -> BOOLEAN]

RequestTypes ==
    /\ pc \in [Worker -> {"ready", "busy", "judge", "flag", "reset", "di",
                          "compare", "relist", "over", "dead"}]
    /\ left \in [Worker -> 0..Requests]
    /\ hit \in [Worker -> BOOLEAN] /\ owed \in [Worker -> BOOLEAN]
    /\ outcome \in [Worker -> {"fine", "corrupt", "genuine", "disturbed"}]
    /\ grace \in [Worker -> BOOLEAN]

ListTypes == listed \in [Worker -> Nat] /\ stock \in [Worker -> Nat]

CountTypes ==
    /\ alarms \in [Worker -> Nat] /\ diAlarms \in [Worker -> Nat]
    /\ masked \in [Worker -> Nat]

Types == PodTypes /\ CastTypes /\ RequestTypes /\ ListTypes /\ CountTypes

\* The event is set exactly in a window, and after a shutdown that failed.
EventTellsWindow ==
    /\ dpc \in {"shutting", "clear"} => event /\ closed + 1 = opened
    /\ dpc \in {"next", "flag", "check"} => ~event /\ closed = opened
    /\ closed <= opened

\* Where a worker may stand, with which outcome.
Standing(w) ==
    /\ pc[w] \notin {"over", "dead"} => left[w] > 0
    /\ pc[w] \in {"flag", "reset"} => kind[w] = "bench"
    /\ pc[w] \in {"di", "compare"} => kind[w] = "get"
    /\ outcome[w] = "disturbed" => hit[w]
    /\ outcome[w] = "genuine" => ~hit[w]
    /\ pc[w] \in {"ready", "busy", "relist"} => outcome[w] = "fine"
    /\ pc[w] = "busy" /\ Disturbing => hit[w]
    /\ pc[w] \in {"judge", "flag"} => outcome[w] # "corrupt"
    /\ hit[w] => opened > 0

Buckets(w) ==
    /\ listed[w] <= stock[w]
    /\ kind[w] = "delete" /\ pc[w] \in {"busy", "judge"} => listed[w] > 0

\* A window closed over the worker's request, and it may still report it.
TooLate(w) == hit[w] /\ (pc[w] = "flag" \/ (~event /\ pc[w] \in {"busy", "judge"}))

TooLateDI(w) ==
    hit[w] /\ (pc[w] = "compare" \/ (~event /\ pc[w] \in {"busy", "judge", "di"}))

AlarmBound(w) ==
    /\ alarms[w] + One(TooLate(w)) <= closed
    /\ diAlarms[w] + One(TooLateDI(w)) <= closed

\* A window opened over a failure from before it, that is not judged yet.
TooEarly(w) ==
    event /\ \/ pc[w] = "judge" /\ outcome[w] = "genuine"
             \/ pc[w] \in {"di", "compare"} /\ outcome[w] = "corrupt" /\ ~hit[w]

\* The excuses of earlier windows the worker may still use.
Stored(w) ==
    IF kind[w] = "bench"
    THEN One(holds[w] /\ flag /\ pc[w] # "reset") + One(dpc = "flag")
    ELSE One(kind[w] = "copy" /\ grace[w] /\ ~event)

MaskBound(w) ==
    ~Stuck /\ kind[w] # "overwrite" =>
        masked[w] + One(TooEarly(w)) + Stored(w)
            <= opened + (IF kind[w] \in {"bench", "copy"} THEN closed ELSE 0)

\* A flag that nobody else consumes is still set when the run it is owed to ends.
Owed(w) ==
    kind[w] = "bench" /\ owed[w] /\ (\A v \in Worker \ {w} : ~holds[v]) /\ holds[w]
        => flag

Safe(w) == Standing(w) /\ Buckets(w) /\ AlarmBound(w) /\ MaskBound(w) /\ Owed(w)

Inv == Types /\ EventTellsWindow /\ \A w \in Worker : Safe(w)

-----------------------------------------------------------------------------
(* The initial states. *)

LEMMA InitInv == Init => Inv
<1> SUFFICES ASSUME Init PROVE Inv
  OBVIOUS
<1>1. PodTypes
  <2>1. given \in BOOLEAN /\ event \in BOOLEAN /\ flag \in BOOLEAN
    BY DEF Init
  <2> QED  BY <2>1, DisruptionAssumption DEF Init, PodTypes
<1>2. CastTypes
  BY DisruptionAssumption DEF Init, CastTypes
<1>3. RequestTypes
  BY DisruptionAssumption DEF Init, RequestTypes
<1>4. ListTypes /\ CountTypes
  BY DisruptionAssumption DEF Init, ListTypes, CountTypes
<1>5. EventTellsWindow
  BY DEF Init, EventTellsWindow
<1>6. ASSUME NEW w \in Worker PROVE Safe(w)
  <2>1. Standing(w)
    BY DisruptionAssumption DEF Init, Standing, Disturbing
  <2>2. Buckets(w)
    BY <1>4 DEF Init, Buckets, ListTypes
  <2>3. AlarmBound(w)
    BY DEF Init, AlarmBound, TooLate, TooLateDI, One
  <2>4. MaskBound(w)
    BY DEF Init, MaskBound, TooEarly, Stored, One
  <2>5. Owed(w)
    BY DEF Init, Owed
  <2> QED  BY <2>1, <2>2, <2>3, <2>4, <2>5 DEF Safe
<1> QED  BY <1>1, <1>2, <1>3, <1>4, <1>5, <1>6 DEF Inv, Types

-----------------------------------------------------------------------------
(* The steps of the disruptor. *)

LEMMA SetEventInv == ASSUME Inv, SetEvent PROVE Inv'
<1> USE DisruptionAssumption DEF SetEvent, podVars, testVars, listVars,
           countVars, requestVars, judgeRest, benchRest, workerVars
<1>1. PodTypes'
  BY DEF Inv, Types, PodTypes, EventTellsWindow
<1>2. CastTypes' /\ ListTypes' /\ CountTypes'
  BY DEF Inv, Types, CastTypes, ListTypes, CountTypes
<1>3. RequestTypes'
  BY DEF Inv, Types, RequestTypes
<1>4. EventTellsWindow'
  BY DEF Inv, Types, PodTypes, EventTellsWindow
<1>5. ASSUME NEW w \in Worker PROVE Safe(w)'
  <2> Safe(w) /\ Types /\ EventTellsWindow
    BY DEF Inv
  <2>1. Standing(w)'
    <3>1. hit'[w] <=> hit[w] \/ pc[w] = "busy"
      OBVIOUS
    <3>2. opened' > 0
      BY DEF Types, PodTypes
    <3> QED  BY <3>1, <3>2 DEF Safe, Standing, Disturbing
  <2>2. Buckets(w)'
    BY DEF Safe, Buckets
  <2>3. AlarmBound(w)'
    BY DEF Safe, Standing, AlarmBound, TooLate, TooLateDI, One, Types, RequestTypes,
           PodTypes, CountTypes, EventTellsWindow
  <2>4. MaskBound(w)'
    BY DEF Safe, Standing, MaskBound, Stuck, TooEarly, Stored, One, Types,
           CastTypes, RequestTypes, PodTypes, CountTypes, EventTellsWindow, Disturbing
  <2>5. Owed(w)'
    BY DEF Safe, Owed, Types, RequestTypes, CastTypes, PodTypes
  <2> QED  BY <2>1, <2>2, <2>3, <2>4, <2>5 DEF Safe
<1> QED  BY <1>1, <1>2, <1>3, <1>4, <1>5 DEF Inv, Types

LEMMA ShutDownInv == ASSUME Inv, ShutDown PROVE Inv'
<1> USE DisruptionAssumption DEF ShutDown, podVars, testVars, listVars,
           countVars, requestVars, judgeRest, benchRest, workerVars
<1>1. PodTypes'
  BY DEF Inv, Types, PodTypes, EventTellsWindow
<1>2. CastTypes' /\ ListTypes' /\ CountTypes'
  BY DEF Inv, Types, CastTypes, ListTypes, CountTypes
<1>3. RequestTypes'
  BY DEF Inv, Types, RequestTypes
<1>4. EventTellsWindow'
  BY DEF Inv, Types, PodTypes, EventTellsWindow
<1>5. ASSUME NEW w \in Worker PROVE Safe(w)'
  <2> Safe(w) /\ Types /\ EventTellsWindow
    BY DEF Inv
  <2>1. Standing(w)'
    BY DEF Safe, Standing, Disturbing, Types, RequestTypes, PodTypes, EventTellsWindow
  <2>2. Buckets(w)'
    BY DEF Safe, Buckets
  <2>3. AlarmBound(w)'
    BY DEF Safe, Standing, AlarmBound, TooLate, TooLateDI, One, Types, RequestTypes,
           PodTypes, CountTypes, EventTellsWindow
  <2>4. MaskBound(w)'
    BY DEF Safe, Standing, MaskBound, Stuck, TooEarly, Stored, One, Types,
           CastTypes, RequestTypes, PodTypes, CountTypes, EventTellsWindow, Disturbing
  <2>5. Owed(w)'
    BY DEF Safe, Owed, Types, RequestTypes, CastTypes, PodTypes
  <2> QED  BY <2>1, <2>2, <2>3, <2>4, <2>5 DEF Safe
<1> QED  BY <1>1, <1>2, <1>3, <1>4, <1>5 DEF Inv, Types

LEMMA ClearEventInv == ASSUME Inv, ClearEvent PROVE Inv'
<1> USE DisruptionAssumption DEF ClearEvent, podVars, testVars, listVars,
           countVars, requestVars, judgeRest, benchRest, workerVars
<1>1. PodTypes'
  BY DEF Inv, Types, PodTypes, EventTellsWindow
<1>2. CastTypes' /\ ListTypes' /\ CountTypes'
  BY DEF Inv, Types, CastTypes, ListTypes, CountTypes
<1>3. RequestTypes'
  BY DEF Inv, Types, RequestTypes
<1>4. EventTellsWindow'
  BY DEF Inv, Types, PodTypes, EventTellsWindow
<1>5. ASSUME NEW w \in Worker PROVE Safe(w)'
  <2> Safe(w) /\ Types /\ EventTellsWindow
    BY DEF Inv
  <2>1. Standing(w)'
    BY DEF Safe, Standing, Disturbing, Types, RequestTypes, PodTypes, EventTellsWindow
  <2>2. Buckets(w)'
    BY DEF Safe, Buckets
  <2>3. AlarmBound(w)'
    BY DEF Safe, Standing, AlarmBound, TooLate, TooLateDI, One, Types, RequestTypes,
           PodTypes, CountTypes, EventTellsWindow
  <2>4. MaskBound(w)'
    BY DEF Safe, Standing, MaskBound, Stuck, TooEarly, Stored, One, Types,
           CastTypes, RequestTypes, PodTypes, CountTypes, EventTellsWindow, Disturbing
  <2>5. Owed(w)'
    BY DEF Safe, Owed, Types, RequestTypes, CastTypes, PodTypes
  <2> QED  BY <2>1, <2>2, <2>3, <2>4, <2>5 DEF Safe
<1> QED  BY <1>1, <1>2, <1>3, <1>4, <1>5 DEF Inv, Types

LEMMA SetFlagInv == ASSUME Inv, SetFlag PROVE Inv'
<1> USE DisruptionAssumption DEF SetFlag, Missed, podVars, testVars, listVars,
           countVars, requestVars, judgeRest, benchRest, workerVars
<1>1. PodTypes'
  BY DEF Inv, Types, PodTypes, EventTellsWindow
<1>2. CastTypes' /\ ListTypes' /\ CountTypes'
  BY DEF Inv, Types, CastTypes, ListTypes, CountTypes
<1>3. RequestTypes'
  BY DEF Inv, Types, RequestTypes
<1>4. EventTellsWindow'
  BY DEF Inv, Types, PodTypes, EventTellsWindow
<1>5. ASSUME NEW w \in Worker PROVE Safe(w)'
  <2> Safe(w) /\ Types /\ EventTellsWindow
    BY DEF Inv
  <2>1. Standing(w)'
    BY DEF Safe, Standing, Disturbing, Types, RequestTypes, PodTypes, EventTellsWindow
  <2>2. Buckets(w)'
    BY DEF Safe, Buckets
  <2>3. AlarmBound(w)'
    BY DEF Safe, Standing, AlarmBound, TooLate, TooLateDI, One, Types, RequestTypes,
           PodTypes, CountTypes, EventTellsWindow
  <2>4. MaskBound(w)'
    BY DEF Safe, Standing, MaskBound, Stuck, TooEarly, Stored, One, Types,
           CastTypes, RequestTypes, PodTypes, CountTypes, EventTellsWindow, Disturbing
  <2>5. Owed(w)'
    BY DEF Safe, Owed, Types, RequestTypes, CastTypes, PodTypes
  <2> QED  BY <2>1, <2>2, <2>3, <2>4, <2>5 DEF Safe
<1> QED  BY <1>1, <1>2, <1>3, <1>4, <1>5 DEF Inv, Types

LEMMA CheckServicesInv == ASSUME Inv, CheckServices PROVE Inv'
<1> USE DisruptionAssumption DEF CheckServices, podVars, testVars, listVars,
           countVars, requestVars, judgeRest, benchRest, workerVars
<1>1. PodTypes'
  BY DEF Inv, Types, PodTypes, EventTellsWindow
<1>2. CastTypes' /\ ListTypes' /\ CountTypes'
  BY DEF Inv, Types, CastTypes, ListTypes, CountTypes
<1>3. RequestTypes'
  BY DEF Inv, Types, RequestTypes
<1>4. EventTellsWindow'
  BY DEF Inv, Types, PodTypes, EventTellsWindow
<1>5. ASSUME NEW w \in Worker PROVE Safe(w)'
  <2> Safe(w) /\ Types /\ EventTellsWindow
    BY DEF Inv
  <2>1. Standing(w)'
    BY DEF Safe, Standing, Disturbing, Types, RequestTypes, PodTypes, EventTellsWindow
  <2>2. Buckets(w)'
    BY DEF Safe, Buckets
  <2>3. AlarmBound(w)'
    BY DEF Safe, Standing, AlarmBound, TooLate, TooLateDI, One, Types, RequestTypes,
           PodTypes, CountTypes, EventTellsWindow
  <2>4. MaskBound(w)'
    BY DEF Safe, Standing, MaskBound, Stuck, TooEarly, Stored, One, Types,
           CastTypes, RequestTypes, PodTypes, CountTypes, EventTellsWindow, Disturbing
  <2>5. Owed(w)'
    BY DEF Safe, Owed, Types, RequestTypes, CastTypes, PodTypes
  <2> QED  BY <2>1, <2>2, <2>3, <2>4, <2>5 DEF Safe
<1> QED  BY <1>1, <1>2, <1>3, <1>4, <1>5 DEF Inv, Types

-----------------------------------------------------------------------------
(* The steps of a worker, and what they leave to the others. *)

Untouched(w) ==
    /\ pc'[w] = pc[w] /\ left'[w] = left[w] /\ hit'[w] = hit[w]
    /\ owed'[w] = owed[w] /\ outcome'[w] = outcome[w] /\ grace'[w] = grace[w]
    /\ listed'[w] = listed[w] /\ stock'[w] = stock[w]
    /\ alarms'[w] = alarms[w] /\ diAlarms'[w] = diAlarms[w]
    /\ masked'[w] = masked[w]

\* Only the thread that holds the flag resets it.
FlagStep(v) == flag' = flag \/ (holds[v] /\ flag' = FALSE)

WorkFrame(v) ==
    /\ UNCHANGED podVars /\ UNCHANGED testVars
    /\ FlagStep(v)
    /\ \A w \in Worker \ {v} : Untouched(w)

\* The functions that differ only in what their requests are.
Judged(v) ==
    \/ PutJudged(v) \/ PartJudged(v) \/ UserJudged(v) \/ CrudJudged(v)
    \/ VersionJudged(v) \/ OverwriteJudged(v) \/ DeleteJudged(v)

OwnStep(v) == Types' /\ WorkFrame(v) /\ Safe(v)'

LEMMA EndEarlyStep == ASSUME Inv, NEW v \in Worker, EndEarly(v) PROVE OwnStep(v)
<1>0. pc[v] \in {"ready", "relist"} /\ \E p \in {"over", "dead"} : Leave(v, p)
  BY DEF EndEarly, BenchSetUpFails, CopySetUpFails, PartSetUpFails, SettingUp,
         OverwriteSetUpFails, GetRaises, ListingRaises, UserRaises
<1> PICK p \in {"over", "dead"} : Leave(v, p)
  BY <1>0
<1> pc'[v] \in {"over", "dead"}
  BY DEF Leave, Inv, Types, RequestTypes
<1> USE <1>0, DisruptionAssumption DEF Leave, Advance, Excuse, Report, ByEvent, Overlook,
           podVars, testVars, listVars,
           countVars, requestVars, judgeRest, benchRest
<1> Safe(v) /\ Types /\ EventTellsWindow
  BY DEF Inv
<1>1. RequestTypes'
  BY DEF Types, RequestTypes, Safe, Standing
<1>2. PodTypes' /\ CastTypes'
  BY DEF Types, PodTypes, CastTypes
<1>3. ListTypes' /\ CountTypes'
  BY DEF Types, RequestTypes, ListTypes, CountTypes, Safe, Standing, Buckets
<1>4. WorkFrame(v)
  BY DEF Types, RequestTypes, ListTypes, CountTypes, PodTypes, CastTypes, WorkFrame,
         FlagStep, Untouched
<1>5. Standing(v)'
  BY DEF Types, RequestTypes, PodTypes, Safe, Standing, Disturbing, EventTellsWindow
<1>6. Buckets(v)'
  BY DEF Types, RequestTypes, ListTypes, Safe, Buckets, Standing
<1>7. AlarmBound(v)'
  BY DEF Types, RequestTypes, PodTypes, CountTypes, Safe, Standing, AlarmBound, TooLate,
         TooLateDI, One, EventTellsWindow, Disturbing
<1>8. MaskBound(v)'
  BY DEF Types, RequestTypes, PodTypes, CastTypes, CountTypes, Safe, Standing, MaskBound,
         Stuck, TooEarly, Stored, One, EventTellsWindow, Disturbing
<1>9. Owed(v)'
  BY DEF Types, RequestTypes, PodTypes, CastTypes, Safe, Standing, Owed
<1> QED  BY <1>1, <1>2, <1>3, <1>4, <1>5, <1>6, <1>7, <1>8, <1>9 DEF OwnStep, Types, Safe

LEMMA BeginStep == ASSUME Inv, NEW v \in Worker, Begin(v) PROVE OwnStep(v)
<1> USE DisruptionAssumption DEF Begin, Advance, Excuse, Report, ByEvent, Overlook,
           podVars, testVars, listVars,
           countVars, requestVars, judgeRest, benchRest
<1> Safe(v) /\ Types /\ EventTellsWindow
  BY DEF Inv
<1>1. RequestTypes'
  <2>1. pc' \in [Worker -> {"ready", "busy", "judge", "flag", "reset", "di",
                           "compare", "relist", "over", "dead"}]
    BY DEF Types, RequestTypes
  <2>2. left' \in [Worker -> 0..Requests]
    BY DEF Types, RequestTypes, Safe, Standing
  <2>3. outcome' \in [Worker -> {"fine", "corrupt", "genuine", "disturbed"}]
    BY DEF Types, RequestTypes
  <2>4. hit' \in [Worker -> BOOLEAN]
    BY DEF Types, RequestTypes, Disturbing
  <2>5. owed' \in [Worker -> BOOLEAN]
    BY DEF Types, RequestTypes
  <2>6. grace' \in [Worker -> BOOLEAN]
    BY DEF Types, RequestTypes, PodTypes
  <2> QED  BY <2>1, <2>2, <2>3, <2>4, <2>5, <2>6 DEF RequestTypes
<1>2. PodTypes' /\ CastTypes'
  BY DEF Types, PodTypes, CastTypes
<1>3. ListTypes' /\ CountTypes'
  BY DEF Types, RequestTypes, ListTypes, CountTypes, Safe, Standing, Buckets
<1>4. WorkFrame(v)
  BY DEF Types, RequestTypes, ListTypes, CountTypes, PodTypes, CastTypes, WorkFrame,
         FlagStep, Untouched
<1>5. Standing(v)'
  <2>1. hit'[v] <=> Disturbing
    BY DEF Types, RequestTypes
  <2>2. Disturbing => opened > 0
    BY DEF Disturbing, EventTellsWindow, Types, PodTypes
  <2>3. Disturbing' <=> Disturbing
    BY DEF Disturbing
  <2>4. /\ pc'[v] = "busy" /\ left'[v] = left[v] /\ outcome'[v] = "fine"
        /\ opened' = opened /\ left[v] > 0
    BY DEF Types, RequestTypes, Safe, Standing
  <2> QED  BY <2>1, <2>2, <2>3, <2>4 DEF Standing
<1>6. Buckets(v)'
  BY DEF Types, RequestTypes, ListTypes, Safe, Buckets, Standing
<1>7. AlarmBound(v)'
  BY DEF Types, RequestTypes, PodTypes, CountTypes, Safe, Standing, AlarmBound, TooLate,
         TooLateDI, One, EventTellsWindow, Disturbing
<1>8. MaskBound(v)'
  BY DEF Types, RequestTypes, PodTypes, CastTypes, CountTypes, Safe, Standing, MaskBound,
         Stuck, TooEarly, Stored, One, EventTellsWindow, Disturbing
<1>9. Owed(v)'
  BY DEF Types, RequestTypes, PodTypes, CastTypes, Safe, Standing, Owed
<1> QED  BY <1>1, <1>2, <1>3, <1>4, <1>5, <1>6, <1>7, <1>8, <1>9 DEF OwnStep, Types, Safe

LEMMA SucceedStep == ASSUME Inv, NEW v \in Worker, Succeed(v) PROVE OwnStep(v)
<1> USE DisruptionAssumption DEF Succeed, Advance, Excuse, Report, ByEvent, Overlook,
           podVars, testVars, listVars,
           countVars, requestVars, judgeRest, benchRest
<1> Safe(v) /\ Types /\ EventTellsWindow
  BY DEF Inv
<1>1. RequestTypes'
  <2>1. pc' \in [Worker -> {"ready", "busy", "judge", "flag", "reset", "di",
                           "compare", "relist", "over", "dead"}]
    BY DEF Types, RequestTypes
  <2>2. left' \in [Worker -> 0..Requests]
    BY DEF Types, RequestTypes, Safe, Standing
  <2>3. outcome' \in [Worker -> {"fine", "corrupt", "genuine", "disturbed"}]
    BY DEF Types, RequestTypes
  <2>4. hit' \in [Worker -> BOOLEAN]
    BY DEF Types, RequestTypes, Disturbing
  <2>5. owed' \in [Worker -> BOOLEAN]
    BY DEF Types, RequestTypes
  <2>6. grace' \in [Worker -> BOOLEAN]
    BY DEF Types, RequestTypes, PodTypes
  <2> QED  BY <2>1, <2>2, <2>3, <2>4, <2>5, <2>6 DEF RequestTypes
<1>2. PodTypes' /\ CastTypes'
  BY DEF Types, PodTypes, CastTypes
<1>3. ListTypes' /\ CountTypes'
  BY DEF Types, RequestTypes, ListTypes, CountTypes, Safe, Standing, Buckets
<1>4. WorkFrame(v)
  BY DEF Types, RequestTypes, ListTypes, CountTypes, PodTypes, CastTypes, WorkFrame,
         FlagStep, Untouched
<1>5. Standing(v)'
  BY DEF Types, RequestTypes, PodTypes, Safe, Standing, Disturbing, EventTellsWindow
<1>6. Buckets(v)'
  BY DEF Types, RequestTypes, ListTypes, Safe, Buckets, Standing
<1>7. AlarmBound(v)'
  BY DEF Types, RequestTypes, PodTypes, CountTypes, Safe, Standing, AlarmBound, TooLate,
         TooLateDI, One, EventTellsWindow, Disturbing
<1>8. MaskBound(v)'
  BY DEF Types, RequestTypes, PodTypes, CastTypes, CountTypes, Safe, Standing, MaskBound,
         Stuck, TooEarly, Stored, One, EventTellsWindow, Disturbing
<1>9. Owed(v)'
  BY DEF Types, RequestTypes, PodTypes, CastTypes, Safe, Standing, Owed
<1> QED  BY <1>1, <1>2, <1>3, <1>4, <1>5, <1>6, <1>7, <1>8, <1>9 DEF OwnStep, Types, Safe

LEMMA FailStep == ASSUME Inv, NEW v \in Worker, Fail(v) PROVE OwnStep(v)
<1> USE DisruptionAssumption DEF Fail, Advance, Excuse, Report, ByEvent, Overlook,
           podVars, testVars, listVars,
           countVars, requestVars, judgeRest, benchRest
<1> Safe(v) /\ Types /\ EventTellsWindow
  BY DEF Inv
<1>1. RequestTypes'
  <2>1. pc' \in [Worker -> {"ready", "busy", "judge", "flag", "reset", "di",
                           "compare", "relist", "over", "dead"}]
    BY DEF Types, RequestTypes
  <2>2. left' \in [Worker -> 0..Requests]
    BY DEF Types, RequestTypes, Safe, Standing
  <2>3. outcome' \in [Worker -> {"fine", "corrupt", "genuine", "disturbed"}]
    BY DEF Types, RequestTypes
  <2>4. hit' \in [Worker -> BOOLEAN]
    BY DEF Types, RequestTypes, Disturbing
  <2>5. owed' \in [Worker -> BOOLEAN]
    BY DEF Types, RequestTypes
  <2>6. grace' \in [Worker -> BOOLEAN]
    BY DEF Types, RequestTypes, PodTypes
  <2> QED  BY <2>1, <2>2, <2>3, <2>4, <2>5, <2>6 DEF RequestTypes
<1>2. PodTypes' /\ CastTypes'
  BY DEF Types, PodTypes, CastTypes
<1>3. ListTypes' /\ CountTypes'
  BY DEF Types, RequestTypes, ListTypes, CountTypes, Safe, Standing, Buckets
<1>4. WorkFrame(v)
  BY DEF Types, RequestTypes, ListTypes, CountTypes, PodTypes, CastTypes, WorkFrame,
         FlagStep, Untouched
<1>5. Standing(v)'
  BY DEF Types, RequestTypes, PodTypes, Safe, Standing, Disturbing, EventTellsWindow
<1>6. Buckets(v)'
  BY DEF Types, RequestTypes, ListTypes, Safe, Buckets, Standing
<1>7. AlarmBound(v)'
  BY DEF Types, RequestTypes, PodTypes, CountTypes, Safe, Standing, AlarmBound, TooLate,
         TooLateDI, One, EventTellsWindow, Disturbing
<1>8. MaskBound(v)'
  BY DEF Types, RequestTypes, PodTypes, CastTypes, CountTypes, Safe, Standing, MaskBound,
         Stuck, TooEarly, Stored, One, EventTellsWindow, Disturbing
<1>9. Owed(v)'
  BY DEF Types, RequestTypes, PodTypes, CastTypes, Safe, Standing, Owed
<1> QED  BY <1>1, <1>2, <1>3, <1>4, <1>5, <1>6, <1>7, <1>8, <1>9 DEF OwnStep, Types, Safe

LEMMA BenchReadsEventStep == ASSUME Inv, NEW v \in Worker, BenchReadsEvent(v) PROVE OwnStep(v)
<1> USE DisruptionAssumption DEF BenchReadsEvent, Advance, Excuse, Report, ByEvent, Overlook,
           podVars, testVars, listVars,
           countVars, requestVars, judgeRest, benchRest
<1> Safe(v) /\ Types /\ EventTellsWindow
  BY DEF Inv
<1>1. RequestTypes'
  BY DEF Types, RequestTypes, Safe, Standing
<1>2. PodTypes' /\ CastTypes'
  BY DEF Types, PodTypes, CastTypes
<1>3. ListTypes' /\ CountTypes'
  BY DEF Types, RequestTypes, ListTypes, CountTypes, Safe, Standing, Buckets
<1>4. WorkFrame(v)
  BY DEF Types, RequestTypes, ListTypes, CountTypes, PodTypes, CastTypes, WorkFrame,
         FlagStep, Untouched
<1>5. Standing(v)'
  BY DEF Types, RequestTypes, PodTypes, Safe, Standing, Disturbing, EventTellsWindow
<1>6. Buckets(v)'
  BY DEF Types, RequestTypes, ListTypes, Safe, Buckets, Standing
<1>7. AlarmBound(v)'
  BY DEF Types, RequestTypes, PodTypes, CountTypes, Safe, Standing, AlarmBound, TooLate,
         TooLateDI, One, EventTellsWindow, Disturbing
<1>8. MaskBound(v)'
  BY DEF Types, RequestTypes, PodTypes, CastTypes, CountTypes, Safe, Standing, MaskBound,
         Stuck, TooEarly, Stored, One, EventTellsWindow, Disturbing
<1>9. Owed(v)'
  BY DEF Types, RequestTypes, PodTypes, CastTypes, Safe, Standing, Owed
<1> QED  BY <1>1, <1>2, <1>3, <1>4, <1>5, <1>6, <1>7, <1>8, <1>9 DEF OwnStep, Types, Safe

LEMMA BenchReadsFlagStep == ASSUME Inv, NEW v \in Worker, BenchReadsFlag(v) PROVE OwnStep(v)
<1> USE DisruptionAssumption DEF BenchReadsFlag, Advance, Excuse, Report, ByEvent, Overlook,
           podVars, testVars, listVars,
           countVars, requestVars, judgeRest, benchRest
<1> Safe(v) /\ Types /\ EventTellsWindow
  BY DEF Inv
<1>1. RequestTypes'
  <2>1. pc' \in [Worker -> {"ready", "busy", "judge", "flag", "reset", "di",
                           "compare", "relist", "over", "dead"}]
    BY DEF Types, RequestTypes
  <2>2. left' \in [Worker -> 0..Requests]
    BY DEF Types, RequestTypes, Safe, Standing
  <2>3. outcome' \in [Worker -> {"fine", "corrupt", "genuine", "disturbed"}]
    BY DEF Types, RequestTypes
  <2>4. hit' \in [Worker -> BOOLEAN]
    BY DEF Types, RequestTypes, Disturbing
  <2>5. owed' \in [Worker -> BOOLEAN]
    BY DEF Types, RequestTypes
  <2>6. grace' \in [Worker -> BOOLEAN]
    BY DEF Types, RequestTypes, PodTypes
  <2> QED  BY <2>1, <2>2, <2>3, <2>4, <2>5, <2>6 DEF RequestTypes
<1>2. PodTypes' /\ CastTypes'
  BY DEF Types, PodTypes, CastTypes
<1>3. ListTypes' /\ CountTypes'
  BY DEF Types, RequestTypes, ListTypes, CountTypes, Safe, Standing, Buckets
<1>4. WorkFrame(v)
  BY DEF Types, RequestTypes, ListTypes, CountTypes, PodTypes, CastTypes, WorkFrame,
         FlagStep, Untouched
<1>5. Standing(v)'
  BY DEF Types, RequestTypes, PodTypes, Safe, Standing, Disturbing, EventTellsWindow
<1>6. Buckets(v)'
  BY DEF Types, RequestTypes, ListTypes, Safe, Buckets, Standing
<1>7. AlarmBound(v)'
  BY DEF Types, RequestTypes, PodTypes, CountTypes, Safe, Standing, AlarmBound, TooLate,
         TooLateDI, One, EventTellsWindow, Disturbing
<1>8. MaskBound(v)'
  BY DEF Types, RequestTypes, PodTypes, CastTypes, CountTypes, Safe, Standing, MaskBound,
         Stuck, TooEarly, Stored, One, EventTellsWindow, Disturbing
<1>9. Owed(v)'
  BY DEF Types, RequestTypes, PodTypes, CastTypes, Safe, Standing, Owed
<1> QED  BY <1>1, <1>2, <1>3, <1>4, <1>5, <1>6, <1>7, <1>8, <1>9 DEF OwnStep, Types, Safe

LEMMA BenchResetsStep == ASSUME Inv, NEW v \in Worker, BenchResets(v) PROVE OwnStep(v)
<1> USE DisruptionAssumption DEF BenchResets, Advance, Excuse, Report, ByEvent, Overlook,
           podVars, testVars, listVars,
           countVars, requestVars, judgeRest, benchRest
<1> Safe(v) /\ Types /\ EventTellsWindow
  BY DEF Inv
<1>1. RequestTypes'
  BY DEF Types, RequestTypes, Safe, Standing
<1>2. PodTypes' /\ CastTypes'
  BY DEF Types, PodTypes, CastTypes
<1>3. ListTypes' /\ CountTypes'
  BY DEF Types, RequestTypes, ListTypes, CountTypes, Safe, Standing, Buckets
<1>4. WorkFrame(v)
  BY DEF Types, RequestTypes, ListTypes, CountTypes, PodTypes, CastTypes, WorkFrame,
         FlagStep, Untouched
<1>5. Standing(v)'
  BY DEF Types, RequestTypes, PodTypes, Safe, Standing, Disturbing, EventTellsWindow
<1>6. Buckets(v)'
  BY DEF Types, RequestTypes, ListTypes, Safe, Buckets, Standing
<1>7. AlarmBound(v)'
  BY DEF Types, RequestTypes, PodTypes, CountTypes, Safe, Standing, AlarmBound, TooLate,
         TooLateDI, One, EventTellsWindow, Disturbing
<1>8. MaskBound(v)'
  BY DEF Types, RequestTypes, PodTypes, CastTypes, CountTypes, Safe, Standing, MaskBound,
         Stuck, TooEarly, Stored, One, EventTellsWindow, Disturbing
<1>9. Owed(v)'
  BY DEF Types, RequestTypes, PodTypes, CastTypes, Safe, Standing, Owed
<1> QED  BY <1>1, <1>2, <1>3, <1>4, <1>5, <1>6, <1>7, <1>8, <1>9 DEF OwnStep, Types, Safe

LEMMA JudgedStep == ASSUME Inv, NEW v \in Worker, Judged(v) PROVE OwnStep(v)
<1> USE DisruptionAssumption DEF Judged, PutJudged, PartJudged, UserJudged, CrudJudged,
           VersionJudged, OverwriteJudged, DeleteJudged, Advance, Excuse, Report, ByEvent, Overlook,
           podVars, testVars, listVars,
           countVars, requestVars, judgeRest, benchRest
<1> Safe(v) /\ Types /\ EventTellsWindow
  BY DEF Inv
<1>1. RequestTypes'
  <2>1. pc' \in [Worker -> {"ready", "busy", "judge", "flag", "reset", "di",
                           "compare", "relist", "over", "dead"}]
    BY DEF Types, RequestTypes
  <2>2. left' \in [Worker -> 0..Requests]
    BY DEF Types, RequestTypes, Safe, Standing
  <2>3. outcome' \in [Worker -> {"fine", "corrupt", "genuine", "disturbed"}]
    BY DEF Types, RequestTypes
  <2>4. hit' \in [Worker -> BOOLEAN]
    BY DEF Types, RequestTypes, Disturbing
  <2>5. owed' \in [Worker -> BOOLEAN]
    BY DEF Types, RequestTypes
  <2>6. grace' \in [Worker -> BOOLEAN]
    BY DEF Types, RequestTypes, PodTypes
  <2> QED  BY <2>1, <2>2, <2>3, <2>4, <2>5, <2>6 DEF RequestTypes
<1>2. PodTypes' /\ CastTypes'
  BY DEF Types, PodTypes, CastTypes
<1>3. ListTypes' /\ CountTypes'
  BY DEF Types, RequestTypes, ListTypes, CountTypes, Safe, Standing, Buckets
<1>4. WorkFrame(v)
  BY DEF Types, RequestTypes, ListTypes, CountTypes, PodTypes, CastTypes, WorkFrame,
         FlagStep, Untouched
<1>5. Standing(v)'
  BY DEF Types, RequestTypes, PodTypes, Safe, Standing, Disturbing, EventTellsWindow
<1>6. Buckets(v)'
  BY DEF Types, RequestTypes, ListTypes, Safe, Buckets, Standing
<1>7. AlarmBound(v)'
  BY DEF Types, RequestTypes, PodTypes, CountTypes, Safe, Standing, AlarmBound, TooLate,
         TooLateDI, One, EventTellsWindow, Disturbing
<1>8. MaskBound(v)'
  BY DEF Types, RequestTypes, PodTypes, CastTypes, CountTypes, Safe, Standing, MaskBound,
         Stuck, TooEarly, Stored, One, EventTellsWindow, Disturbing
<1>9. Owed(v)'
  BY DEF Types, RequestTypes, PodTypes, CastTypes, Safe, Standing, Owed
<1> QED  BY <1>1, <1>2, <1>3, <1>4, <1>5, <1>6, <1>7, <1>8, <1>9 DEF OwnStep, Types, Safe

LEMMA CopyJudgedStep == ASSUME Inv, NEW v \in Worker, CopyJudged(v) PROVE OwnStep(v)
<1> USE DisruptionAssumption DEF CopyJudged, Advance, Excuse, Report, ByEvent, Overlook,
           podVars, testVars, listVars,
           countVars, requestVars, judgeRest, benchRest
<1> Safe(v) /\ Types /\ EventTellsWindow
  BY DEF Inv
<1>1. RequestTypes'
  <2>1. pc' \in [Worker -> {"ready", "busy", "judge", "flag", "reset", "di",
                           "compare", "relist", "over", "dead"}]
    BY DEF Types, RequestTypes
  <2>2. left' \in [Worker -> 0..Requests]
    BY DEF Types, RequestTypes, Safe, Standing
  <2>3. outcome' \in [Worker -> {"fine", "corrupt", "genuine", "disturbed"}]
    BY DEF Types, RequestTypes
  <2>4. hit' \in [Worker -> BOOLEAN]
    BY DEF Types, RequestTypes, Disturbing
  <2>5. owed' \in [Worker -> BOOLEAN]
    BY DEF Types, RequestTypes
  <2>6. grace' \in [Worker -> BOOLEAN]
    BY DEF Types, RequestTypes, PodTypes
  <2> QED  BY <2>1, <2>2, <2>3, <2>4, <2>5, <2>6 DEF RequestTypes
<1>2. PodTypes' /\ CastTypes'
  BY DEF Types, PodTypes, CastTypes
<1>3. ListTypes' /\ CountTypes'
  BY DEF Types, RequestTypes, ListTypes, CountTypes, Safe, Standing, Buckets
<1>4. WorkFrame(v)
  BY DEF Types, RequestTypes, ListTypes, CountTypes, PodTypes, CastTypes, WorkFrame,
         FlagStep, Untouched
<1>5. Standing(v)'
  BY DEF Types, RequestTypes, PodTypes, Safe, Standing, Disturbing, EventTellsWindow
<1>6. Buckets(v)'
  BY DEF Types, RequestTypes, ListTypes, Safe, Buckets, Standing
<1>7. AlarmBound(v)'
  BY DEF Types, RequestTypes, PodTypes, CountTypes, Safe, Standing, AlarmBound, TooLate,
         TooLateDI, One, EventTellsWindow, Disturbing
<1>8. MaskBound(v)'
  BY DEF Types, RequestTypes, PodTypes, CastTypes, CountTypes, Safe, Standing, MaskBound,
         Stuck, TooEarly, Stored, One, EventTellsWindow, Disturbing
<1>9. Owed(v)'
  BY DEF Types, RequestTypes, PodTypes, CastTypes, Safe, Standing, Owed
<1> QED  BY <1>1, <1>2, <1>3, <1>4, <1>5, <1>6, <1>7, <1>8, <1>9 DEF OwnStep, Types, Safe

LEMMA GetJudgedStep == ASSUME Inv, NEW v \in Worker, GetJudged(v) PROVE OwnStep(v)
<1> USE DisruptionAssumption DEF GetJudged, Advance, Excuse, Report, ByEvent, Overlook,
           podVars, testVars, listVars,
           countVars, requestVars, judgeRest, benchRest
<1> Safe(v) /\ Types /\ EventTellsWindow
  BY DEF Inv
<1>1. RequestTypes'
  BY DEF Types, RequestTypes, Safe, Standing
<1>2. PodTypes' /\ CastTypes'
  BY DEF Types, PodTypes, CastTypes
<1>3. ListTypes' /\ CountTypes'
  BY DEF Types, RequestTypes, ListTypes, CountTypes, Safe, Standing, Buckets
<1>4. WorkFrame(v)
  BY DEF Types, RequestTypes, ListTypes, CountTypes, PodTypes, CastTypes, WorkFrame,
         FlagStep, Untouched
<1>5. Standing(v)'
  BY DEF Types, RequestTypes, PodTypes, Safe, Standing, Disturbing, EventTellsWindow
<1>6. Buckets(v)'
  BY DEF Types, RequestTypes, ListTypes, Safe, Buckets, Standing
<1>7. AlarmBound(v)'
  BY DEF Types, RequestTypes, PodTypes, CountTypes, Safe, Standing, AlarmBound, TooLate,
         TooLateDI, One, EventTellsWindow, Disturbing
<1>8. MaskBound(v)'
  BY DEF Types, RequestTypes, PodTypes, CastTypes, CountTypes, Safe, Standing, MaskBound,
         Stuck, TooEarly, Stored, One, EventTellsWindow, Disturbing
<1>9. Owed(v)'
  BY DEF Types, RequestTypes, PodTypes, CastTypes, Safe, Standing, Owed
<1> QED  BY <1>1, <1>2, <1>3, <1>4, <1>5, <1>6, <1>7, <1>8, <1>9 DEF OwnStep, Types, Safe

LEMMA GetCorruptStep == ASSUME Inv, NEW v \in Worker, GetCorrupt(v) PROVE OwnStep(v)
<1> USE DisruptionAssumption DEF GetCorrupt, Advance, Excuse, Report, ByEvent, Overlook,
           podVars, testVars, listVars,
           countVars, requestVars, judgeRest, benchRest
<1> Safe(v) /\ Types /\ EventTellsWindow
  BY DEF Inv
<1>1. RequestTypes'
  BY DEF Types, RequestTypes, Safe, Standing
<1>2. PodTypes' /\ CastTypes'
  BY DEF Types, PodTypes, CastTypes
<1>3. ListTypes' /\ CountTypes'
  BY DEF Types, RequestTypes, ListTypes, CountTypes, Safe, Standing, Buckets
<1>4. WorkFrame(v)
  BY DEF Types, RequestTypes, ListTypes, CountTypes, PodTypes, CastTypes, WorkFrame,
         FlagStep, Untouched
<1>5. Standing(v)'
  BY DEF Types, RequestTypes, PodTypes, Safe, Standing, Disturbing, EventTellsWindow
<1>6. Buckets(v)'
  BY DEF Types, RequestTypes, ListTypes, Safe, Buckets, Standing
<1>7. AlarmBound(v)'
  BY DEF Types, RequestTypes, PodTypes, CountTypes, Safe, Standing, AlarmBound, TooLate,
         TooLateDI, One, EventTellsWindow, Disturbing
<1>8. MaskBound(v)'
  BY DEF Types, RequestTypes, PodTypes, CastTypes, CountTypes, Safe, Standing, MaskBound,
         Stuck, TooEarly, Stored, One, EventTellsWindow, Disturbing
<1>9. Owed(v)'
  BY DEF Types, RequestTypes, PodTypes, CastTypes, Safe, Standing, Owed
<1> QED  BY <1>1, <1>2, <1>3, <1>4, <1>5, <1>6, <1>7, <1>8, <1>9 DEF OwnStep, Types, Safe

LEMMA CheckDIStep == ASSUME Inv, NEW v \in Worker, CheckDI(v) PROVE OwnStep(v)
<1> USE DisruptionAssumption DEF CheckDI, Advance, Excuse, Report, ByEvent, Overlook,
           podVars, testVars, listVars,
           countVars, requestVars, judgeRest, benchRest
<1> Safe(v) /\ Types /\ EventTellsWindow
  BY DEF Inv
<1>1. RequestTypes'
  <2>1. pc' \in [Worker -> {"ready", "busy", "judge", "flag", "reset", "di",
                           "compare", "relist", "over", "dead"}]
    BY DEF Types, RequestTypes
  <2>2. left' \in [Worker -> 0..Requests]
    BY DEF Types, RequestTypes, Safe, Standing
  <2>3. outcome' \in [Worker -> {"fine", "corrupt", "genuine", "disturbed"}]
    BY DEF Types, RequestTypes
  <2>4. hit' \in [Worker -> BOOLEAN]
    BY DEF Types, RequestTypes, Disturbing
  <2>5. owed' \in [Worker -> BOOLEAN]
    BY DEF Types, RequestTypes
  <2>6. grace' \in [Worker -> BOOLEAN]
    BY DEF Types, RequestTypes, PodTypes
  <2> QED  BY <2>1, <2>2, <2>3, <2>4, <2>5, <2>6 DEF RequestTypes
<1>2. PodTypes' /\ CastTypes'
  BY DEF Types, PodTypes, CastTypes
<1>3. ListTypes' /\ CountTypes'
  BY DEF Types, RequestTypes, ListTypes, CountTypes, Safe, Standing, Buckets
<1>4. WorkFrame(v)
  BY DEF Types, RequestTypes, ListTypes, CountTypes, PodTypes, CastTypes, WorkFrame,
         FlagStep, Untouched
<1>5. Standing(v)'
  BY DEF Types, RequestTypes, PodTypes, Safe, Standing, Disturbing, EventTellsWindow
<1>6. Buckets(v)'
  BY DEF Types, RequestTypes, ListTypes, Safe, Buckets, Standing
<1>7. AlarmBound(v)'
  BY DEF Types, RequestTypes, PodTypes, CountTypes, Safe, Standing, AlarmBound, TooLate,
         TooLateDI, One, EventTellsWindow, Disturbing
<1>8. MaskBound(v)'
  BY DEF Types, RequestTypes, PodTypes, CastTypes, CountTypes, Safe, Standing, MaskBound,
         Stuck, TooEarly, Stored, One, EventTellsWindow, Disturbing
<1>9. Owed(v)'
  BY DEF Types, RequestTypes, PodTypes, CastTypes, Safe, Standing, Owed
<1> QED  BY <1>1, <1>2, <1>3, <1>4, <1>5, <1>6, <1>7, <1>8, <1>9 DEF OwnStep, Types, Safe

LEMMA CompareDIStep == ASSUME Inv, NEW v \in Worker, CompareDI(v) PROVE OwnStep(v)
<1> USE DisruptionAssumption DEF CompareDI, Advance, Excuse, Report, ByEvent, Overlook,
           podVars, testVars, listVars,
           countVars, requestVars, judgeRest, benchRest
<1> Safe(v) /\ Types /\ EventTellsWindow
  BY DEF Inv
<1>1. RequestTypes'
  <2>1. pc' \in [Worker -> {"ready", "busy", "judge", "flag", "reset", "di",
                           "compare", "relist", "over", "dead"}]
    BY DEF Types, RequestTypes
  <2>2. left' \in [Worker -> 0..Requests]
    BY DEF Types, RequestTypes, Safe, Standing
  <2>3. outcome' \in [Worker -> {"fine", "corrupt", "genuine", "disturbed"}]
    BY DEF Types, RequestTypes
  <2>4. hit' \in [Worker -> BOOLEAN]
    BY DEF Types, RequestTypes, Disturbing
  <2>5. owed' \in [Worker -> BOOLEAN]
    BY DEF Types, RequestTypes
  <2>6. grace' \in [Worker -> BOOLEAN]
    BY DEF Types, RequestTypes, PodTypes
  <2> QED  BY <2>1, <2>2, <2>3, <2>4, <2>5, <2>6 DEF RequestTypes
<1>2. PodTypes' /\ CastTypes'
  BY DEF Types, PodTypes, CastTypes
<1>3. ListTypes' /\ CountTypes'
  BY DEF Types, RequestTypes, ListTypes, CountTypes, Safe, Standing, Buckets
<1>4. WorkFrame(v)
  BY DEF Types, RequestTypes, ListTypes, CountTypes, PodTypes, CastTypes, WorkFrame,
         FlagStep, Untouched
<1>5. Standing(v)'
  BY DEF Types, RequestTypes, PodTypes, Safe, Standing, Disturbing, EventTellsWindow
<1>6. Buckets(v)'
  BY DEF Types, RequestTypes, ListTypes, Safe, Buckets, Standing
<1>7. AlarmBound(v)'
  BY DEF Types, RequestTypes, PodTypes, CountTypes, Safe, Standing, AlarmBound, TooLate,
         TooLateDI, One, EventTellsWindow, Disturbing
<1>8. MaskBound(v)'
  BY DEF Types, RequestTypes, PodTypes, CastTypes, CountTypes, Safe, Standing, MaskBound,
         Stuck, TooEarly, Stored, One, EventTellsWindow, Disturbing
<1>9. Owed(v)'
  BY DEF Types, RequestTypes, PodTypes, CastTypes, Safe, Standing, Owed
<1> QED  BY <1>1, <1>2, <1>3, <1>4, <1>5, <1>6, <1>7, <1>8, <1>9 DEF OwnStep, Types, Safe

LEMMA RelistStep == ASSUME Inv, NEW v \in Worker, Relist(v) PROVE OwnStep(v)
<1> USE DisruptionAssumption DEF Relist, Advance, Excuse, Report, ByEvent, Overlook,
           podVars, testVars, listVars,
           countVars, requestVars, judgeRest, benchRest
<1> Safe(v) /\ Types /\ EventTellsWindow
  BY DEF Inv
<1>1. RequestTypes'
  BY DEF Types, RequestTypes, Safe, Standing
<1>2. PodTypes' /\ CastTypes'
  BY DEF Types, PodTypes, CastTypes
<1>3. ListTypes' /\ CountTypes'
  BY DEF Types, RequestTypes, ListTypes, CountTypes, Safe, Standing, Buckets
<1>4. WorkFrame(v)
  BY DEF Types, RequestTypes, ListTypes, CountTypes, PodTypes, CastTypes, WorkFrame,
         FlagStep, Untouched
<1>5. Standing(v)'
  BY DEF Types, RequestTypes, PodTypes, Safe, Standing, Disturbing, EventTellsWindow
<1>6. Buckets(v)'
  BY DEF Types, RequestTypes, ListTypes, Safe, Buckets, Standing
<1>7. AlarmBound(v)'
  BY DEF Types, RequestTypes, PodTypes, CountTypes, Safe, Standing, AlarmBound, TooLate,
         TooLateDI, One, EventTellsWindow, Disturbing
<1>8. MaskBound(v)'
  BY DEF Types, RequestTypes, PodTypes, CastTypes, CountTypes, Safe, Standing, MaskBound,
         Stuck, TooEarly, Stored, One, EventTellsWindow, Disturbing
<1>9. Owed(v)'
  BY DEF Types, RequestTypes, PodTypes, CastTypes, Safe, Standing, Owed
<1> QED  BY <1>1, <1>2, <1>3, <1>4, <1>5, <1>6, <1>7, <1>8, <1>9 DEF OwnStep, Types, Safe

LEMMA WorkStep ==
  ASSUME Inv, NEW v \in Worker, Work(v) \/ EndEarly(v) PROVE OwnStep(v)
<1>1. CASE EndEarly(v)
  BY <1>1, EndEarlyStep
<1>2. CASE Begin(v)
  BY <1>2, BeginStep
<1>3. CASE Succeed(v)
  BY <1>3, SucceedStep
<1>4. CASE Fail(v)
  BY <1>4, FailStep
<1>5. CASE BenchReadsEvent(v)
  BY <1>5, BenchReadsEventStep
<1>6. CASE BenchReadsFlag(v)
  BY <1>6, BenchReadsFlagStep
<1>7. CASE BenchResets(v)
  BY <1>7, BenchResetsStep
<1>8. CASE Judged(v)
  BY <1>8, JudgedStep
<1>9. CASE CopyJudged(v)
  BY <1>9, CopyJudgedStep
<1>10. CASE GetJudged(v)
  BY <1>10, GetJudgedStep
<1>11. CASE GetCorrupt(v)
  BY <1>11, GetCorruptStep
<1>12. CASE CheckDI(v)
  BY <1>12, CheckDIStep
<1>13. CASE CompareDI(v)
  BY <1>13, CompareDIStep
<1>14. CASE Relist(v)
  BY <1>14, RelistStep
<1> QED
  BY <1>1, <1>2, <1>3, <1>4, <1>5, <1>6, <1>7, <1>8, <1>9, <1>10, <1>11,
       <1>12, <1>13, <1>14
  DEF Work, Judged

\* A step of one worker keeps what is claimed of another.
LEMMA OtherSafe ==
    ASSUME Inv, NEW v \in Worker, NEW w \in Worker \ {v}, WorkFrame(v)
    PROVE  Safe(w)'
<1> USE DEF WorkFrame, FlagStep, Untouched, podVars, testVars
<1> Safe(w) /\ Types
  BY DEF Inv
<1>1. Standing(w)'
  BY DEF Safe, Standing, Disturbing
<1>2. Buckets(w)'
  BY DEF Safe, Buckets
<1>3. AlarmBound(w)'
  BY DEF Safe, AlarmBound, TooLate, TooLateDI, One
<1>4. MaskBound(w)'
  BY DEF Safe, MaskBound, Stuck, TooEarly, Stored, One, Types, PodTypes, CastTypes,
         RequestTypes, CountTypes
<1>5. Owed(w)'
  BY DEF Safe, Owed
<1> QED  BY <1>1, <1>2, <1>3, <1>4, <1>5 DEF Safe

LEMMA StepInv == Inv /\ [Next]_vars => Inv'
<1> SUFFICES ASSUME Inv, [Next]_vars PROVE Inv'
  OBVIOUS
<1>1. CASE Disrupt
  BY <1>1, SetEventInv, ShutDownInv, ClearEventInv, SetFlagInv, CheckServicesInv DEF Disrupt
<1>2. ASSUME NEW v \in Worker, Work(v) \/ EndEarly(v) PROVE Inv'
  <2>1. OwnStep(v)
    BY <1>2, WorkStep
  <2>2. EventTellsWindow'
    BY <2>1 DEF Inv, EventTellsWindow, OwnStep, WorkFrame, podVars
  <2>3. ASSUME NEW w \in Worker PROVE Safe(w)'
    BY <2>1, OtherSafe DEF OwnStep
  <2> QED  BY <2>1, <2>2, <2>3 DEF Inv, OwnStep
<1>3. CASE UNCHANGED vars
  BY <1>3 DEF Inv, Types, PodTypes, CastTypes, RequestTypes, ListTypes, CountTypes,
     EventTellsWindow, Safe, Standing, Buckets, AlarmBound, MaskBound, Owed, TooLate,
     TooLateDI, TooEarly, Stored, One, Stuck, Disturbing, vars, podVars, testVars, listVars,
           countVars, requestVars, judgeRest, benchRest
<1> QED  BY <1>1, <1>2, <1>3 DEF Next

\* The inductive invariant, for any threads, requests and pods.
THEOREM DisruptedInvariant == Spec => []Inv
<1> QED  BY InitInv, StepInv, PTL DEF Spec

\* Type correctness.
THEOREM DisruptedTypes == Spec => []TypeOK
<1>1. Inv => TypeOK
  BY DEF Inv, Types, PodTypes, CastTypes, RequestTypes, ListTypes, CountTypes, TypeOK
<1> QED  BY <1>1, DisruptedInvariant, PTL

\* However many threads, requests and pods: no thread blames the product more
\* than once for each window.
THEOREM AlarmsAreBounded == Spec => []AlarmsPerWindow
<1>1. Inv => AlarmsPerWindow
  <2> SUFFICES ASSUME Inv, NEW w \in Worker
               PROVE alarms[w] <= closed /\ diAlarms[w] <= closed
    BY DEF AlarmsPerWindow
  <2> QED  BY DEF Inv, Safe, AlarmBound, One, Types, CountTypes, PodTypes
<1> QED  BY <1>1, DisruptedInvariant, PTL

\* However many threads, requests and pods: what the windows hide of real
\* failures is bounded by their number, until a shutdown fails.
THEOREM MasksAreBounded == Spec => []MasksPerWindow
<1>1. Inv => MasksPerWindow
  <2> SUFFICES ASSUME Inv, ~Stuck, NEW w \in Worker, kind[w] # "overwrite"
               PROVE masked[w] <= opened +
                        (IF kind[w] \in {"bench", "copy"} THEN closed ELSE 0)
    BY DEF MasksPerWindow
  <2>1. Stored(w) \in Nat
    BY DEF Stored, One
  <2>2. One(TooEarly(w)) \in Nat
    BY DEF One
  <2> QED  BY <2>1, <2>2 DEF Inv, Safe, MaskBound, Types, CountTypes, PodTypes
<1> QED  BY <1>1, DisruptedInvariant, PTL

\* However many threads, requests and pods: a run that a flag of its own was set
\* for is never reported.
THEOREM OwnFlagExcuses == Spec => MissedRunsAreExcused
<1> DEFINE Own(w) == /\ kind[w] = "bench" /\ owed[w]
                     /\ (\A v \in Worker \ {w} : ~holds[v]) /\ holds[w]
<1>1. ASSUME Inv, NEW w \in Worker, Own(w), [Next]_vars
      PROVE  alarms'[w] = alarms[w]
  <2> flag /\ Safe(w) /\ Types
    BY <1>1 DEF Inv, Safe, Owed
  <2>1. CASE Disrupt
    BY <2>1 DEF Disrupt, SetEvent, ShutDown, ClearEvent, SetFlag, CheckServices,
                workerVars, countVars
  <2>2. ASSUME NEW v \in Worker, Work(v) \/ EndEarly(v) PROVE alarms'[w] = alarms[w]
    <3>1. CASE v # w
      BY <1>1, <2>2, <3>1, WorkStep DEF OwnStep, WorkFrame, Untouched
    <3>2. CASE v = w
      BY <1>1, <2>2, <3>2 DEF Work, EndEarly, BenchSetUpFails,
         CopySetUpFails, PartSetUpFails, OverwriteSetUpFails, GetRaises,
         ListingRaises, UserRaises, Leave, Begin, Succeed, Fail, BenchReadsEvent,
         BenchReadsFlag, BenchResets, PutJudged, PartJudged, UserJudged, CrudJudged,
         VersionJudged, OverwriteJudged, CopyJudged, GetJudged, GetCorrupt, CheckDI,
         CompareDI, DeleteJudged, Relist, Excuse, Overlook, Safe, Standing, countVars
    <3> QED  BY <3>1, <3>2
  <2>3. CASE UNCHANGED vars
    BY <2>3 DEF vars, countVars
  <2> QED  BY <1>1, <2>1, <2>2, <2>3 DEF Next
<1>2. Inv /\ [Next]_vars =>
        (\A w \in Worker : Own(w) => alarms'[w] = alarms[w])
  BY <1>1
<1>3. Inv /\ [Next]_vars => [\A w \in Worker :
         kind[w] = "bench" /\ owed[w] /\ (\A v \in Worker \ {w} : ~holds[v]) /\ holds[w]
            => alarms'[w] = alarms[w]]_vars
  BY <1>2
<1> QED  BY <1>3, DisruptedInvariant, PTL DEF Spec, MissedRunsAreExcused

=============================================================================
