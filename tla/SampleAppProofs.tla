-------------------------- MODULE SampleAppProofs --------------------------
(***************************************************************************)
(* Proofs about SampleApp, for any number of generations of data.          *)
(***************************************************************************)
EXTENDS SampleApp, TLAPS

\* gen_amp() has assigned part p of the generation that it is making.
AssignedPCs == [p \in Part |->
  IF p = "front" THEN {"rear", "sonar", "toggle", "sleep"} \cup SetPCs
  ELSE IF p = "rear" THEN {"sonar", "toggle", "sleep"} \cup SetPCs
  ELSE {"toggle", "sleep"} \cup SetPCs]

\* The parts that the frame being drawn has read.
ReadPCs == [p \in Part |->
  IF p = "sonar" THEN {"draw_front", "draw_rear", "draw_end"}
  ELSE IF p = "front" THEN {"draw_rear", "draw_end"}
  ELSE {"draw_end"}]

GenTypes ==
  /\ worker \in WorkerPCs /\ ui \in UiPCs
  /\ gen \in Nat /\ asked \in Nat /\ due \in Nat
  /\ data \in [Part -> Nat] /\ seen \in [Part -> Nat]
  /\ ui = "new_model" => worker = "none" /\ gen = 0

\* Data are never newer than the generation in the making and never older
\* than the last request for a repaint.
DataInv ==
  \A p \in Part :
    /\ worker \in AssignedPCs[p] => data[p] = gen
    /\ asked <= data[p] /\ data[p] <= gen

\* What the frame has read, undisturbed, is as new as the request it was begun after.
DrawInv ==
  /\ due <= asked
  /\ \A p \in Part : ui \in ReadPCs[p] => p \in torn \/ due <= seen[p]

FreshInv == GenTypes /\ DataInv /\ DrawInv

LEMMA FreshInit == Init => FreshInv
  BY DEF Init, FreshInv, GenTypes, DataInv, DrawInv, AssignedPCs, ReadPCs,
     WorkerPCs, UiPCs, SetPCs, ObserverPCs, Part

\* The UI thread: only a read of the model and the start of a frame matter.
LEMMA FreshUi == FreshInv /\ (Ui \/ Close \/ WildAccess) => FreshInv'
  <1> SUFFICES ASSUME FreshInv, Ui \/ Close \/ WildAccess PROVE FreshInv'
    OBVIOUS
  <1> USE DEF FreshInv, GenTypes, DataInv, DrawInv, ReadPCs, UiPCs, UiStep,
          window, model, objects, screen
  <1>1. CASE NewModel
    BY <1>1 DEF NewModel, AssignedPCs, WorkerPCs, SetPCs, ObserverPCs, Part, Keyed
  <1>2. CASE NewWindow \/ Subscribe \/ NewView \/ SetContentView \/ Show
    BY <1>2 DEF NewWindow, Subscribe, NewView, SetContentView, Show
  <1>3. CASE DrawBegin
    BY <1>3 DEF DrawBegin, Part, Keyed
  <1>4. ASSUME NEW p \in Part, NEW to, DrawPart(p, to),
               \/ p = "sonar" /\ to = "draw_front"
               \/ p = "front" /\ to = "draw_rear"
               \/ p = "rear"  /\ to = "draw_end"
        PROVE  FreshInv'
    <2>1. /\ ui = Walk[p] /\ ui' = to /\ UNCHANGED <<worker, data, gen, due, asked>>
          /\ \/ seen' = [seen EXCEPT ![p] = data[p]] /\ torn' = torn
             \/ (\E g \in Nat : seen' = [seen EXCEPT ![p] = g]) /\ torn' = torn \cup {p}
      BY <1>4, SampleAppAssumption DEF DrawPart
    <2>2. /\ seen' \in [Part -> Nat] /\ torn \subseteq torn'
          /\ \A q \in Part : q # p => seen'[q] = seen[q]
          /\ p \in torn' \/ (seen'[p] = data[p] /\ due <= data[p])
      BY <2>1
    <2>3. \A q \in Part : ui' \in ReadPCs[q] => q = p \/ ui \in ReadPCs[q]
      BY <1>4, <2>1 DEF Walk, Part, Keyed
    <2>4. ui' \in UiPCs /\ ui' # "new_model"
      BY <1>4, <2>1
    <2>5. DrawInv'
      BY <2>1, <2>2, <2>3
    <2> QED
      BY <2>1, <2>2, <2>4, <2>5
  <1>5. CASE DrawEnd
    BY <1>5 DEF DrawEnd, Part
  <1>6. CASE DropWindow \/ DropModel \/ Exit \/ Close \/ WildAccess
    BY <1>6 DEF DropWindow, DropModel, Exit, Close, WildAccess, Part
  <1> QED
    BY <1>1, <1>2, <1>3, <1>4, <1>5, <1>6
       DEF Ui, Draw, DrawSonar, DrawFront, DrawRear, Part, Keyed

\* The worker: a repaint is asked for when every part has been assigned.
LEMMA FreshGenAmp == FreshInv /\ GenAmp => FreshInv'
  <1> SUFFICES ASSUME FreshInv, GenAmp PROVE FreshInv'
    OBVIOUS
  <1> USE DEF FreshInv, GenTypes, DataInv, DrawInv, AssignedPCs, WorkerPCs, SetPCs,
          ObserverPCs, Part, Keyed, WorkerStep, Goto, window, model, objects, screen
  <1>1. CASE Front \/ Rear \/ Sonar
    <2>1. PICK p \in Part, to \in WorkerPCs : Assign(p, to) /\ <<p, to>> \in
                 {<<"front", "rear">>, <<"rear", "sonar">>, <<"sonar", "toggle">>}
      BY <1>1 DEF Front, Rear, Sonar
    <2>2. /\ worker = p /\ worker' = to /\ UNCHANGED <<ui, gen, seen, due, asked>>
          /\ data' = [data EXCEPT ![p] = gen] /\ torn \subseteq torn'
      BY <2>1 DEF Assign
    <2> QED
      BY <2>1, <2>2
  <1>2. CASE Toggle \/ Set
    BY <1>2 DEF Toggle, Set
  <1>3. CASE Notify \/ CallObserver \/ NotifyEnd
    BY <1>3 DEF Notify, CallObserver, NotifyEnd
  <1>4. CASE GetForLayout \/ Layout \/ GetForPaint
    BY <1>4 DEF GetForLayout, Layout, GetForPaint, GetContentView
  <1>5. CASE SchedulePaint
    BY <1>5 DEF SchedulePaint
  <1>6. CASE Wake
    BY <1>6 DEF Wake
  <1> QED
    BY <1>1, <1>2, <1>3, <1>4, <1>5, <1>6 DEF GenAmp

\* Whatever the worker writes while a frame is drawn, for any number of generations,
\* the frame shows nothing older than the generation whose repaint it answers, save
\* for the parts that were being replaced while they were read or whose map was
\* wrecked earlier in the same way.
THEOREM FrameIsFreshHolds == Spec => []FrameIsFresh
  <1>1. FreshInv /\ UNCHANGED vars => FreshInv'
    BY DEF FreshInv, GenTypes, DataInv, DrawInv, vars, model, objects, screen
  <1>2. FreshInv /\ [Next]_vars => FreshInv'
    BY <1>1, FreshUi, FreshGenAmp DEF Next, Terminated
  <1>3. FreshInv => FrameIsFresh
    BY DEF FreshInv, DrawInv, FrameIsFresh, ReadPCs, GenTypes
  <1> QED
    BY FreshInit, <1>2, <1>3, PTL DEF Spec
-----------------------------------------------------------------------------
\* The heartbeat differs from the stored one exactly while it is being set.
BeatInv ==
  /\ worker \in WorkerPCs /\ toggle \in BOOLEAN /\ hb \in BOOLEAN
  /\ ui = "new_model" => worker = "none"
  /\ worker = "set"  => hb # toggle
  /\ worker # "set"  => hb = toggle
  /\ worker \in {"walk", "sleep"} \cup ObserverPCs => beat = gen

\* The alternating heartbeat is never mistaken for the one before it.
THEOREM EveryGenerationNotifiesHolds == Spec => []EveryGenerationNotifies
  <1>1. Init => BeatInv
    BY DEF Init, BeatInv, WorkerPCs, ObserverPCs
  <1>2. BeatInv /\ [Next]_vars => BeatInv'
    <2> SUFFICES ASSUME BeatInv, [Next]_vars PROVE BeatInv'
      OBVIOUS
    <2> USE DEF BeatInv, WorkerPCs, SetPCs, ObserverPCs, Part, Keyed, model, objects, window
    <2>1. CASE UNCHANGED vars
      BY <2>1 DEF vars
    <2>2. CASE Ui \/ Close \/ WildAccess
      <3> USE DEF UiStep
      <3>1. CASE NewModel
        BY <3>1 DEF NewModel
      <3>2. CASE NewWindow \/ Subscribe \/ NewView \/ SetContentView \/ Show
        BY <3>2 DEF NewWindow, Subscribe, NewView, SetContentView, Show
      <3>3. CASE Draw
        BY <3>3 DEF Draw, DrawBegin, DrawSonar, DrawFront, DrawRear, DrawPart, DrawEnd
      <3>4. CASE DropWindow \/ DropModel \/ Exit \/ Close \/ WildAccess
        BY <3>4 DEF DropWindow, DropModel, Exit, Close, WildAccess
      <3> QED
        BY <2>2, <3>1, <3>2, <3>3, <3>4 DEF Ui
    <2>3. CASE GenAmp
      <3> USE DEF WorkerStep, Goto
      <3>1. CASE Front \/ Rear \/ Sonar \/ Wake
        BY <3>1 DEF Front, Rear, Sonar, Assign, Wake
      <3>2. CASE Toggle
        <4>1. worker = "toggle" /\ worker' = "set" /\ toggle' = ~toggle
              /\ UNCHANGED <<ui, gen, hb, beat>>
          BY <3>2 DEF Toggle
        <4>2. toggle' \in BOOLEAN /\ hb' # toggle'
          BY <4>1
        <4> QED
          BY <4>1, <4>2
      <3>3. CASE Set \/ Notify
        BY <3>3 DEF Set, Notify
      <3>4. CASE CallObserver \/ GetForLayout \/ Layout \/ GetForPaint
        BY <3>4 DEF CallObserver, GetForLayout, Layout, GetForPaint, GetContentView
      <3>5. CASE SchedulePaint \/ NotifyEnd
        BY <3>5 DEF SchedulePaint, NotifyEnd
      <3> QED
        BY <2>3, <3>1, <3>2, <3>3, <3>4, <3>5 DEF GenAmp
    <2> QED
      BY <2>1, <2>2, <2>3 DEF Next, Terminated
  <1>3. BeatInv => EveryGenerationNotifies
    BY DEF BeatInv, EveryGenerationNotifies
  <1> QED
    BY <1>1, <1>2, <1>3, PTL DEF Spec
-----------------------------------------------------------------------------
\* The observer is called after main() has given it a window with a view.
ContentInv ==
  /\ subs \in SUBSET {Repaint} /\ todo \in [{Worker} -> SUBSET {Repaint}]
  /\ content = "none" => ui \in {"new_model", "new_window", "exited"}
  /\ ui \in {"new_model", "new_window", "subscribe"} => subs = {}
  /\ subs = {} => todo[Worker] = {} /\ worker \notin ObserverPCs
  /\ worker \in {"layout", "paint"} => target # "none"

\* What is left of TypeOK.
BoundedTypes ==
  /\ alive \subseteq Objects /\ content \in View \cup {"none"} /\ queued \subseteq View
  /\ target \in View \cup {"none"}
  /\ gen <= MaxGen /\ beat \in 0..gen
  /\ seen \in [Part -> 0..MaxGen] /\ shown \in [Part -> 0..MaxGen] /\ torn \subseteq Part
  /\ keys \subseteq Keyed /\ wrecked \in BOOLEAN
  /\ toggle \in BOOLEAN /\ hb \in BOOLEAN

LEMMA ContentUi == FreshInv /\ ContentInv /\ (Ui \/ Close \/ WildAccess) => ContentInv'
  <1> SUFFICES ASSUME FreshInv, ContentInv, Ui \/ Close \/ WildAccess PROVE ContentInv'
    OBVIOUS
  <1> USE DEF ContentInv, ObserverPCs, UiStep, window, observers
  <1>1. CASE NewModel
    BY <1>1 DEF NewModel
  <1>2. CASE NewWindow \/ NewView \/ SetContentView \/ Show
    BY <1>2 DEF NewWindow, NewView, SetContentView, Show
  <1>3. CASE Subscribe
    BY <1>3 DEF Subscribe, DataHB!Subscribe
  <1>4. CASE Draw
    <2>1. \A p \in Part : Walk[p] \in {"draw_sonar", "draw_front", "draw_rear"}
      BY DEF Walk, Part, Keyed
    <2>2. ui \in {"loop", "draw_sonar", "draw_front", "draw_rear", "draw_end"}
      BY <1>4, <2>1 DEF Draw, DrawBegin, DrawSonar, DrawFront, DrawRear, DrawPart, DrawEnd,
                       Part, Keyed
    <2>3. UNCHANGED <<worker, content, target, subs, todo>>
      BY <1>4 DEF Draw, DrawBegin, DrawSonar, DrawFront, DrawRear, DrawPart, DrawEnd
    <2>4. ui' \notin {"new_model", "new_window", "subscribe"}
      BY <1>4 DEF Draw, DrawBegin, DrawSonar, DrawFront, DrawRear, DrawPart, DrawEnd
    <2> QED
      BY <2>2, <2>3, <2>4
  <1>5. CASE DropWindow \/ DropModel \/ Exit \/ Close
    BY <1>5 DEF DropWindow, DropModel, Exit, Close
  <1>6. CASE WildAccess
    BY <1>6 DEF WildAccess, Running
  <1> QED
    BY <1>1, <1>2, <1>3, <1>4, <1>5, <1>6 DEF Ui

LEMMA ContentGenAmp == FreshInv /\ ContentInv /\ GenAmp => ContentInv'
  <1> SUFFICES ASSUME FreshInv, ContentInv, GenAmp PROVE ContentInv'
    OBVIOUS
  <1> USE DEF ContentInv, ObserverPCs, WorkerStep, Goto, window, observers
  <1>1. CASE Front \/ Rear \/ Sonar \/ Wake
    BY <1>1 DEF Front, Rear, Sonar, Assign, Wake
  <1>2. CASE Toggle \/ Set
    BY <1>2 DEF Toggle, Set
  <1>3. CASE Notify
    BY <1>3 DEF Notify, DataHB!NotifyBegin
  <1>4. CASE CallObserver
    BY <1>4 DEF CallObserver, DataHB!NotifyCall
  <1>5. CASE GetForLayout \/ Layout \/ GetForPaint
    BY <1>5 DEF GetForLayout, Layout, GetForPaint, GetContentView, Running
  <1>6. CASE SchedulePaint
    BY <1>6 DEF SchedulePaint, DataHB!CallReturns
  <1>7. CASE NotifyEnd
    BY <1>7 DEF NotifyEnd, DataHB!NotifyEnd
  <1> QED
    BY <1>1, <1>2, <1>3, <1>4, <1>5, <1>6, <1>7 DEF GenAmp

LEMMA BoundedUi == FreshInv /\ BoundedTypes /\ (Ui \/ Close \/ WildAccess) => BoundedTypes'
  <1> SUFFICES ASSUME FreshInv, BoundedTypes, Ui \/ Close \/ WildAccess PROVE BoundedTypes'
    OBVIOUS
  <1> USE SampleAppAssumption DEF BoundedTypes, Objects, View, UiStep, window, model, objects, screen
  <1>1. CASE NewModel
    BY <1>1 DEF NewModel, FreshInv, GenTypes
  <1>2. CASE NewWindow \/ Subscribe \/ NewView \/ SetContentView \/ Show
    BY <1>2 DEF NewWindow, Subscribe, NewView, SetContentView, Show
  <1>3. CASE DrawBegin \/ DrawEnd
    <2>1. due \in 0..MaxGen
      BY DEF FreshInv, GenTypes, DataInv, DrawInv, Part
    <2>2. Answered \in [Part -> 0..MaxGen]
      BY <2>1 DEF Answered
    <2> QED
      BY <1>3, <2>2 DEF DrawBegin, DrawEnd
  <1>4. CASE DrawSonar \/ DrawFront \/ DrawRear
    <2>1. PICK p \in Part : \E to : DrawPart(p, to)
      BY <1>4 DEF DrawSonar, DrawFront, DrawRear, Part, Keyed
    <2>2. data[p] \in 0..MaxGen
      BY DEF FreshInv, GenTypes, DataInv
    <2>3. PICK g \in 0..MaxGen : seen' = [seen EXCEPT ![p] = g]
      BY <2>1, <2>2 DEF DrawPart
    <2>4. /\ torn' \subseteq Part /\ keys' \subseteq Keyed /\ wrecked' \in BOOLEAN
          /\ UNCHANGED <<window, gen, toggle, hb, beat, target, shown>>
      BY <2>1 DEF DrawPart, LookUp
    <2> QED
      BY <2>3, <2>4
  <1>5. CASE DropWindow \/ DropModel \/ Exit \/ Close \/ WildAccess
    BY <1>5 DEF DropWindow, DropModel, Exit, Close, WildAccess
  <1> QED
    BY <1>1, <1>2, <1>3, <1>4, <1>5 DEF Ui, Draw

LEMMA BoundedGenAmp == FreshInv /\ BoundedTypes /\ GenAmp => BoundedTypes'
  <1> SUFFICES ASSUME FreshInv, BoundedTypes, GenAmp PROVE BoundedTypes'
    OBVIOUS
  <1> USE SampleAppAssumption DEF BoundedTypes, FreshInv, GenTypes, WorkerStep, Goto,
          window, model, objects, screen
  <1>1. CASE Front \/ Rear \/ Sonar
    <2>1. PICK p \in Part : \E to : Assign(p, to)
      BY <1>1 DEF Front, Rear, Sonar, Part, Keyed
    <2>2. /\ torn' \subseteq Part /\ keys' \subseteq Keyed /\ wrecked' \in BOOLEAN
          /\ UNCHANGED <<window, gen, toggle, hb, beat, target, seen, shown>>
      BY <2>1 DEF Assign, LookUp
    <2> QED
      BY <2>2
  <1>2. CASE Toggle \/ Set
    <2>1. /\ toggle' \in BOOLEAN /\ hb' \in BOOLEAN
          /\ UNCHANGED <<window, gen, beat, target, seen, shown, torn, keys, wrecked>>
      <3>1. CASE Toggle
        <4>1. toggle' = ~toggle /\ hb' = hb
          BY <3>1 DEF Toggle
        <4>2. toggle' \in BOOLEAN
          BY <4>1
        <4> QED
          BY <3>1, <4>1, <4>2 DEF Toggle
      <3>2. CASE Set
        BY <3>2 DEF Set
      <3> QED
        BY <1>2, <3>1, <3>2
    <2> QED
      BY <2>1
  <1>3. CASE Notify \/ CallObserver \/ NotifyEnd
    BY <1>3 DEF Notify, CallObserver, NotifyEnd
  <1>4. CASE GetForLayout \/ Layout \/ GetForPaint
    BY <1>4 DEF GetForLayout, Layout, GetForPaint, GetContentView
  <1>5. CASE SchedulePaint
    <2>1. queued' = queued \cup ({target} \cap alive) /\ target \in View \cup {"none"}
      BY <1>5 DEF SchedulePaint
    <2>2. "none" \notin alive
      BY DEF Objects, View
    <2>3. queued' \subseteq View
      BY <2>1, <2>2
    <2>4. UNCHANGED <<alive, content, model, target, screen>>
      BY <1>5 DEF SchedulePaint
    <2> QED
      BY <2>3, <2>4
  <1>6. CASE Wake
    BY <1>6 DEF Wake
  <1> QED
    BY <1>1, <1>2, <1>3, <1>4, <1>5, <1>6 DEF GenAmp

\* The type invariant; the observer never lays out or paints a view that is
\* not there to fetch.
THEOREM SampleAppTypes == Spec => []TypeOK
  <1> DEFINE TypeInv == FreshInv /\ ContentInv /\ BoundedTypes
  <1>1. Init => TypeInv
    <2>1. Init => ContentInv
      BY DEF Init, DataHB!Init, ContentInv, ObserverPCs
    <2>2. Init => BoundedTypes
      <3> SUFFICES ASSUME Init PROVE BoundedTypes
        OBVIOUS
      <3>1. 0 \in 0..MaxGen /\ 0 <= MaxGen
        BY SampleAppAssumption
      <3>2. seen \in [Part -> 0..MaxGen] /\ shown \in [Part -> 0..MaxGen]
        BY <3>1 DEF Init
      <3>3. toggle \in BOOLEAN /\ hb \in BOOLEAN /\ wrecked \in BOOLEAN
        BY DEF Init
      <3>4. gen <= MaxGen /\ beat \in 0..gen
        BY <3>1 DEF Init
      <3> QED
        BY <3>2, <3>3, <3>4 DEF Init, BoundedTypes
    <2> QED
      BY <2>1, <2>2, FreshInit
  <1>2. TypeInv /\ [Next]_vars => TypeInv'
    <2>1. TypeInv /\ UNCHANGED vars => TypeInv'
      BY DEF FreshInv, GenTypes, DataInv, DrawInv, ContentInv, BoundedTypes, vars,
         model, objects, window, screen, observers
    <2> QED
      BY <2>1, FreshUi, FreshGenAmp, ContentUi, ContentGenAmp, BoundedUi, BoundedGenAmp
         DEF Next, Terminated
  <1>3. TypeInv => TypeOK
    BY SampleAppAssumption
       DEF FreshInv, GenTypes, DataInv, DrawInv, ContentInv, BoundedTypes, TypeOK, Part, Keyed
  <1> QED
    BY <1>1, <1>2, <1>3, PTL DEF Spec
=============================================================================
