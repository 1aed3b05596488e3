----------------------------- MODULE SampleApp -----------------------------
(***************************************************************************)
(* The sample program, sample_app/main.cc: a detached worker thread fills  *)
(* the TestModel with a new generation of data and flips the observable    *)
(* dataHB; the observer that main() subscribed to dataHB asks the content  *)
(* view of the window to repaint, from the worker thread; the UI thread    *)
(* builds the window, runs the message loop, draws the model and, once the *)
(* window is closed, destroys everything while the worker goes on.         *)
(*                                                                         *)
(* Nothing keeps the worker from assigning what the UI thread is reading:  *)
(* a data race.  A walk over a part that is replaced meanwhile may find    *)
(* anything, or end the process; so may one in a map that one thread has   *)
(* looked into while the other inserted a key.                             *)
(*                                                                         *)
(* The observers of dataHB are those of ObserverSet, which the lock-free   *)
(* collection implements when one thread mutates it: here only main().     *)
(* What happens inside nativeui and GTK is external to this repository:    *)
(* a window has a default content view until SetContentView() releases it, *)
(* SchedulePaint() queues a redraw, and a redraw leaves the queue when it  *)
(* starts.                                                                 *)
(***************************************************************************)
EXTENDS Naturals

CONSTANT MaxGen      \* bound on the generations of data that gen_amp() makes

ASSUME SampleAppAssumption == MaxGen \in Nat \ {0}

Keyed == {"front", "rear"}           \* m_objs_map[0], m_objs_map[1]
Part  == Keyed \cup {"sonar"}        \* and m_sonar
View == {"default", "radar"}
Repaint == "repaint"                 \* the observer that main() subscribes
Worker  == "worker"

VARIABLES
  ui,        \* where main() stands
  worker,    \* where gen_amp() stands
  alive,     \* the objects of main() that exist
  content,   \* Window::content_view_
  queued,    \* the views with a redraw pending
  data,      \* the generation that each part of the model holds
  keys,      \* the parts that have an entry in m_objs_map
  wrecked,   \* a look into m_objs_map has run into an insertion
  gen,       \* the generation that gen_amp() is making
  toggle,    \* TestModel::_toggle
  hb,        \* the value stored in dataHB
  target,    \* the content view that the observer has fetched
  seen,      \* the generations that the frame being drawn has read
  torn,      \* the parts of this frame that were replaced while it read them
  shown,     \* history: the requests that the last frame that was completed answers
  beat,      \* history: the last generation whose heartbeat was notified
  asked,     \* history: the last generation that asked for a repaint
  due,       \* history: asked, when the frame being drawn was begun
  used, subs, phase, todo          \* the observers of dataHB

observers == <<used, subs, phase, todo>>
objects   == <<data, keys, wrecked>>
model     == <<objects, gen, toggle, hb, beat>>
window    == <<alive, content, queued>>
screen    == <<seen, torn, shown, due>>
vars      == <<ui, worker, window, model, target, screen, asked, observers>>

DataHB == INSTANCE ObserverSet WITH Caller <- {Worker}, Observer <- {Repaint}

Objects == {"model", "window"} \cup View

Init ==
  /\ ui = "new_model" /\ worker = "none"
  /\ alive = {} /\ content = "none" /\ queued = {}
  /\ data = [p \in Part |-> 0] /\ keys = {} /\ wrecked = FALSE /\ gen = 0
  /\ toggle = FALSE /\ hb = FALSE
  /\ target = "none"
  /\ seen = [p \in Part |-> 0] /\ torn = {} /\ shown = seen /\ due = 0
  /\ beat = 0 /\ asked = 0
  /\ DataHB!Init

(***************************************************************************)
(* The UI thread: main().                                                  *)
(***************************************************************************)
UiStep(from, to) == ui = from /\ ui' = to

\* TestModel's constructor starts the worker, before anybody has subscribed.
NewModel ==
  /\ UiStep("new_model", "new_window")
  /\ alive' = alive \cup {"model"}
  /\ worker' = "front" /\ gen' = 1
  /\ UNCHANGED <<content, queued, objects, toggle, hb, beat, target, screen, asked, observers>>

NewWindow ==
  /\ UiStep("new_window", "subscribe")
  /\ alive' = alive \cup {"window", "default"}
  /\ content' = "default"
  /\ UNCHANGED <<worker, queued, model, target, screen, asked, observers>>

\* The subscription is discarded: nothing ever unsubscribes the observer.
Subscribe ==
  /\ UiStep("subscribe", "new_view")
  /\ DataHB!Subscribe(Repaint)
  /\ UNCHANGED <<worker, window, model, target, screen, asked>>

NewView ==
  /\ UiStep("new_view", "set_content")
  /\ alive' = alive \cup {"radar"}
  /\ UNCHANGED <<worker, content, queued, model, target, screen, asked, observers>>

\* The window held the only reference to the default content view.
\* Mutant: the new content view is not kept.
SetContentView_Forgets ==
  /\ UiStep("set_content", "show")
  /\ content' = "none"
  /\ alive' = alive \ {"default"}
  /\ queued' = queued \ {"default"}
  /\ UNCHANGED <<worker, model, target, screen, asked, observers>>

SetContentView ==
  /\ UiStep("set_content", "show")
  /\ content' = "radar"
  /\ alive' = alive \ {"default"}
  /\ queued' = queued \ {"default"}
  /\ UNCHANGED <<worker, model, target, screen, asked, observers>>

\* The window appears: its content view is drawn for the first time.
Show ==
  /\ UiStep("show", "loop")
  /\ queued' = queued \cup {"radar"}
  /\ UNCHANGED <<worker, alive, content, model, target, screen, asked, observers>>

\* The request that the frame answers, part by part: it shows what it has read, and of
\* a part that is torn only that it was read after the frame was begun.
Answered == [p \in Part |-> IF p \in torn THEN due ELSE seen[p]]

\* Mutant: the redraw leaves the queue when it has been done.
DrawEnd_Dequeues ==
  /\ UiStep("draw_end", "loop")
  /\ shown' = Answered
  /\ queued' = queued \ {"radar"}
  /\ UNCHANGED <<worker, alive, content, model, target, seen, torn, due, asked, observers>>

\* The message loop draws the content view.
DrawBegin ==
  /\ UiStep("loop", "draw_sonar")
  /\ "radar" \in queued
  /\ queued' = queued \ {"radar"}
  /\ due' = asked /\ torn' = {}
  /\ UNCHANGED <<worker, alive, content, model, target, seen, shown, asked, observers>>

\* The UI thread is reading part p until the step that ends there.
Walk == [p \in Part |-> CASE p = "sonar" -> "draw_sonar"
                          [] p = "front" -> "draw_front"
                          [] p = "rear"  -> "draw_rear"]

\* Two threads use parts p and q and one of them looks into m_objs_map while the
\* other, to which operator[] does not give an entry that is there, inserts it.
Insertion(p, q) == {p, q} \subseteq Keyed /\ ~ {p, q} \subseteq keys

\* One of the threads would have to wait for the other.
Conflict(p, q) == p = q \/ Insertion(p, q)

\* What the UI thread reads as part p is not what the worker has put there.
Spoilt(p) ==
  \/ p \in torn
  \/ p \in Keyed /\ wrecked
  \/ worker \in Part /\ Conflict(p, worker)

\* A look into m_objs_map while the other thread inserts may do harm, or not.
LookUp(p, others) ==
  /\ keys' = keys \cup ({p} \cap Keyed)
  /\ wrecked' \in {wrecked, wrecked \/ \E q \in others : Insertion(p, q)}

\* Reads part p.  If the worker is assigning it, the assignment may have begun or not.
DrawPart(p, to) ==
  /\ UiStep(Walk[p], to)
  /\ \/ p \notin torn /\ ~(p \in Keyed /\ wrecked)
        /\ seen' = [seen EXCEPT ![p] = data[p]] /\ UNCHANGED torn
     \/ Spoilt(p)
        /\ \E g \in 0..MaxGen : seen' = [seen EXCEPT ![p] = g]
        /\ torn' = torn \cup {p}
  /\ LookUp(p, {worker} \cap Part)
  /\ UNCHANGED <<worker, window, data, gen, toggle, hb, beat, target, shown, due, asked, observers>>

DrawSonar == DrawPart("sonar", "draw_front")
DrawFront == DrawPart("front", "draw_rear")
DrawRear  == DrawPart("rear",  "draw_end")

DrawEnd ==
  /\ UiStep("draw_end", "loop")
  /\ shown' = Answered
  /\ UNCHANGED <<worker, window, model, target, seen, torn, due, asked, observers>>

\* on_close quits the message loop, and main() returns.
Close ==
  /\ UiStep("loop", "drop_window")
  /\ UNCHANGED <<worker, window, model, target, screen, asked, observers>>

\* radar_view and window are released, then state and lifetime.
DropWindow ==
  /\ UiStep("drop_window", "drop_model")
  /\ alive' = alive \ {"window", "radar"}
  /\ queued' = {}
  /\ UNCHANGED <<worker, content, model, target, screen, asked, observers>>

\* ~TestModel() does not stop the worker, nor wait for it.
DropModel ==
  /\ UiStep("drop_model", "exit")
  /\ alive' = alive \ {"model"}
  /\ UNCHANGED <<worker, content, queued, model, target, screen, asked, observers>>

Exit ==
  /\ UiStep("exit", "exited")
  /\ UNCHANGED <<worker, window, model, target, screen, asked, observers>>

(***************************************************************************)
(* The worker thread: gen_amp().                                           *)
(***************************************************************************)
\* The process runs; if the step touches an object that is gone, it may also
\* end the process there.
Running == ui # "exited"

Goto(label) == worker' = label

WorkerStep(from, to) == Running /\ worker = from /\ Goto(to)

\* The objects that the worker dereferences where it stands.
Touched ==
  {"model"} \cup (CASE worker \in {"get_layout", "get_paint"} -> {"window"}
                    [] worker \in {"layout", "paint"} -> {target}
                    [] OTHER -> {})

\* A vector or a map is walked that is not there any more, or broken.
Astray ==
  \/ \E p \in Part : ui = Walk[p] /\ Spoilt(p)
  \/ worker \in Keyed /\ wrecked

WildAccess ==
  /\ Running /\ worker # "none" /\ (~ Touched \subseteq alive \/ Astray)
  /\ ui' = "exited"
  /\ UNCHANGED <<worker, window, model, target, screen, asked, observers>>

\* Mutant: the part is assigned one generation late.
Assign_Stale(p, to) ==
  LET walks == {q \in Part : ui = Walk[q]}
  IN  /\ WorkerStep(p, to)
      /\ data' = [data EXCEPT ![p] = gen - 1]
      /\ torn' \in {torn, torn \cup {q \in walks : Conflict(p, q)}}
      /\ LookUp(p, walks)
      /\ UNCHANGED <<ui, window, gen, toggle, hb, beat, target, seen, shown, due, asked, observers>>

\* Replaces part p, which the UI thread may be reading.
Assign(p, to) ==
  LET walks == {q \in Part : ui = Walk[q]}
  IN  /\ WorkerStep(p, to)
      /\ data' = [data EXCEPT ![p] = gen]
      /\ torn' \in {torn, torn \cup {q \in walks : Conflict(p, q)}}
      /\ LookUp(p, walks)
      /\ UNCHANGED <<ui, window, gen, toggle, hb, beat, target, seen, shown, due, asked, observers>>

Front == Assign("front", "rear")
Rear  == Assign("rear", "sonar")
Sonar == Assign("sonar", "toggle")

\* Mutant: the flag is set, not flipped.
Toggle_Once ==
  /\ WorkerStep("toggle", "set")
  /\ toggle' = TRUE
  /\ UNCHANGED <<ui, window, objects, gen, hb, beat, target, screen, asked, observers>>

Toggle ==
  /\ WorkerStep("toggle", "set")
  /\ toggle' = ~toggle
  /\ UNCHANGED <<ui, window, objects, gen, hb, beat, target, screen, asked, observers>>

\* dataHB = _toggle: value::set() compares, stores and notifies.
Set ==
  /\ Running /\ worker = "set"
  /\ Goto(IF hb = toggle THEN "sleep" ELSE "notify")
  /\ hb' = toggle
  /\ UNCHANGED <<ui, window, objects, gen, toggle, beat, target, screen, asked, observers>>

Notify ==
  /\ WorkerStep("notify", "walk")
  /\ DataHB!NotifyBegin(Worker)
  /\ beat' = gen
  /\ UNCHANGED <<ui, window, objects, gen, toggle, hb, target, screen, asked>>

CallObserver ==
  /\ WorkerStep("walk", "get_layout")
  /\ DataHB!NotifyCall(Worker, Repaint)
  /\ UNCHANGED <<ui, window, model, target, screen, asked>>

\* window->GetContentView(): a raw pointer.
GetContentView(from, to) ==
  /\ WorkerStep(from, to)
  /\ target' = content
  /\ UNCHANGED <<ui, window, model, screen, asked, observers>>

GetForLayout == GetContentView("get_layout", "layout")
GetForPaint  == GetContentView("get_paint", "paint")

Layout ==
  /\ WorkerStep("layout", "get_paint")
  /\ UNCHANGED <<ui, window, model, target, screen, asked, observers>>

SchedulePaint ==
  /\ WorkerStep("paint", "walk")
  /\ queued' = queued \cup ({target} \cap alive)
  /\ asked' = gen
  /\ DataHB!CallReturns(Worker)
  /\ UNCHANGED <<ui, alive, content, model, target, screen>>

NotifyEnd ==
  /\ WorkerStep("walk", "sleep")
  /\ DataHB!NotifyEnd(Worker)
  /\ UNCHANGED <<ui, window, model, target, screen, asked>>

\* After a second's sleep, the next generation.
Wake ==
  /\ WorkerStep("sleep", "front")
  /\ gen < MaxGen
  /\ gen' = gen + 1
  /\ UNCHANGED <<ui, window, objects, toggle, hb, beat, target, screen, asked, observers>>

-----------------------------------------------------------------------------
Draw == DrawBegin \/ DrawSonar \/ DrawFront \/ DrawRear \/ DrawEnd

\* What the UI thread does of itself.
Ui ==
  \/ NewModel \/ NewWindow \/ Subscribe \/ NewView \/ SetContentView \/ Show
  \/ Draw \/ DropWindow \/ DropModel \/ Exit

GenAmp ==
  \/ Front \/ Rear \/ Sonar \/ Toggle \/ Set
  \/ Notify \/ CallObserver \/ GetForLayout \/ Layout \/ GetForPaint
  \/ SchedulePaint \/ NotifyEnd \/ Wake

Terminated == ui = "exited" /\ UNCHANGED vars

Next == Ui \/ Close \/ GenAmp \/ WildAccess \/ Terminated

Spec == Init /\ [][Next]_vars

\* Both threads are scheduled; the user need not close the window.
FairSpec == Spec /\ WF_vars(Ui) /\ WF_vars(GenAmp)
-----------------------------------------------------------------------------
(***************************************************************************)
(* Properties.                                                             *)
(***************************************************************************)
UiPCs == {"new_model", "new_window", "subscribe", "new_view", "set_content",
          "show", "loop", "draw_sonar", "draw_front", "draw_rear", "draw_end",
          "drop_window", "drop_model", "exit", "exited"}

ObserverPCs == {"get_layout", "layout", "get_paint", "paint"}
SetPCs      == {"set", "notify", "walk"} \cup ObserverPCs
WorkerPCs   == {"none", "toggle", "sleep"} \cup Part \cup SetPCs

\* Every variable has its type; the observer fetches a view, never nothing.
TypeOK ==
  /\ ui \in UiPCs /\ worker \in WorkerPCs
  /\ alive \subseteq Objects /\ content \in View \cup {"none"} /\ queued \subseteq View
  /\ data \in [Part -> 0..MaxGen] /\ keys \subseteq Keyed /\ wrecked \in BOOLEAN
  /\ gen \in 0..MaxGen
  /\ toggle \in BOOLEAN /\ hb \in BOOLEAN
  /\ target \in View \cup {"none"} /\ (worker \in {"layout", "paint"} => target # "none")
  /\ seen \in [Part -> 0..MaxGen] /\ shown \in [Part -> 0..MaxGen] /\ torn \subseteq Part
  /\ beat \in 0..gen /\ asked \in 0..gen /\ due \in 0..asked

\* The data-driven heartbeat (main.cc, "data-driven heartbeat"): no generation
\* of data goes to sleep without having notified the observers of dataHB, that
\* is, value::set() never takes the new heartbeat for the old one.
EveryGenerationNotifies == worker = "sleep" => beat = gen

\* A frame that was begun after generation g asked for a repaint shows no part of
\* the model that is older than g, although it reads the model while the worker
\* writes it; excepted are the parts that the worker was replacing while the frame
\* read them, a data race, and those in a map that an earlier such race has wrecked.
FrameIsFresh == ui = "draw_end" => \A p \in Part : p \in torn \/ seen[p] >= due

Closed == ui \in {"drop_window", "drop_model", "exit", "exited"}

\* No repaint is lost: whatever asked for it, and whatever was being drawn at
\* that time, a frame is completed that shows data at least as new, or was begun
\* later, where it was torn; or the window is closed or the process over.
RepaintNotLost ==
  \A g \in 1..MaxGen :
    asked = g ~> (\A p \in Part : shown[p] >= g) \/ Closed

\* subject.hpp: "Observers must be valid to be called for as long as they are
\* subscribed and there is a possibility to be called."  The observer captures
\* the local variable window of main() by reference, and uses the content view
\* that it has just fetched from it.
ObserverIsValid == worker \in ObserverPCs => Touched \subseteq alive
=============================================================================
