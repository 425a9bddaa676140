----------------------------- MODULE WindowFocus -----------------------------
(***************************************************************************)
(* Which window has the focus, and whether Wayland's seat knows            *)
(* (src/steamcompmgr.cpp, src/wlserver.cpp), under the strategy            *)
(* SteamControlled with one Xwayland server and one output.                *)
(*                                                                         *)
(* X events change what is known of the windows and mark the focus as      *)
(* outdated; a pass of the compositor then chooses again and tells the     *)
(* seat, in three steps, since the Wayland server's thread makes and       *)
(* destroys surfaces meanwhile.  A window and its surface are associated   *)
(* by an X message that carries the surface's id, which may come before    *)
(* the server has seen the surface.                                        *)
(*                                                                         *)
(* A window is the memory it lives in: one that is destroyed may come back *)
(* under its name.  What a client says of a window is kept as far as it    *)
(* bears on the choice; a window is `demoted' when it is disabled or skips *)
(* taskbar and pager without being fullscreen.  An app is one process.     *)
(***************************************************************************)
EXTENDS Integers, Sequences, FiniteSets, SequencesExt

CONSTANTS
  Windows, None,
  Overlay,   \* the window that is Steam's overlay
  Redirect,  \* override-redirect windows
  Dropdown,  \* those that may be dropdowns otherwise
  App,       \* App[w]: appID
  Owner,     \* Owner[w]: the window it may declare itself transient for
  Starts,    \* the windows that are open at first, from the top
  Controls,  \* the values of GAMESCOPECTRL_BASELAYER_APPID
  Events,    \* bound of the model: events of X and destroyed surfaces
  Surfaces   \* bound of the model: surfaces

ASSUME FocusAssumption ==
  /\ IsFiniteSet(Windows) /\ None \notin Windows /\ Overlay \in Windows \cup {None}
  /\ \A s \in Starts : s \in Seq(Windows) /\ IsInjective(s)
  /\ Redirect \cup Dropdown \subseteq Windows
  /\ Owner \in [Windows -> Windows \cup {None}]
  /\ \* no "transient cycles": a window is deeper than the one it is transient for
     \E depth \in [Windows -> 0..(Cardinality(Windows) - 1)] :
       \A w \in Windows : Owner[w] # None => depth[Owner[w]] < depth[w]
  /\ App \in [Windows -> Nat] /\ \A w \in Windows : App[w] = 0 <=> w = Overlay
  /\ \A c \in Controls : c \in Seq(Nat \ {0})
  /\ Events \in Nat /\ Surfaces \in Nat

VARIABLES
  list,     \* ctx->list
  win,      \* what is known of each window, and of its surface's id
  control,  \* vecFocuscontrolAppIDs
  local,    \* ctx->focus.focusWindow
  focus,    \* the global focus
  dirty,    \* MakeFocusDirty since the focus was determined
  pass,     \* determine_and_apply_focus: where it is, previousLocalFocus
  made,     \* surfaces of the Wayland server
  ids,      \* the last surface
  seat,     \* mouse_focus_surface, kb_focus_surface
  late,     \* history: windows whose surface came after its id
  silent,   \* history: a window's opacity changed since the choice
  events    \* bound of the model

vars == <<list, win, control, local, focus, dirty, pass, made, ids, seat,
          late, silent, events>>

Blank == [mapped |-> FALSE, demoted |-> FALSE, linked |-> FALSE, hidden |-> FALSE,
          mode |-> 0, stamp |-> 0, damage |-> 0, done |-> FALSE, outdated |-> FALSE,
          wl |-> 0]

\* the windows that are open before the first pass, the last one first
Init ==
  /\ list \in Starts /\ control \in Controls
  /\ win = [w \in Windows |-> IF \E i \in 1..Len(list) : list[i] = w
              THEN LET i == CHOOSE i \in 1..Len(list) : list[i] = w
                   IN  [Blank EXCEPT !.mapped = TRUE, !.stamp = Len(list) + 1 - i,
                          !.done = TRUE, !.wl = i, !.linked = Owner[w] # None]
              ELSE Blank]
  /\ local = None
  /\ focus = [window |-> None, override |-> None, input |-> None, keyboard |-> None]
  /\ dirty = TRUE
  /\ pass = [pc |-> "idle", override |-> None, input |-> None, keyboard |-> None]
  /\ made = 1..Len(list) /\ ids = Len(list) /\ seat = [pointer |-> 0, keyboard |-> 0]
  /\ late = {} /\ silent = FALSE /\ events = 0

-----------------------------------------------------------------------------
(* The choice.                                                             *)

Known == Range(list)
Place(w) == CHOOSE i \in 1..Len(list) : list[i] = w

Parent(w) == IF win[w].linked THEN Owner[w] ELSE None
MayDrop(w) == w \in Redirect \cup Dropdown

Weight(b, n) == IF b THEN n ELSE 0
Demerit(w) == Weight(w \in Redirect, 8) + Weight(MayDrop(w), 4)
              + Weight(win[w].demoted, 2) + Weight(MayDrop(w) /\ win[w].linked, 1)

\* is_focus_priority_greater, for windows of games
Greater(v, w) ==
  \/ Demerit(v) < Demerit(w)
  \/ /\ Demerit(v) = Demerit(w)
     /\ \/ win[v].stamp > win[w].stamp
        \/ win[v].stamp = win[w].stamp /\ win[v].damage > win[w].damage

\* the stable sort
Ahead(v, w) == Greater(v, w) \/ (~Greater(w, v) /\ Place(v) < Place(w))
Best(S) == IF S = {} THEN None ELSE CHOOSE v \in S : \A w \in S \ {v} : Ahead(v, w)

\* GetPossibleFocusWindows
Possible == {w \in Known \ {Overlay} : win[w].mapped /\ ~win[w].hidden}

OfApp(n) == {w \in Possible : App[w] = n}

\* the window of the first app that is asked for and has one
Asked ==
  LET has == {i \in 1..Len(control) : OfApp(control[i]) # {}}
  IN  IF has = {} THEN None
      ELSE Best(OfApp(control[CHOOSE i \in has : \A j \in has : i <= j]))

Iterate(Step(_), w) ==
  LET f[n \in 0..Cardinality(Windows)] == IF n = 0 THEN w ELSE Step(f[n - 1])
  IN  f[Cardinality(Windows)]

\* through transient links, but not to dropdowns
Follow(w) ==
  LET next(v) == {c \in Possible \ {v} : Parent(c) = v /\ ~MayDrop(c)}
      step(v) == IF next(v) = {} THEN v ELSE Best(next(v))
  IN  IF w = None THEN None ELSE Iterate(step, w)

Chosen(global) == Follow(IF Asked = None /\ ~global THEN Best(Possible) ELSE Asked)

\* resolveTransientOverrides
Resolved(w, start, kind) ==
  LET next(o) == {c \in (Possible \cap kind) \ {w, o} :
                    Parent(c) = IF o = None THEN w ELSE o}
      step(o) == IF next(o) = {} THEN o ELSE Best(next(o))
  IN  Iterate(step, start)

\* is_good_override_candidate
Good(w) == {o \in OfApp(App[w]) : o # w}

OverrideOf(w) ==
  LET redirect == Resolved(w, Best(Good(w) \cap Redirect), Redirect)
      fake == IF App[w] \in Range(control)
              THEN Best({o \in Good(w) : MayDrop(o)}) ELSE None
  IN  IF w = None THEN None
      ELSE IF redirect # None THEN redirect
      ELSE Resolved(w, fake, Redirect \cup Dropdown)

-----------------------------------------------------------------------------
(* X events.                                                               *)

Main(w) == IF w # None /\ win[w].wl \in made THEN win[w].wl ELSE 0

Counted == events < Events /\ events' = events + 1
XEvent == pass.pc = "idle" /\ Counted

Newest(field(_)) == Max({0} \cup {field(w) : w \in Known})
Stamp(w) == win[w].stamp
Damage(w) == win[w].damage

\* events between two requests of the compositor have one serial
Mapped(w) ==
  \E s \in {Newest(Stamp), Newest(Stamp) + 1} :
    win' = [win EXCEPT ![w].mapped = TRUE, ![w].stamp = s, ![w].damage = 0]

AddWin(w) ==
  /\ XEvent /\ w \notin Known
  /\ list' = <<w>> \o list
  /\ dirty' = TRUE
  /\ \/ win' = [win EXCEPT ![w] = [Blank EXCEPT !.linked = Owner[w] # None]]
     \/ \E s \in {Newest(Stamp), Newest(Stamp) + 1} :
          win' = [win EXCEPT ![w] = [Blank EXCEPT !.linked = Owner[w] # None,
                                       !.mapped = TRUE, !.stamp = s]]
  /\ UNCHANGED <<control, local, focus, pass, made, ids, seat, late, silent>>

MapWin(w) ==
  /\ XEvent /\ w \in Known /\ ~win[w].mapped
  /\ Mapped(w) /\ dirty' = TRUE
  /\ UNCHANGED <<list, control, local, focus, pass, made, ids, seat, late, silent>>

UnmapWin(w) ==
  /\ XEvent /\ w \in Known /\ win[w].mapped
  /\ win' = [win EXCEPT ![w].mapped = FALSE] /\ dirty' = TRUE
  /\ UNCHANGED <<list, control, local, focus, pass, made, ids, seat, late, silent>>

\* the pointers to it go, but for keyboardFocusWindow
DestroyWin(w) ==
  /\ XEvent /\ w \in Known
  /\ list' = RemoveAt(list, Place(w))
  /\ win' = [win EXCEPT ![w] = Blank]
  /\ local' = IF local = w THEN None ELSE local
  /\ focus' = [f \in DOMAIN focus |->
                 IF f # "keyboard" /\ focus[f] = w THEN None ELSE focus[f]]
  /\ dirty' = TRUE
  /\ late' = late \ {w}
  /\ UNCHANGED <<control, pass, made, ids, seat, silent>>

\* to the top or to the bottom
RestackWin(w) ==
  /\ XEvent /\ w \in Known
  /\ LET others == RemoveAt(list, Place(w))
     IN  \E i \in {1, Len(list)} \ {Place(w)} : list' = InsertAt(others, i, w)
  /\ dirty' = TRUE
  /\ UNCHANGED <<win, control, local, focus, pass, made, ids, seat, late, silent>>

DamageWin(w) ==
  /\ XEvent /\ w \in Known \ {Overlay}
  /\ win' = [win EXCEPT ![w].damage = Newest(Damage) + 1]
  /\ dirty' = (dirty \/ (win[w].mapped /\ (win[w].damage = 0 \/ local \notin {None, w})))
  /\ UNCHANGED <<list, control, local, focus, pass, made, ids, seat, late, silent>>

Notified(w) ==
  /\ XEvent /\ w \in Known /\ dirty' = TRUE
  /\ UNCHANGED <<list, control, local, focus, pass, made, ids, seat, late, silent>>

\* handle_net_wm_state, or the property hwndStyle
StyleNotify(w) == Notified(w) /\ w # Overlay /\ win' = [win EXCEPT ![w].demoted = ~@]

\* properties are not notified of an unmapped window
TransientNotify(w) ==
  /\ Notified(w) /\ win[w].mapped /\ Owner[w] # None
  /\ win' = [win EXCEPT ![w].linked = ~@]

\* STEAM_INPUT_FOCUS
ModeNotify ==
  /\ Overlay # None /\ Notified(Overlay) /\ win[Overlay].mapped
  /\ \E m \in 0..2 : win' = [win EXCEPT ![Overlay].mode = m]

OpacityNotify(w) ==
  /\ XEvent /\ w \in Known \ {Overlay} /\ win[w].mapped
  /\ win' = [win EXCEPT ![w].hidden = ~@]
  /\ silent' = TRUE
  /\ UNCHANGED <<list, control, local, focus, dirty, pass, made, ids, seat, late>>

ControlNotify ==
  /\ XEvent /\ control' \in Controls /\ dirty' = TRUE
  /\ UNCHANGED <<list, win, local, focus, pass, made, ids, seat, late, silent>>

-----------------------------------------------------------------------------
(* Surfaces.                                                               *)

\* Fault: the pointer is not told either.
TellsNobody(w, s) == UNCHANGED seat

\* handle_wl_surface_id: "If we already focused on our side"
Tells(w, s) ==
  LET kb == IF focus.input # None /\ win[focus.input].mode = 2
            THEN focus.window ELSE focus.input
  IN  seat' = [pointer |-> IF w = focus.input THEN s ELSE seat.pointer,
               keyboard |-> IF w = kb THEN s ELSE seat.keyboard]

SurfaceId(w) ==
  /\ XEvent /\ w \in Known /\ ids < Surfaces
  /\ ids' = ids + 1
  /\ win' = [win EXCEPT ![w].wl = ids + 1]
  /\ late' = late \ {w}
  /\ \/ made' = made \cup {ids + 1} /\ Tells(w, ids + 1)
     \/ UNCHANGED <<made, seat>>
  /\ UNCHANGED <<list, control, local, focus, dirty, pass, silent>>

\* the Wayland server's thread
NewSurface(w) ==
  /\ win[w].wl \notin made \cup {0}
  /\ made' = made \cup {win[w].wl}
  /\ late' = late \cup {w}
  /\ UNCHANGED <<list, win, control, local, focus, dirty, pass, ids, seat, silent, events>>

SurfaceDestroyed(s) ==
  /\ Counted
  /\ made' = made \ {s}
  /\ win' = [w \in Windows |-> IF win[w].wl = s THEN [win[w] EXCEPT !.wl = 0] ELSE win[w]]
  /\ seat' = [f \in DOMAIN seat |-> IF seat[f] = s THEN 0 ELSE seat[f]]
  /\ late' = {w \in late : win[w].wl # s}
  /\ UNCHANGED <<list, control, local, focus, dirty, pass, ids, silent>>

\* handle_done_commit, for the first of a window, while it has a surface
DoneCommit(w) ==
  /\ pass.pc = "idle" /\ Main(w) # 0 /\ ~win[w].done
  /\ win' = [win EXCEPT ![w].done = TRUE, ![w].outdated = FALSE]
  /\ dirty' = (dirty \/ win[w].outdated)
  /\ UNCHANGED <<list, control, local, focus, pass, made, ids, seat, late, silent, events>>

-----------------------------------------------------------------------------
(* determine_and_apply_focus.                                              *)

Input(window) ==
  IF Overlay \in Known /\ win[Overlay].mode # 0 THEN Overlay ELSE window
Keyboard(window, override) ==
  IF Overlay \in Known /\ win[Overlay].mode = 1 THEN Overlay
  ELSE IF override # None THEN override ELSE window

\* Fault: nothing recalls the choice.
MarkedNever(S) == {}

\* outdatedInteractiveFocus: chosen with nothing to show
Marked(S) == {w \in S \ {None} : ~win[w].done}

\* a window with nothing to show leaves the one before
Choose ==
  LET c == Chosen(TRUE)
      here == Chosen(FALSE)
      marked == Marked({c, here})
      window == IF c # None /\ win[c].done THEN c ELSE focus.window
      override == OverrideOf(c)
  IN  /\ pass.pc = "idle" /\ dirty
      /\ local' = IF here = None THEN local ELSE here
      /\ focus' = [window |-> window, override |-> override,
                   input |-> Input(window), keyboard |-> Keyboard(window, override)]
      /\ win' = [w \in Windows |-> IF w \in marked THEN [win[w] EXCEPT !.outdated = TRUE]
                                                   ELSE win[w]]
      /\ pass' = [pc |-> "keyboard", override |-> focus.override,
                  input |-> focus.input, keyboard |-> focus.keyboard]
      /\ silent' = FALSE
      /\ UNCHANGED <<list, control, dirty, made, ids, seat, late, events>>

TellKeyboard ==
  /\ pass.pc = "keyboard" /\ pass' = [pass EXCEPT !.pc = "pointer"]
  /\ seat' = IF focus.keyboard # pass.keyboard /\ Main(focus.keyboard) # 0
             THEN [seat EXCEPT !.keyboard = Main(focus.keyboard)] ELSE seat
  /\ UNCHANGED <<list, win, control, local, focus, dirty, made, ids, late, silent, events>>

TellPointer ==
  LET tells == /\ focus.input # pass.input \/ focus.override # pass.override
               /\ Main(focus.input) # 0
  IN  /\ pass.pc = "pointer"
      /\ pass' = [pc |-> "idle", override |-> None, input |-> None, keyboard |-> None]
      /\ seat' = IF tells THEN [seat EXCEPT !.pointer = Main(focus.input)] ELSE seat
      /\ dirty' = FALSE
      /\ UNCHANGED <<list, win, control, local, focus, made, ids, late, silent, events>>

Next ==
  \/ \E w \in Windows :
       \/ AddWin(w) \/ MapWin(w) \/ UnmapWin(w) \/ DestroyWin(w) \/ RestackWin(w)
       \/ DamageWin(w) \/ StyleNotify(w) \/ TransientNotify(w) \/ OpacityNotify(w)
       \/ SurfaceId(w) \/ NewSurface(w) \/ DoneCommit(w)
  \/ \E s \in made : SurfaceDestroyed(s)
  \/ ModeNotify \/ ControlNotify \/ Choose \/ TellKeyboard \/ TellPointer

Spec == Init /\ [][Next]_vars

-----------------------------------------------------------------------------
(* Properties.                                                             *)

Settled == pass.pc = "idle" /\ ~dirty

\* The focus is what a new choice would make it: whatever can change the choice has
\* marked the focus, and a window that was passed over because it had nothing to
\* show is marked, so that its first commit brings it up.  A change of opacity is
\* left out (OpacityNotify).
FocusIsChosen ==
  Settled /\ ~silent =>
    LET c == Chosen(TRUE)
    IN  /\ c # None => \/ win[c].done /\ focus.window = c
                       \/ ~win[c].done /\ win[c].outdated
        /\ focus.override = OverrideOf(c)

\* The pointer is on the surface of the window that has the input focus, in
\* whatever order the window, its surface and the surface's id came, unless the
\* surface came after its id.
PointerFollows ==
  Settled /\ Main(focus.input) # 0 /\ focus.input \notin late =>
    seat.pointer = Main(focus.input)
=============================================================================
