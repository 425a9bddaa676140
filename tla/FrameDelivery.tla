--------------------------- MODULE FrameDelivery ---------------------------
(***************************************************************************)
(* What gamescope promises the clients whose frames it shows, whichever    *)
(* threads and queues are between: frames of a window are latched in the   *)
(* order they were committed, some are passed over; the newest latched one *)
(* of a window is what is shown for it; a buffer returns to its client     *)
(* when its frame is over and not shown; and frame callbacks answer what   *)
(* was latched or discarded.  CommitQueue implements it.                   *)
(***************************************************************************)
EXTENDS Integers, Sequences

CONSTANTS Wins, Ids  \* the windows, and the numbers of frames

VARIABLES
  sent,    \* the window of each frame that was committed
  status,  \* of each frame: pending, latched or over
  open,    \* windows that exist
  shown,   \* the frame that is shown, or 0
  kept,    \* frames whose buffer gamescope keeps
  owed,    \* frames whose callback was not sent
  ready    \* windows with a frame latched or discarded since they were answered

vars == <<sent, status, open, shown, kept, owed, ready>>

Init ==
  /\ sent = <<>> /\ status = <<>> /\ open = Wins /\ shown = 0
  /\ kept = {} /\ owed = {} /\ ready = {}

\* Buffers that return with this step: of frames that are over, and not shown.
Returns ==
  /\ kept' \subseteq kept
  /\ \A c \in kept \ kept' : status'[c] = "over" /\ shown' # c

Send(w) ==
  /\ w \in open
  /\ sent' = Append(sent, w) /\ status' = Append(status, "pending")
  /\ kept' = kept \cup {Len(sent')} /\ owed' = owed \cup {Len(sent')}
  /\ UNCHANGED <<open, shown, ready>>

\* A frame is latched, and those of its window before it are over.
Latch(c) ==
  /\ status[c] = "pending"
  /\ \A d \in DOMAIN sent : sent[d] = sent[c] /\ status[d] = "latched" => d < c
  /\ status' = [d \in DOMAIN status |->
                  IF d = c THEN "latched"
                  ELSE IF sent[d] = sent[c] /\ d < c THEN "over" ELSE status[d]]
  /\ shown' \in {shown, c}
  /\ ready' = ready \cup {sent[c]}
  /\ Returns
  /\ UNCHANGED <<sent, open, owed>>

\* A frame is not used at all; some that are count as complete.
Drop(c) ==
  /\ status[c] = "pending"
  /\ status' = [status EXCEPT ![c] = "over"]
  /\ ready' \in {ready, ready \cup {sent[c]}}
  /\ Returns
  /\ UNCHANGED <<sent, open, shown, owed>>

\* Another window is shown.
Show(c) ==
  /\ status[c] = "latched"
  /\ shown' = c
  /\ Returns
  /\ UNCHANGED <<sent, status, open, owed, ready>>

Answer ==
  /\ ready' \subseteq ready
  /\ owed' = {c \in owed : sent[c] \notin ready \ ready'}
  /\ UNCHANGED <<sent, status, open, shown, kept>>

Close(w) ==
  /\ w \in open /\ open' = open \ {w}
  /\ status' = [c \in DOMAIN status |-> IF sent[c] = w THEN "over" ELSE status[c]]
  /\ owed' = {c \in owed : sent[c] # w} /\ ready' = ready \ {w}
  /\ Returns
  /\ UNCHANGED <<sent, shown>>

Free == Returns /\ UNCHANGED <<sent, status, open, shown, owed, ready>>

Next ==
  \/ \E w \in Wins : Send(w) \/ Close(w)
  \/ \E c \in DOMAIN sent : Latch(c) \/ Drop(c) \/ Show(c)
  \/ Answer \/ Free

Spec == Init /\ [][Next]_vars

-----------------------------------------------------------------------------
(* What must happen in the end.                                            *)

Is(c, what) == c \in DOMAIN status /\ status[c] = what

\* Every frame is latched, or over.
Resolved == \A c \in Ids : Is(c, "pending") ~> ~Is(c, "pending")

\* A window that has something to be answered for is.
Answered == \A c \in Ids : (c \in owed /\ sent[c] \in ready) ~> c \notin owed

\* The buffer of a frame that is over returns, unless it is still shown.
Returned == \A c \in Ids : Is(c, "over") ~> (c \notin kept \/ shown = c)

Promises == Resolved /\ Answered /\ Returned
=============================================================================
