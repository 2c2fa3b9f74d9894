------------------------------ MODULE LedsPage ------------------------------
(***************************************************************************)
(* The page of pwmBuffer between its writer and its readers.  currentPage  *)
(* is always 0 (ledpwm.cpp): while the channels send the rows of the page, *)
(* the loop computes the next picture, and convert() writes it into the    *)
(* same rows, port after port, through prepare().  FrameTiming says when   *)
(* transfer() and the work happen; its unit of time is here the element, a *)
(* period of the PWM, so that Flight is the length of a row.               *)
(*                                                                         *)
(* A row holds, of each element, the age of the picture it belongs to: 0   *)
(* is the picture of the frame under way, 1 that of the frame before.  How *)
(* fast the loop converts is left open, but for this: inside prepare() it  *)
(* writes at least an element in the time the PWM takes for one (an        *)
(* element is a few instructions of the 600 MHz core, and 1.25 us of the   *)
(* PWM).  Between two calls of prepare() it computes colours for any time. *)
(***************************************************************************)
EXTENDS FrameTiming

CONSTANTS
  PortCount,  \* the ports are 0..PortCount - 1
  Pad,        \* half of frontTailPadding, the zeros before and after the data
  Len         \* elements of LED data of each port

Ports    == 0..PortCount - 1
Elements == 0..Flight - 1

(* What prepare() writes of the row of a port. *)
RowLen(c) == Pad + Len[c] + Pad

IsData(c, i) == i \in Pad..Pad + Len[c] - 1

ASSUME PageAssumption ==
  /\ PortCount \in Nat \ {0} /\ Pad \in Nat \ {0}
  /\ Len \in [Ports -> Nat]
  /\ \A c \in Ports : RowLen(c) <= Flight

VARIABLES
  page,      \* the age of each element of each port
  wire,      \* the age of the last LED data a port has sent
  port, pos  \* how far convert() is: the port, and the element in its row

pageVars == <<timing, page, wire, port, pos>>

Oldest == 3

Older(age) == IF age < Oldest THEN age + 1 ELSE age

(* Bug: totalPortCount is one short. *)
WrittenButTheRing(c, i, q, m) ==
  c # PortCount - 1 /\ ((c < q /\ i < RowLen(c)) \/ (c = q /\ i < m))

(* convert() at element m of port q has written element i of port c. *)
Written(c, i, q, m) == (c < q /\ i < RowLen(c)) \/ (c = q /\ i < m)

(* LedsPWMDMA::init clears pwmBuffer: the first picture is dark. *)
PageInit ==
  /\ Init
  /\ page = [c \in Ports |-> [i \in Elements |-> 0]]
  /\ wire = [c \in Ports |-> 0]
  /\ port = PortCount /\ pos = 0

-----------------------------------------------------------------------------
(* Where convert() may be a unit of time later: before it has begun or     *)
(* between two rows it may stay, in a row it gets on, and at the end of    *)
(* the frame's work it is done.                                            *)

(* Bug: prepare() may be as slow as the PWM. *)
ProgressSlowly(q, m) ==
  IF work = 0 THEN q = port /\ m = pos
  ELSE /\ work = 1 => q = PortCount
       /\ IF q = PortCount THEN m = 0 ELSE m < RowLen(q)
       /\ q = port => m >= pos

Progress(q, m) ==
  IF work = 0 THEN q = port /\ m = pos
  ELSE /\ work = 1 => q = PortCount
       /\ IF q = PortCount THEN m = 0 ELSE m < RowLen(q)
       /\ q = port => m > pos \/ (m = 0 /\ pos = 0)

Filled(q, m) ==
  [c \in Ports |-> [i \in Elements |-> IF Written(c, i, q, m) THEN 0 ELSE page[c][i]]]

(* The element each channel in flight moves to its PWM. *)
Sent(rows) ==
  [c \in Ports |-> IF flight > 0 /\ IsData(c, since) THEN rows[c][since] ELSE wire[c]]

(* transfer(): the picture of the frame under way becomes the last one. *)
Turn(rows, sent) ==
  /\ page' = [c \in Ports |-> [i \in Elements |-> Older(rows[c][i])]]
  /\ wire' = [c \in Ports |-> Older(sent[c])]
  /\ port' = 0 /\ pos' = 0

(* One element's time: the loop writes, the channels read, and then a      *)
(* frame may begin.                                                        *)
ElementPasses ==
  /\ TimePasses
  /\ \E q \in port..PortCount, m \in Elements :
       /\ Progress(q, m)
       /\ LET rows == Filled(q, m)
          IN  IF since' = 0
              THEN Turn(rows, Sent(rows))
              ELSE page' = rows /\ wire' = Sent(rows) /\ port' = q /\ pos' = m

(* An interrupt that starts a frame between two elements, or none.         *)
FrameByOtherIRQ ==
  /\ OtherIRQHandler
  /\ IF effectReady THEN Turn(page, wire) ELSE UNCHANGED <<page, wire, port, pos>>

PageNext == ElementPasses \/ FrameByOtherIRQ

PageSpec == PageInit /\ [][PageNext]_pageVars

-----------------------------------------------------------------------------
PageTypeOK ==
  /\ TypeOK
  /\ page \in [Ports -> [Elements -> 0..Oldest]]
  /\ wire \in [Ports -> 0..Oldest]
  /\ port \in 0..PortCount /\ pos \in Elements

(* Although convert() overwrites what is being sent, a port never goes     *)
(* back to an older picture: in a transmission its data is that of the     *)
(* last picture up to some element and that of the next from there, and    *)
(* no transmission begins with an older picture than the one before ended  *)
(* with.  So at most one LED of a port is torn in a frame.                 *)
PicturesStayInOrder ==
  [][ \A c \in Ports :
        wire'[c] <= IF since' = 0 THEN Older(wire[c]) ELSE wire[c] ]_pageVars

(* No data older than the picture of the frame before is ever sent, also   *)
(* by a transmission off the grid: each frame rewrites the data of all     *)
(* ports before the next transfer().                                       *)
NothingOldIsSent ==
  [][ \A c \in Ports :
        flight > 0 /\ IsData(c, since) /\ phase' # phase =>
          wire'[c] <= IF since' = 0 THEN Older(1) ELSE 1 ]_pageVars
-----------------------------------------------------------------------------
(* The inductive invariant: the data of the page is as old as convert()'s  *)
(* progress says, and convert() is ahead of a channel that has sent        *)
(* anything it wrote in this frame.                                        *)
ConvertIsDone ==
  /\ work = 0 => port = PortCount
  /\ IF port = PortCount THEN pos = 0 ELSE pos < RowLen(port)

PageIsFresh ==
  \A c \in Ports : \A i \in Elements :
    IsData(c, i) => page[c][i] = IF Written(c, i, port, pos) THEN 0 ELSE 1

ConvertIsAhead ==
  \A c \in Ports : wire[c] = 0 => c < port \/ (c = port /\ 0 < pos /\ since <= pos)

PageInv == PageTypeOK /\ ConvertIsDone /\ PageIsFresh /\ ConvertIsAhead
=============================================================================
