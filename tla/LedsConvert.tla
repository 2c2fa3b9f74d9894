---------------------------- MODULE LedsConvert ----------------------------
(***************************************************************************)
(* Leds::convert (leds.cpp) and LedsPWMDMA::prepare (ledpwm.cpp): from the *)
(* colours of the LEDs to the rows of compare values that go out on the    *)
(* wire.  The bytes of a port are put together in one static array, which  *)
(* all ports share, and prepare() turns each bit of it into an element of  *)
(* the port's row, between two paddings.  The layout is that Leds::init    *)
(* makes of its tables; the two headers give array and row their size.     *)
(*                                                                         *)
(* A colour is a name: the LED, the picture it was painted for, and the    *)
(* bit of one of its channels.  The arithmetic from colour to pixel is not *)
(* modelled, nor is the time convert() takes (LedsPage is about that).     *)
(***************************************************************************)
EXTENDS Integers, Sequences
LOCAL INSTANCE SequencesExt

CONSTANTS
  strip_setup,      \* the segments of each strip, as their numbers of LEDs
  maxLedsPerPort,   \* Leds::maxLedsPerPort, also the LEDs of the ring
  frontTailPadding  \* LedsPWMDMA::frontTailPadding

circleLeds == maxLedsPerPort

(* Bug: the array and the rows are sized for four bytes an LED, the number  *)
(* leds.h:49 gives a WS2812, and a WS2816 writes six.                       *)
maxBytesPerFourByteLed == 4

maxBytesPerLed == 6

stripBytes == ((maxLedsPerPort * maxBytesPerLed + 31) \div 32) * 32

-----------------------------------------------------------------------------
(* Leds::init: a port for each strip, then one for the ring. *)
totalPortCount == Len(strip_setup) + 1

Ports == 0..totalPortCount - 1

LedsOn(strip) == FoldLeft(+, 0, strip)

ports ==
  [p \in Ports |->
     IF p < Len(strip_setup) THEN [type |-> "WS2816", count |-> LedsOn(strip_setup[p + 1])]
     ELSE [type |-> "WS2812", count |-> circleLeds]]

ASSUME LayoutAssumption ==
  /\ maxLedsPerPort \in Nat /\ frontTailPadding \in Nat
  /\ \A n \in 1..Len(strip_setup) : LedsOn(strip_setup[n]) \in 0..maxLedsPerPort
  /\ strip_setup \in Seq(Seq(Nat))

-----------------------------------------------------------------------------
DataLen  == maxLedsPerPort * maxBytesPerLed
RowLen   == stripBytes * 8 + frontTailPadding
Padding  == frontTailPadding \div 2

Low == <<>>  \* a compare value of 0: no pulse

VARIABLES
  picture,   \* which picture the colours of the LEDs belong to
  c, d,      \* the port and the LED convert() is at
  ptr,       \* the bytes of the port written so far
  data,      \* the static array
  pwmBuffer  \* the row of each port

vars == <<picture, c, d, ptr, data, pwmBuffer>>

Pictures == 0..1  \* the bound: pictures are told apart modulo two

(* Bytes of an LED in the order they are sent: channel, and position of its *)
(* lowest bit in the pixel.                                                 *)
Bytes(type) ==
  IF type = "WS2816"
  THEN << <<"g", 8>>, <<"g", 0>>, <<"r", 8>>, <<"r", 0>>, <<"b", 8>>, <<"b", 0>> >>
  ELSE << <<"g", 0>>, <<"r", 0>>, <<"b", 0>> >>

BytesPerLed(p) == Len(Bytes(ports[p].type))

(* Bug: the least significant bit first. *)
BitBackwards(byte, b) == <<byte[1], byte[2], byte[3], byte[4][1], byte[4][2] + b>>

(* Bit 7 - b of a byte, the element convert_to_one_wire_pwm makes of it. *)
Bit(byte, b) == <<byte[1], byte[2], byte[3], byte[4][1], byte[4][2] + 7 - b>>

-----------------------------------------------------------------------------
(* The first frame converts what init and the first effect have painted, *)
(* over rows and an array of zeros.                                       *)
Init ==
  /\ picture = 0 /\ c = 0 /\ d = 0 /\ ptr = 0
  /\ data = [i \in 0..DataLen - 1 |-> Low]
  /\ pwmBuffer = [p \in Ports |-> [i \in 0..RowLen - 1 |-> Low]]

(* The loop of convert() over the LEDs of a port: convertPixel. *)
ConvertPixel ==
  /\ c < totalPortCount
  /\ d < ports[c].count
  /\ data' = [i \in DOMAIN data |->
                IF i \in ptr..ptr + BytesPerLed(c) - 1
                THEN <<c, d, picture, Bytes(ports[c].type)[i - ptr + 1]>>
                ELSE data[i]]
  /\ ptr' = ptr + BytesPerLed(c)
  /\ d' = d + 1
  /\ UNCHANGED <<picture, c, pwmBuffer>>

(* Bug: prepare() is given the array rather than the port's part of it. *)
PreparedOfArray(row) ==
  [i \in DOMAIN row |->
     LET n == i - Padding IN
     IF n \in 0..8 * DataLen - 1 /\ data[n \div 8] # Low
     THEN Bit(data[n \div 8], n % 8) ELSE Low]

(* prepare(): a padding, the bits of the array up to ptr, a padding. *)
Prepared(row) ==
  [i \in DOMAIN row |->
     LET n == i - Padding IN
     IF n \in 0..8 * ptr - 1 THEN Bit(data[n \div 8], n % 8)
     ELSE IF n \in -Padding..8 * ptr + Padding - 1 THEN Low
     ELSE row[i]]

(* The port is converted: its row is written, and the array is used again *)
(* from its beginning for the next port.                                  *)
Prepare ==
  /\ c < totalPortCount
  /\ d = ports[c].count
  /\ pwmBuffer' = [pwmBuffer EXCEPT ![c] = Prepared(@)]
  /\ c' = c + 1
  /\ d' = 0
  /\ ptr' = 0
  /\ UNCHANGED <<picture, data>>

(* The next frame paints its picture and calls convert() again. *)
NextFrame ==
  /\ c = totalPortCount
  /\ picture' \in Pictures
  /\ c' = 0
  /\ UNCHANGED <<d, ptr, data, pwmBuffer>>

Next == ConvertPixel \/ Prepare \/ NextFrame

Spec == Init /\ [][Next]_vars

-----------------------------------------------------------------------------
(* Neither loop leaves what it writes: the bytes of a port stay in the     *)
(* static array and its row, with both paddings, in its part of pwmBuffer. *)
(* Nothing in the code checks either; the sizes come from two headers and  *)
(* the counts from the tables (leds.cpp:150, ledpwm.cpp:114).              *)
WritesStayInside ==
  /\ ptr <= DataLen
  /\ Padding + 8 * ptr + Padding <= RowLen

(* What the chain of LEDs on a port makes of its row: behind the padding,  *)
(* each LED takes the next three channels, green first, of as many bits as *)
(* its type has, the highest first.                                        *)
ChannelsOfAnLed == <<"g", "r", "b">>

Depth(p) == IF ports[p].type = "WS2816" THEN 16 ELSE 8

Received(p, led, k, bit) ==
  pwmBuffer[p][Padding + (3 * led + k) * Depth(p) + Depth(p) - 1 - bit]

(* When a port has been converted, and until the frame ends, every LED on  *)
(* it and on the ports before it receives its own colour of this picture:  *)
(* never that of another LED, of another port (the array is shared) or of  *)
(* an earlier picture, and no bit of another significance.                 *)
EveryLedGetsItsColour ==
  d = 0 => \A p \in 0..c - 1 : \A led \in 0..ports[p].count - 1, k \in 0..2, bit \in 0..Depth(p) - 1 :
    Received(p, led, k, bit) = <<p, led, picture, ChannelsOfAnLed[k + 1], bit>>

(* Before the first LED's bits and behind the last one's a row has no      *)
(* pulse, whatever ports and frames were converted before: the chain       *)
(* latches, and no LED beyond the count is lit (ledpwm.cpp:119, 138).      *)
NothingAroundTheLeds ==
  d = 0 => \A p \in 0..c - 1 : \A i \in 0..RowLen - 1 :
    i \notin Padding..Padding + 3 * ports[p].count * Depth(p) - 1 => pwmBuffer[p][i] = Low

(* The comment on maxBytesPerLed, "WS2816 has 6 bytes, WS2812 has 4"        *)
(* (leds.h:49), of what convert() has written when the LEDs of a port are   *)
(* done.  The code does otherwise: it writes a WS2812 three, green, red and *)
(* blue (leds.cpp:135-140), which is what EveryLedGetsItsColour asks for.   *)
BytesAreAsDocumented ==
  c < totalPortCount /\ d = ports[c].count
    => ptr = d * (IF ports[c].type = "WS2816" THEN 6 ELSE 4)
=============================================================================
