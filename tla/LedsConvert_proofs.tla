------------------------- MODULE LedsConvert_proofs -------------------------
(***************************************************************************)
(* For every layout whose strips fit on a port: the conversion stays in    *)
(* its arrays, and each LED receives its own colour and nothing else.      *)
(***************************************************************************)
EXTENDS LedsConvert, TLAPS

USE DEF Pictures

(* The sizes the headers give, and the layout init makes. *)
LEMMA Sizes ==
  /\ DataLen \in Nat /\ DataLen = 6 * maxLedsPerPort
  /\ RowLen \in Nat /\ Padding \in Nat
  /\ Padding + 8 * DataLen + Padding <= RowLen
<1>1. maxLedsPerPort \in Nat /\ frontTailPadding \in Nat  BY LayoutAssumption
<1>2. DataLen \in Nat /\ DataLen = 6 * maxLedsPerPort  BY <1>1 DEF DataLen, maxBytesPerLed
<1>3. stripBytes \in Nat /\ stripBytes >= DataLen
  BY <1>1, <1>2 DEF stripBytes, DataLen, maxBytesPerLed
<1>4. Padding \in Nat /\ 2 * Padding <= frontTailPadding  BY <1>1 DEF Padding
<1> QED  BY <1>1, <1>2, <1>3, <1>4 DEF RowLen

LEMMA Layout ==
  /\ totalPortCount \in Nat
  /\ \A p \in Ports : /\ ports[p].type \in {"WS2816", "WS2812"}
                      /\ ports[p].count \in 0..maxLedsPerPort
<1>1. Len(strip_setup) \in Nat  BY LayoutAssumption
<1>2. circleLeds \in 0..maxLedsPerPort  BY LayoutAssumption DEF circleLeds
<1>3. ASSUME NEW p \in Ports
      PROVE  ports[p].type \in {"WS2816", "WS2812"} /\ ports[p].count \in 0..maxLedsPerPort
  <2>1. CASE p < Len(strip_setup)
    <3>1. p + 1 \in 1..Len(strip_setup)  BY <1>1, <2>1, <1>3 DEF Ports, totalPortCount
    <3>2. LedsOn(strip_setup[p + 1]) \in 0..maxLedsPerPort  BY <3>1, LayoutAssumption
    <3>3. ports[p] = [type |-> "WS2816", count |-> LedsOn(strip_setup[p + 1])]
      BY <1>3, <2>1 DEF ports
    <3> QED  BY <3>2, <3>3
  <2>2. CASE ~(p < Len(strip_setup))
    <3>1. ports[p] = [type |-> "WS2812", count |-> circleLeds]  BY <1>3, <2>2 DEF ports
    <3> QED  BY <3>1, <1>2
  <2> QED  BY <2>1, <2>2
<1> QED  BY <1>1, <1>3 DEF totalPortCount

(* How many bytes an LED takes, and which byte holds which bit of which    *)
(* channel.                                                                *)
LEMMA LongLed ==
  /\ Len(Bytes("WS2816")) = 6
  /\ \A k \in 0..2 : /\ Bytes("WS2816")[2 * k + 1] = <<ChannelsOfAnLed[k + 1], 8>>
                     /\ Bytes("WS2816")[2 * k + 2] = <<ChannelsOfAnLed[k + 1], 0>>
<1>1. Len(Bytes("WS2816")) = 6  BY DEF Bytes
<1>2. ASSUME NEW k \in 0..2
      PROVE  /\ Bytes("WS2816")[2 * k + 1] = <<ChannelsOfAnLed[k + 1], 8>>
             /\ Bytes("WS2816")[2 * k + 2] = <<ChannelsOfAnLed[k + 1], 0>>
  <2>1. CASE k = 0  BY <2>1 DEF Bytes, ChannelsOfAnLed
  <2>2. CASE k = 1  BY <2>2 DEF Bytes, ChannelsOfAnLed
  <2>3. CASE k = 2  BY <2>3 DEF Bytes, ChannelsOfAnLed
  <2> QED  BY <1>2, <2>1, <2>2, <2>3
<1> QED  BY <1>1, <1>2

LEMMA ShortLed ==
  /\ Len(Bytes("WS2812")) = 3
  /\ \A k \in 0..2 : Bytes("WS2812")[k + 1] = <<ChannelsOfAnLed[k + 1], 0>>
<1>1. Len(Bytes("WS2812")) = 3  BY DEF Bytes
<1>2. ASSUME NEW k \in 0..2
      PROVE  Bytes("WS2812")[k + 1] = <<ChannelsOfAnLed[k + 1], 0>>
  <2>1. CASE k = 0  BY <2>1 DEF Bytes, ChannelsOfAnLed
  <2>2. CASE k = 1  BY <2>2 DEF Bytes, ChannelsOfAnLed
  <2>3. CASE k = 2  BY <2>3 DEF Bytes, ChannelsOfAnLed
  <2> QED  BY <1>2, <2>1, <2>2, <2>3
<1> QED  BY <1>1, <1>2

-----------------------------------------------------------------------------
(* The invariant of the two loops: where they are, what the array holds of *)
(* the port under way, and that the rows behind them are right.            *)
WhereItIs ==
  /\ c \in 0..totalPortCount /\ d \in Nat /\ ptr \in Nat /\ picture \in Pictures
  /\ c = totalPortCount => d = 0 /\ ptr = 0
  /\ c < totalPortCount =>
       /\ d <= ports[c].count
       /\ ports[c].type = "WS2816" => ptr = 6 * d
       /\ ports[c].type = "WS2812" => ptr = 3 * d

Arrays ==
  /\ DOMAIN data = 0..DataLen - 1
  /\ DOMAIN pwmBuffer = Ports
  /\ \A p \in Ports : DOMAIN pwmBuffer[p] = 0..RowLen - 1

(* The bytes of the LEDs converted so far, one behind the other. *)
BytesSoFar ==
  c < totalPortCount =>
    \A led \in 0..d - 1 :
      /\ ports[c].type = "WS2816" =>
           \A k \in 0..5 : data[6 * led + k] = <<c, led, picture, Bytes("WS2816")[k + 1]>>
      /\ ports[c].type = "WS2812" =>
           \A k \in 0..2 : data[3 * led + k] = <<c, led, picture, Bytes("WS2812")[k + 1]>>

RowIsRight(p) ==
  \A led \in 0..ports[p].count - 1, k \in 0..2, bit \in 0..Depth(p) - 1 :
    Received(p, led, k, bit) = <<p, led, picture, ChannelsOfAnLed[k + 1], bit>>

RowIsClean(p) ==
  \A i \in 0..RowLen - 1 :
    i \notin Padding..Padding + 3 * ports[p].count * Depth(p) - 1 => pwmBuffer[p][i] = Low

(* Outside of its own LEDs no row has ever held a pulse; the first frame   *)
(* finds it so, and the counts never change.                               *)
ConvertInv ==
  /\ WhereItIs /\ Arrays /\ BytesSoFar
  /\ \A p \in 0..c - 1 : RowIsRight(p)
  /\ \A p \in Ports : RowIsClean(p)

(* The invariant gives the bounds: a port's LEDs are at most as many as    *)
(* the array was made for.                                                 *)
LEMMA Bounds == WhereItIs => WritesStayInside
<1> SUFFICES ASSUME WhereItIs PROVE ptr <= DataLen /\ ptr \in Nat
  BY Sizes DEF WritesStayInside
<1>1. CASE c = totalPortCount  BY <1>1, Sizes DEF WhereItIs
<1>2. CASE c < totalPortCount
  <2>1. c \in Ports  BY <1>2, Layout DEF WhereItIs, Ports
  <2>2. d \in 0..maxLedsPerPort  BY <1>2, <2>1, Layout, LayoutAssumption DEF WhereItIs
  <2>3. ports[c].type \in {"WS2816", "WS2812"}  BY <2>1, Layout
  <2>4. ptr = 6 * d \/ ptr = 3 * d  BY <1>2, <2>3 DEF WhereItIs
  <2> QED  BY <2>2, <2>4, Sizes, LayoutAssumption
<1> QED  BY <1>1, <1>2, Layout DEF WhereItIs

LEMMA ConvertInit == Init => ConvertInv
<1> SUFFICES ASSUME Init PROVE ConvertInv  OBVIOUS
<1>1. WhereItIs  BY Layout DEF Init, WhereItIs, Ports
<1>2. Arrays  BY DEF Init, Arrays
<1>3. BytesSoFar  BY DEF Init, BytesSoFar
<1>4. \A p \in 0..c - 1 : RowIsRight(p)  BY DEF Init
<1>5. \A p \in Ports : RowIsClean(p)  BY DEF Init, RowIsClean
<1> QED  BY <1>1, <1>2, <1>3, <1>4, <1>5 DEF ConvertInv

-----------------------------------------------------------------------------
LEMMA ConvertPixelStep ==
  ASSUME ConvertInv, ConvertPixel
  PROVE  ConvertInv'
<1> USE DEF ConvertPixel
<1>1. c \in Ports /\ d \in 0..ports[c].count - 1 /\ d \in Nat /\ ptr \in Nat
  BY Layout DEF ConvertInv, WhereItIs, Ports
<1>2. ports[c].type \in {"WS2816", "WS2812"}  BY <1>1, Layout
<1>a. d' - 1 = d /\ c' = c /\ picture' = picture /\ c < totalPortCount  BY <1>1
<1>b. DOMAIN data = 0..DataLen - 1  BY DEF ConvertInv, Arrays
<1>d. ASSUME NEW i \in DOMAIN data
      PROVE  data'[i] = IF i \in ptr..ptr + BytesPerLed(c) - 1
                        THEN <<c, d, picture, Bytes(ports[c].type)[i - ptr + 1]>>
                        ELSE data[i]
  BY <1>d, Zenon
<1>g. ASSUME NEW j \in 0..BytesPerLed(c) - 1, NEW i \in DOMAIN data, i = ptr + j
      PROVE  data'[i] = <<c, d, picture, Bytes(ports[c].type)[j + 1]>>
  <2>1. BytesPerLed(c) \in Nat  BY <1>2, LongLed, ShortLed DEF BytesPerLed
  <2>2. i \in ptr..ptr + BytesPerLed(c) - 1  BY <1>1, <1>g, <2>1
  <2>3. i - ptr + 1 = j + 1  BY <1>1, <1>g, <2>1
  <2> QED  BY <1>d, <2>2, <2>3
<1> HIDE DEF ConvertPixel
<1>e. ptr' = ptr + BytesPerLed(c)  BY DEF ConvertPixel
<1>f. WhereItIs /\ BytesSoFar  BY DEF ConvertInv
<1>3. CASE ports[c].type = "WS2816"
  <2>1. ptr = 6 * d /\ BytesPerLed(c) = 6
    BY <1>3, <1>a, <1>f, LongLed DEF WhereItIs, BytesPerLed
  <2>2. WhereItIs'  BY <1>1, <1>3, <1>a, <1>e, <2>1, <1>f, Layout DEF ConvertPixel, WhereItIs
  <2>3. ptr' <= DataLen
    <3>1. ptr' <= DataLen /\ ptr' \in Nat
      <4>1. d + 1 <= maxLedsPerPort /\ maxLedsPerPort \in Nat  BY <1>1, Layout, LayoutAssumption
      <4>2. ptr' = 6 * (d + 1)  BY <1>1, <1>e, <2>1
      <4> QED  BY <1>1, <4>1, <4>2, Sizes
    <3> QED  BY <3>1
  <2>4. BytesSoFar'
    <3> SUFFICES ASSUME NEW led \in 0..d, NEW k \in 0..5
                 PROVE  data'[6 * led + k] = <<c, led, picture, Bytes("WS2816")[k + 1]>>
      BY <1>a, <1>3 DEF BytesSoFar
    <3>1. 6 * led + k \in DOMAIN data
      <4>1. 6 * led + k \in Nat /\ 6 * led + k < 6 * (d + 1)  BY <1>1
      <4>2. 6 * (d + 1) <= DataLen  BY <1>1, <1>e, <2>1, <2>3
      <4> QED  BY <4>1, <4>2, <1>1, <1>b, Sizes
    <3>2. CASE led = d
      <4>1. 6 * led + k = ptr + k /\ k \in 0..BytesPerLed(c) - 1  BY <1>1, <2>1, <3>2
      <4> QED  BY <3>1, <3>2, <4>1, <1>g, <1>3
    <3>3. CASE led # d
      <4>1. led \in 0..d - 1  BY <1>1, <3>3
      <4>2. 6 * led + k \notin ptr..ptr + BytesPerLed(c) - 1  BY <1>1, <2>1, <4>1
      <4>3. data'[6 * led + k] = data[6 * led + k]  BY <3>1, <4>2, <1>d, Zenon
      <4> QED  BY <1>3, <1>a, <1>f, <4>1, <4>3 DEF BytesSoFar
    <3> QED  BY <3>2, <3>3
  <2> QED  BY <2>2, <2>4 DEF ConvertPixel, ConvertInv, Arrays, RowIsRight, RowIsClean, Received
<1>4. CASE ports[c].type = "WS2812"
  <2>1. ptr = 3 * d /\ BytesPerLed(c) = 3
    BY <1>4, <1>a, <1>f, ShortLed DEF WhereItIs, BytesPerLed
  <2>2. WhereItIs'  BY <1>1, <1>4, <1>a, <1>e, <2>1, <1>f, Layout DEF ConvertPixel, WhereItIs
  <2>3. ptr' <= DataLen
    <3>1. d + 1 <= maxLedsPerPort /\ maxLedsPerPort \in Nat  BY <1>1, Layout, LayoutAssumption
    <3>2. ptr' = 3 * (d + 1)  BY <1>1, <1>e, <2>1
    <3> QED  BY <1>1, <3>1, <3>2, Sizes
  <2>4. BytesSoFar'
    <3> SUFFICES ASSUME NEW led \in 0..d, NEW k \in 0..2
                 PROVE  data'[3 * led + k] = <<c, led, picture, Bytes("WS2812")[k + 1]>>
      BY <1>a, <1>4 DEF BytesSoFar
    <3>1. 3 * led + k \in DOMAIN data
      <4>1. 3 * led + k \in Nat /\ 3 * led + k < 3 * (d + 1)  BY <1>1
      <4>2. 3 * (d + 1) <= DataLen  BY <1>1, <1>e, <2>1, <2>3
      <4> QED  BY <4>1, <4>2, <1>1, <1>b, Sizes
    <3>2. CASE led = d
      <4>1. 3 * led + k = ptr + k /\ k \in 0..BytesPerLed(c) - 1  BY <1>1, <2>1, <3>2
      <4> QED  BY <3>1, <3>2, <4>1, <1>g, <1>4
    <3>3. CASE led # d
      <4>1. led \in 0..d - 1  BY <1>1, <3>3
      <4>2. 3 * led + k \notin ptr..ptr + BytesPerLed(c) - 1  BY <1>1, <2>1, <4>1
      <4>3. data'[3 * led + k] = data[3 * led + k]  BY <3>1, <4>2, <1>d, Zenon
      <4> QED  BY <1>4, <1>a, <1>f, <4>1, <4>3 DEF BytesSoFar
    <3> QED  BY <3>2, <3>3
  <2> QED  BY <2>2, <2>4 DEF ConvertPixel, ConvertInv, Arrays, RowIsRight, RowIsClean, Received
<1> QED  BY <1>2, <1>3, <1>4

-----------------------------------------------------------------------------
(* Where in the bytes of a port the element of a bit comes from. *)
LEMMA LongIndex ==
  ASSUME NEW led \in Nat, NEW k \in 0..2, NEW bit \in 0..15
  PROVE  LET n == (3 * led + k) * 16 + 16 - 1 - bit
             j == IF bit >= 8 THEN 0 ELSE 1
         IN  n \div 8 = 6 * led + 2 * k + j /\ (n % 8) = 15 - 8 * j - bit
OBVIOUS

LEMMA ShortIndex ==
  ASSUME NEW led \in Nat, NEW k \in 0..2, NEW bit \in 0..7
  PROVE  LET n == (3 * led + k) * 8 + 8 - 1 - bit
         IN  n \div 8 = 3 * led + k /\ (n % 8) = 7 - bit
OBVIOUS

LEMMA BitOfByte ==
  ASSUME NEW p, NEW led, NEW pic, NEW ch, NEW shift \in Nat, NEW b \in 0..7
  PROVE  Bit(<<p, led, pic, <<ch, shift>>>>, b) = <<p, led, pic, ch, shift + 7 - b>>
BY DEF Bit

(* The row prepare() has written is the one its port's LEDs are to get. *)
LEMMA PreparedIsRight ==
  ASSUME ConvertInv, Prepare, NEW p, p = c
  PROVE  RowIsRight(p)' /\ RowIsClean(p)'
<1>1. /\ p \in Ports /\ d = ports[p].count /\ d \in Nat /\ ptr \in Nat
      /\ c < totalPortCount /\ picture' = picture
  BY Layout DEF ConvertInv, WhereItIs, Ports, Prepare
<1>2. ports[p].type \in {"WS2816", "WS2812"}  BY <1>1, Layout
<1>3. ptr <= DataLen  BY Bounds DEF ConvertInv, WritesStayInside
<1>4. ASSUME NEW i \in 0..RowLen - 1
      PROVE  pwmBuffer'[p][i] = Prepared(pwmBuffer[p])[i] /\ i \in DOMAIN pwmBuffer[p]
  BY <1>1 DEF ConvertInv, Arrays, Prepare
<1>5. ASSUME NEW n \in 0..8 * ptr - 1
      PROVE  pwmBuffer'[p][Padding + n] = Bit(data[n \div 8], n % 8)
  <2>1. Padding + n \in 0..RowLen - 1  BY <1>1, <1>3, Sizes
  <2>2. Padding + n - Padding = n  BY <1>1, Sizes
  <2>3. pwmBuffer'[p][Padding + n] = Prepared(pwmBuffer[p])[Padding + n]
    BY <1>4, <2>1
  <2>4. Padding + n \in DOMAIN pwmBuffer[p]  BY <1>4, <2>1
  <2> DEFINE i == Padding + n
  <2>5. Prepared(pwmBuffer[p])[i] = IF i - Padding \in 0..8 * ptr - 1
                                    THEN Bit(data[(i - Padding) \div 8], (i - Padding) % 8)
                                    ELSE IF i - Padding \in -Padding..8 * ptr + Padding - 1 THEN Low
                                    ELSE pwmBuffer[p][i]
    BY <2>4, Zenon DEF Prepared
  <2>6. Prepared(pwmBuffer[p])[Padding + n] = Bit(data[n \div 8], n % 8)
    <3>1. i - Padding = n  BY <1>1, Sizes
    <3>2. i - Padding \in 0..8 * ptr - 1  BY <3>1
    <3>3. Prepared(pwmBuffer[p])[i] = Bit(data[(i - Padding) \div 8], (i - Padding) % 8)
      BY <2>5, <3>2, Zenon
    <3> HIDE DEF i
    <3>4. Prepared(pwmBuffer[p])[i] = Bit(data[n \div 8], n % 8)  BY <3>1, <3>3, Zenon
    <3> QED  BY <3>4 DEF i
  <2> QED  BY <2>6, <2>3
<1>6. ASSUME NEW i \in 0..RowLen - 1, i - Padding \notin 0..8 * ptr - 1
      PROVE  pwmBuffer'[p][i] = Low \/ pwmBuffer'[p][i] = pwmBuffer[p][i]
  BY <1>4, <1>6 DEF Prepared
<1>7. ptr = 3 * ports[p].count * (Depth(p) \div 8) /\ Depth(p) \in {8, 16}
  <2>1. CASE ports[p].type = "WS2816"
    BY <1>1, <2>1 DEF ConvertInv, WhereItIs, Depth
  <2>2. CASE ports[p].type = "WS2812"
    BY <1>1, <2>2 DEF ConvertInv, WhereItIs, Depth
  <2> QED  BY <1>2, <2>1, <2>2
<1>8. 3 * ports[p].count * Depth(p) = 8 * ptr
  <2>1. CASE Depth(p) = 8  BY <1>1, <1>7, <2>1
  <2>2. CASE Depth(p) = 16  BY <1>1, <1>7, <2>2
  <2> QED  BY <1>7, <2>1, <2>2
<1>9. RowIsClean(p)'
  <2> SUFFICES ASSUME NEW i \in 0..RowLen - 1,
                      i \notin Padding..Padding + 3 * ports[p].count * Depth(p) - 1
               PROVE  pwmBuffer'[p][i] = Low
    BY DEF RowIsClean, Prepare
  <2>1. i - Padding \notin 0..8 * ptr - 1  BY <1>1, <1>8, Sizes
  <2>2. pwmBuffer[p][i] = Low  BY <1>1 DEF ConvertInv, RowIsClean
  <2> QED  BY <1>6, <2>1, <2>2
<1>10. ASSUME NEW led \in 0..ports[p].count - 1, NEW k \in 0..2, NEW bit \in 0..Depth(p) - 1
       PROVE  pwmBuffer'[p][Padding + (3 * led + k) * Depth(p) + Depth(p) - 1 - bit]
                = <<p, led, picture, ChannelsOfAnLed[k + 1], bit>>
  <2> DEFINE n == (3 * led + k) * Depth(p) + Depth(p) - 1 - bit
  <2>1. led \in Nat /\ led \in 0..d - 1  BY <1>1
  <2>2. CASE ports[p].type = "WS2816"
    <3> DEFINE j == IF bit >= 8 THEN 0 ELSE 1
    <3>1. Depth(p) = 16 /\ bit \in 0..15  BY <2>2 DEF Depth
    <3>2. n \div 8 = 6 * led + 2 * k + j /\ (n % 8) = 15 - 8 * j - bit
      BY <2>1, <3>1, LongIndex
    <3>3. n \in 0..8 * ptr - 1 /\ Padding + (3 * led + k) * Depth(p) + Depth(p) - 1 - bit = Padding + n
      BY <1>1, <1>7, <2>1, <3>1, Sizes
    <3>4. data[6 * led + (2 * k + j)] = <<p, led, picture, Bytes("WS2816")[2 * k + j + 1]>>
      <4>1. 2 * k + j \in 0..5  OBVIOUS
      <4> QED  BY <1>1, <2>1, <2>2, <4>1 DEF ConvertInv, BytesSoFar
    <3>5. Bytes("WS2816")[2 * k + j + 1] = <<ChannelsOfAnLed[k + 1], 8 - 8 * j>>
      <4>1. CASE bit >= 8  BY <4>1, LongLed
      <4>2. CASE ~(bit >= 8)  BY <4>2, LongLed
      <4> QED  BY <4>1, <4>2
    <3>6. data[n \div 8] = <<p, led, picture, <<ChannelsOfAnLed[k + 1], 8 - 8 * j>>>>
      <4>1. 6 * led + (2 * k + j) = 6 * led + 2 * k + j  BY <2>1
      <4> QED  BY <3>2, <3>4, <3>5, <4>1, Zenon
    <3>7. 8 - 8 * j \in Nat /\ n % 8 \in 0..7 /\ 8 - 8 * j + 7 - (n % 8) = bit
      BY <3>1, <3>2
    <3>8. Bit(data[n \div 8], n % 8) = <<p, led, picture, ChannelsOfAnLed[k + 1], bit>>
      <4> HIDE DEF n, j
      <4> QED  BY <3>6, <3>7, BitOfByte
    <3> QED  BY <1>5, <3>3, <3>8
  <2>3. CASE ports[p].type = "WS2812"
    <3>1. Depth(p) = 8 /\ bit \in 0..7  BY <2>3 DEF Depth
    <3>2. n \div 8 = 3 * led + k /\ (n % 8) = 7 - bit
      BY <2>1, <3>1, ShortIndex
    <3>3. n \in 0..8 * ptr - 1 /\ Padding + (3 * led + k) * Depth(p) + Depth(p) - 1 - bit = Padding + n
      BY <1>1, <1>7, <2>1, <3>1, Sizes
    <3>4. data[3 * led + k] = <<p, led, picture, <<ChannelsOfAnLed[k + 1], 0>>>>
      BY <1>1, <2>1, <2>3, ShortLed DEF ConvertInv, BytesSoFar
    <3>5. n % 8 \in 0..7 /\ 0 + 7 - (n % 8) = bit  BY <3>1, <3>2
    <3>6. Bit(data[n \div 8], n % 8) = <<p, led, picture, ChannelsOfAnLed[k + 1], bit>>
      <4> HIDE DEF n
      <4>1. data[n \div 8] = <<p, led, picture, <<ChannelsOfAnLed[k + 1], 0>>>>  BY <3>2, <3>4
      <4> QED  BY <3>5, <4>1, BitOfByte
    <3> QED  BY <1>5, <3>3, <3>6
  <2> QED  BY <1>2, <2>2, <2>3
<1>11. RowIsRight(p)'
  <2> SUFFICES ASSUME NEW led \in 0..ports[p].count - 1, NEW k \in 0..2, NEW bit \in 0..Depth(p) - 1
               PROVE  pwmBuffer'[p][Padding + (3 * led + k) * Depth(p) + Depth(p) - 1 - bit]
                        = <<p, led, picture', ChannelsOfAnLed[k + 1], bit>>
    BY Zenon DEF RowIsRight, Received
  <2>1. picture' = picture  BY <1>1
  <2>2. pwmBuffer'[p][Padding + (3 * led + k) * Depth(p) + Depth(p) - 1 - bit]
          = <<p, led, picture, ChannelsOfAnLed[k + 1], bit>>
    BY <1>10, Zenon
  <2> QED  BY <2>1, <2>2, Zenon
<1> QED  BY <1>9, <1>11

LEMMA PrepareStep ==
  ASSUME ConvertInv, Prepare
  PROVE  ConvertInv'
<1>1. /\ c \in Ports /\ c \in Nat /\ c' = c + 1 /\ c' \in 0..totalPortCount
      /\ d' = 0 /\ ptr' = 0 /\ picture' = picture /\ data' = data
  BY Layout DEF ConvertInv, WhereItIs, Ports, Prepare
<1>2. WhereItIs'  BY <1>1, Layout DEF ConvertInv, WhereItIs, Ports
<1>3. pwmBuffer' = [pwmBuffer EXCEPT ![c] = Prepared(pwmBuffer[c])]  BY DEF Prepare
<1>4. DOMAIN Prepared(pwmBuffer[c]) = 0..RowLen - 1
  BY <1>1 DEF Prepared, ConvertInv, Arrays
<1>5. Arrays'  BY <1>1, <1>3, <1>4 DEF ConvertInv, Arrays
<1>6. BytesSoFar'  BY <1>1 DEF BytesSoFar
<1>7. ASSUME NEW p \in Ports, p # c
      PROVE  pwmBuffer'[p] = pwmBuffer[p]
  BY <1>3, <1>7 DEF ConvertInv, Arrays
<1>8. ASSUME NEW p \in 0..c' - 1
      PROVE  RowIsRight(p)'
  <2>1. p \in Ports  BY <1>1, Layout DEF Ports
  <2>2. CASE p = c  BY <2>2, PreparedIsRight
  <2>3. CASE p # c
    <3>1. RowIsRight(p)  BY <1>1, <2>3 DEF ConvertInv
    <3> QED  BY <1>1, <1>7, <2>1, <2>3, <3>1, Zenon DEF RowIsRight, Received
  <2> QED  BY <2>2, <2>3
<1>9. ASSUME NEW p \in Ports
      PROVE  RowIsClean(p)'
  <2>1. CASE p = c  BY <2>1, PreparedIsRight
  <2>2. CASE p # c  BY <1>7, <2>2, Zenon DEF ConvertInv, RowIsClean
  <2> QED  BY <2>1, <2>2
<1> QED  BY <1>2, <1>5, <1>6, <1>8, <1>9 DEF ConvertInv

LEMMA NextFrameStep ==
  ASSUME ConvertInv, NextFrame
  PROVE  ConvertInv'
<1>1. /\ c' = 0 /\ d' = 0 /\ ptr' = 0 /\ picture' \in Pictures
      /\ data' = data /\ pwmBuffer' = pwmBuffer
  BY DEF NextFrame, ConvertInv, WhereItIs
<1>2. WhereItIs'
  <2>1. 0 \in Ports  BY Layout, LayoutAssumption DEF Ports, totalPortCount
  <2> QED  BY <1>1, <2>1, Layout DEF WhereItIs
<1>3. Arrays' /\ BytesSoFar'  BY <1>1 DEF ConvertInv, Arrays, BytesSoFar
<1>4. \A p \in 0..c' - 1 : RowIsRight(p)'  BY <1>1
<1>5. \A p \in Ports : RowIsClean(p)'  BY <1>1, Zenon DEF ConvertInv, RowIsClean
<1> QED  BY <1>2, <1>3, <1>4, <1>5 DEF ConvertInv

(* ConvertInv holds in every state of every conversion: the loops are      *)
(* where WhereItIs says, the array holds the bytes of the port under way,  *)
(* and the rows behind them are right.                                     *)
THEOREM Conversion == Spec => []ConvertInv
<1>1. ConvertInv /\ UNCHANGED vars => ConvertInv'
  <2> SUFFICES ASSUME ConvertInv, UNCHANGED vars PROVE ConvertInv'  OBVIOUS
  <2> USE DEF vars
  <2>1. WhereItIs' /\ Arrays'  BY DEF ConvertInv, WhereItIs, Arrays
  <2>2. BytesSoFar'  BY DEF ConvertInv, BytesSoFar
  <2>3. \A p \in 0..c' - 1 : RowIsRight(p)'  BY Zenon DEF ConvertInv, RowIsRight, Received
  <2>4. \A p \in Ports : RowIsClean(p)'  BY Zenon DEF ConvertInv, RowIsClean
  <2> QED  BY <2>1, <2>2, <2>3, <2>4 DEF ConvertInv
<1>2. ConvertInv /\ [Next]_vars => ConvertInv'
  BY <1>1, ConvertPixelStep, PrepareStep, NextFrameStep DEF Next
<1> QED  BY ConvertInit, <1>2, PTL DEF Spec

(* For every layout whose strips have at most maxLedsPerPort LEDs, neither *)
(* convert() nor prepare() writes behind the end of its array or row       *)
(* (leds.cpp:150, ledpwm.cpp:134).                                         *)
THEOREM StaysInside == Spec => []WritesStayInside
<1>1. ConvertInv => WritesStayInside  BY Bounds DEF ConvertInv
<1> QED  BY <1>1, Conversion, PTL

(* For every such layout each LED of a converted port receives its own     *)
(* colour of this picture, bit for bit (leds.cpp:123, ledpwm.cpp:122).     *)
THEOREM OwnColours == Spec => []EveryLedGetsItsColour
<1>1. ConvertInv => EveryLedGetsItsColour
  BY Zenon DEF ConvertInv, RowIsRight, EveryLedGetsItsColour
<1> QED  BY <1>1, Conversion, PTL

(* And no pulse is sent before, after or between pictures.                 *)
THEOREM QuietAround == Spec => []NothingAroundTheLeds
<1>1. ConvertInv => NothingAroundTheLeds
  <2> SUFFICES ASSUME ConvertInv, NEW p \in 0..c - 1 PROVE RowIsClean(p)
    BY Zenon DEF RowIsClean, NothingAroundTheLeds
  <2>1. p \in Ports  BY Layout DEF ConvertInv, WhereItIs, Ports
  <2> QED  BY <2>1 DEF ConvertInv
<1> QED  BY <1>1, Conversion, PTL
=============================================================================
