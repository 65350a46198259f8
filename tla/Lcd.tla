-------------------------------- MODULE Lcd --------------------------------
(***************************************************************************)
(* test_lcd.c and test_lcd.sh: five colours, three stripes and a pattern   *)
(* of squares, each drawn into one of two frame buffers and then panned    *)
(* to.  A drawing call of framebuffer_set_color or clear_screen is a step. *)
(*                                                                         *)
(* The frame buffers lie in one memory, a colour per word of 32 bits: that *)
(* vi.bits_per_pixel is 32, as the drawing functions have it, is assumed.  *)
(* A pan takes effect at once or is refused, which is only printed.        *)
(***************************************************************************)
EXTENDS Naturals, Sequences

CONSTANTS
  xres, yres,            \* vi
  Padding,               \* words between two lines of the screen: one of these
  Lengths,               \* words that are mapped, fi.smem_len: one of these
  k                      \* squares per line and column; set_rectangle(20, 20)
ASSUME SizesAssumption ==
  /\ xres \in Nat /\ yres \in Nat /\ Padding \subseteq Nat /\ Lengths \subseteq Nat
  /\ k \in Nat \ {0} /\ k % 2 = 0 /\ xres >= k /\ yres >= k

VARIABLES
  stride,          \* words from a line to the next
  smem_len,        \* words of the memory
  memory,          \* of the device; empty until it is mapped
  yoffset,         \* of the last pan that was not refused
  refused,         \* "yes" after a pan was
  buffercount,
  picture,         \* the one being drawn: 0 before the first, 1 .. 7, 8 after the last
  strokes,         \* what is still to be drawn of it
  lcd              \* the script: "start", "running", "passed", "failed"
lvars == <<stride, smem_len, memory, yoffset, refused, buffercount, picture, strokes, lcd>>

red == 1
green == 2
blue == 3
black == 4
white == 5
left == 6              \* what the screen showed before

\* Mutant: the buffers are not taken in turn.
OneBuffer(n) == 1

id(n) == n % 2

\* Mutant: the buffers are counted from one.
DataFromOne(n) == (n + 1) * yres * xres

\* gr_framebuffer[n].data, in words.
data(n) == n * yres * xres

Block(loc, w, h, color) == [loc |-> loc, w |-> w, h |-> h, color |-> color]

FillColor(color, n) == <<Block(data(n), xres, yres, color)>>

\* Not by lines: w * h words in a row.
Clear(n) == Block(data(n), xres * yres, 1, black)

Stripes(n) ==
  <<Block(data(n), xres, yres \div 3, red),
    Block(data(n) + (yres \div 3) * xres, xres, yres \div 3, green),
    Block(data(n) + ((2 * yres) \div 3) * xres, xres, yres \div 3, blue)>>

Square(i, j, n) ==
  LET rec_w == xres \div k
      rec_h == yres \div k
  IN  Block(data(n) + xres * (j * rec_h) + i * rec_w, rec_w, rec_h,
            IF (i + j) % 2 = 0 THEN white ELSE black)

\* Both buffers are cleared first, the one on the screen too.
Squares(n) ==
  <<Clear(0), Clear(1)>> \o [s \in 1 .. k * k |-> Square((s - 1) % k, (s - 1) \div k, n)]

Picture(p, n) ==
  CASE p \in 1 .. 5 -> FillColor(p, n)
    [] p = 6 -> Stripes(n)
    [] p = 7 -> Squares(n)
    [] p = 8 -> <<>>

---------------------------------------------------------------------------
LcdInit ==
  /\ stride \in {xres + padding : padding \in Padding} /\ smem_len \in Lengths
  /\ memory = <<>> /\ yoffset \in {0, yres} /\ refused = "no"
  /\ buffercount = 0 /\ picture = 0 /\ strokes = <<>> /\ lcd = "start"

\* main ignores that gr_init fails: it goes on with screen sizes of zero or with no
\* memory, which may end it with a signal or, nothing being drawn, with success.
NoFrameBuffer ==
  /\ lcd = "start" /\ lcd' \in {"passed", "failed"}
  /\ UNCHANGED <<stride, smem_len, memory, yoffset, refused, buffercount, picture, strokes>>

set_active_framebuffer(n) ==
  \/ yoffset' = n * yres /\ UNCHANGED refused
  \/ refused' = "yes" /\ UNCHANGED yoffset

\* The length of the memory is not compared with what two buffers need.  gr_init and main
\* both pan to buffer 0, and either may be refused; set_full_screen
\* clears the other one.
gr_init ==
  /\ lcd = "start" /\ lcd' = "running"
  /\ \/ yoffset' = 0 /\ refused' \in {"no", "yes"}
     \/ refused' = "yes" /\ UNCHANGED yoffset
  /\ memory' = [word \in 0 .. smem_len - 1 |-> left]
  /\ strokes' = <<Clear(1)>>
  /\ UNCHANGED <<stride, smem_len, buffercount, picture>>

Covers(block, word) ==
  \E i \in 0 .. block.w - 1, j \in 0 .. block.h - 1 : word = block.loc + i + j * stride

framebuffer_set_color ==
  /\ lcd = "running" /\ strokes # <<>> /\ strokes' = Tail(strokes)
  /\ memory' = [word \in DOMAIN memory |->
                  IF Covers(Head(strokes), word) THEN Head(strokes).color ELSE memory[word]]
  /\ UNCHANGED <<stride, smem_len, yoffset, refused, buffercount, picture, lcd>>

Beyond(block) ==
  \E i \in 0 .. block.w - 1, j \in 0 .. block.h - 1 : block.loc + i + j * stride \notin DOMAIN memory

\* Where the memory is too short a write past it may hit nothing (above) or end the
\* program by a signal.
DrawsBeyond ==
  /\ lcd = "running" /\ strokes # <<>> /\ Beyond(Head(strokes))
  /\ lcd' = "failed" /\ strokes' = <<>> /\ picture' = 0 /\ buffercount' = 0
  /\ UNCHANGED <<stride, smem_len, memory, yoffset, refused>>

\* The picture drawn is panned to, and the next one begins in the other buffer.
NextPicture ==
  /\ lcd = "running" /\ strokes = <<>> /\ picture < 8
  /\ IF picture = 0 THEN UNCHANGED <<yoffset, refused>>
                    ELSE set_active_framebuffer(id(buffercount))
  /\ picture' = picture + 1
  /\ buffercount' = IF picture = 7 THEN buffercount ELSE buffercount + 1
  /\ strokes' = Picture(picture + 1, id(buffercount + 1))
  /\ UNCHANGED <<stride, smem_len, memory, lcd>>

test_lcd ==
  /\ lcd = "running" /\ picture = 8 /\ lcd' = "passed"
  /\ UNCHANGED <<stride, smem_len, memory, yoffset, refused, buffercount, picture, strokes>>

LcdNext == NoFrameBuffer \/ gr_init \/ framebuffer_set_color \/ DrawsBeyond \/ NextPicture \/ test_lcd

LcdSpec == LcdInit /\ [][LcdNext]_lvars

---------------------------------------------------------------------------
LcdTypeOK ==
  /\ stride \in Nat /\ stride >= xres /\ smem_len \in Nat
  /\ lcd = "running" => memory \in [0 .. smem_len - 1 -> 1 .. 6]
  /\ yoffset \in {0, yres} /\ refused \in {"no", "yes"}
  /\ buffercount \in 0 .. 7 /\ picture \in 0 .. 8
  /\ \A s \in DOMAIN strokes : strokes[s] \in
       [loc : Nat, w : Nat, h : Nat, color : 1 .. 6]
  /\ lcd \in {"start", "running", "passed", "failed"}

Visible(x, y) == memory[(yoffset + y) * stride + x]

\* The colour of the line y: that of its third; what the thirds leave over stays black, as
\* the fourth picture left this buffer.
Stripe(y) ==
  LET h == yres \div 3
  IN  IF y < h THEN red
      ELSE IF y < 2 * h THEN green
      ELSE IF y >= (2 * yres) \div 3 /\ y < (2 * yres) \div 3 + h THEN blue
      ELSE black

Board(x, y) ==
  LET i == x \div (xres \div k)
      j == y \div (yres \div k)
  IN  IF i < k /\ j < k /\ (i + j) % 2 = 0 THEN white ELSE black

\* What a tester who knows the sequence expects at (x, y): the picture panned to last,
\* complete, until the next pan or until the squares begin with a black screen.
Expected(x, y) ==
  CASE picture \in {0, 1} -> left
    [] picture \in 2 .. 6 -> picture - 1
    [] picture = 7 -> IF Len(strokes) = k * k + 2 THEN Stripe(y) ELSE black
    [] picture = 8 -> Board(x, y)

\* What is drawn can be seen: the memory holds two buffers, their lines are not padded and
\* no pan was refused.
TwoBuffers == smem_len >= 2 * yres * stride
Faithful == TwoBuffers /\ stride = xres /\ refused = "no"

\* Then the screen shows whole pictures, in their order, although the same two buffers are
\* drawn in turn by three functions that share only buffercount: but for the black that
\* set_rectangle puts on the picture shown, all is drawn out of sight.
ShowsPictures ==
  (lcd = "running" \/ picture = 8) /\ Faithful =>
    \A x \in 0 .. xres - 1, y \in 0 .. yres - 1 : Visible(x, y) = Expected(x, y)

\* A memory that holds two buffers is enough for every drawing call, padded lines or not:
\* a block begins where the screen's width says and goes on by the stride.
DrawsInMemory == TwoBuffers => \A s \in DOMAIN strokes : ~Beyond(strokes[s])
=============================================================================
