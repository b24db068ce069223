-------------------------------- MODULE Vga --------------------------------
(***************************************************************************)
(* The VGA of NEMU (nemu/src/device/dev/vga.c) behind its memory map and   *)
(* its ports, with the guest code that drives it: stores to video memory,  *)
(* display_buffer() and write_palette() of game/src/common/device/.        *)
(*                                                                         *)
(* A cell of video memory is <<line, column>>.  The map goes on beyond the *)
(* visible lines: stores there are modelled, what they leave is not.  A    *)
(* pixel of the guest is one cell of the screen, not the 2 x 2 drawn, and  *)
(* the screen is what has been blitted and flipped.                        *)
(***************************************************************************)
EXTENDS Integers

CONSTANTS
  Rows,        \* CTR_ROW, visible lines
  Lines,       \* lines of the memory map, the last one perhaps partly in it
  Cols,        \* CTR_COL
  Lens,        \* lengths of the guest's stores, in cells
  Indices,     \* colour indices
  Entries,     \* entries of the palette
  Palettes,    \* the palettes a guest loads, [0 .. Entries - 1 -> [0 .. 2 -> 0 .. 255]]
  DefaultPalette,  \* the one of vga-palette.c
  CrtcIndices, CrtcValues,  \* what a guest may write to the ports of the CRTC
  NR_CRTC      \* 19

Line    == 0 .. Lines - 1
Visible == 0 .. Rows - 1
Column  == 0 .. Cols - 1
Entry   == 0 .. Entries - 1
Colour  == [0 .. 2 -> 0 .. 255]
NULL    == <<0, -1>>      \* a pointer that is not set yet

(* What the modules that use this one assume of its constants.             *)
VgaAssumption ==
  /\ {Rows, Lines, Cols, Entries, NR_CRTC} \subseteq Nat \ {0}
  /\ Rows <= Lines
  /\ Lens \subseteq Nat \ {0}
  /\ Palettes \union {DefaultPalette} \subseteq [Entry -> Colour]
  /\ CrtcIndices \subseteq 0 .. NR_CRTC - 1
  /\ 0 \in CrtcIndices /\ 0 \in CrtcValues
  /\ 0 \in Indices

VARIABLES
  vmem,          \* the visible part of the map's memory
  line_dirty,    \* the lines whose flag is set
  vmem_dirty,
  screen,        \* what the window shows, as indices
  palette,       \* the DAC
  color_ptr,     \* the next component the DAC takes: <<entry, component>>
  shown_palette, \* what SDL_SetPalette() was last given
  writer,        \* write_palette(): its colors and how far it is, or Idle
  crtc_port,     \* io_port[] of the CRTC's index and data
  vga_crtc_regs

memory == <<vmem, line_dirty, vmem_dirty, screen>>
dac    == <<palette, color_ptr, shown_palette, writer>>
crtc   == <<crtc_port, vga_crtc_regs>>
vars   == <<memory, dac, crtc>>

Pixels == Visible \X Column

-----------------------------------------------------------------------------
(* Video memory.                                                           *)

(* Mutant of Marked: the flag of the whole memory is left as it is.        *)
MarkedLine(lines) ==
  /\ line_dirty' = line_dirty \union (lines \intersect Visible)
  /\ UNCHANGED vmem_dirty

(* vga_vmem_io_handler(), for stores that begin in these lines.            *)
Marked(lines) ==
  /\ line_dirty' = line_dirty \union (lines \intersect Visible)
  /\ vmem_dirty' = (vmem_dirty \/ lines \intersect Visible # {})

(* mmio_write().  Only the line of the first byte is marked, so that a     *)
(* store must not run over its end: the guest's are aligned to 1, 2 or 4,  *)
(* and 320 is a multiple of each.                                          *)
Store(line, col, len, data) ==
  /\ col + len <= Cols
  /\ vmem' = [p \in Pixels |-> IF p[1] = line /\ p[2] \in col .. col + len - 1
                                 THEN data ELSE vmem[p]]
  /\ Marked({line})
  /\ UNCHANGED <<screen, dac, crtc>>

(* display_buffer(): `rep movsl' is one instruction for NEMU, so that the  *)
(* devices are not polled in the middle of a frame.                        *)
DisplayBuffer(vbuf) ==
  /\ vmem' = vbuf
  /\ Marked(Visible)
  /\ UNCHANGED <<screen, dac, crtc>>

Drawn == [p \in Pixels |-> IF p[1] \in line_dirty THEN vmem[p] ELSE screen[p]]

(* Mutant of UpdateScreen: all flags of lines are cleared before drawing.  *)
UpdateScreenCleared ==
  /\ vmem_dirty
  /\ line_dirty' = {} /\ vmem_dirty' = FALSE
  /\ UNCHANGED <<vmem, screen, dac, crtc>>

(* do_vga() when its interval has passed and there is something to draw.   *)
UpdateScreen ==
  /\ vmem_dirty
  /\ screen' = Drawn
  /\ line_dirty' = {} /\ vmem_dirty' = FALSE
  /\ UNCHANGED <<vmem, dac, crtc>>

-----------------------------------------------------------------------------
(* The DAC.                                                                *)

Idle == [colors |-> DefaultPalette, nr_color |-> 0, i |-> 0, part |-> 0]

(* The guest hands over six bits of each component, and the DAC stores     *)
(* them in the high bits of a byte.                                        *)
SixBits(level) == level \div 4
Level(data)    == (data * 4) % 256

(* The pointer moves on, over the byte that pads a colour.                 *)
After(ptr) == IF ptr[2] = 2 THEN <<ptr[1] + 1, 0>> ELSE <<ptr[1], ptr[2] + 1>>

Stored(data) ==
  [e \in Entry |-> [k \in 0 .. 2 |->
     IF <<e, k>> = color_ptr THEN Level(data) ELSE palette[e][k]]]

(* Mutant of DacData: the last entry is taken as complete when it begins.  *)
DacDataEarly(data) ==
  /\ palette' = Stored(data)
  /\ color_ptr' = After(color_ptr)
  /\ shown_palette' = IF color_ptr' = <<Entries - 1, 0>> THEN palette' ELSE shown_palette

(* vga_dac_io_handler() of a write to the data port.  The window takes the *)
(* palette over when its last entry is complete.                           *)
DacData(data) ==
  /\ palette' = Stored(data)
  /\ color_ptr' = After(color_ptr)
  /\ shown_palette' = IF color_ptr'[1] = Entries THEN palette' ELSE shown_palette

(* write_palette() begins with entry 0.                                    *)
WritePalette(colors, nr_color) ==
  /\ writer.i = writer.nr_color
  /\ color_ptr' = <<0, 0>>
  /\ writer' = [colors |-> colors, nr_color |-> nr_color, i |-> 0, part |-> 0]
  /\ UNCHANGED <<memory, palette, shown_palette, crtc>>

WriteComponent ==
  /\ writer.i < writer.nr_color
  /\ DacData(SixBits(writer.colors[writer.i][writer.part]))
  /\ writer' = IF writer.part = 2 THEN [writer EXCEPT !.i = @ + 1, !.part = 0]
               ELSE [writer EXCEPT !.part = @ + 1]
  /\ UNCHANGED <<memory, crtc>>

-----------------------------------------------------------------------------
(* The CRTC.  The handler of the index port brings the register's value to *)
(* the data port.                                                          *)

(* Mutant of CrtcIndex: a new index leaves the data port as it is.         *)
CrtcIndexOnly(index) ==
  /\ crtc_port' = [crtc_port EXCEPT !.index = index]
  /\ UNCHANGED <<vga_crtc_regs, memory, dac>>

CrtcIndex(index) ==
  /\ crtc_port' = [index |-> index, data |-> vga_crtc_regs[index]]
  /\ UNCHANGED <<vga_crtc_regs, memory, dac>>

CrtcData(value) ==
  /\ crtc_port' = [crtc_port EXCEPT !.data = value]
  /\ vga_crtc_regs' = [vga_crtc_regs EXCEPT ![crtc_port.index] = value]
  /\ UNCHANGED <<memory, dac>>

-----------------------------------------------------------------------------
(* vga_init(), with all memory zero; the first palette is the one the      *)
(* window was opened with.                                                 *)
Init ==
  /\ vmem = [p \in Pixels |-> 0] /\ screen = [p \in Pixels |-> 0]
  /\ line_dirty = {} /\ vmem_dirty = FALSE
  /\ palette = DefaultPalette /\ shown_palette = DefaultPalette
  /\ color_ptr = NULL /\ writer = Idle
  /\ crtc_port = [index |-> 0, data |-> 0]
  /\ vga_crtc_regs = [r \in 0 .. NR_CRTC - 1 |-> 0]

Next ==
  \/ \E line \in Line, col \in Column, len \in Lens, data \in Indices : Store(line, col, len, data)
  \/ \E vbuf \in [Pixels -> Indices] : DisplayBuffer(vbuf)
  \/ UpdateScreen
  \/ \E colors \in Palettes, nr_color \in 1 .. Entries : WritePalette(colors, nr_color)
  \/ WriteComponent
  \/ \E index \in CrtcIndices : CrtcIndex(index)
  \/ \E value \in CrtcValues : CrtcData(value)

(* exec() polls do_vga() after each instruction, and while the CPU is      *)
(* halted too.                                                             *)
Spec == Init /\ [][Next]_vars /\ WF_vars(UpdateScreen)

-----------------------------------------------------------------------------
TypeOK ==
  /\ vmem \in [Pixels -> Indices] /\ screen \in [Pixels -> Indices]
  /\ line_dirty \subseteq Visible /\ vmem_dirty \in BOOLEAN
  /\ palette \in [Entry -> Colour] /\ shown_palette \in [Entry -> Colour]
  /\ color_ptr \in (Entry \X (0 .. 2)) \union {NULL, <<Entries, 0>>}
  /\ writer.colors \in Palettes \union {DefaultPalette}
  /\ writer.nr_color \in 0 .. Entries /\ writer.i \in 0 .. writer.nr_color
  /\ writer.part \in 0 .. 2
  /\ crtc_port.index \in DOMAIN vga_crtc_regs

(* A line whose flag is clear is shown as it is in memory, and one whose   *)
(* flag is set will be drawn (vga.c:43).                                   *)
CleanLinesAreShown ==
  /\ \A p \in Pixels : p[1] \notin line_dirty => screen[p] = vmem[p]
  /\ line_dirty # {} <=> vmem_dirty

(* What write_palette() has loaded is in the DAC, less the two low bits of *)
(* each component.  A whole palette is also what the window shows, and it  *)
(* never shows a part of one (vga.c:100-107).                              *)
Truncated(colors) == [e \in Entry |-> [k \in 0 .. 2 |-> colors[e][k] - (colors[e][k] % 4)]]

PaletteLoaded ==
  /\ \A e \in 0 .. writer.i - 1 : palette[e] = Truncated(writer.colors)[e]
  /\ writer.i = Entries => shown_palette = palette
  /\ shown_palette \in {Truncated(p) : p \in Palettes} \union {DefaultPalette}

(* The CRTC's data port reads as the register that the index port names,   *)
(* although in() only looks at the ports' memory (vga.c:118).              *)
CrtcReadsRegister == crtc_port.data = vga_crtc_regs[crtc_port.index]

(* The dirty lines implement a screen that is redrawn whole.               *)
D == INSTANCE Display WITH memory <- vmem, shown <- screen

ImplementsDisplay == D!Spec
=============================================================================
