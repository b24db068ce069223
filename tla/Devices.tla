------------------------------ MODULE Devices ------------------------------
(***************************************************************************)
(* The two devices by which a game is heard and seen.  The sound card of   *)
(* Audio and the VGA of Vga share no state: what a game does with one shows*)
(* the same whatever it does with the other, and here it uses one.         *)
(***************************************************************************)
EXTENDS Audio

CONSTANTS Rows, Lines, Cols, Lens, Indices, Entries, Palettes, DefaultPalette,
          CrtcIndices, CrtcValues, NR_CRTC                         \* of Vga
VARIABLES vmem, line_dirty, vmem_dirty, screen, palette, color_ptr, shown_palette, writer,
          crtc_port, vga_crtc_regs,
          device                \* bound: the device the game uses

Screen == INSTANCE Vga

ASSUME ScreenAssumption == Screen!VgaAssumption

picture == <<vmem, line_dirty, vmem_dirty, screen, palette, color_ptr, shown_palette, writer,
             crtc_port, vga_crtc_regs>>

DevicesInit == Init /\ Screen!Init /\ device \in {"vga", "audio"}

CardStep   == device = "audio" /\ Next /\ UNCHANGED <<picture, device>>
ScreenStep == device = "vga" /\ Screen!Next /\ UNCHANGED <<vars, device>>

(* The fairness of Audio and of Vga, each for the device in use.           *)
DevicesSpec ==
  /\ DevicesInit /\ [][CardStep \/ ScreenStep]_<<vars, picture, device>>
  /\ WF_picture(device = "vga" /\ Screen!UpdateScreen)
  /\ WF_vars(device = "audio" /\ Handler) /\ SF_vars(device = "audio" /\ Guest)
  /\ SF_vars(device = "audio" /\ Callback) /\ WF_vars(device = "audio" /\ Monitor)
  /\ WF_vars(device = "audio" /\ slot = NO_INTR /\ TimerFires)
-----------------------------------------------------------------------------
(* The properties of the devices.  Those of Audio but the last are as they *)
(* are; the sound goes on in a game that has sound.                        *)
CleanLinesAreShown == Screen!CleanLinesAreShown
PaletteLoaded      == Screen!PaletteLoaded
CrtcReadsRegister  == Screen!CrtcReadsRegister
ImplementsDisplay  == Screen!ImplementsDisplay
SoundStaysOn       == device = "audio" => SoundGoesOn
=============================================================================
