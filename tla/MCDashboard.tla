----------------------------- MODULE MCDashboard -----------------------------
(* A small, a middling and a large console, drivers that set fonts and that *)
(* do not, and machines whose extra rows all find a place on them.          *)
EXTENDS Dashboard

CONSTANTS a, b

WXGA == [width |-> 1280, height |-> 800]
SVGA == [width |-> 800, height |-> 600]
TEXT == [width |-> 640, height |-> 400]
QHD == [width |-> 2560, height |-> 1440]

MCScreens == {WXGA, TEXT, QHD}
MCDrivers == {[font |-> "works", framebuffer |-> "device"],
              [font |-> "ignored", framebuffer |-> "pixels"],
              [font |-> "fails", framebuffer |-> "none"]}
MCGlyphs == {a, b}
MCMachines == {[disks |-> 3, nics |-> 2, cores |-> 1], [disks |-> 1, nics |-> 1, cores |-> 4]}

(* One processor, two disks and an interface on thirty rows.                *)
MCSmallScreen == {SVGA}
MCOneDriver == {[font |-> "works", framebuffer |-> "device"]}
MCTwoDisks == {[disks |-> 2, nics |-> 1, cores |-> 1]}
=============================================================================
