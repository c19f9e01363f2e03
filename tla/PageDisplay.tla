------------------------------ MODULE PageDisplay ------------------------------
(***************************************************************************)
(* What a display promises whoever draws on it (FreeInkDisplay.h), the     *)
(* same for both builds of the facade: the reader sees the page last       *)
(* submitted once the panel has settled, and meanwhile each region keeps   *)
(* its ink or takes that of this page or of the one before, never of any   *)
(* other.  Gray appears when an overlay is asked for, and ink is lost to a *)
(* failed waveform or a reset only while the panel has not settled.        *)
(***************************************************************************)
CONSTANTS
  Region, Page, Ink,
  NoPage            \* none is promised: out of reset, asleep, after a factory image

VARIABLES
  page,             \* the page last submitted
  glass,            \* the ink of each region
  settled           \* nothing is running, deferred or in doubt

display == <<page, glass, settled>>

Of(p, r) == IF p = NoPage THEN {} ELSE {p[r]}

(* Which ink a step may leave, with `more` for the pictures that are not   *)
(* pages.                                                                  *)
Inked(more) ==
  \A r \in Region :
    \/ glass'[r] \in {glass[r]} \cup Of(page, r) \cup Of(page', r) \cup more
    \/ glass'[r] = "?" /\ ~settled'

Shown == settled /\ page # NoPage => \A r \in Region : glass[r] \in {page[r], "G"}

Init == page = NoPage /\ ~settled /\ glass \in [Region -> Ink]

Submit == page' \in Page /\ Inked({})
Settle == page' = page /\ Inked({})
Overlay == page' = page /\ Inked({"G"})
(* Out of reset, asleep or after a factory image no page is promised.      *)
Withdraw == page' = NoPage /\ Inked({"F"})

Next == (Submit \/ Settle \/ Overlay \/ Withdraw) /\ Shown'
Spec == Init /\ [][Next]_display
=============================================================================
