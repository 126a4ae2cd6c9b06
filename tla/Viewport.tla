------------------------------- MODULE Viewport -------------------------------
(***************************************************************************)
(* What HdClaudeRenderPass promises the host that shows its buffers, and   *)
(* nothing of scenes, uploads or the tracer: a buffer holds a whole image  *)
(* or none, an image delivered is of what the host asks for now, and every *)
(* buffer is converged at once, for the last sample or because the pass    *)
(* gave up.  The host asks between two Executes and never during one.      *)
(***************************************************************************)
EXTENDS Integers

CONSTANTS
  Buffers,
  Guides,    \* the buffers given only images rendered at the extent asked for
  Target,    \* the samples an image is converged with
  Limit,     \* the failures in a row after which the pass gives up
  None

VARIABLES
  asked,     \* the framing the host asks for
  working,   \* an Execute is under way
  buffers,   \* by buffer: the image in it, and whether it is reported converged
  latest,    \* the image delivered last
  count,     \* the samples of it, 0 when the next image starts again
  failures   \* failures since an image was delivered, counted up to the limit

viewportVars == <<asked, working, buffers, latest, count, failures>>

Blank == [image |-> None, converged |-> FALSE]

ViewportInit ==
  /\ ~working
  /\ buffers = [b \in Buffers |-> Blank]
  /\ latest = None
  /\ count = 0
  /\ failures = 0

\* The host asks for anything, and may take a buffer's image away by reallocating it.
Ask ==
  /\ ~working
  /\ \E taken \in SUBSET Buffers :
       buffers' = [b \in Buffers |-> IF b \in taken THEN Blank ELSE buffers[b]]
  /\ UNCHANGED <<working, latest, count, failures>>

\* The images stay and are converged or not, all alike.
Mark(c) == buffers' = [b \in Buffers |-> [image |-> buffers[b].image, converged |-> c]]

\* An image goes on only from one of what is asked now.
Start ==
  /\ ~working /\ working'
  /\ Mark(FALSE)
  /\ count' = IF count > 0 /\ latest.of # asked THEN 0 ELSE count
  /\ UNCHANGED <<asked, latest, failures>>

Fits(b, image) == b \in Guides => image.rendered = asked.extent

\* More samples: a new image in every buffer it fits.
Show ==
  /\ working /\ ~working'
  /\ count' \in (count + 1) .. Target
  /\ latest'.of = asked
  /\ buffers' = [b \in Buffers |->
                   [image     |-> IF Fits(b, latest') THEN latest' ELSE buffers[b].image,
                    converged |-> count' = Target]]
  /\ failures' = 0
  /\ UNCHANGED asked

\* Nothing left to sample: what a buffer emptied since was given is the finished image.
Complete ==
  /\ working /\ ~working'
  /\ count = Target /\ latest.of = asked
  /\ buffers' = [b \in Buffers |->
                   [image     |-> IF buffers[b].image = None /\ Fits(b, latest) THEN latest
                                   ELSE buffers[b].image,
                    converged |-> TRUE]]
  /\ UNCHANGED <<asked, latest, count, failures>>

\* A failure leaves every image, and is reported converged only at the limit.
Fail ==
  /\ working /\ ~working'
  /\ failures' = IF failures < Limit THEN failures + 1 ELSE failures
  /\ Mark(failures' >= Limit)
  /\ UNCHANGED <<asked, latest, count>>

ViewportNext == Ask \/ Start \/ Show \/ Complete \/ Fail

ViewportSpec == ViewportInit /\ [][ViewportNext]_viewportVars
===============================================================================
