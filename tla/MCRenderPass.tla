---------------------------- MODULE MCRenderPass ----------------------------
(* Instances of RenderPass: one per kind of host and of failure.           *)
EXTENDS RenderPass

\* Which extent a backend traces at: none in reference mode, the output's own
\* natively, a smaller one when it upscales, which it refuses to do to a wide one.
NoBackend == [m \in Modes |-> [x \in Extents |-> None]]
Upscaling == [m \in Modes |-> [x \in Extents |->
                CASE m = "reference" -> None [] m = "native" -> x
                  [] OTHER -> IF x = "wide" THEN None ELSE "small"]]

\* A publication that stops after the instances, or before the materials.
NoInterrupts == {}
AnyInterrupt == {4, 6}

\* A resize that fails whole, or a frame that does once it was remembered; and
\* a bind, a clear or a sample that fails.
EarlyFaults == {"resize0", "clear"}
FrameFaults == {"bind1", "clear", "trace"}
=============================================================================
