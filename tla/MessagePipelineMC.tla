------------------------- MODULE MessagePipelineMC -------------------------
(* TLC instances of MessagePipeline.  Instances are interchangeable, and so *)
(* are the private messages.                                                *)
EXTENDS MessagePipeline, TLC

Symmetry == Permutations(Instances) \cup Permutations(Msgs \ GroupMsgs)

=============================================================================
