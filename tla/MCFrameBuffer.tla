--------------------------- MODULE MCFrameBuffer ---------------------------
(* Instances of FrameBuffer for TLC: symmetry over buffers and callers.    *)
EXTENDS FrameBuffer, TLC

\* A picture that has been let go of, and that nobody looks at any more, has
\* no part in what follows.
Dead(n) == /\ n # raw /\ pic[n].given /\ pic[n] # NoFrame /\ pic[n].pins = 0
           /\ \A c \in Captures : loop[c].pic # n
View == <<[n \in Pictures |-> IF Dead(n) THEN NoFrame ELSE pic[n]],
          raw, rawSeq, jpeg, encMu, job, loop, queued, mapped, mgr, overlapped,
          IF overlapped THEN {} ELSE outdated>>

Symmetry == Permutations(Buffers) \cup Permutations(Callers)
=============================================================================
