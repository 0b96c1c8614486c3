--------------------------- MODULE TransformStack ---------------------------
(***************************************************************************)
(* What one connection's stack of I/O transformations promises (spec.md    *)
(* sections 3 and 4.2), with every addition atomic: a connection's         *)
(* endpoint is wrapped by a sequence of layers, the first one next to the  *)
(* raw socket.  A kind is pushed only when it is not already there, never  *)
(* encryption on top of compression, and never beyond the capacity of the  *)
(* slot array; closing the connection drops every layer at once.           *)
(***************************************************************************)
EXTENDS Naturals, Sequences, SequencesExt

CONSTANTS
  Conns,      \* connections, each with its own stack
  Kinds,      \* kinds of transformation ("tls", "deflate", "log")
  Capacity    \* MAX_IO_TRANSFORMS

VARIABLE layers   \* layers[c]: kinds wrapping c's endpoint, innermost first

Encryption  == "tls"
Compression == "deflate"

\* A kind may be pushed when it is absent, is not encryption over
\* compression, and a slot is left.
Addable(c, k) ==
  /\ k \notin ToSet(layers[c])
  /\ ~(k = Encryption /\ Compression \in ToSet(layers[c]))
  /\ Len(layers[c]) < Capacity

Push(c, k) ==
  /\ Addable(c, k)
  /\ layers' = [layers EXCEPT ![c] = Append(@, k)]

Clear(c) ==
  /\ layers[c] # <<>>
  /\ layers' = [layers EXCEPT ![c] = <<>>]

Init == layers = [c \in Conns |-> <<>>]

Next == \E c \in Conns : Clear(c) \/ \E k \in Kinds : Push(c, k)

Spec == Init /\ [][Next]_layers

=============================================================================
