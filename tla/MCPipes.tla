------------------------------ MODULE MCPipes -------------------------------
\* Pipes for TLC: the bytes are interchangeable, and so the two messages of two
\* bytes are.
EXTENDS Pipes, TLC

SmallMessages == {<<>>} \cup {m \in [1 .. 2 -> Bytes] : m[1] # m[2]}

Symmetry == Permutations(Bytes)
=============================================================================
