--------------------------- MODULE MCExchangeOutbox ---------------------------
(* Two documents on two hosts, or one and a job beside it.  A revision is    *)
(* the sequence of documents of its chain, as its digest would be.           *)
EXTENDS ExchangeOutbox, Sequences, TLC

CONSTANTS Document, Depth, source, receiver, job, h1, h2

Chains == UNION {[1..n -> Document] : n \in 1..Depth}
ParentOf == [c \in Chains |-> IF Len(c) = 1 THEN None ELSE SubSeq(c, 1, Len(c) - 1)]
Hosting == [c \in {source, receiver, job} |-> IF c = source THEN h1 ELSE h2]
Edited == {receiver}
Sending == [c \in {source, receiver, job} |-> IF c = receiver THEN {} ELSE {receiver}]
Approved == {job}
Alike == Permutations(Mutation) \cup Permutations(Document)
=============================================================================
